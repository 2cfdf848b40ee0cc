CONSTANTS
    Templates <- MC_Templates
    ArgLens = {0, 2}
    MaxParams = 1
    QSize = 4
SPECIFICATION Spec
INVARIANT QueryInBounds
CHECK_DEADLOCK FALSE
