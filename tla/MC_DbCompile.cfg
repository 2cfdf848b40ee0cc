CONSTANTS
    Templates <- MC_Templates
    ArgLens = {0, 2}
    MaxParams = 1
    QSize = 4
SPECIFICATION Spec
INVARIANTS
    TypeOK
    ScanMatchesSpec
    NoFalseRejection
\* the compilation of one template ends
CHECK_DEADLOCK FALSE
