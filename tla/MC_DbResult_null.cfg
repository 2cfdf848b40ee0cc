CONSTANTS
    f1 = f1
    f2 = f2
    f3 = f3
    Results <- MC_Results
    Fields = {f1, f2, f3}
    Halves <- MC_Halves
    NDEBUG = TRUE
    MaxReads = 1
SPECIFICATION Spec
INVARIANT NoMisreadValue
CHECK_DEADLOCK FALSE
