CONSTANTS
    f1 = f1
    f2 = f2
    f3 = f3
    Results <- MC_Results
    Fields = {f1, f2, f3}
    Halves <- MC_Halves
    NDEBUG = TRUE
    MaxReads = 2
SPECIFICATION Spec
INVARIANTS
    TypeOK
    DecodeMatchesSpec
\* the caller's reads are done
CHECK_DEADLOCK FALSE
