CONSTANTS
    t1 = t1
    t2 = t2
    t3 = t3
    Threads = {t1, t2}
    NoOwner = NoOwner
    Templates <- MC_Templates
    Compiles <- MC_Compiles
    MaxCalls = 2
    KeepTryingValues = {FALSE}
    FinishPolicy = "spec"
SPECIFICATION FairSpec
PROPERTIES
    QueriesReturn
