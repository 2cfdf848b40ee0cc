CONSTANTS
    Threads = {t1}
    NoOwner = NoOwner
    t1 = t1
    t2 = t2
    t3 = t3
    Templates <- MC_Templates
    Compiles <- MC_Compiles
    MaxCalls = 2
    KeepTryingValues = {FALSE}
    FinishPolicy = "requery"
SPECIFICATION FairSpec
PROPERTY UnfinishedResultRejected
\* a thread blocked on a mutex it already holds stops the system
CHECK_DEADLOCK FALSE
