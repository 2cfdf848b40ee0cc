\* Callers that finish exactly when db_query kept the mutex
CONSTANTS
    t1 = t1
    t2 = t2
    t3 = t3
    Threads = {t1, t2}
    NoOwner = NoOwner
    Templates <- MC_Templates
    Compiles <- MC_Compiles
    MaxCalls = 2
    KeepTryingValues = {TRUE, FALSE}
    FinishPolicy = "spec"
SYMMETRY MC_Symmetry
SPECIFICATION Spec
INVARIANTS
    TypeOK
    MutualExclusion
    LockOwnedByHolder
PROPERTY
    ExecutorRefined
