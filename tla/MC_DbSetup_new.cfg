\* db_setup against servers before and from version 10, every step may fail
CONSTANTS
    Versions = {90624, 100012, 120005}
    Failures = TRUE
SPECIFICATION Spec
INVARIANT ReleasedAtReturn
\* db_setup returns: the run really stops
CHECK_DEADLOCK FALSE
