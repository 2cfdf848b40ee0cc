\* db_setup against servers before version 10, every step may fail
CONSTANTS
    Versions = {90624, 90315}
    Failures = TRUE
SPECIFICATION Spec
INVARIANT
    SetupResult
PROPERTY
    HbaReplacedOnce
\* db_setup returns: the run really stops
CHECK_DEADLOCK FALSE
