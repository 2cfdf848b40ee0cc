\* db_setup against servers of version 10 and later, no step fails
CONSTANTS
    Versions = {100012, 120005}
    Failures = FALSE
SPECIFICATION Spec
INVARIANT SetupResult
CHECK_DEADLOCK FALSE
