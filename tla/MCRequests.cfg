SPECIFICATION RqSpec
CONSTANTS
    Requests = {"r1", "r2"}
    Mixes <- MCMixes
    SyncTries = 2
    AsyncTries = 3
INVARIANTS
    GivesUpLate
PROPERTIES
    KeepsPromise
CHECK_DEADLOCK FALSE
