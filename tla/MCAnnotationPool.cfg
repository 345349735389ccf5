SPECIFICATION FairSpec
CONSTANTS
    c1 = c1
    c2 = c2
    Callers = {c1, c2}
    N = 3
    CallerOf <- MCCallerOf
    Scenes <- MCScenes
    Workers = 2
\* With as many items of several batches as workers the system stops.
CHECK_DEADLOCK FALSE
INVARIANT ReturnIsQuiet
PROPERTY EndsWithSpareWorker
