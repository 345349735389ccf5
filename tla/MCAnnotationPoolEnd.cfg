SPECIFICATION FairSpec
CONSTANTS
    c1 = c1
    c2 = c2
    Callers = {c1, c2}
    N = 3
    CallerOf <- MCCallerOf
    Scenes <- MCBig
    Workers = 2
CHECK_DEADLOCK FALSE
PROPERTY CallsEnd
