SPECIFICATION RpFairSpec
CONSTANTS
    w1 = w1
    w2 = w2
    w3 = w3
    NoWorker = NoWorker
    Workers = {w1, w2, w3}
    Scenes <- All
    Chunk = 1
    CacheMode = TRUE
INVARIANT Conserved
INVARIANT NoneCountedTwice
PROPERTY AllReturn
