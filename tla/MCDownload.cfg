SPECIFICATION FairSpec
CONSTANTS
    N = 3
    Scenes <- MCScenes
    Chunks = 2
    Workers = 2
    NUM_TRIES = 2
    MaxCrashes = 1
INVARIANT NeverPartial
INVARIANT DownloadIsItem
INVARIANT NoTempLeft
INVARIANT AllWaited
INVARIANT AnnotationsToo
PROPERTY KeepsFiles
PROPERTY Terminates
