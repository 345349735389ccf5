SPECIFICATION Spec
CONSTANTS
    Threads = {"t1", "t2"}
    Processes = {"p1", "p2"}
    Dataset = "d"
    Items = {"i1", "i2"}
    Size <- MCSize
    BinSize = 6
    Scenes <- MCScenes
    MaxCrashes = 1
INVARIANTS
    FreshUnlessOvertaken
    LinkedUnlessOvertaken
    WholeUnlessSpoiled
    BoundedUnlessLost
