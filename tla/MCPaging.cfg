SPECIFICATION Spec
CONSTANTS
    Loops = {"l1", "l2"}
    Scenes <- MCScenes
    New = {"x", "y", "z"}
    PageSize = 1
    AllSize = 2
INVARIANTS
    NoneTwice
    NoneSkipped
    RoomUnlessGrown
PROPERTIES
    LoopsEnd
CHECK_DEADLOCK FALSE
