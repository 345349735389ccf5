SPECIFICATION Spec
CONSTANTS
    Threads = {"t1", "t2"}
    Models = {"A", "B"}
    Scenes <- MCScenes
INVARIANTS
    OwnWork
    WholeData
    EndIsTold
    InterruptedIfMeant
CHECK_DEADLOCK FALSE
