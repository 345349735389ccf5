SPECIFICATION FairSpec
CONSTANTS
    a1 = a1
    a2 = a2
    a3 = a3
    NoActor = NoActor
    Actors = {a1, a2, a3}
    Scenes <- MCScenes
    NumTries = 3
    MaxCrashes = 1
    Counter = "calls_counter"
INVARIANT DamageNeedsCrash
INVARIANT KeptUnlessRaced
PROPERTY AllEnd
