SPECIFICATION Spec
CONSTANTS
    t1 = t1
    t2 = t2
    p1 = p1
    p2 = p2
    ann = ann
    bob = bob
    None = None
    Absent = Absent
    Threads = {t1, t2}
    Procs = {p1, p2}
    Scenes <- All
    Users = {ann, bob}
    First = ann
    MayRefuse = TRUE
    MaxEpoch = 2
    MaxCrashes = 1
INVARIANT RefreshKept
INVARIANT CookieIsOneLogin
INVARIANT SessionSurvivesExpiry
