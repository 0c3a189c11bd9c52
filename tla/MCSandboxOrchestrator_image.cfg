SPECIFICATION Spec
CONSTANTS
    a = a
    b = b
    d = d
    t1 = t1
    t2 = t2
    VMIDs = {a, d}
    Calls = {c1, c2}
    LastIP = 3
    TapNames = {t1, t2}
    tapNameForVM <- OwnNames
    CleanupCanFail = FALSE
    MaxSpawns = 2
    MaxCrashes = 0
    MaxRestarts = 0
INVARIANT ImageLastsUntilBoot
CHECK_DEADLOCK FALSE
