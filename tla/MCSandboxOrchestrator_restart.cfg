SPECIFICATION Spec
CONSTANTS
    a = a
    b = b
    d = d
    t1 = t1
    t2 = t2
    VMIDs = {a, d}
    Calls = {c1, c2}
    LastIP = 2
    TapNames = {t1, t2}
    tapNameForVM <- OwnNames
    CleanupCanFail = TRUE
    MaxSpawns = 3
    MaxCrashes = 1
    MaxRestarts = 1
 
PROPERTY TapRemovedByOwner
CHECK_DEADLOCK FALSE
