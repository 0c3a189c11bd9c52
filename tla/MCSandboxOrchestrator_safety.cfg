SPECIFICATION Spec
CONSTANTS
    a = a
    b = b
    d = d
    t1 = t1
    t2 = t2
    VMIDs = {a, b, d}
    Calls = {c1, c2, c3}
    LastIP = 3
    TapNames = {t1, t2}
    tapNameForVM <- CollidingNames
    CleanupCanFail = FALSE
    MaxSpawns = 3
    MaxCrashes = 0
    MaxRestarts = 0
SYMMETRY CallSymmetry
INVARIANTS RegistryMatchesHost NoNilMachineStopped ShutdownLeavesNothing
PROPERTY ImplementsSessions
CHECK_DEADLOCK FALSE
