SPECIFICATION Spec
CONSTANTS
    Submissions = {s1}
    Workers = {w1, w2}
    Addresses = {2}
    FaultKinds = {}
    MaxSubmits = 2
    MaxRuns = 2
    MaxRows = 1
    MaxApiCrashes = 0
    MaxFaults = 0
PROPERTY PendingOnlyClaimed
CHECK_DEADLOCK FALSE
