SPECIFICATION FairSpec
CONSTANTS
    Submissions = {s1, s2}
    Workers = {w1, w2}
    Addresses = {2}
    FaultKinds = {"db", "rpc", "crash", "again", "orch"}
    MaxSubmits = 2
    MaxRuns = 2
    MaxRows = 3
    MaxApiCrashes = 1
    MaxFaults = 1
INVARIANTS JobsConsistent OneBenchmarkPerSubmission ResultIsOwn
PROPERTIES JobsEnd SessionsEnd
CHECK_DEADLOCK FALSE
