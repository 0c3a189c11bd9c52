SPECIFICATION FairSpec
CONSTANTS
    SeqNos = {1, 2}
    Lengths = {1, 2}
    RingSize = 1
    FlushSize = 2
    MaxSent = 3
INVARIANTS ProberConsistent MeasuredOnce ReadIsLogged
PROPERTIES NothingVanishes StopReturns
