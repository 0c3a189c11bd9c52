SPECIFICATION FairSpec
CONSTANTS
    Partitions = {p1}
    ChanCap = 1
    MaxBatchSize = 2
    ErrorsCarryRecords = FALSE
    MaxRecords = 3
    MaxStops = 2
    MaxRows = 2
INVARIANTS TypeOK AtLeastOnce NoHoles IInv
PROPERTIES OffsetsNeverRegress ImplementsDelivery EventuallyPersisted ShutdownTerminates
