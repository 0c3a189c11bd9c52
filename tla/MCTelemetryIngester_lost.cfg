SPECIFICATION Spec
CONSTANTS
    Partitions = {p1, p2}
    ChanCap = 1
    MaxBatchSize = 2
    ErrorsCarryRecords = TRUE
    MaxRecords = 2
    MaxStops = 1
    MaxRows = 2
SYMMETRY PartitionSymmetry
INVARIANT AtLeastOnce
