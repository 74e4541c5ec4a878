SPECIFICATION TransfersSpec
CONSTANTS
    n1 = n1  n2 = n2  l1 = l1  l2 = l2
    Namespaces = {n1, n2}
    Size <- MCSize
    BatchSize = 2
    Lanes = {l1, l2}
    MaxFaults = 1
    MaxStalls = 2
    SampleSize = 2
    MaxImports = 2
    Batches = 2
    MaxMisses = 2
    MaxImportFaults <- MCFaults
INVARIANT SucceededLostNothing
INVARIANT CopiedOnce
INVARIANT ColumnKeepsValues
INVARIANT DoneImportLanded
PROPERTY RunEnds
PROPERTY ImportReported
CHECK_DEADLOCK FALSE
