SPECIFICATION MCSpec
CONSTANTS
    GrowSz = 2
    PageSz = 2
    Chunk = 3
    MaxBytes = 10
    VGrowSz = 3
    IovMax = 3
    VMaxBytes = 4
    MaxDoubts = 2
INVARIANTS Bounds VectorKept
PROPERTY ImplementsFifo
CHECK_DEADLOCK FALSE
