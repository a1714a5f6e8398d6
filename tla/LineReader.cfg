SPECIFICATION FairSpec
CONSTANTS
    GrowSz = 2
    PageSz = 2
    Chunk = 3
    MaxBytes = 9
INVARIANTS LinesWhole NoneMissed MemoryBounded
PROPERTY LinesDelivered
