SPECIFICATION Spec
CONSTANTS
    ChunkSz = 32
    Requests = {5, 12, 24, 40}
    MaxChunk = 5
INVARIANTS ArenaExact BlocksSound
PROPERTY RecycledFirst
