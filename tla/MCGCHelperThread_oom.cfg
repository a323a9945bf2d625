CONSTANTS
    Chunk = {c1, c2}
    MinChunks = 1
    MaxEmptyChunkAge = 1
    MaxEmptyChunkCount = 0
    FreeArrayLength = 1
    canBackgroundAllocate = TRUE
    MaxPointers = 0
    MaxCycles = 0
    MaxShrinks = 1
SPECIFICATION Spec
INVARIANTS
    RetriesWithoutEmptyChunks
