CONSTANTS
    Chunk = {c1, c2, c3}
    MinChunks = 1
    MaxEmptyChunkAge = 1
    MaxEmptyChunkCount = 0
    FreeArrayLength = 1
    canBackgroundAllocate = TRUE
    MaxPointers = 2
    MaxCycles = 2
    MaxShrinks = 1
SPECIFICATION FairSpec
INVARIANTS
    TypeOK
    GCOwnsTheHeap
    BackgroundSweepIsOver
    ChunksAccountedFor
    NothingLeaks
    FreedExactlyOnce
    FinishFindsHelperAtRest
PROPERTIES
    ShrinkHonoured
    WaitsReturn
