CONSTANTS
    ChunkSize = 2
    SlicesPerWorker = 2
    MaxWorkers = 2
    MaxSlices = 4
    MaxLength = 9
    Inputs <- MCInputs
SPECIFICATION Spec
INVARIANTS
    TypeOK
    ResultIsSequential
    CheckpointsAreSound
