CONSTANTS
    NumWorkers = 1
    MaxSlices = 2
    Callee = {callee}
    Mode = {"normal", "compile", "recover"}
    Zone = {z1, z2}
    MAX_BAILOUTS = 2
    stallThreshold = 2
    MaxUses = 1
    MaxEvents = 1
SPECIFICATION MCSpec
INVARIANTS
    TypeOK
PROPERTIES
    RequestsHonoured
    ImplementsKernelCalls
    SectionEnds
    WalkEnds
