CONSTANTS
    A = A
    B = B
    a1 = a1
    a2 = a2
    b1 = b1
    b2 = b2
    Zone = {A, B}
    Cell = {a1, a2, b1, b2}
    ZoneOf <- MCZoneOf
    Null = Null
    InitialHeaps <- MCHeaps
    MaxCycles = 2
    MaxOps = 4
SYMMETRY MCSymmetry
SPECIFICATION Spec
INVARIANTS
    TypeOK
    ReachableIsKept
    SnapshotIsMarked
    GarbageIsFreed
CHECK_DEADLOCK FALSE
