SPECIFICATION Spec
CONSTANTS
    b1 = b1
    b2 = b2
    p1 = p1
    p2 = p2
    p3 = p3
    main = main
    NumThreads = 2
    IonTask = {}
    ParseTask = {p1}
    Main = main
    AsmJobs = 1
    Compresses = {}
    EarlySchedule = FALSE
    DestroyAnytime = TRUE
    MaxCancels = 0
    MaxSlices = 1
INVARIANT
    NoExclusiveThreadsAtEnd
