SPECIFICATION Spec
CONSTANTS
    b1 = b1
    b2 = b2
    p1 = p1
    p2 = p2
    p3 = p3
    main = main
    NumThreads = 2
    IonTask = {b1}
    ParseTask = {p1}
    Main = main
    AsmJobs = 4
    Compresses = {p1, main}
    EarlySchedule = TRUE
    DestroyAnytime = FALSE
    MaxCancels = 1
    MaxSlices = 1
INVARIANTS
    TypeOK CancelIsComplete CompressionIsOver
    OutstandingJobsExact LifosSuffice
