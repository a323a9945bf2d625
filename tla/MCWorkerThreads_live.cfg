SPECIFICATION FairSpec
CONSTANTS
    b1 = b1
    b2 = b2
    p1 = p1
    p2 = p2
    p3 = p3
    main = main
    NumThreads = 2
    IonTask = {b1}
    ParseTask = {p1, p2}
    Main = main
    AsmJobs = 1
    Compresses = {p1, p2}
    EarlySchedule = FALSE
    DestroyAnytime = FALSE
    MaxCancels = 0
    MaxSlices = 1
INVARIANTS
    TokensAreFinished AtomsGCExcludesParsing
PROPERTIES
    CallbackIsInvoked CompilationEnds BuildersFinish DestructionEnds

