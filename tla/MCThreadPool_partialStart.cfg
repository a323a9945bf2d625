CONSTANTS
    NumWorkers = 2
    SlicesPerWorker = 1
    WorkStealing = TRUE
    FailingAllocs <- SecondWorker
    FailingStarts <- NoFailures
    MaxJobs = 1
SPECIFICATION FairSpec
PROPERTIES
    LazyStartReturns
CHECK_DEADLOCK FALSE
