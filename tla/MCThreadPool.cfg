CONSTANTS
    NumWorkers = 2
    SlicesPerWorker = 1
    WorkStealing = TRUE
    FailingAllocs <- MainOrFirstWorker
    FailingStarts <- NoFailures
    MaxJobs = 2
SPECIFICATION FairSpec
INVARIANTS
    TypeOK
    SliceRunsAtMostOnce
    ReturnedJobIsOver
    NoStaleJob
    PendingCountsOutstanding
PROPERTIES
    ImplementsParallelJob
    JobReturns
    PoolTerminates
