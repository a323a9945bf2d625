CONSTANTS
    NumWorkers = 2
    SlicesPerWorker = 1
    WorkStealing = FALSE
    FailingAllocs <- NoFailures
    FailingStarts <- NoFailures
    MaxJobs = 1
SPECIFICATION Spec
INVARIANTS
    ReturnedJobIsOver
