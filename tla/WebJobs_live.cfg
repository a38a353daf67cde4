\* Dry runs, a grid, a sweep and data jobs with a command line run, a purge, an
\* exception, a stream or a shutdown between their steps.
SPECIFICATION FairSpec
CONSTANTS
    Worker = worker
    Runners = {worker, cli}
    None = None
    MaxRuns = 5
    MaxTime = 1
    MaxEvents = 2
    Plans <- Submissions
    SweepRuns = 2
    MaxRetained = 1
    Clients = {c1}
INVARIANTS
    JobsInv
    FinishedMeansEvaluated
    NoFileIsLost
    SuccessIsInTheCatalog
    StreamsTellTheEnd
PROPERTIES
    OnlyOldJobsAreForgotten
    StreamsEnd
CHECK_DEADLOCK FALSE
