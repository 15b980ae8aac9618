SPECIFICATION MCSpec
CONSTANTS
    Size = 1
    BulkCalls = {c1, c2}
    Closers = {k}
    N = 1
    Sequential = FALSE
    EvalErrors = FALSE
    MayCancel = TRUE
    EagerTimeout = FALSE
    Jobs <- CallJobs
    NoJob = NoJob
    WarmJobs = {j1, j2}
    MaxRuns = 2
PROPERTIES
    CallsReturn
    CollectorsEnd
    JobsWarmed
CHECK_DEADLOCK FALSE
