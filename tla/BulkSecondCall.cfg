SPECIFICATION BulkSpec
CONSTANTS
    Size = 1
    BulkCalls = {c1, c2}
    Closers = {}
    N = 1
    Sequential = TRUE
    EvalErrors = FALSE
    MayCancel = FALSE
    EagerTimeout = FALSE
    Jobs <- CallJobs
    NoJob = NoJob
INVARIANT NoCallPanics
CHECK_DEADLOCK FALSE
