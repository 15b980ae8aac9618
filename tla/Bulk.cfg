SPECIFICATION MCSpec
CONSTANTS
    Size = 2
    BulkCalls = {c1, c2}
    Closers = {k}
    N = 2
    Sequential = FALSE
    EvalErrors = TRUE
    MayCancel = TRUE
    EagerTimeout = TRUE
    Jobs <- CallJobs
    NoJob = NoJob
INVARIANTS
    
    QuietWhenStopped
    MetricsExact
    PanicsOnlyAfterStop
    VerdictsAreEvaluated
SYMMETRY CallSymmetry
CHECK_DEADLOCK FALSE
