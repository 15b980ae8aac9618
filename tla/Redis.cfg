SPECIFICATION MCSpec
CONSTANTS
    Procs = {p1, p2}
    Codes = {}
    NoCode = NoCode
    Totp = Totp
    MaxLogins = 2
    MaxEmail = 3
    MaxIP = 3
    Window = 1
    Offered = {"login"}
    Failures = {"cache"}
    MaxPassword = 0
    None = None
    Values = {v1, v2}
    Clients = {p1, p2}
    TTL = 2
    DefaultTTL = 1
    Latency = FALSE
    RedisErrors = TRUE
    MaxFills = 1
    CachedKeys = {p1, p2}
    Matching = {p1, p2}
    Tags = {t1}
    Work = {v1, v2}
    ScheduledJobs = {j1}
INVARIANTS
    GuessesBounded
    LevelsAgree
    
PROPERTIES
    DeleteIsFinal
    UntaggedOnlyByOverlap
SYMMETRY MCSymmetry
CHECK_DEADLOCK FALSE
