SPECIFICATION MCSpec
CONSTANTS
    Events = {e1}
    NoEvent = NoEvent
    QueueSize = 1
    DeadLetterSize = 1
    RetryAttempts = 2
    Persistence = TRUE
    Loaders = {l1}
    Faults = {"kafka", "deadLetter"}
    MayStop = TRUE
    MaxCrashes = 1
    Entries = {e1, e2, e3}
    BufferSize = 1
    LogBatchSize = 2
    Procs = {p1}
    Codes = {c1}
    NoCode = NoCode
    Totp = Totp
    MaxLogins = 1
    MaxEmail = 2
    MaxIP = 1
    Window = 2
    Offered = {"login", "unknown", "password", "twofa"}
    Failures = {"db"}
    MaxPassword = 1
PROPERTIES
    
    
    
    
    BlockEnds
CHECK_DEADLOCK FALSE
