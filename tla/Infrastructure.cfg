SPECIFICATION MCSpec
CONSTANTS
    Events = {e1, e2}
    NoEvent = NoEvent
    QueueSize = 1
    DeadLetterSize = 1
    RetryAttempts = 2
    Persistence = TRUE
    Loaders = {l1}
    Faults = {"kafka", "deadLetter", "disk"}
    MayStop = FALSE
    MaxCrashes = 1
    HashRequests = {h1, h2, h3}
    AuditEvents = {a1, a2, a3, a4}
    PoolSize = 1
    BatchSize = 2
    FlushChanCap = 1
    PriorityCap = 1
    MaxWarming = 4
    Replicas = {e1, e2}
    MaxBoots = 2
INVARIANTS
    AttemptsAccounted
    HashingSlotsExact
    AuditExactlyOnce
    
PROPERTIES
    LostOnlyByFaults
SYMMETRY MCSymmetry
CHECK_DEADLOCK FALSE
