SPECIFICATION MCSpec
CONSTANTS
    Settings <- MCSettings
    Calls <- MCCalls
    Requests = {q1, q2, q3}
    Senders = {s1}
    RequestsPerSecond = 1
    BurstSize = 1
    WindowSize = 2
    RedisFails = TRUE
    MaxTime = 2
    Callers = {c1, c2}
    MaxAttempts = 2
    MaxConcurrentRequests = 1
    MaxDegradationTime = 1
    CooldownPeriod = 2
    MaxCalls = 2
    MaxTicks = 2
    Accounts = {u1}
    Browsers = {c1, c2}
    AccessExpiry = 1
    RefreshExpiry = 2
    MaxSeconds = 2
    Activities = {q1, q2, q3}
    Members = {m1}
    Addresses = {p1}
    Threshold = 2
    MonthEnd = 2
    MaxHours = 2
INVARIANTS
    MetricsExact
    
    
    BulkheadExact
    RotatedStaysDead
    
PROPERTIES
    AlertsPerCaller
SYMMETRY MCSymmetry
CHECK_DEADLOCK FALSE
