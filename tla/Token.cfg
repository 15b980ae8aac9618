SPECIFICATION MCSpec
CONSTANTS
    Procs = {p1, p2}
    Users = {u1}
    NoUser = NoUser
    AccessExpiry = 1
    RefreshExpiry = 2
    RevokeRefreshOnUse = TRUE
    Retention = 0
    Offered = {"generate", "validate", "refresh", "revoke", "revokeAll"}
    SweptTypes = {"access"}
    Failures = {"redis", "cache", "db"}
    MaxToken = 4
    MaxTime = 2
    MaxVersion = 2
    PairsRevoked = 1
SYMMETRY ProcSymmetry
INVARIANTS
    RevokedRejected
    FallbackRespectsRevocation
    CachedWasStored
PROPERTIES
    CleanupKeepsValidRows
    
