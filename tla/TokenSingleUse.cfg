SPECIFICATION Spec
CONSTANTS
    Procs = {p1, p2}
    Users = {u1}
    NoUser = NoUser
    AccessExpiry = 1
    RefreshExpiry = 2
    RevokeRefreshOnUse = TRUE
    Retention = 0
    Offered = {"generate", "refresh"}
    SweptTypes = {}
    Failures = {}
    MaxToken = 6
    MaxTime = 0
    MaxVersion = 1
INVARIANT RefreshTokenUsedOnce
