SPECIFICATION MCSpec
CONSTANTS
    Handlers = {p1, p2}
    Users = {u1, u2, u3}
    Orgs = {r1, r2}
    Emails = {n1, n2}
    NoRow = NoRow
    OfferedCalls = {"activate", "deactivate", "verify", "update", "profile", "password", "delete", "create", "register", "httpRegister", "bulkCreate", "bulkUpdate", "bulkDelete", "updateOrg", "getOrg", "httpGetOrg", "getUser", "getProfile", "getUserByID", "userStats", "orgStats", "listUsers", "listOrgs"}
    Outages = {"db", "token"}
    None = None
    RoleIds = {r1, r2}
    UserIds = {m1}
    Names = {n1, n2}
    Callers = {c1, c2}
    Editor = c1
    Checkers = {k1}
    Perms <- MCPerms
    Parent <- MCParent
    Row <- MCRow
    Questions <- MCQuestions
    Begins <- MCBegins
    Ends = {}
    Assignments <- MCAssignments
    StatementsFail = TRUE
    MaxCommits = 3
    CacheTTL = 1
    CallTime = 0
INVARIANTS
    
    
    ChecksAgree
PROPERTIES
    
    AssignedExactly
SYMMETRY MCSymmetry
CHECK_DEADLOCK FALSE
