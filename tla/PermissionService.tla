------------------------- MODULE PermissionService -------------------------
(***************************************************************************)
(* PermissionService (permission_service.go) over the tables of Roles:     *)
(* evaluation with wildcards and hierarchy, the cache of single verdicts   *)
(* and the cache of effective permissions, with the warming that turns the *)
(* second into the first (permission_cache_warmer.go), the single and the  *)
(* bulk check of the gRPC server and the check of the HTTP API.  The       *)
(* permissions table itself is written only by the seeder and is a         *)
(* constant here.  No role handler calls the invalidation, so only expiry  *)
(* makes a cached verdict go away.                                         *)
(***************************************************************************)
EXTENDS Roles

CONSTANTS Row,          \* permission -> [resource, action, scope] patterns
          Parent,       \* permission -> permission or None
          Questions,     \* requests: [resource, action, scope]
          Begins, Ends, \* pairs <<text, value>>: the value begins, ends with the text but for its star
          Checkers,     \* calls of the permission service in flight
          CacheTTL,     \* in ticks
          CallTime      \* a call writes the cache within this time of its read

ASSUME PermissionAssumption ==
    /\ CacheTTL \in Nat /\ CallTime \in Nat
    /\ IsFiniteSet(Perms)

VARIABLES verdicts,   \* <<user, request>> -> cached verdict or None
          effective,  \* user -> cached effective permissions or None
          since,      \* <<user, request>> -> ticks since the tables last granted it
          check       \* Checkers -> the call being handled

permVars == <<verdicts, effective, since, check>>

VerdictKeys == UserIds \X Questions

\* The longest time a granted verdict may outlive the grant.
MaxStale == 2 * CacheTTL + 2 * CallTime

NoItem == [stage |-> "none", verdict |-> FALSE, age |-> 0]

NoCheck == [op |-> "none", stage |-> "idle", user |-> None, perms |-> {}, age |-> 0,
            item |-> [req \in Questions |-> NoItem]]

-----------------------------------------------------------------------------
(* Evaluation.                                                             *)

Reaches == [p \in Perms |-> {q \in Perms : Parent[q] = p}]

\* Permissions within n generations under those of S.
Below[n \in Nat] ==
    [S \in SUBSET Perms |->
        IF n = 0 THEN S ELSE Below[n - 1][S \cup UNION {Reaches[p] : p \in S}]]

\* GetUserPermissions: permissions of the user's roles.
GetUserPermissions(u) == {p \in Perms : \E r \in LiveRoles : <<u, r>> \in userRoles /\ <<r, p>> \in rolePerms}

\* GetPermissionHierarchy: the recursive query, a permission and its descendants.
GetPermissionHierarchy(p) == Below[Cardinality(Perms)][{p}]

matchesWildcard(pattern, value) ==
    \/ pattern.kind = "any"
    \/ pattern.kind = "prefix" /\ <<pattern.text, value>> \in Begins
    \/ pattern.kind = "suffix" /\ <<pattern.text, value>> \in Ends
    \/ pattern.kind = "exact" /\ pattern.text = value

\* Equal text, which may hold a star, or a match of the wildcards.
matchesPermission(p, req) ==
    \/ /\ Row[p].resource.text = req.resource /\ Row[p].action.text = req.action
       /\ req.scope = "" \/ Row[p].scope.text \in {"", req.scope}
    \/ /\ matchesWildcard(Row[p].resource, req.resource)
       /\ matchesWildcard(Row[p].action, req.action)
       /\ req.scope = "" \/ Row[p].scope.text = "" \/ matchesWildcard(Row[p].scope, req.scope)

\* checkHierarchicalPermission: children first, then under each of them; a
\* child lookup that fails (lost) grants nothing.
Hierarchical[n \in Nat] ==
    [p \in Perms |-> [req \in Questions |-> [lost \in SUBSET Perms |->
        n > 0 /\ p \notin lost /\ \E q \in Reaches[p] :
            matchesPermission(q, req) \/ Hierarchical[n - 1][q][req][lost]]]]

\* Faulty variant: only the children are looked at.
evaluatePermissionOneLevel(perms, req, lost) ==
    \E p \in perms : \E q \in {p} \cup Reaches[p] : matchesPermission(q, req)

\* evaluatePermission on the permissions read.
evaluatePermission(perms, req, lost) ==
    \/ \E p \in perms : matchesPermission(p, req)
    \/ \E p \in perms : Hierarchical[Cardinality(Perms)][p][req][lost]

\* GetUserEffectivePermissions: the hierarchies of what was read, each once.
EffectivePermissions(perms) == UNION {GetPermissionHierarchy(p) : p \in perms}

\* The request under whose key a warmed permission is stored.
KeyOf(p) == [resource |-> Row[p].resource.text, action |-> Row[p].action.text,
             scope |-> Row[p].scope.text]

\* CheckPermission of the HTTP API: equal text, no wildcard, no scope.
HttpCheckPermission(u, req) ==
    \E p \in GetUserPermissions(u) :
        Row[p].resource.text = req.resource /\ Row[p].action.text = req.action

-----------------------------------------------------------------------------

Granted(u, req) == evaluatePermission(GetUserPermissions(u), req, {})

\* Nothing is cached and no check is under way.
VerdictsInit ==
    /\ verdicts = [k \in VerdictKeys |-> None]
    /\ effective = [u \in UserIds |-> None]
    /\ since = [k \in VerdictKeys |-> MaxStale + 1]
    /\ check = [c \in Checkers |-> NoCheck]

PermissionInit == RolesInit /\ VerdictsInit

CheckStep(c, fields) == check' = [check EXCEPT ![c] = With(@, fields)]

StepItem(c, req, fields) == check' = [check EXCEPT ![c].item[req] = With(@, fields)]

\* Faulty variant: the lifetime is given in the wrong unit.
EntryWrongUnit(value) == [value |-> value, left |-> 60 * CacheTTL]

\* A new cache entry.
Entry(value) == [value |-> value, left |-> CacheTTL]

-----------------------------------------------------------------------------
(* Checks.                                                                 *)

CheckPermission(c) ==
    \E u \in UserIds, req \in {x \in Questions : x.scope = ""} :
        /\ check[c].stage = "idle"
        /\ CheckStep(c, [op |-> "CheckPermission", user |-> u, stage |-> "checking",
                    item |-> [NoCheck.item EXCEPT ![req].stage = "lookup"]])
        /\ UNCHANGED <<verdicts, effective>>

\* A goroutine per check of the list, at most 20 of them at a time.
BulkCheckPermissions(c) ==
    \E u \in UserIds, some \in SUBSET Questions :
        /\ check[c].stage = "idle" /\ some # {}
        /\ CheckStep(c, [op |-> "BulkCheckPermissions", user |-> u, stage |-> "checking",
                    item |-> [req \in Questions |->
                        IF req \in some THEN [NoItem EXCEPT !.stage = "lookup"] ELSE NoItem]])
        /\ UNCHANGED <<verdicts, effective>>

\* CheckUserPermissionWithScope: the cache answers ...
CacheHit(c, req) ==
    /\ check[c].item[req].stage = "lookup"
    /\ verdicts[<<check[c].user, req>>] # None
    /\ StepItem(c, req, [stage |-> "answered", verdict |-> verdicts[<<check[c].user, req>>].value])
    /\ UNCHANGED <<verdicts, effective>>

\* ... or does not (a failing cache is a miss) and the tables are read and
\* evaluated.
Evaluate(c, req) ==
    /\ check[c].item[req].stage = "lookup"
    /\ StatementsFail \/ verdicts[<<check[c].user, req>>] = None
    /\ \E lost \in IF StatementsFail THEN SUBSET Perms ELSE {{}} :
           StepItem(c, req, [stage |-> "cache", age |-> 0,
               verdict |-> evaluatePermission(GetUserPermissions(check[c].user), req, lost)])
    /\ UNCHANGED <<verdicts, effective>>

\* The read of the user's permissions fails: nothing is cached, access is denied.
EvaluationFails(c, req) ==
    /\ StatementsFail
    /\ check[c].item[req].stage = "lookup"
    /\ StepItem(c, req, [stage |-> "answered"])
    /\ UNCHANGED <<verdicts, effective>>

\* cacheResult, whose error is only logged.
CacheResult(c, req) ==
    /\ check[c].item[req].stage = "cache"
    /\ \/ verdicts' = [verdicts EXCEPT ![<<check[c].user, req>>] = Entry(check[c].item[req].verdict)]
       \/ StatementsFail /\ UNCHANGED verdicts
    /\ StepItem(c, req, [stage |-> "answered", age |-> 0])
    /\ UNCHANGED effective

\* All results are collected and the answer is sent.
ChecksReturn(c) ==
    /\ check[c].stage = "checking"
    /\ \A req \in Questions : check[c].item[req].stage \in {"none", "answered"}
    /\ check' = [check EXCEPT ![c] = NoCheck]
    /\ UNCHANGED <<verdicts, effective>>

-----------------------------------------------------------------------------
(* Effective permissions and warming.                                      *)

\* Called by the warmer and by the cache warming pool; a hierarchy that cannot
\* be read (lost) is left out.
GetUserEffectivePermissions(c) ==
    \E u \in UserIds : \E lost \in IF StatementsFail THEN SUBSET GetUserPermissions(u) ELSE {{}} :
        /\ check[c].stage = "idle"
        /\ CheckStep(c, IF effective[u] # None
                   THEN [op |-> "warm", user |-> u, perms |-> effective[u].value, age |-> 0,
                         stage |-> "warm"]
                   ELSE [op |-> "warm", user |-> u, age |-> 0, stage |-> "cacheEffective",
                         perms |-> EffectivePermissions(GetUserPermissions(u) \ lost)])
        /\ UNCHANGED <<verdicts, effective>>

CacheEffective(c) ==
    /\ check[c].stage = "cacheEffective"
    /\ \/ effective' = [effective EXCEPT ![check[c].user] = Entry(check[c].perms)]
       \/ StatementsFail /\ UNCHANGED effective
    /\ CheckStep(c, [stage |-> "warm"])
    /\ UNCHANGED verdicts

\* A granted verdict per effective permission, under the permission's own
\* resource, action and scope.
WarmUserPermissions(c) ==
    /\ check[c].stage = "warm"
    /\ verdicts' = [k \in VerdictKeys |->
           IF k[1] = check[c].user /\ \E p \in check[c].perms : KeyOf(p) = k[2]
           THEN Entry(TRUE) ELSE verdicts[k]]
    /\ check' = [check EXCEPT ![c] = NoCheck]
    /\ UNCHANGED effective

\* InvalidateUserPermissionCache: the pattern user:permissions:*:<id> meets
\* the key of the effective permissions and no key of a verdict.
InvalidateUserPermissionCache(u) ==
    /\ effective[u] # None
    /\ effective' = [effective EXCEPT ![u] = None]
    /\ UNCHANGED <<verdicts, check>>

-----------------------------------------------------------------------------

Older(entry) == IF entry = None \/ entry.left = 0 THEN None ELSE [entry EXCEPT !.left = @ - 1]

StaleFor(k) == IF Granted(k[1], k[2]) THEN 0 ELSE since[k]

\* A unit of time passes; no call is older than CallTime.
PassPermissionTime ==
    /\ \A c \in Checkers :
        /\ check[c].stage \in {"cacheEffective", "warm"} => check[c].age < CallTime
        /\ \A req \in Questions : check[c].item[req].stage = "cache" => check[c].item[req].age < CallTime
    /\ verdicts' = [k \in VerdictKeys |-> Older(verdicts[k])]
    /\ effective' = [u \in UserIds |-> Older(effective[u])]
    /\ since' = [k \in VerdictKeys |-> IF StaleFor(k) > MaxStale THEN StaleFor(k) ELSE StaleFor(k) + 1]
    /\ check' = [c \in Checkers |-> [check[c] EXCEPT
           !.age = IF check[c].stage \in {"cacheEffective", "warm"} THEN @ + 1 ELSE @,
           !.item = [req \in Questions |-> IF check[c].item[req].stage = "cache"
                         THEN [check[c].item[req] EXCEPT !.age = @ + 1] ELSE check[c].item[req]]]]

Serve ==
    \/ \E c \in Checkers :
           \/ CheckPermission(c) \/ BulkCheckPermissions(c) \/ ChecksReturn(c)
           \/ \E req \in Questions :
                  CacheHit(c, req) \/ Evaluate(c, req) \/ EvaluationFails(c, req) \/ CacheResult(c, req)
           \/ GetUserEffectivePermissions(c) \/ CacheEffective(c) \/ WarmUserPermissions(c)
    \/ \E u \in UserIds : InvalidateUserPermissionCache(u)

PermissionNext ==
    \/ RolesNext /\ UNCHANGED <<verdicts, effective, check>> /\ since' = [k \in VerdictKeys |-> StaleFor(k)]
    \/ Serve /\ UNCHANGED roleVars /\ since' = [k \in VerdictKeys |-> StaleFor(k)]
    \/ PassPermissionTime /\ UNCHANGED roleVars

PermissionSpec == PermissionInit /\ [][PermissionNext]_<<roleVars, permVars>>

-----------------------------------------------------------------------------
(* Properties.                                                             *)

\* A cached granted verdict outlives the grant in the tables by at most twice
\* the cache lifetime (and twice the time of a call): no role handler
\* invalidates, and the warmer stores verdicts computed from effective
\* permissions that were themselves cached, so one lifetime is not enough.
GrantsExpire ==
    \A k \in VerdictKeys :
        verdicts[k] # None /\ verdicts[k].value /\ ~Granted(k[1], k[2]) => since[k] <= MaxStale

\* The three ways to a verdict agree on fresh tables: what the warmer would
\* store as granted from the recursive query, and what the HTTP check grants,
\* evaluatePermission grants by its own walk of the hierarchy.
ChecksAgree ==
    \A u \in UserIds, req \in Questions :
        \/ \E p \in EffectivePermissions(GetUserPermissions(u)) : KeyOf(p) = req
        \/ req.scope = "" /\ HttpCheckPermission(u, req)
        => Granted(u, req)

=============================================================================
