-------------------------- MODULE RequestPipeline --------------------------
(***************************************************************************)
(* A gRPC request on its way through the chain of interceptors of Start in *)
(* server.go: recovery, logging, metrics, rate limiter, authentication,    *)
(* the breaker "grpc-handler", then the handler, which may run statements  *)
(* under the breaker "database".  The handlers return their failures in    *)
(* the response and no error, so the outer breaker only sees panics; a row *)
(* that is not found is an error to the inner one.                         *)
(***************************************************************************)
EXTENDS CircuitBreaker, FiniteSets

CONSTANTS Requests, Senders,
          Calls,              \* the (method, credential) pairs clients send
          RequestsPerSecond,  \* of the Redis limiter, and rate of the fallback
          BurstSize,          \* of the in-memory fallback
          WindowSize,         \* of the Redis limiter, in seconds
          RedisFails,           \* may Redis fail?
          MaxTime             \* bound: seconds

\* The methods of ServiceDesc; there are no streams.
Methods ==
    {"Authenticate", "ValidateToken", "RefreshToken", "RevokeToken", "HealthCheck",
     "GetUser", "ListUsers", "CreateUser", "UpdateUser", "DeleteUser", "ActivateUser",
     "DeactivateUser", "VerifyUser", "ChangePassword", "ListRoles", "CreateRole", "UpdateRole",
     "DeleteRole", "AssignUserRole", "RevokeUserRole", "ListPermissions", "AssignPermissions",
     "CheckPermission", "GetUserStats", "GetSecurityStats", "GetUserActivity",
     "CreateOrganization", "GetOrganization", "ListOrganizations", "GetOrganizationStats",
     "BulkCreateUsers", "BulkUpdateUsers", "BulkDeleteUsers", "BulkCheckPermissions"}

ASSUME PipelineAssumption ==
    /\ Calls \subseteq Methods \X {"", "key", "jwt"}
    /\ {"grpc-handler", "database"} \subseteq Breakers
    /\ RequestsPerSecond \in Nat \ {0} /\ BurstSize \in Nat \ {0} /\ WindowSize \in Nat \ {0}
    /\ RedisFails \in BOOLEAN /\ MaxTime \in Nat

VARIABLES now,      \* seconds
          zset,     \* client -> members (seconds) of its sorted set in Redis
          tokens,   \* tokens of the in-memory fallback
          breakers, \* name -> breaker
          inFlight, \* gauge grpc_server_requests_in_flight
          total,    \* counter grpc_server_requests_total
          req       \* Requests -> where the request is and what it got

pipelineVars == <<now, zset, tokens, breakers, inFlight, total, req>>

NoRequest == [stage |-> "idle", client |-> "", method |-> "", cred |-> "", at |-> 0, by |-> "",
         gen |-> 0, dbgen |-> 0, dbfailed |-> FALSE, code |-> ""]

NewRateLimiter == zset = [c \in Senders |-> {}] /\ tokens = BurstSize

NewMetricsInterceptor == inFlight = 0 /\ total = 0

PipelineInit ==
    /\ now = 0
    /\ NewRateLimiter
    /\ NewMetricsInterceptor
    /\ breakers = [n \in Breakers |-> RegisterBreaker(n, 0)]
    /\ req = [r \in Requests |-> NoRequest]

\* The generated handlers decode the message before they enter the chain: a message
\* that does not decode is answered unseen by metrics, limiter and breakers.
DecodingFails(r) ==
    /\ req[r].stage = "idle"
    /\ req' = [req EXCEPT ![r] = [NoRequest EXCEPT !.stage = "answered", !.code = "Undecoded"]]
    /\ UNCHANGED <<now, zset, tokens, breakers, inFlight, total>>

-----------------------------------------------------------------------------
(* Metrics and logging: the gauge is decremented by a deferred call, the   *)
(* counter is incremented only when the inner handler returns.             *)

\* Faulty variant: the gauge is decremented after the handler, not deferred.
LeaveForgetsPanic(r, code) ==
    /\ inFlight' = IF code = "Internal" THEN inFlight ELSE inFlight - 1
    /\ total' = IF code = "Internal" THEN total ELSE total + 1
    /\ req' = [req EXCEPT ![r].stage = "answered", ![r].code = code, ![r].method = "", ![r].cred = ""]

\* A panic is turned into codes.Internal by the outermost interceptor.
Leave(r, code) ==
    /\ inFlight' = inFlight - 1
    /\ total' = IF code = "Internal" THEN total ELSE total + 1
    /\ req' = [req EXCEPT ![r].stage = "answered", ![r].code = code, ![r].method = "", ![r].cred = ""]

-----------------------------------------------------------------------------
(* The rate limiter.                                                       *)

\* isAllowed: members are seconds, so requests of one second are one member.
Live(c) == {t \in zset[c] : t > now - WindowSize}

\* Faulty variant: the limit itself still passes.
isAllowedInclusive(c) == Cardinality(Live(c)) <= RequestsPerSecond

isAllowed(c) == Cardinality(Live(c)) < RequestsPerSecond

FallbackAllows == tokens > 0

Enter(r, call, c, stage, by) ==
    /\ req[r].stage = "idle"
    /\ req' = [req EXCEPT ![r] = [NoRequest EXCEPT !.stage = stage, !.client = c, !.at = now, !.by = by,
                                              !.method = call[1], !.cred = call[2]]]
    /\ inFlight' = inFlight + 1
    /\ UNCHANGED <<now, breakers, total>>

UnaryServerInterceptor(r) == \E c \in Senders, call \in Calls :
    /\ Enter(r, call, c, IF isAllowed(c) THEN "limited" ELSE "refused", "redis")
    /\ zset' = [zset EXCEPT ![c] = Live(c) \cup {now}]
    /\ UNCHANGED tokens

fallbackLimiter(r) == \E c \in Senders, call \in Calls :
    /\ RedisFails
    /\ Enter(r, call, c, IF FallbackAllows THEN "limited" ELSE "refused", "fallback")
    /\ tokens' = IF tokens > 0 THEN tokens - 1 ELSE tokens
    /\ UNCHANGED zset

RateLimitExceeded(r) ==
    /\ req[r].stage = "refused"
    /\ Leave(r, "ResourceExhausted")
    /\ UNCHANGED <<now, zset, tokens, breakers>>

-----------------------------------------------------------------------------
(* Authentication and the outer breaker.                                   *)

publicMethods == {"HealthCheck", "GetMetrics"}
serviceKeyMethods == {"ValidateToken", "CheckPermission", "GetUser", "Authenticate",
                      "CreateOrganization", "RefreshToken", "RevokeToken"}

\* validateServiceKey, validateJWT: a service key counts for some methods only.
Authenticated(method, cred) ==
    \/ method \in publicMethods
    \/ cred = "key" /\ method \in serviceKeyMethods
    \/ cred = "jwt"

Unauthenticated(r) ==
    /\ req[r].stage = "limited" /\ ~Authenticated(req[r].method, req[r].cred)
    /\ Leave(r, "Unauthenticated")
    /\ UNCHANGED <<now, zset, tokens, breakers>>

\* The call of breaker n by request r, whose generation goes to field g.
Execute(r, n, g, into, refusal) ==
    LET b == currentState(breakers[n], n, now)
    IN /\ breakers' = [breakers EXCEPT ![n] = beforeRequest(n, @, now)]
       /\ IF Verdict(n, b) = "run"
          THEN req' = [req EXCEPT ![r].stage = into, ![r][g] = b.gen] /\ UNCHANGED <<inFlight, total>>
          ELSE refusal

BreakerRefusal(r) ==
    Leave(r, IF currentState(breakers["grpc-handler"], "grpc-handler", now).state = "open"
             THEN "Unavailable" ELSE "ResourceExhausted")

EnterHandler(r) ==
    /\ req[r].stage = "limited" /\ Authenticated(req[r].method, req[r].cred)
    /\ Execute(r, "grpc-handler", "gen", "handler", BreakerRefusal(r))
    /\ UNCHANGED <<now, zset, tokens>>

-----------------------------------------------------------------------------
(* The handlers: those of the token service and of permissions, which hand *)
(* the call on and report failures in the response, and those that run a   *)
(* statement under the breaker "database".                                 *)

DatabaseMethods == {"UpdateUser", "CreateUser", "GetOrganization", "CreateOrganization"}

Handled(r, outcome) == req' = [req EXCEPT ![r].stage = "handled", ![r].code = outcome] /\ UNCHANGED <<inFlight, total>>

Serve(r, methods, outcomes) ==
    /\ req[r].stage = "handler" /\ req[r].method \in methods
    /\ \E o \in outcomes : Handled(r, o)
    /\ UNCHANGED <<now, zset, tokens, breakers>>

HealthCheck(r) == Serve(r, {"HealthCheck"}, {"OK"})
Authenticate(r) == Serve(r, {"Authenticate"}, {"OK", "panic"})
ValidateToken(r) == Serve(r, {"ValidateToken"}, {"OK", "panic"})
RefreshToken(r) == Serve(r, {"RefreshToken"}, {"OK", "panic"})
RevokeToken(r) == Serve(r, {"RevokeToken"}, {"OK", "panic"})

\* A database breaker that is open fails the statement; the handler answers.
EnterDatabase(r) ==
    /\ req[r].stage = "handler" /\ req[r].method \in DatabaseMethods
    /\ Execute(r, "database", "dbgen", "database", Handled(r, "OK"))
    /\ UNCHANGED <<now, zset, tokens>>

\* The statement succeeds, fails (a missing row included), or panics.
Statement(r) == \E outcome \in {"ok", "error", "panic"} :
    /\ req[r].stage = "database"
    /\ breakers' = [breakers EXCEPT !["database"] =
                        afterRequest("database", @, req[r].dbgen, outcome = "ok", now)]
    /\ req' = [req EXCEPT ![r].stage = "handled", ![r].dbfailed = (outcome # "ok"),
                          ![r].code = IF outcome = "panic" THEN "panic" ELSE "OK"]
    /\ UNCHANGED <<now, zset, tokens, inFlight, total>>

\* The breaker counts a panic as a failure and panics again; recovery answers.
Finish(r) ==
    /\ req[r].stage = "handled"
    /\ breakers' = [breakers EXCEPT !["grpc-handler"] =
                        afterRequest("grpc-handler", @, req[r].gen, req[r].code # "panic", now)]
    /\ Leave(r, IF req[r].code = "panic" THEN "Internal" ELSE "OK")
    /\ UNCHANGED <<now, zset, tokens>>

\* The token bucket refills with time, up to its burst.
PassSecond ==
    /\ now < MaxTime
    /\ now' = now + 1
    /\ tokens' = IF tokens + RequestsPerSecond > BurstSize THEN BurstSize ELSE tokens + RequestsPerSecond
    /\ UNCHANGED <<zset, breakers, inFlight, total, req>>

Step(r) ==
    \/ RateLimitExceeded(r) \/ Unauthenticated(r) \/ EnterHandler(r)
    \/ HealthCheck(r) \/ Authenticate(r) \/ ValidateToken(r) \/ RefreshToken(r) \/ RevokeToken(r)
    \/ EnterDatabase(r) \/ Statement(r) \/ Finish(r)

PipelineNext == PassSecond \/ \E r \in Requests :
    DecodingFails(r) \/ UnaryServerInterceptor(r) \/ fallbackLimiter(r) \/ Step(r)

PipelineSpec == PipelineInit /\ [][PipelineNext]_pipelineVars

-----------------------------------------------------------------------------
(* Properties.                                                             *)

Inside(r) == req[r].stage \notin {"idle", "answered"}

\* The gauge of requests in flight and the counter of requests stay exact when
\* handlers panic: the gauge is the number of requests inside the chain, and the
\* counter misses exactly the requests that panicked or did not decode.
MetricsExact ==
    /\ inFlight = Cardinality({r \in Requests : Inside(r)})
    /\ total = Cardinality({r \in Requests : /\ req[r].stage = "answered"
                                      /\ req[r].code \notin {"Internal", "Undecoded"}})

Ran(n, r) == (IF n = "database" THEN req[r].dbgen ELSE req[r].gen) = breakers[n].gen
Ended(n, r) == IF n = "database" THEN req[r].stage \in {"handled", "answered"} ELSE req[r].stage = "answered"
Bad(n, r) == IF n = "database" THEN req[r].dbfailed ELSE req[r].code = "Internal"

\* However calls overlap with trips, probes and expiring intervals, a breaker
\* counts exactly the calls of its generation and their failures: a call that
\* began before a trip does not fail or close the probing that follows.
BreakersCountTheirCalls == \A n \in {"grpc-handler", "database"} :
    /\ breakers[n].req = Cardinality({r \in Requests : Ran(n, r)})
    /\ breakers[n].fail = Cardinality({r \in Requests : Ran(n, r) /\ Ended(n, r) /\ Bad(n, r)})

Passed(r) == req[r].stage \notin {"idle", "refused"} /\ req[r].code # "ResourceExhausted"

\* The limiter's members are seconds, so what it bounds for a client is the number of
\* seconds of a window in which it lets requests in, whatever number came in each; and
\* while Redis fails, the in-memory limiter bounds what all clients together get in
\* during one second by its burst.
AdmissionBounded ==
    /\ \A c \in Senders, t \in 0..now :
          Cardinality({req[r].at : r \in {q \in Requests : /\ Passed(q) /\ req[q].by = "redis"
                                                           /\ req[q].client = c
                                                           /\ req[q].at \in t + 1 .. t + WindowSize}})
             <= RequestsPerSecond
    /\ \A t \in 0..now :
          Cardinality({r \in Requests : Passed(r) /\ req[r].by = "fallback" /\ req[r].at = t}) <= BurstSize
=============================================================================
