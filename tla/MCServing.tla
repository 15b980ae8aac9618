----------------------------- MODULE MCServing -----------------------------
(***************************************************************************)
(* What requests meet on their way: the chain of interceptors, the error   *)
(* handling, HTTP sessions and the record of activities.  They share no    *)
(* variables, so a behaviour moves one of them, its part, and the others   *)
(* stay as they began.  Breakers trip after one or two calls.  The clients *)
(* of the chain use one menu of calls: database handlers with and without  *)
(* permission to call them, or the handlers of the token service.          *)
(***************************************************************************)
EXTENDS RequestPipeline, ErrorHandling, HttpSession, ActivityLog, TLC

VARIABLES part, menu

MCSettings == [n \in {"grpc-handler", "database", "redis", "kafka"} |->
    IF n = "grpc-handler"
    THEN [maxRequests |-> 2, interval |-> 2, timeout |-> 1, minRequests |-> 2, ratio |-> 3]
    ELSE [maxRequests |-> 1, interval |-> 1, timeout |-> 1, minRequests |-> 1, ratio |-> 6]]

Menus == {{<<"UpdateUser", "jwt">>, <<"UpdateUser", "key">>, <<"ValidateToken", "key">>},
          {<<"HealthCheck", "">>, <<"Authenticate", "key">>},
          {<<"RefreshToken", "key">>, <<"RevokeToken", "key">>}}

MCCalls == UNION Menus

\* The parts draw on the same model values, so few permutations are needed.
MCSymmetry == Permutations(Requests \cup Activities) \cup Permutations(Callers \cup Browsers)

MCInit ==
    /\ part \in {"pipeline", "errors", "session", "activity"}
    /\ menu \in Menus /\ (part # "pipeline" => <<"HealthCheck", "">> \in menu)
    /\ PipelineInit /\ ErrInit /\ SessionInit /\ ActivityInit
    /\ part # "session" => \A u \in Accounts : active[u]
    /\ part # "activity" => backend = "elastic" /\ mapped = {}

Pipeline ==
    /\ part = "pipeline" /\ PipelineNext
    /\ \A r \in Requests : req'[r].stage \in {"limited", "refused"} => <<req'[r].method, req'[r].cred>> \in menu
    /\ UNCHANGED <<errVars, sessionVars, activityVars>>

Errors == part = "errors" /\ ErrNext /\ UNCHANGED <<pipelineVars, sessionVars, activityVars>>
Session == part = "session" /\ SessionNext /\ UNCHANGED <<pipelineVars, errVars, activityVars>>
Activity == part = "activity" /\ ActivityNext /\ UNCHANGED <<pipelineVars, errVars, sessionVars>>

MCNext == (Pipeline \/ Errors \/ Session \/ Activity) /\ UNCHANGED <<part, menu>>

MCSpec == MCInit /\ [][MCNext]_<<part, menu, pipelineVars, errVars, sessionVars, activityVars>>
=============================================================================
