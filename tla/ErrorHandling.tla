--------------------------- MODULE ErrorHandling ---------------------------
(***************************************************************************)
(* internal/errors: callers run operations through ErrorHandler, which     *)
(* hands them to the RecoveryManager; a service is recovered by one of six *)
(* strategies.  RecoveryState has no lock of its own, so its counter is    *)
(* read and written in two steps; the alerter reads and writes its map of  *)
(* alert times without a lock too.  An error is known by its text.         *)
(***************************************************************************)
EXTENDS CircuitBreaker, FiniteSets

CONSTANTS Callers,
          MaxAttempts,            \* RetryConfig
          MaxConcurrentRequests,  \* BulkheadConfig
          MaxDegradationTime, CooldownPeriod,  \* in ticks
          MaxCalls,               \* bound: operations started
          MaxTicks                \* bound: time

ASSUME ErrorHandlingAssumption ==
    /\ MaxAttempts \in Nat \ {0} /\ MaxConcurrentRequests \in Nat \ {0}
    /\ {MaxDegradationTime, CooldownPeriod, MaxCalls, MaxTicks} \subseteq Nat

VARIABLES clock, started,
          recovery,   \* service -> RecoveryState
          bulkhead,   \* tokens in the semaphore channel
          cb,         \* the breakers of ErrorHandler.circuitBreaker
          errors,     \* ErrorMetrics.TotalErrors
          lastAlert,  \* LastAlertTime of the one error code modelled
          alerted,    \* caller -> when it last sent an alert
          job         \* caller -> the operation under way

errVars == <<clock, started, recovery, bulkhead, cb, errors, lastAlert, alerted, job>>

LongAgo == -100

\* registerDefaultRecoveryStrategies, and one service for each other strategy.
Strategy ==
    [s \in {"database", "events", "cache", "fast", "fallback", "breaker", "bulkhead"} |->
        CASE s \in {"database", "events"} -> "RETRY_WITH_BACKOFF"
          [] s = "cache" -> "GRACEFUL_DEGRADATION"
          [] s = "fast" -> "FAIL_FAST"
          [] s = "fallback" -> "FALLBACK"
          [] s = "breaker" -> "CIRCUIT_BREAKER"
          [] s = "bulkhead" -> "BULKHEAD"]
Services == DOMAIN Strategy

\* RetryableErrors of the default, database, cache and event configurations.
DefaultRetryableErrors == {"connection refused", "connection reset", "timeout", "circuit breaker"}
DatabaseRetryableErrors == {"connection refused", "connection reset", "timeout", "deadlock", "connection lost"}
EventRetryableErrors == {"connection refused", "broker not available", "timeout", "network error"}

\* What IsSuccessful of the breakers takes for a failure; a miss of Redis is one.
DatabaseFailures == {"connection refused", "connection reset", "timeout", "connection lost"}
RedisFailures == DatabaseFailures \cup {"redis: nil"}
KafkaFailures == {"connection refused", "broker not available", "timeout", "network error"}

Texts == DefaultRetryableErrors \cup DatabaseRetryableErrors \cup EventRetryableErrors \cup RedisFailures \cup {"not found"}

NoJob == [stage |-> "idle", service |-> "", attempt |-> 0, count |-> 0, gen |-> 0, holds |-> FALSE]

\* RegisterRecoveryStrategy, ResetRecoveryState.
FreshState == [failures |-> 0, recoveries |-> 0, degraded |-> FALSE, since |-> LongAgo,
               lastFailure |-> LongAgo, lastRecovery |-> LongAgo]

NewErrorLogger == errors = 0 /\ lastAlert = LongAgo

ErrInit ==
    /\ clock = 0 /\ started = 0
    /\ NewErrorLogger
    /\ recovery = [s \in Services |-> FreshState]
    /\ cb = [n \in Breakers |-> RegisterBreaker(n, 0)]
    /\ bulkhead = 0
    /\ alerted = [c \in Callers |-> LongAgo]
    /\ job = [c \in Callers |-> NoJob]

At(c, stage) == job[c].stage = stage
-----------------------------------------------------------------------------
(* An operation begins; only the bulkhead and a breaker may refuse it.     *)

BeginOperation(c, service, j) ==
    /\ At(c, "idle") /\ started < MaxCalls
    /\ started' = started + 1
    /\ job' = [job EXCEPT ![c] = [j EXCEPT !.service = service, !.attempt = 1]]
    /\ UNCHANGED <<clock, recovery, errors, lastAlert, alerted>>

\* ExecuteWithErrorHandling hands the operation to the strategy of the service.
ExecuteWithRecovery(c, strategy) == \E s \in Services :
    /\ Strategy[s] = strategy
    /\ BeginOperation(c, s, [NoJob EXCEPT !.stage = "running"])
    /\ UNCHANGED <<bulkhead, cb>>

executeFailFast(c) == ExecuteWithRecovery(c, "FAIL_FAST")
executeGracefulDegradation(c) == ExecuteWithRecovery(c, "GRACEFUL_DEGRADATION")
executeFallback(c) == ExecuteWithRecovery(c, "FALLBACK")
executeRetryWithBackoff(c) == ExecuteWithRecovery(c, "RETRY_WITH_BACKOFF")

\* A new breaker is registered for every call, so it is closed and never refuses.
executeCircuitBreaker(c) ==
    /\ \A n \in Breakers : Verdict(n, RegisterBreaker(n, clock)) = "run"
    /\ ExecuteWithRecovery(c, "CIRCUIT_BREAKER")

\* A full semaphore rejects at once.
executeBulkhead(c) ==
    LET free == bulkhead < MaxConcurrentRequests
    IN /\ BeginOperation(c, "bulkhead", [NoJob EXCEPT !.stage = IF free THEN "running" ELSE "failed", !.holds = free])
       /\ bulkhead' = IF free THEN bulkhead + 1 ELSE bulkhead
       /\ UNCHANGED cb

\* ErrorHandler.ExecuteWithRetry: the default configuration, no recovery state.
ExecuteWithRetry(c) == BeginOperation(c, "retry", [NoJob EXCEPT !.stage = "running"]) /\ UNCHANGED <<bulkhead, cb>>

\* RetryManager.ExecuteWithContext on its own: its errors go back to the caller.
ExecuteWithContext(c) == BeginOperation(c, "direct", [NoJob EXCEPT !.stage = "running"]) /\ UNCHANGED <<bulkhead, cb>>

\* ErrorHandler.ExecuteWithCircuitBreaker: an open or crowded breaker is an error.
ExecuteWithCircuitBreaker(c) == \E n \in Breakers :
    LET b == currentState(cb[n], n, clock)
    IN /\ BeginOperation(c, n, [NoJob EXCEPT !.stage = IF Verdict(n, b) = "run" THEN "guarded" ELSE "erring", !.gen = b.gen])
       /\ cb' = [cb EXCEPT ![n] = beforeRequest(n, @, clock)]
       /\ UNCHANGED bulkhead

\* A context that is done already: the breaker does not see the call.
CancelledBefore(c) == \E n \in Breakers :
    BeginOperation(c, n, [NoJob EXCEPT !.stage = "erring"]) /\ UNCHANGED <<bulkhead, cb>>

\* The guarded operation ends, with a result or with one of the error texts.
AfterBreaker(c) == \E text \in Texts \cup {""} :
    LET n == job[c].service
        bad == CASE n = "database" -> DatabaseFailures [] n = "redis" -> RedisFailures [] OTHER -> KafkaFailures
    IN /\ At(c, "guarded")
       /\ cb' = [cb EXCEPT ![n] = afterRequest(n, @, job[c].gen, text \notin bad, clock)]
       /\ job' = [job EXCEPT ![c] = IF text = "" THEN NoJob ELSE [@ EXCEPT !.stage = "erring", !.gen = 0]]
       /\ UNCHANGED <<clock, started, recovery, bulkhead, errors, lastAlert, alerted>>

\* Faulty variant: the place is given back only when the operation succeeds.
ReleaseOnSuccess(c, ok) == bulkhead' = IF job[c].holds /\ ok THEN bulkhead - 1 ELSE bulkhead

\* The deferred receive from the semaphore.
Release(c, ok) == bulkhead' = IF job[c].holds THEN bulkhead - 1 ELSE bulkhead

-----------------------------------------------------------------------------
(* The operation ends.                                                     *)

\* Without a recovery state there is nothing to count; a direct caller is told.
GiveUp(c) ==
    job' = [job EXCEPT ![c] = CASE @.service \in Services -> [@ EXCEPT !.stage = "failed"]
                                [] @.service = "direct" -> NoJob
                                [] OTHER -> [@ EXCEPT !.stage = "erring"]]

ReturnToCaller(c) == job' = [job EXCEPT ![c] = NoJob]

Recovers == {"database", "events", "breaker", "bulkhead"}

\* Success counts as a recovery for some strategies and ends degradation.
Succeed(c) ==
    LET s == job[c].service
    IN /\ At(c, "running")
       /\ recovery' =
            CASE s \in Recovers -> [recovery EXCEPT ![s].recoveries = @ + 1, ![s].lastRecovery = clock]
              [] s = "cache" /\ recovery[s].degraded ->
                    [recovery EXCEPT ![s].degraded = FALSE, ![s].lastRecovery = clock]
              [] OTHER -> recovery
       /\ ReturnToCaller(c) /\ Release(c, TRUE)
       /\ UNCHANGED <<clock, started, cb, errors, lastAlert, alerted>>

\* A panic passes through; deferred calls run.
Panic(c) ==
    /\ At(c, "running")
    /\ ReturnToCaller(c) /\ Release(c, FALSE)
    /\ UNCHANGED <<clock, started, recovery, cb, errors, lastAlert, alerted>>

RetryableTexts(c) ==
    CASE job[c].service = "database" -> DatabaseRetryableErrors
      [] job[c].service = "events" -> EventRetryableErrors
      [] job[c].service \in {"retry", "direct"} -> DefaultRetryableErrors
      [] OTHER -> {}

\* The error is retryable and attempts are left: wait for the backoff.
Backoff(c) == \E text \in Texts :
    /\ At(c, "running") /\ text \in RetryableTexts(c) /\ job[c].attempt < MaxAttempts
    /\ job' = [job EXCEPT ![c].stage = "waiting"]
    /\ UNCHANGED <<clock, started, recovery, bulkhead, cb, errors, lastAlert, alerted>>

\* time.After fires before the context is done.
RetryAttempt(c) ==
    /\ At(c, "waiting")
    /\ job' = [job EXCEPT ![c].stage = "running", ![c].attempt = @ + 1]
    /\ UNCHANGED <<clock, started, recovery, bulkhead, cb, errors, lastAlert, alerted>>

\* The context is done during the delay: ErrorCodeCancelled, not retryable.
CancelRetry(c) ==
    /\ At(c, "waiting")
    /\ GiveUp(c)
    /\ UNCHANGED <<clock, started, recovery, bulkhead, cb, errors, lastAlert, alerted>>

\* The operation fails for good; the bulkhead holds its place until it returns.
Fail(c) == \E text \in Texts :
    /\ At(c, "running")
    /\ text \in RetryableTexts(c) => job[c].attempt = MaxAttempts
    /\ GiveUp(c)
    /\ UNCHANGED <<clock, started, recovery, bulkhead, cb, errors, lastAlert, alerted>>

-----------------------------------------------------------------------------
(* Failure handling.                                                       *)

\* updateFailureState, first half: the counter is read without a lock.
ReadFailureCount(c) ==
    /\ At(c, "failed")
    /\ job' = [job EXCEPT ![c].stage = "counting", ![c].count = recovery[job[c].service].failures]
    /\ UNCHANGED <<clock, started, recovery, bulkhead, cb, errors, lastAlert, alerted>>

\* Second half, and what the strategy answers: the fallback function or the
\* fallback data may turn the failure into a result.
updateFailureState(c) ==
    LET s == job[c].service
        old == recovery[s]
        counted == [old EXCEPT !.failures = job[c].count + 1, !.lastFailure = clock]
        degrading == IF old.degraded THEN counted ELSE [counted EXCEPT !.degraded = TRUE, !.since = clock]
    IN /\ At(c, "counting")
       /\ Release(c, FALSE)
       /\ UNCHANGED <<clock, started, cb, errors, lastAlert, alerted>>
       /\ \/ /\ s = "cache"
             /\ recovery' = [recovery EXCEPT ![s] = degrading]
             /\ \/ ReturnToCaller(c) /\ clock - degrading.since <= MaxDegradationTime
                \/ job' = [job EXCEPT ![c].stage = "erring"]
          \/ /\ s = "fallback"
             /\ recovery' = [recovery EXCEPT ![s] = [counted EXCEPT !.recoveries = @ + 1, !.lastRecovery = clock]]
             /\ ReturnToCaller(c)
          \/ /\ s # "cache"
             /\ recovery' = [recovery EXCEPT ![s] = counted]
             /\ job' = [job EXCEPT ![c].stage = "erring", ![c].holds = FALSE]

RecordError == errors' = errors + 1

isRateLimited == clock - lastAlert < CooldownPeriod

\* Metrics under a lock, then the log, then the check of the alerter.
LogError(c) ==
    /\ RecordError
    /\ IF isRateLimited
       THEN ReturnToCaller(c)
       ELSE job' = [job EXCEPT ![c].stage = "alerting", ![c].holds = FALSE]

HandleError(c) ==
    /\ At(c, "erring")
    /\ LogError(c)
    /\ UNCHANGED <<clock, started, recovery, bulkhead, cb, lastAlert, alerted>>

\* The default rules.
Alarming(severity, category) ==
    severity = "CRITICAL" \/ (category = "AUTHENTICATION" /\ severity = "ERROR")

\* Faulty variant: the time of the alert is not remembered.
ProcessErrorForgets(c) ==
    /\ At(c, "alerting")
    /\ alerted' = [alerted EXCEPT ![c] = clock]
    /\ ReturnToCaller(c)
    /\ UNCHANGED <<clock, started, recovery, bulkhead, cb, errors, lastAlert>>

\* A rule matches: the alert is sent and its time written.
ProcessError(c) ==
    /\ At(c, "alerting")
    /\ \E severity \in {"CRITICAL", "ERROR"}, category \in {"AUTHENTICATION", "DATABASE"} : Alarming(severity, category)
    /\ alerted' = [alerted EXCEPT ![c] = clock]
    /\ lastAlert' = clock
    /\ ReturnToCaller(c)
    /\ UNCHANGED <<clock, started, recovery, bulkhead, cb, errors>>

\* No rule matches.
NoRule(c) ==
    /\ At(c, "alerting")
    /\ \E severity \in {"CRITICAL", "ERROR"}, category \in {"AUTHENTICATION", "DATABASE"} : ~Alarming(severity, category)
    /\ ReturnToCaller(c)
    /\ UNCHANGED <<clock, started, recovery, bulkhead, cb, errors, lastAlert, alerted>>

\* HandleErrorWithRecovery counts the failure in a copy of the state, so only
\* the metrics and the alerter see the error.
HandleErrorWithRecovery(c) ==
    /\ At(c, "idle") /\ started < MaxCalls
    /\ started' = started + 1
    /\ job' = [job EXCEPT ![c] = [NoJob EXCEPT !.stage = "erring", !.service = "fast"]]
    /\ UNCHANGED <<clock, recovery, bulkhead, cb, errors, lastAlert, alerted>>

ResetRecoveryState == \E s \in Services :
    /\ recovery[s].failures > 0
    /\ recovery' = [recovery EXCEPT ![s] = FreshState]
    /\ UNCHANGED <<clock, started, bulkhead, cb, errors, lastAlert, alerted, job>>

PassTime ==
    /\ clock < MaxTicks
    /\ clock' = clock + 1
    /\ UNCHANGED <<started, recovery, bulkhead, cb, errors, lastAlert, alerted, job>>

ErrNext ==
    \/ PassTime \/ ResetRecoveryState
    \/ \E c \in Callers :
         \/ executeFailFast(c) \/ executeGracefulDegradation(c) \/ executeFallback(c)
         \/ executeRetryWithBackoff(c) \/ executeCircuitBreaker(c) \/ executeBulkhead(c)
         \/ ExecuteWithRetry(c) \/ ExecuteWithContext(c) \/ ExecuteWithCircuitBreaker(c)
         \/ CancelledBefore(c) \/ AfterBreaker(c)
         \/ Succeed(c) \/ Panic(c) \/ Backoff(c) \/ RetryAttempt(c) \/ CancelRetry(c) \/ Fail(c)
         \/ ReadFailureCount(c) \/ updateFailureState(c)
         \/ HandleError(c) \/ ProcessError(c) \/ NoRule(c) \/ HandleErrorWithRecovery(c)

-----------------------------------------------------------------------------
(* Properties.                                                             *)

\* Places of the bulkhead neither leak nor multiply, however operations end: the
\* semaphore holds one token for each caller inside, and never too many.
BulkheadExact ==
    /\ bulkhead = Cardinality({c \in Callers : job[c].holds})
    /\ bulkhead <= MaxConcurrentRequests

\* Although the cooldown is checked and written without a lock, a storm of errors
\* raises at most one alert per caller and cooldown period.
AlertsPerCaller == [][\A c \in Callers :
    alerted'[c] # alerted[c] => clock - alerted[c] >= CooldownPeriod]_errVars

=============================================================================
