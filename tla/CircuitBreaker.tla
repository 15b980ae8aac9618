--------------------------- MODULE CircuitBreaker ---------------------------
(***************************************************************************)
(* The circuit breakers of interceptors/circuit_breaker.go and             *)
(* errors/circuit_breaker.go: two managers of named breakers of the        *)
(* library gobreaker, which is modelled from how the managers use it.  A   *)
(* breaker is a value and the operators return the breaker after a call;   *)
(* each is one critical section of gobreaker's mutex.                      *)
(***************************************************************************)
EXTENDS Integers

CONSTANTS Settings   \* breaker name -> [maxRequests, interval, timeout, minRequests, ratio]

\* ratio is the failure ratio that trips, in tenths.
ASSUME SettingsAssumption ==
    \A n \in DOMAIN Settings :
        /\ Settings[n].maxRequests \in Nat \ {0} /\ Settings[n].minRequests \in Nat \ {0}
        /\ Settings[n].interval \in Nat \ {0} /\ Settings[n].timeout \in Nat \ {0}
        /\ Settings[n].ratio \in 1..10

Breakers == DOMAIN Settings

toNewGeneration(b, n, state, now) ==
    [state |-> state, gen |-> b.gen + 1, req |-> 0, fail |-> 0, streak |-> 0,
     expiry |-> CASE state = "closed" -> now + Settings[n].interval
                  [] state = "open" -> now + Settings[n].timeout
                  [] OTHER -> -1]

\* RegisterBreaker, and Reset, which builds the breaker again.
RegisterBreaker(n, now) == toNewGeneration([gen |-> 0], n, "closed", now)

\* The state is brought up to date only when somebody looks.
currentState(b, n, now) ==
    CASE b.state = "closed" /\ b.expiry < now -> toNewGeneration(b, n, "closed", now)
      [] b.state = "open" /\ b.expiry < now -> toNewGeneration(b, n, "half-open", now)
      [] OTHER -> b

\* TotalFailures / Requests >= ratio, once there are enough requests.
ReadyToTrip(n, b) == b.req >= Settings[n].minRequests /\ 10 * b.fail >= Settings[n].ratio * b.req

\* What the caller is told before the function runs.
Verdict(n, b) ==
    CASE b.state = "open" -> "ErrOpenState"
      [] b.state = "half-open" /\ b.req >= Settings[n].maxRequests -> "ErrTooManyRequests"
      [] OTHER -> "run"

beforeRequest(n, b, now) ==
    LET c == currentState(b, n, now)
    IN IF Verdict(n, c) = "run" THEN [c EXCEPT !.req = @ + 1] ELSE c

Succeeded(n, b, now) ==
    IF b.state = "half-open" /\ b.streak + 1 >= Settings[n].maxRequests
    THEN toNewGeneration(b, n, "closed", now)
    ELSE [b EXCEPT !.streak = @ + 1]

Failed(n, b, now) ==
    LET c == [b EXCEPT !.fail = @ + 1, !.streak = 0]
    IN IF b.state = "half-open" \/ ReadyToTrip(n, c)
       THEN toNewGeneration(b, n, "open", now) ELSE c

\* Faulty variant: the outcome counts in whatever generation is current.
afterRequestAnyGeneration(n, b, gen, ok, now) ==
    LET c == currentState(b, n, now)
    IN IF ok THEN Succeeded(n, c, now) ELSE Failed(n, c, now)

\* An outcome of an earlier generation is ignored.
afterRequest(n, b, gen, ok, now) ==
    LET c == currentState(b, n, now)
    IN IF c.gen # gen THEN c
       ELSE IF ok THEN Succeeded(n, c, now) ELSE Failed(n, c, now)
=============================================================================
