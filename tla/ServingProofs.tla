---------------------------- MODULE ServingProofs ----------------------------
(***************************************************************************)
(* Proofs about what requests meet on their way: the circuit breakers, the *)
(* error handling and the chain of interceptors, for every set of callers  *)
(* and requests and every configuration.  The sets of callers and requests *)
(* need not be finite: those that are inside at one time always are.       *)
(* Then the rotation of refresh tokens over HTTP, for every set of         *)
(* accounts and browsers, and the detection of bursts of failed logins.    *)
(***************************************************************************)
EXTENDS RequestPipeline, ErrorHandling, HttpSession, ActivityLog, FiniteSetTheorems, TLAPS

\* Counting: one member more.
LEMMA CountAdd ==
    ASSUME NEW S, IsFiniteSet(S), NEW x, x \notin S, NEW T, T = S \cup {x}
    PROVE  IsFiniteSet(T) /\ Cardinality(T) = Cardinality(S) + 1
BY FS_AddElement

\* Counting: one member less.
LEMMA CountRemove ==
    ASSUME NEW S, IsFiniteSet(S), NEW x \in S, NEW T, T = S \ {x}
    PROVE  IsFiniteSet(T) /\ Cardinality(T) = Cardinality(S) - 1
BY FS_RemoveElement

\* Nothing is counted in the beginning.
LEMMA CountEmpty ==
    ASSUME NEW S, S = {}
    PROVE  IsFiniteSet(S) /\ Cardinality(S) = 0
BY FS_EmptySet

-----------------------------------------------------------------------------
(* The circuit breakers.                                                   *)

Breaker == [state : {"closed", "half-open", "open"}, gen : Nat \ {0}, req : Nat, fail : Nat,
            streak : Nat, expiry : Int]

\* A generation begins with nothing counted (toNewGeneration).
LEMMA NewGenerationFacts ==
    ASSUME NEW b, b.gen \in Nat, NEW n \in Breakers, NEW s \in {"closed", "half-open", "open"}, NEW t \in Nat
    PROVE  LET g == toNewGeneration(b, n, s, t)
           IN  g \in Breaker /\ g.gen = b.gen + 1 /\ g.req = 0 /\ g.fail = 0
BY SettingsAssumption DEF toNewGeneration, Breaker, Breakers

\* A new breaker is well typed (RegisterBreaker).
LEMMA RegisterFacts ==
    ASSUME NEW n \in Breakers, NEW t \in Nat
    PROVE  LET g == RegisterBreaker(n, t)
           IN  g \in Breaker /\ g.gen = 1 /\ g.req = 0 /\ g.fail = 0
BY NewGenerationFacts DEF RegisterBreaker

\* Looking at a breaker leaves it alone or begins a generation (currentState).
LEMMA CurrentStateFacts ==
    ASSUME NEW b \in Breaker, NEW n \in Breakers, NEW t \in Nat
    PROVE  LET c == currentState(b, n, t)
           IN  /\ c \in Breaker
               /\ c = b \/ (c.gen = b.gen + 1 /\ c.req = 0 /\ c.fail = 0)
BY NewGenerationFacts DEF currentState, Breaker

\* A call that is let in is counted, one that is refused is not (beforeRequest).
LEMMA BeforeRequestFacts ==
    ASSUME NEW b \in Breaker, NEW n \in Breakers, NEW t \in Nat
    PROVE  LET c == currentState(b, n, t)
               d == beforeRequest(n, b, t)
           IN  /\ d \in Breaker /\ d.gen = c.gen /\ d.fail = c.fail
               /\ d.req = IF Verdict(n, c) = "run" THEN c.req + 1 ELSE c.req
<1> DEFINE c == currentState(b, n, t)
<1>1. c \in Breaker
  BY CurrentStateFacts
<1> HIDE DEF c
<1>2. [c EXCEPT !.req = @ + 1] \in Breaker
  BY <1>1 DEF Breaker
<1>3. beforeRequest(n, b, t) = IF Verdict(n, c) = "run" THEN [c EXCEPT !.req = @ + 1] ELSE c
  BY DEF beforeRequest, c
<1>4. /\ beforeRequest(n, b, t) \in Breaker
      /\ beforeRequest(n, b, t).gen = c.gen /\ beforeRequest(n, b, t).fail = c.fail
      /\ beforeRequest(n, b, t).req = IF Verdict(n, c) = "run" THEN c.req + 1 ELSE c.req
  BY <1>1, <1>2, <1>3 DEF Breaker
<1> QED BY <1>4 DEF c

\* The outcome of a call counts in the call's own generation or not at all, and begins
\* a generation when it trips or closes the breaker (afterRequest).
LEMMA AfterRequestFacts ==
    ASSUME NEW b \in Breaker, NEW n \in Breakers, NEW t \in Nat, NEW g, NEW ok \in BOOLEAN
    PROVE  LET c == currentState(b, n, t)
               d == afterRequest(n, b, g, ok, t)
           IN  /\ d \in Breaker
               /\ \/ c.gen # g /\ d = c
                  \/ c.gen = g /\ d.gen = c.gen /\ d.req = c.req /\ d.fail = IF ok THEN c.fail ELSE c.fail + 1
                  \/ d.gen = c.gen + 1 /\ d.req = 0 /\ d.fail = 0
<1> DEFINE c == currentState(b, n, t)
           d == afterRequest(n, b, g, ok, t)
           e == [c EXCEPT !.fail = @ + 1, !.streak = 0]
           s == [c EXCEPT !.streak = @ + 1]
<1>1. c \in Breaker
  BY CurrentStateFacts
<1>2. /\ c.gen # g => d = c
      /\ c.gen = g /\ ok => d = Succeeded(n, c, t)
      /\ c.gen = g /\ ~ok => d = Failed(n, c, t)
  BY Zenon DEF afterRequest
<1> SUFFICES /\ d \in Breaker
             /\ \/ c.gen # g /\ d = c
                \/ c.gen = g /\ d.gen = c.gen /\ d.req = c.req /\ d.fail = IF ok THEN c.fail ELSE c.fail + 1
                \/ d.gen = c.gen + 1 /\ d.req = 0 /\ d.fail = 0
  OBVIOUS
<1> HIDE DEF c, d
<1>3. c.gen \in Nat
  BY <1>1 DEF Breaker
<1>4. CASE c.gen # g
  BY <1>1, <1>2, <1>4
<1>5. CASE c.gen = g /\ ok
  <2>1. s \in Breaker /\ s.gen = c.gen /\ s.req = c.req /\ s.fail = c.fail
    BY <1>1 DEF Breaker
  <2>2. d = s \/ d = toNewGeneration(c, n, "closed", t)
    BY <1>2, <1>5 DEF Succeeded
  <2>3. LET x == toNewGeneration(c, n, "closed", t)
        IN  x \in Breaker /\ x.gen = c.gen + 1 /\ x.req = 0 /\ x.fail = 0
    BY <1>3, NewGenerationFacts
  <2> QED BY <1>5, <2>1, <2>2, <2>3
<1>6. CASE c.gen = g /\ ~ok
  <2>1. e \in Breaker /\ e.gen = c.gen /\ e.req = c.req /\ e.fail = c.fail + 1
    <3> DEFINE f == [c EXCEPT !.fail = @ + 1]
    <3>1. f \in Breaker /\ f.gen = c.gen /\ f.req = c.req /\ f.fail = c.fail + 1
      BY <1>1 DEF Breaker
    <3>2. e = [f EXCEPT !.streak = 0]
      OBVIOUS
    <3> HIDE DEF f, e
    <3> QED BY <3>1, <3>2 DEF Breaker
  <2>2. d = e \/ d = toNewGeneration(c, n, "open", t)
    BY <1>2, <1>6 DEF Failed
  <2>3. LET x == toNewGeneration(c, n, "open", t)
        IN  x \in Breaker /\ x.gen = c.gen + 1 /\ x.req = 0 /\ x.fail = 0
    BY <1>3, NewGenerationFacts
  <2> QED BY <1>6, <2>1, <2>2, <2>3
<1> QED BY <1>4, <1>5, <1>6

-----------------------------------------------------------------------------
(***************************************************************************)
(* The error handling.  A job that holds a place of the bulkhead is one of *)
(* the service "bulkhead" that runs or is being counted as a failure; a    *)
(* caller about to send an alert sent its last one a cooldown ago or more, *)
(* because it found even the last alert of all callers that old.           *)
(***************************************************************************)
Stages == {"idle", "running", "waiting", "guarded", "failed", "counting", "erring", "alerting"}

ServiceNames == Services \cup Breakers \cup {"", "retry", "direct"}

Jobs == [stage : Stages, service : ServiceNames, attempt : Nat, count : Nat, gen : Nat, holds : BOOLEAN]

Placed(j) ==
    /\ j.stage \in {"failed", "counting"} => j.service \in Services
    /\ j.stage \in {"running", "waiting"} => j.service \in Services \cup {"retry", "direct"}
    /\ j.stage = "guarded" => j.service \in Breakers
    /\ j.holds => j.service = "bulkhead" /\ j.stage \in {"running", "failed", "counting"}

RecoveryState == [failures : Nat, recoveries : Nat, degraded : BOOLEAN, since : Int,
                  lastFailure : Int, lastRecovery : Int]

ErrTypeOK ==
    /\ clock \in Nat /\ started \in Nat /\ errors \in Nat
    /\ recovery \in [Services -> RecoveryState]
    /\ bulkhead \in Int
    /\ cb \in [Breakers -> Breaker]
    /\ lastAlert \in Int
    /\ alerted \in [Callers -> Int]
    /\ job \in [Callers -> Jobs]

Holding == {c \in Callers : job[c].holds}

AlertOrder ==
    /\ lastAlert <= clock
    /\ \A c \in Callers : alerted[c] <= lastAlert
    /\ \A c \in Callers : At(c, "alerting") => clock - alerted[c] >= CooldownPeriod

ErrInv ==
    /\ ErrTypeOK
    /\ \A c \in Callers : Placed(job[c])
    /\ IsFiniteSet(Holding)
    /\ BulkheadExact
    /\ AlertOrder


\* What the constants are.
LEMMA ErrConstants ==
    /\ MaxConcurrentRequests \in Nat \ {0} /\ CooldownPeriod \in Nat
    /\ LongAgo \in Int /\ LongAgo <= 0
    /\ Services = {"database", "events", "cache", "fast", "fallback", "breaker", "bulkhead"}
BY ErrorHandlingAssumption DEF LongAgo, Services, Strategy

\* A caller without an operation holds nothing (NoJob).
LEMMA NoJobFacts == NoJob \in Jobs /\ Placed(NoJob) /\ ~NoJob.holds /\ NoJob.stage = "idle"
BY DEF NoJob, Jobs, Stages, Placed, ServiceNames

\* A step of one caller that takes or gives back a place as its job says.
LEMMA CallerMoves ==
    ASSUME ErrInv, NEW c \in Callers, NEW j \in Jobs, Placed(j),
           job' = [job EXCEPT ![c] = j],
           bulkhead' = IF j.holds = job[c].holds THEN bulkhead
                       ELSE IF j.holds THEN bulkhead + 1 ELSE bulkhead - 1,
           bulkhead' <= MaxConcurrentRequests
    PROVE  /\ job' \in [Callers -> Jobs] /\ bulkhead' \in Int
           /\ \A d \in Callers : Placed(job'[d])
           /\ IsFiniteSet(Holding') /\ BulkheadExact'
<1>1. job \in [Callers -> Jobs] /\ bulkhead \in Int /\ job[c] \in Jobs
  BY DEF ErrInv, ErrTypeOK
<1>2. job' \in [Callers -> Jobs] /\ job'[c] = j /\ \A d \in Callers : d # c => job'[d] = job[d]
  BY <1>1
<1>3. \A d \in Callers : Placed(job'[d])
  BY <1>2 DEF ErrInv
<1>4. j.holds \in BOOLEAN /\ job[c].holds \in BOOLEAN
  BY <1>1 DEF Jobs
<1>5. IsFiniteSet(Holding) /\ bulkhead = Cardinality(Holding)
  BY DEF ErrInv, BulkheadExact, Holding
<1>6. IsFiniteSet(Holding') /\ bulkhead' = Cardinality(Holding')
  <2>1. CASE j.holds = job[c].holds
    <3>1. Holding' = Holding
      BY <1>2, <2>1 DEF Holding
    <3> QED BY <1>5, <2>1, <3>1
  <2>2. CASE j.holds /\ ~job[c].holds
    <3>1. c \notin Holding /\ Holding' = Holding \cup {c}
      BY <1>2, <2>2 DEF Holding
    <3>2. IsFiniteSet(Holding') /\ Cardinality(Holding') = Cardinality(Holding) + 1
      BY <1>5, <3>1, CountAdd
    <3> QED BY <1>5, <2>2, <3>2
  <2>3. CASE ~j.holds /\ job[c].holds
    <3>1. c \in Holding /\ Holding' = Holding \ {c}
      BY <1>2, <2>3 DEF Holding
    <3>2. IsFiniteSet(Holding') /\ Cardinality(Holding') = Cardinality(Holding) - 1
      BY <1>5, <3>1, CountRemove
    <3> QED BY <1>5, <2>3, <3>2
  <2> QED BY <1>4, <2>1, <2>2, <2>3
<1> QED BY <1>1, <1>2, <1>3, <1>4, <1>6 DEF BulkheadExact, Holding

\* An operation begins (BeginOperation).
LEMMA BeginKeeps ==
    ASSUME ErrInv, NEW c \in Callers, NEW service \in ServiceNames, NEW j \in Jobs,
           j.stage # "alerting",
           Placed([j EXCEPT !.service = service]),
           BeginOperation(c, service, j),
           cb' \in [Breakers -> Breaker],
           bulkhead' = IF j.holds THEN bulkhead + 1 ELSE bulkhead,
           bulkhead' <= MaxConcurrentRequests
    PROVE  ErrInv'
<1> DEFINE k == [j EXCEPT !.service = service, !.attempt = 1]
<1>1. k \in Jobs /\ Placed(k) /\ k.holds = j.holds /\ k.stage = j.stage
  <2> DEFINE i == [j EXCEPT !.service = service]
  <2>1. i \in Jobs /\ i.holds = j.holds /\ i.stage = j.stage /\ i.service = service
    BY DEF Jobs
  <2>2. k = [i EXCEPT !.attempt = 1]
    OBVIOUS
  <2>3. Placed(i)
    OBVIOUS
  <2> HIDE DEF i, k
  <2>4. k \in Jobs /\ k.holds = i.holds /\ k.stage = i.stage /\ k.service = i.service
    BY <2>1, <2>2 DEF Jobs
  <2> QED BY <2>1, <2>3, <2>4 DEF Placed
<1>2. job' = [job EXCEPT ![c] = k] /\ ~job[c].holds
  BY DEF BeginOperation, ErrInv, Placed, At
<1> HIDE DEF k
<1>3. /\ job' \in [Callers -> Jobs] /\ bulkhead' \in Int
      /\ \A d \in Callers : Placed(job'[d])
      /\ IsFiniteSet(Holding') /\ BulkheadExact'
  BY <1>1, <1>2, CallerMoves DEF Jobs, ErrInv, ErrTypeOK
<1>4. ErrTypeOK'
  BY <1>3 DEF BeginOperation, ErrInv, ErrTypeOK
<1>5. AlertOrder'
  <2>1. clock' = clock /\ lastAlert' = lastAlert /\ alerted' = alerted
    BY DEF BeginOperation
  <2> QED BY <1>1, <1>2, <2>1 DEF ErrInv, ErrTypeOK, AlertOrder, At
<1> QED BY <1>3, <1>4, <1>5 DEF ErrInv

\* A later step of an operation that sends no alert.
LEMMA StepKeeps ==
    ASSUME ErrInv, NEW c \in Callers, NEW j \in Jobs, Placed(j),
           j.stage = "alerting" => clock - alerted[c] >= CooldownPeriod,
           job' = [job EXCEPT ![c] = j],
           bulkhead' = IF job[c].holds /\ ~j.holds THEN bulkhead - 1 ELSE bulkhead,
           j.holds => job[c].holds,
           UNCHANGED <<clock, started, lastAlert, alerted>>, errors' \in Nat,
           recovery' \in [Services -> RecoveryState], cb' \in [Breakers -> Breaker]
    PROVE  ErrInv'
<1>1. job \in [Callers -> Jobs] /\ bulkhead \in Int /\ bulkhead <= MaxConcurrentRequests
  BY DEF ErrInv, ErrTypeOK, BulkheadExact
<1>2. j.holds \in BOOLEAN /\ job[c].holds \in BOOLEAN
  BY <1>1 DEF Jobs
<1>3. /\ bulkhead' = IF j.holds = job[c].holds THEN bulkhead
                     ELSE IF j.holds THEN bulkhead + 1 ELSE bulkhead - 1
      /\ bulkhead' <= MaxConcurrentRequests
  BY <1>1, <1>2, ErrConstants
<1>4. /\ job' \in [Callers -> Jobs] /\ bulkhead' \in Int
      /\ \A d \in Callers : Placed(job'[d])
      /\ IsFiniteSet(Holding') /\ BulkheadExact'
  BY <1>3, CallerMoves
<1>5. ErrTypeOK'
  BY <1>4 DEF ErrInv, ErrTypeOK
<1>6. AlertOrder'
  BY <1>1 DEF ErrInv, ErrTypeOK, AlertOrder, At
<1> QED BY <1>4, <1>5, <1>6 DEF ErrInv

\* The strategies that only hand the operation on (ExecuteWithRecovery, ExecuteWithRetry,
\* ExecuteWithContext).
LEMMA HandOnKeeps ==
    ASSUME ErrInv, NEW c \in Callers, NEW s \in Services \cup {"retry", "direct"},
           BeginOperation(c, s, [NoJob EXCEPT !.stage = "running"]), UNCHANGED <<bulkhead, cb>>
    PROVE  ErrInv'
<1> DEFINE j == [NoJob EXCEPT !.stage = "running"]
<1>1. j \in Jobs /\ j.stage = "running" /\ ~j.holds
  BY NoJobFacts DEF Jobs, Stages
<1>2. Placed([j EXCEPT !.service = s])
  BY <1>1 DEF Placed, Jobs
<1>3. s \in ServiceNames
  BY DEF ServiceNames
<1>4. BeginOperation(c, s, j)
  OBVIOUS
<1>5. cb' \in [Breakers -> Breaker] /\ bulkhead' = bulkhead /\ bulkhead <= MaxConcurrentRequests
  BY DEF ErrInv, ErrTypeOK, BulkheadExact
<1> HIDE DEF j
<1> QED BY <1>1, <1>2, <1>3, <1>4, <1>5, BeginKeeps

\* The bulkhead takes a place for the operation, or rejects it (executeBulkhead).
LEMMA BulkheadKeeps ==
    ASSUME ErrInv, NEW c \in Callers, executeBulkhead(c)
    PROVE  ErrInv'
<1> DEFINE free == bulkhead < MaxConcurrentRequests
           j == [NoJob EXCEPT !.stage = IF free THEN "running" ELSE "failed", !.holds = free]
<1>1. j \in Jobs /\ j.stage \in {"running", "failed"} /\ j.holds = free
  <2>1. free \in BOOLEAN
    OBVIOUS
  <2> HIDE DEF free
  <2> DEFINE i == [NoJob EXCEPT !.stage = IF free THEN "running" ELSE "failed"]
  <2>2. i \in Jobs /\ i.stage \in {"running", "failed"}
    BY NoJobFacts DEF Jobs, Stages
  <2>3. j = [i EXCEPT !.holds = free]
    OBVIOUS
  <2> HIDE DEF i, j
  <2> QED BY <2>1, <2>2, <2>3 DEF Jobs
<1>2. Placed([j EXCEPT !.service = "bulkhead"])
  BY <1>1, ErrConstants DEF Placed, Jobs
<1>3. "bulkhead" \in ServiceNames
  BY ErrConstants DEF ServiceNames
<1>4. BeginOperation(c, "bulkhead", j) /\ bulkhead' = IF free THEN bulkhead + 1 ELSE bulkhead
  BY DEF executeBulkhead
<1>5. cb' \in [Breakers -> Breaker]
  BY DEF executeBulkhead, ErrInv, ErrTypeOK
<1>6. bulkhead' <= MaxConcurrentRequests
  BY <1>4, ErrConstants DEF ErrInv, ErrTypeOK, BulkheadExact
<1>7. bulkhead' = IF j.holds THEN bulkhead + 1 ELSE bulkhead
  BY <1>1, <1>4
<1> HIDE DEF j
<1> QED BY <1>1, <1>2, <1>3, <1>4, <1>5, <1>6, <1>7, BeginKeeps

\* A breaker lets the operation in or refuses it, or is not asked
\* (ExecuteWithCircuitBreaker).
LEMMA GuardedBeginKeeps ==
    ASSUME ErrInv, NEW c \in Callers, ExecuteWithCircuitBreaker(c) \/ CancelledBefore(c)
    PROVE  ErrInv'
<1>1. PICK n \in Breakers, j \in Jobs :
         /\ BeginOperation(c, n, j)
         /\ j.stage \in {"guarded", "erring"} /\ ~j.holds
         /\ cb' \in [Breakers -> Breaker] /\ bulkhead' = bulkhead
  <2>1. CASE ExecuteWithCircuitBreaker(c)
    <3>1. PICK n \in Breakers :
             LET b == currentState(cb[n], n, clock)
             IN  /\ BeginOperation(c, n, [NoJob EXCEPT !.stage = IF Verdict(n, b) = "run" THEN "guarded" ELSE "erring", !.gen = b.gen])
                 /\ cb' = [cb EXCEPT ![n] = beforeRequest(n, @, clock)] /\ bulkhead' = bulkhead
      BY <2>1 DEF ExecuteWithCircuitBreaker
    <3>2. cb[n] \in Breaker /\ clock \in Nat
      BY DEF ErrInv, ErrTypeOK
    <3>3. currentState(cb[n], n, clock).gen \in Nat
      BY <3>2, CurrentStateFacts DEF Breaker
    <3>4. beforeRequest(n, cb[n], clock) \in Breaker
      BY <3>2, BeforeRequestFacts
    <3>5. cb' \in [Breakers -> Breaker]
      BY <3>1, <3>4 DEF ErrInv, ErrTypeOK
    <3> DEFINE b == currentState(cb[n], n, clock)
               i == [NoJob EXCEPT !.stage = IF Verdict(n, b) = "run" THEN "guarded" ELSE "erring"]
               j == [i EXCEPT !.gen = b.gen]
    <3>6. BeginOperation(c, n, j)
      BY <3>1
    <3> HIDE DEF b
    <3>7. i \in Jobs /\ i.stage \in {"guarded", "erring"} /\ ~i.holds
      BY NoJobFacts DEF Jobs, Stages
    <3> HIDE DEF i
    <3>8. j \in Jobs /\ j.stage \in {"guarded", "erring"} /\ ~j.holds
      BY <3>3, <3>7 DEF Jobs, b
    <3> HIDE DEF j
    <3> QED BY <3>1, <3>5, <3>6, <3>8
  <2>2. CASE CancelledBefore(c)
    <3>1. PICK n \in Breakers : BeginOperation(c, n, [NoJob EXCEPT !.stage = "erring"])
      BY <2>2 DEF CancelledBefore
    <3> DEFINE j == [NoJob EXCEPT !.stage = "erring"]
    <3>2. j \in Jobs /\ j.stage = "erring" /\ ~j.holds
      BY NoJobFacts DEF Jobs, Stages
    <3>3. cb' \in [Breakers -> Breaker] /\ bulkhead' = bulkhead
      BY <2>2 DEF CancelledBefore, ErrInv, ErrTypeOK
    <3> QED BY <3>1, <3>2, <3>3
  <2> QED BY <2>1, <2>2
<1>2. Placed([j EXCEPT !.service = n]) /\ n \in ServiceNames
  BY <1>1 DEF Placed, Jobs, ServiceNames
<1>3. bulkhead <= MaxConcurrentRequests
  BY DEF ErrInv, BulkheadExact
<1> QED BY <1>1, <1>2, <1>3, BeginKeeps

\* The operation returns to its caller, from wherever it is.
LEMMA ReturnKeeps ==
    ASSUME ErrInv, NEW c \in Callers, ReturnToCaller(c),
           bulkhead' = IF job[c].holds THEN bulkhead - 1 ELSE bulkhead,
           UNCHANGED <<clock, started, lastAlert, alerted>>, errors' \in Nat,
           recovery' \in [Services -> RecoveryState], cb' \in [Breakers -> Breaker]
    PROVE  ErrInv'
BY StepKeeps, NoJobFacts DEF ReturnToCaller

\* A guarded operation ends, and its breaker counts the outcome (AfterBreaker).
LEMMA AfterBreakerKeeps ==
    ASSUME ErrInv, NEW c \in Callers, AfterBreaker(c)
    PROVE  ErrInv'
<1> DEFINE n == job[c].service
           bad == CASE n = "database" -> DatabaseFailures [] n = "redis" -> RedisFailures [] OTHER -> KafkaFailures
<1>1. PICK text \in Texts \cup {""} :
         /\ cb' = [cb EXCEPT ![n] = afterRequest(n, @, job[c].gen, text \notin bad, clock)]
         /\ job' = [job EXCEPT ![c] = IF text = "" THEN NoJob ELSE [@ EXCEPT !.stage = "erring", !.gen = 0]]
  BY DEF AfterBreaker
<1>2. At(c, "guarded") /\ UNCHANGED <<clock, started, recovery, bulkhead, errors, lastAlert, alerted>>
  BY DEF AfterBreaker
<1>3. job[c] \in Jobs /\ ~job[c].holds /\ n \in Breakers
  BY <1>2 DEF ErrInv, ErrTypeOK, Placed, At
<1>4. cb[n] \in Breaker /\ clock \in Nat
  BY <1>3 DEF ErrInv, ErrTypeOK
<1>5. afterRequest(n, cb[n], job[c].gen, text \notin bad, clock) \in Breaker
  <2> HIDE DEF bad, n
  <2> DEFINE ok == text \notin bad
  <2>1. ok \in BOOLEAN
    OBVIOUS
  <2> HIDE DEF ok
  <2>2. afterRequest(n, cb[n], job[c].gen, ok, clock) \in Breaker
    BY <1>3, <1>4, <2>1, AfterRequestFacts
  <2> QED BY <2>2 DEF ok
<1>6. cb' \in [Breakers -> Breaker]
  BY <1>1, <1>5 DEF ErrInv, ErrTypeOK
<1>7. CASE text = ""
  BY <1>1, <1>2, <1>3, <1>6, <1>7, ReturnKeeps DEF ReturnToCaller, ErrInv, ErrTypeOK
<1>8. CASE text # ""
  <2> DEFINE i == [job[c] EXCEPT !.stage = "erring"]
             j == [i EXCEPT !.gen = 0]
  <2>1. i \in Jobs /\ i.stage = "erring" /\ ~i.holds
    BY <1>3 DEF Jobs, Stages
  <2>2. job' = [job EXCEPT ![c] = j]
    BY <1>1, <1>8
  <2> HIDE DEF i
  <2>3. j \in Jobs /\ j.stage = "erring" /\ ~j.holds
    BY <2>1 DEF Jobs
  <2> HIDE DEF j
  <2>4. Placed(j)
    BY <2>3 DEF Placed
  <2>5. errors' \in Nat /\ recovery' \in [Services -> RecoveryState]
    BY <1>2 DEF ErrInv, ErrTypeOK
  <2> QED BY <1>2, <1>3, <1>6, <2>2, <2>3, <2>4, <2>5, StepKeeps
<1> QED BY <1>7, <1>8

\* Success, counted as a recovery where the strategy does (Succeed).
LEMMA SucceedKeeps ==
    ASSUME ErrInv, NEW c \in Callers, Succeed(c)
    PROVE  ErrInv'
<1> DEFINE s == job[c].service
<1>1. /\ ReturnToCaller(c) /\ bulkhead' = IF job[c].holds THEN bulkhead - 1 ELSE bulkhead
      /\ UNCHANGED <<clock, started, cb, errors, lastAlert, alerted>>
      /\ recovery' =
            CASE s \in Recovers -> [recovery EXCEPT ![s].recoveries = @ + 1, ![s].lastRecovery = clock]
              [] s = "cache" /\ recovery[s].degraded ->
                    [recovery EXCEPT ![s].degraded = FALSE, ![s].lastRecovery = clock]
              [] OTHER -> recovery
  BY DEF Succeed, Release
<1>2. recovery \in [Services -> RecoveryState] /\ clock \in Nat
  BY DEF ErrInv, ErrTypeOK
<1>3. recovery' \in [Services -> RecoveryState]
  <2>1. CASE s \in Recovers
    <3>1. recovery' = [recovery EXCEPT ![s].recoveries = @ + 1, ![s].lastRecovery = clock]
      BY <1>1, <2>1 DEF Recovers
    <3>2. s \in Services
      BY <2>1, ErrConstants DEF Recovers
    <3> DEFINE x == [recovery[s] EXCEPT !.recoveries = @ + 1]
               y == [x EXCEPT !.lastRecovery = clock]
    <3>3. x \in RecoveryState
      BY <1>2, <3>2 DEF RecoveryState
    <3>4. recovery' = [recovery EXCEPT ![s] = y]
      BY <1>2, <3>1, <3>2
    <3> HIDE DEF x
    <3>5. y \in RecoveryState
      BY <1>2, <3>3 DEF RecoveryState
    <3> QED BY <1>2, <3>2, <3>4, <3>5
  <2>2. CASE s \notin Recovers /\ s = "cache" /\ recovery[s].degraded
    <3>1. recovery' = [recovery EXCEPT ![s].degraded = FALSE, ![s].lastRecovery = clock]
      BY <1>1, <2>2
    <3>2. s \in Services
      BY <2>2, ErrConstants
    <3> DEFINE x == [recovery[s] EXCEPT !.degraded = FALSE]
               y == [x EXCEPT !.lastRecovery = clock]
    <3>3. x \in RecoveryState
      BY <1>2, <3>2 DEF RecoveryState
    <3>4. recovery' = [recovery EXCEPT ![s] = y]
      BY <1>2, <3>1, <3>2
    <3> HIDE DEF x
    <3>5. y \in RecoveryState
      BY <1>2, <3>3 DEF RecoveryState
    <3> QED BY <1>2, <3>2, <3>4, <3>5
  <2>3. CASE s \notin Recovers /\ ~(s = "cache" /\ recovery[s].degraded)
    BY <1>1, <1>2, <2>3
  <2> QED BY <2>1, <2>2, <2>3
<1> QED BY <1>1, <1>3, ReturnKeeps DEF ErrInv, ErrTypeOK

\* Waiting for the backoff, and the next attempt; no bulkhead retries (Backoff, RetryAttempt).
LEMMA RetryKeeps ==
    ASSUME ErrInv, NEW c \in Callers, Backoff(c) \/ RetryAttempt(c)
    PROVE  ErrInv'
<1>1. UNCHANGED <<clock, started, recovery, bulkhead, cb, errors, lastAlert, alerted>>
  BY DEF Backoff, RetryAttempt
<1>2. job \in [Callers -> Jobs] /\ job[c] \in Jobs /\ Placed(job[c])
  BY DEF ErrInv, ErrTypeOK
<1>3. PICK j \in Jobs : job' = [job EXCEPT ![c] = j] /\ Placed(j) /\ j.holds = job[c].holds
                        /\ j.stage # "alerting"
  <2>1. CASE Backoff(c)
    <3> DEFINE j == [job[c] EXCEPT !.stage = "waiting"]
    <3>1. At(c, "running") /\ RetryableTexts(c) # {} /\ job' = [job EXCEPT ![c] = j]
      BY <2>1, <1>2 DEF Backoff
    <3>2. job[c].service \in {"database", "events", "retry", "direct"}
      BY <3>1 DEF RetryableTexts
    <3>3. j \in Jobs /\ j.service = job[c].service /\ j.holds = job[c].holds /\ j.stage = "waiting"
      BY <1>2 DEF Jobs, Stages
    <3> HIDE DEF j
    <3>4. Placed(j)
      BY <1>2, <3>2, <3>3, ErrConstants DEF Placed
    <3> QED BY <3>1, <3>3, <3>4
  <2>2. CASE RetryAttempt(c)
    <3> DEFINE i == [job[c] EXCEPT !.stage = "running"]
               j == [i EXCEPT !.attempt = @ + 1]
    <3>1. At(c, "waiting") /\ job' = [job EXCEPT ![c].stage = "running", ![c].attempt = @ + 1]
      BY <2>2 DEF RetryAttempt
    <3>2. job' = [job EXCEPT ![c] = j]
      BY <1>2, <3>1
    <3>3. i \in Jobs /\ i.service = job[c].service /\ i.holds = job[c].holds /\ i.stage = "running"
      BY <1>2 DEF Jobs, Stages
    <3> HIDE DEF i
    <3>4. j \in Jobs /\ j.service = job[c].service /\ j.holds = job[c].holds /\ j.stage = "running"
      BY <3>3 DEF Jobs
    <3> HIDE DEF j
    <3>5. Placed(j)
      BY <1>2, <3>1, <3>4 DEF Placed, At
    <3> QED BY <3>2, <3>4, <3>5
  <2> QED BY <2>1, <2>2
<1>4. errors' \in Nat /\ recovery' \in [Services -> RecoveryState] /\ cb' \in [Breakers -> Breaker]
  BY <1>1 DEF ErrInv, ErrTypeOK
<1> QED BY <1>1, <1>3, <1>4, StepKeeps

\* The operation fails for good, or its wait is cancelled (Fail, CancelRetry).
LEMMA GiveUpKeeps ==
    ASSUME ErrInv, NEW c \in Callers, Fail(c) \/ CancelRetry(c)
    PROVE  ErrInv'
<1>1. UNCHANGED <<clock, started, recovery, bulkhead, cb, errors, lastAlert, alerted>>
  BY DEF Fail, CancelRetry
<1>2. job \in [Callers -> Jobs] /\ job[c] \in Jobs /\ Placed(job[c])
  BY DEF ErrInv, ErrTypeOK
<1>3. GiveUp(c) /\ (At(c, "running") \/ At(c, "waiting"))
  BY DEF Fail, CancelRetry
<1>4. PICK j \in Jobs : job' = [job EXCEPT ![c] = j] /\ Placed(j) /\ j.holds = job[c].holds
                        /\ j.stage # "alerting"
  <2> DEFINE f == [job[c] EXCEPT !.stage = "failed"]
             e == [job[c] EXCEPT !.stage = "erring"]
  <2>1. f \in Jobs /\ f.stage = "failed" /\ f.service = job[c].service /\ f.holds = job[c].holds
    BY <1>2 DEF Jobs, Stages
  <2>2. e \in Jobs /\ e.stage = "erring" /\ e.service = job[c].service /\ e.holds = job[c].holds
    BY <1>2 DEF Jobs, Stages
  <2>3. /\ job[c].service \in Services => job' = [job EXCEPT ![c] = f]
        /\ job[c].service = "direct" => job' = [job EXCEPT ![c] = NoJob]
        /\ job[c].service \notin Services \cup {"direct"} => job' = [job EXCEPT ![c] = e]
    BY <1>3, ErrConstants DEF GiveUp
  <2> HIDE DEF f, e
  <2>4. CASE job[c].service \in Services
    <3>1. Placed(f)
      BY <1>2, <2>1, <2>4 DEF Placed
    <3> QED BY <2>1, <2>3, <2>4, <3>1
  <2>5. CASE job[c].service = "direct"
    BY <1>2, <2>3, <2>5, NoJobFacts DEF Placed, Jobs
  <2>6. CASE job[c].service \notin Services \cup {"direct"}
    <3>1. ~job[c].holds
      BY <1>2, <2>6, ErrConstants DEF Placed
    <3>2. Placed(e)
      BY <2>2, <3>1 DEF Placed
    <3> QED BY <2>2, <2>3, <2>6, <3>2
  <2> QED BY <2>4, <2>5, <2>6
<1>5. errors' \in Nat /\ recovery' \in [Services -> RecoveryState] /\ cb' \in [Breakers -> Breaker]
  BY <1>1 DEF ErrInv, ErrTypeOK
<1> QED BY <1>1, <1>4, <1>5, StepKeeps

\* The counter of failures is read (updateFailureState, first half).
LEMMA ReadCountKeeps ==
    ASSUME ErrInv, NEW c \in Callers, ReadFailureCount(c)
    PROVE  ErrInv'
<1> DEFINE i == [job[c] EXCEPT !.stage = "counting"]
           j == [i EXCEPT !.count = recovery[job[c].service].failures]
<1>1. At(c, "failed") /\ UNCHANGED <<clock, started, recovery, bulkhead, cb, errors, lastAlert, alerted>>
      /\ job' = [job EXCEPT ![c].stage = "counting", ![c].count = recovery[job[c].service].failures]
  BY DEF ReadFailureCount
<1>2. job \in [Callers -> Jobs] /\ job[c] \in Jobs /\ Placed(job[c])
  BY DEF ErrInv, ErrTypeOK
<1>3. job[c].service \in Services
  BY <1>1, <1>2 DEF Placed, At
<1>4. recovery[job[c].service].failures \in Nat
  BY <1>3 DEF ErrInv, ErrTypeOK, RecoveryState
<1>5. job' = [job EXCEPT ![c] = j]
  BY <1>1, <1>2
<1>6. i \in Jobs /\ i.stage = "counting" /\ i.service = job[c].service /\ i.holds = job[c].holds
  BY <1>2 DEF Jobs, Stages
<1> HIDE DEF i
<1>7. j \in Jobs /\ j.stage = "counting" /\ j.service = job[c].service /\ j.holds = job[c].holds
  BY <1>4, <1>6 DEF Jobs
<1> HIDE DEF j
<1>8. Placed(j)
  BY <1>1, <1>2, <1>7 DEF Placed, At
<1>9. errors' \in Nat /\ recovery' \in [Services -> RecoveryState] /\ cb' \in [Breakers -> Breaker]
  BY <1>1 DEF ErrInv, ErrTypeOK
<1> QED BY <1>1, <1>5, <1>7, <1>8, <1>9, StepKeeps

\* The failure is counted, the strategy answers, and the place of the bulkhead is given
\* back (updateFailureState, second half).
LEMMA CountFailureKeeps ==
    ASSUME ErrInv, NEW c \in Callers, updateFailureState(c)
    PROVE  ErrInv'
<1> DEFINE s == job[c].service
           old == recovery[s]
           first == [old EXCEPT !.failures = job[c].count + 1]
           counted == [first EXCEPT !.lastFailure = clock]
           worse == [counted EXCEPT !.degraded = TRUE]
           since == [worse EXCEPT !.since = clock]
           degrading == IF old.degraded THEN counted ELSE since
           better == [counted EXCEPT !.recoveries = @ + 1]
           recovered == [better EXCEPT !.lastRecovery = clock]
<1>1. /\ At(c, "counting") /\ bulkhead' = IF job[c].holds THEN bulkhead - 1 ELSE bulkhead
      /\ UNCHANGED <<clock, started, cb, errors, lastAlert, alerted>>
  BY DEF updateFailureState, Release
<1>2. job \in [Callers -> Jobs] /\ job[c] \in Jobs /\ Placed(job[c]) /\ clock \in Nat
      /\ recovery \in [Services -> RecoveryState]
  BY DEF ErrInv, ErrTypeOK
<1>3. s \in Services /\ old \in RecoveryState /\ job[c].count \in Nat
  BY <1>1, <1>2 DEF Placed, At, Jobs
<1>4. \/ s = "cache" /\ recovery' = [recovery EXCEPT ![s] = degrading]
         /\ (ReturnToCaller(c) \/ job' = [job EXCEPT ![c].stage = "erring"])
      \/ s = "fallback" /\ recovery' = [recovery EXCEPT ![s] = recovered] /\ ReturnToCaller(c)
      \/ s # "cache" /\ recovery' = [recovery EXCEPT ![s] = counted]
         /\ job' = [job EXCEPT ![c].stage = "erring", ![c].holds = FALSE]
  BY DEF updateFailureState
<1> HIDE DEF s, old
<1>5. first \in RecoveryState
  BY <1>3 DEF RecoveryState
<1> HIDE DEF first
<1>6. counted \in RecoveryState
  BY <1>2, <1>5 DEF RecoveryState
<1> HIDE DEF counted
<1>7. worse \in RecoveryState
  BY <1>6 DEF RecoveryState
<1> HIDE DEF worse
<1>8. since \in RecoveryState
  BY <1>2, <1>7 DEF RecoveryState
<1>9. better \in RecoveryState
  BY <1>6 DEF RecoveryState
<1> HIDE DEF since, better
<1>10. recovered \in RecoveryState
  BY <1>2, <1>9 DEF RecoveryState
<1> HIDE DEF recovered
<1>11. degrading \in RecoveryState
  BY <1>6, <1>8
<1> HIDE DEF degrading
<1>12. recovery' \in [Services -> RecoveryState]
  BY <1>2, <1>3, <1>4, <1>6, <1>10, <1>11
<1>13. errors' \in Nat /\ cb' \in [Breakers -> Breaker]
  BY <1>1 DEF ErrInv, ErrTypeOK
<1>14. CASE ReturnToCaller(c)
  BY <1>1, <1>12, <1>13, <1>14, ReturnKeeps
<1>15. CASE ~ReturnToCaller(c)
  <2>1. PICK j \in Jobs : job' = [job EXCEPT ![c] = j] /\ j.stage = "erring" /\ ~j.holds
    <3> DEFINE e == [job[c] EXCEPT !.stage = "erring"]
               f == [e EXCEPT !.holds = FALSE]
    <3>1. e \in Jobs /\ e.stage = "erring" /\ e.holds = job[c].holds
      BY <1>2 DEF Jobs, Stages
    <3>2. CASE s = "cache"
      <4>1. job' = [job EXCEPT ![c] = e] /\ ~job[c].holds
        BY <1>2, <1>4, <1>15, <3>2 DEF Placed, s
      <4> QED BY <3>1, <4>1
    <3>3. CASE s # "cache"
      <4>1. job' = [job EXCEPT ![c] = f]
        BY <1>2, <1>4, <1>15, <3>3
      <4> HIDE DEF e
      <4>2. f \in Jobs /\ f.stage = "erring" /\ ~f.holds
        BY <3>1 DEF Jobs
      <4> QED BY <4>1, <4>2
    <3> QED BY <3>2, <3>3
  <2>2. Placed(j)
    BY <2>1 DEF Placed
  <2> QED BY <1>1, <1>12, <1>13, <2>1, <2>2, StepKeeps
<1> QED BY <1>14, <1>15

\* An error is logged; the caller goes on to the alert only if the last alert of all
\* callers is a cooldown old (HandleError, LogError, isRateLimited).
LEMMA HandleErrorKeeps ==
    ASSUME ErrInv, NEW c \in Callers, HandleError(c)
    PROVE  ErrInv'
<1> DEFINE i == [job[c] EXCEPT !.stage = "alerting"]
           j == [i EXCEPT !.holds = FALSE]
<1>1. At(c, "erring") /\ UNCHANGED <<clock, started, recovery, bulkhead, cb, lastAlert, alerted>>
      /\ errors' = errors + 1
      /\ IF isRateLimited THEN ReturnToCaller(c)
         ELSE job' = [job EXCEPT ![c].stage = "alerting", ![c].holds = FALSE]
  BY DEF HandleError, LogError, RecordError
<1>2. job \in [Callers -> Jobs] /\ job[c] \in Jobs /\ ~job[c].holds
  BY <1>1 DEF ErrInv, ErrTypeOK, Placed, At
<1>3. errors' \in Nat /\ recovery' \in [Services -> RecoveryState] /\ cb' \in [Breakers -> Breaker]
  BY <1>1 DEF ErrInv, ErrTypeOK
<1>4. CASE isRateLimited
  BY <1>1, <1>2, <1>3, <1>4, ReturnKeeps
<1>5. CASE ~isRateLimited
  <2>1. clock - alerted[c] >= CooldownPeriod
    BY <1>5, ErrConstants DEF isRateLimited, ErrInv, ErrTypeOK, AlertOrder
  <2>2. job' = [job EXCEPT ![c] = j]
    BY <1>1, <1>2, <1>5
  <2>3. i \in Jobs
    BY <1>2 DEF Jobs, Stages
  <2> HIDE DEF i
  <2>4. j \in Jobs /\ j.stage = i.stage /\ ~j.holds
    BY <2>3 DEF Jobs
  <2>5. i.stage = "alerting"
    BY <1>2 DEF i, Jobs
  <2> HIDE DEF j
  <2>6. Placed(j)
    BY <2>4, <2>5 DEF Placed
  <2> QED BY <1>1, <1>2, <1>3, <2>1, <2>2, <2>4, <2>6, StepKeeps
<1> QED BY <1>4, <1>5

\* The alert is sent and its time written for all callers (ProcessError).
LEMMA AlertKeeps ==
    ASSUME ErrInv, NEW c \in Callers, ProcessError(c)
    PROVE  ErrInv' /\ clock - alerted[c] >= CooldownPeriod
<1>1. /\ At(c, "alerting") /\ job' = [job EXCEPT ![c] = NoJob]
      /\ alerted' = [alerted EXCEPT ![c] = clock] /\ lastAlert' = clock
      /\ UNCHANGED <<clock, started, recovery, bulkhead, cb, errors>>
  BY DEF ProcessError, ReturnToCaller
<1>2. job \in [Callers -> Jobs] /\ job[c] \in Jobs /\ ~job[c].holds /\ bulkhead <= MaxConcurrentRequests
  BY <1>1 DEF ErrInv, ErrTypeOK, Placed, At, BulkheadExact
<1>3. /\ job' \in [Callers -> Jobs] /\ bulkhead' \in Int
      /\ \A d \in Callers : Placed(job'[d])
      /\ IsFiniteSet(Holding') /\ BulkheadExact'
  <2>1. job[c].holds = FALSE /\ NoJob.holds = FALSE
    BY <1>2, NoJobFacts DEF Jobs
  <2> QED BY <1>1, <1>2, <2>1, NoJobFacts, CallerMoves
<1>4. ErrTypeOK'
  BY <1>1, <1>3 DEF ErrInv, ErrTypeOK
<1>5. clock - alerted[c] >= CooldownPeriod
  BY <1>1 DEF ErrInv, AlertOrder
<1>6. lastAlert <= clock
  BY DEF ErrInv, AlertOrder
<1>7. AlertOrder'
  BY <1>1, <1>2, <1>6, NoJobFacts DEF ErrInv, ErrTypeOK, AlertOrder, At
<1> QED BY <1>3, <1>4, <1>5, <1>7 DEF ErrInv

\* An error that is handled without an operation (HandleErrorWithRecovery).
LEMMA ReportedErrorKeeps ==
    ASSUME ErrInv, NEW c \in Callers, HandleErrorWithRecovery(c)
    PROVE  ErrInv'
<1> DEFINE i == [NoJob EXCEPT !.stage = "erring"]
           j == [i EXCEPT !.service = "fast"]
<1>1. At(c, "idle") /\ job' = [job EXCEPT ![c] = j] /\ started' = started + 1
      /\ UNCHANGED <<clock, recovery, bulkhead, cb, errors, lastAlert, alerted>>
  BY DEF HandleErrorWithRecovery
<1>2. i \in Jobs /\ i.stage = "erring" /\ ~i.holds
  BY NoJobFacts DEF Jobs, Stages
<1> HIDE DEF i
<1>3. j \in Jobs /\ j.stage = "erring" /\ ~j.holds
  BY <1>2, ErrConstants DEF Jobs, ServiceNames
<1> HIDE DEF j
<1>4. Placed(j)
  BY <1>3 DEF Placed
<1>5. job \in [Callers -> Jobs] /\ job[c] \in Jobs /\ ~job[c].holds /\ bulkhead <= MaxConcurrentRequests
  BY <1>1 DEF ErrInv, ErrTypeOK, Placed, At, BulkheadExact
<1>6. /\ job' \in [Callers -> Jobs] /\ bulkhead' \in Int
      /\ \A d \in Callers : Placed(job'[d])
      /\ IsFiniteSet(Holding') /\ BulkheadExact'
  <2>1. job[c].holds = FALSE /\ j.holds = FALSE
    BY <1>3, <1>5 DEF Jobs
  <2> QED BY <1>1, <1>3, <1>4, <1>5, <2>1, CallerMoves
<1>7. ErrTypeOK'
  BY <1>1, <1>6 DEF ErrInv, ErrTypeOK
<1>8. AlertOrder'
  BY <1>1, <1>3, <1>5 DEF ErrInv, ErrTypeOK, AlertOrder, At
<1> QED BY <1>6, <1>7, <1>8 DEF ErrInv

\* Time passes, and a service's recovery state is reset (PassTime, ResetRecoveryState).
LEMMA ErrBackgroundKeeps ==
    ASSUME ErrInv, PassTime \/ ResetRecoveryState \/ UNCHANGED errVars
    PROVE  ErrInv'
<1>1. UNCHANGED <<bulkhead, cb, errors, started, lastAlert, alerted, job>> /\ clock' \in Nat /\ clock' >= clock
  BY DEF PassTime, ResetRecoveryState, errVars, ErrInv, ErrTypeOK
<1>2. FreshState \in RecoveryState
  BY DEF FreshState, RecoveryState, LongAgo
<1>3. recovery' \in [Services -> RecoveryState]
  BY <1>2 DEF PassTime, ResetRecoveryState, errVars, ErrInv, ErrTypeOK
<1>4. ErrTypeOK'
  BY <1>1, <1>3 DEF ErrInv, ErrTypeOK
<1>5. AlertOrder'
  BY <1>1, ErrConstants DEF ErrInv, ErrTypeOK, AlertOrder, At
<1> QED BY <1>1, <1>4, <1>5 DEF ErrInv, BulkheadExact, Holding

\* In the beginning no place is taken (NewErrorHandler, NewRecoveryManager).
LEMMA ErrInvInit == ErrInit => ErrInv
<1> SUFFICES ASSUME ErrInit
             PROVE  ErrInv
  OBVIOUS
<1>1. FreshState \in RecoveryState
  BY DEF FreshState, RecoveryState, LongAgo
<1>2. cb \in [Breakers -> Breaker]
  BY RegisterFacts DEF ErrInit
<1>3. job = [c \in Callers |-> NoJob] /\ alerted = [c \in Callers |-> LongAgo]
      /\ lastAlert = LongAgo /\ bulkhead = 0 /\ clock = 0
  BY DEF ErrInit, NewErrorLogger
<1>4. ErrTypeOK
  BY <1>1, <1>2, <1>3, NoJobFacts, ErrConstants DEF ErrInit, NewErrorLogger, ErrTypeOK
<1>5. \A c \in Callers : Placed(job[c]) /\ ~job[c].holds /\ job[c].stage = "idle"
  BY <1>3, NoJobFacts
<1>6. Holding = {}
  BY <1>5 DEF Holding
<1>7. IsFiniteSet(Holding) /\ BulkheadExact
  BY <1>3, <1>6, CountEmpty, ErrConstants DEF Holding, BulkheadExact
<1>8. AlertOrder
  BY <1>3, <1>5, ErrConstants DEF AlertOrder, At
<1> QED BY <1>4, <1>5, <1>7, <1>8 DEF ErrInv

\* Every step keeps the invariant, and only ProcessError of a caller moves its alert time.
LEMMA ErrStep ==
    ASSUME ErrInv, [ErrNext]_errVars
    PROVE  ErrInv' /\ \A c \in Callers : alerted'[c] # alerted[c] => clock - alerted[c] >= CooldownPeriod
<1>1. CASE PassTime \/ ResetRecoveryState \/ UNCHANGED errVars
  BY <1>1, ErrBackgroundKeeps DEF PassTime, ResetRecoveryState, errVars
<1>2. ASSUME NEW c \in Callers, ProcessError(c)
      PROVE  ErrInv' /\ \A d \in Callers : alerted'[d] # alerted[d] => clock - alerted[d] >= CooldownPeriod
  <2>1. alerted' = [alerted EXCEPT ![c] = clock] /\ alerted \in [Callers -> Int]
    BY <1>2 DEF ProcessError, ErrInv, ErrTypeOK
  <2> QED BY <1>2, <2>1, AlertKeeps
<1>3. ASSUME NEW c \in Callers,
             \/ executeFailFast(c) \/ executeGracefulDegradation(c) \/ executeFallback(c)
             \/ executeRetryWithBackoff(c) \/ executeCircuitBreaker(c)
             \/ ExecuteWithRetry(c) \/ ExecuteWithContext(c)
      PROVE  ErrInv' /\ alerted' = alerted
  <2>1. PICK s \in Services \cup {"retry", "direct"} :
           BeginOperation(c, s, [NoJob EXCEPT !.stage = "running"]) /\ UNCHANGED <<bulkhead, cb>>
    BY <1>3 DEF executeFailFast, executeGracefulDegradation, executeFallback, executeRetryWithBackoff,
                executeCircuitBreaker, ExecuteWithRecovery, ExecuteWithRetry, ExecuteWithContext
  <2>2. alerted' = alerted
    BY <2>1 DEF BeginOperation
  <2> QED BY <2>1, <2>2, HandOnKeeps
<1>4. ASSUME NEW c \in Callers, executeBulkhead(c) \/ ExecuteWithCircuitBreaker(c) \/ CancelledBefore(c)
      PROVE  ErrInv' /\ alerted' = alerted
  BY <1>4, BulkheadKeeps, GuardedBeginKeeps DEF executeBulkhead, ExecuteWithCircuitBreaker, CancelledBefore, BeginOperation
<1>5. ASSUME NEW c \in Callers, AfterBreaker(c) \/ Succeed(c)
      PROVE  ErrInv' /\ alerted' = alerted
  BY <1>5, AfterBreakerKeeps, SucceedKeeps DEF AfterBreaker, Succeed
<1>6. ASSUME NEW c \in Callers, Panic(c) \/ NoRule(c)
      PROVE  ErrInv' /\ alerted' = alerted
  <2>1. ReturnToCaller(c) /\ UNCHANGED <<clock, started, recovery, cb, errors, lastAlert, alerted>>
    BY <1>6 DEF Panic, NoRule
  <2>2. bulkhead' = IF job[c].holds THEN bulkhead - 1 ELSE bulkhead
    BY <1>6 DEF Panic, NoRule, Release, ErrInv, Placed, At
  <2> QED BY <2>1, <2>2, ReturnKeeps DEF ErrInv, ErrTypeOK
<1>7. ASSUME NEW c \in Callers, Backoff(c) \/ RetryAttempt(c) \/ CancelRetry(c) \/ Fail(c)
      PROVE  ErrInv' /\ alerted' = alerted
  BY <1>7, RetryKeeps, GiveUpKeeps DEF Backoff, RetryAttempt, CancelRetry, Fail
<1>8. ASSUME NEW c \in Callers, ReadFailureCount(c) \/ updateFailureState(c)
      PROVE  ErrInv' /\ alerted' = alerted
  BY <1>8, ReadCountKeeps, CountFailureKeeps DEF ReadFailureCount, updateFailureState
<1>9. ASSUME NEW c \in Callers, HandleError(c) \/ HandleErrorWithRecovery(c)
      PROVE  ErrInv' /\ alerted' = alerted
  BY <1>9, HandleErrorKeeps, ReportedErrorKeeps DEF HandleError, HandleErrorWithRecovery
<1> QED BY <1>1, <1>2, <1>3, <1>4, <1>5, <1>6, <1>7, <1>8, <1>9 DEF ErrNext

(***************************************************************************)
(* BulkheadNeverLeaks: for every number of callers and every size of the   *)
(* bulkhead, its semaphore holds one token for each operation inside and   *)
(* never more than MaxConcurrentRequests, whether operations succeed,      *)
(* fail, panic or are rejected (executeBulkhead of recovery.go).           *)
(***************************************************************************)
THEOREM BulkheadNeverLeaks == ErrInit /\ [][ErrNext]_errVars => []BulkheadExact
<1>1. ErrInit => ErrInv
  BY ErrInvInit
<1>2. ErrInv /\ [ErrNext]_errVars => ErrInv'
  BY ErrStep
<1>3. ErrInv => BulkheadExact
  BY DEF ErrInv
<1> QED BY <1>1, <1>2, <1>3, PTL

(***************************************************************************)
(* AlertStormsBounded: for every set of callers and every cooldown, two    *)
(* alerts of one caller are at least a cooldown apart, although the map of *)
(* alert times is checked in one step and written in another               *)
(* (isRateLimited, ProcessError of logging.go).                            *)
(***************************************************************************)
THEOREM AlertStormsBounded == ErrInit /\ [][ErrNext]_errVars => AlertsPerCaller
<1>1. ErrInit => ErrInv
  BY ErrInvInit
<1>2. ErrInv /\ [ErrNext]_errVars => ErrInv'
  BY ErrStep
<1>3. ErrInv /\ [ErrNext]_errVars =>
         [\A c \in Callers : alerted'[c] # alerted[c] => clock - alerted[c] >= CooldownPeriod]_errVars
  BY ErrStep
<1> QED BY <1>1, <1>2, <1>3, PTL DEF AlertsPerCaller

-----------------------------------------------------------------------------
(***************************************************************************)
(* The chain of interceptors: the types, and what a request has got at     *)
(* each stage.  It has no generation of a breaker before that breaker let  *)
(* it in, and no code before the handler ended.                            *)
(***************************************************************************)
RequestStages == {"idle", "limited", "refused", "handler", "database", "handled", "answered"}

AnswerCodes == {"ResourceExhausted", "Unauthenticated", "Unavailable", "Internal", "OK", "Undecoded"}

RequestStates ==
    [stage : RequestStages, client : Senders \cup {""}, method : Methods \cup {""}, cred : {"", "key", "jwt"},
     at : Nat, by : {"", "redis", "fallback"}, gen : Nat, dbgen : Nat, dbfailed : BOOLEAN,
     code : AnswerCodes \cup {"", "panic"}]

Shaped(q) ==
    /\ q.stage \in {"idle", "limited", "refused"} => q.gen = 0
    /\ q.stage \in {"idle", "limited", "refused", "handler"} => q.dbgen = 0
    /\ q.stage \in {"idle", "limited", "refused", "handler", "database"} => ~q.dbfailed /\ q.code = ""
    /\ q.stage = "handled" => q.code \in {"OK", "panic"}

PipelineTypeOK ==
    /\ now \in Nat
    /\ zset \in [Senders -> SUBSET Nat]
    /\ tokens \in Nat
    /\ breakers \in [Breakers -> Breaker]
    /\ inFlight \in Int /\ total \in Int
    /\ req \in [Requests -> RequestStates]

Busy == {r \in Requests : req[r].stage # "idle"}

PipelineShape ==
    /\ PipelineTypeOK
    /\ \A r \in Requests : Shaped(req[r])
    /\ IsFiniteSet(Busy)

\* What the constants are.
LEMMA PipelineConstants ==
    /\ Calls \subseteq Methods \X {"", "key", "jwt"}
    /\ "grpc-handler" \in Breakers /\ "database" \in Breakers
    /\ RequestsPerSecond \in Nat \ {0} /\ BurstSize \in Nat \ {0} /\ WindowSize \in Nat \ {0}
BY PipelineAssumption

\* A request that did not come yet (NoRequest).
LEMMA NoRequestFacts ==
    /\ NoRequest \in RequestStates /\ Shaped(NoRequest)
    /\ NoRequest.gen = 0 /\ NoRequest.dbgen = 0 /\ NoRequest.dbfailed = FALSE
    /\ NoRequest.code = "" /\ NoRequest.by = "" /\ NoRequest.at = 0
BY DEF NoRequest, RequestStates, RequestStages, Shaped

\* The parts of a request that a step of the chain leaves alone.
SameOrigin(r) ==
    req'[r].client = req[r].client /\ req'[r].at = req[r].at /\ req'[r].by = req[r].by

Others(r) == \A s \in Requests \ {r} : req'[s] = req[s]

-----------------------------------------------------------------------------
(***************************************************************************)
(* What a step of the chain is, apart from the data it carries: the        *)
(* request r comes in, moves inside, or leaves with a code; a breaker is   *)
(* untouched, looked at in vain, entered by r, or told the outcome of r.   *)
(***************************************************************************)
ComesIn(r) ==
    /\ req[r].stage = "idle" /\ req'[r].stage \in {"limited", "refused"}
    /\ req'[r].gen = 0 /\ req'[r].dbgen = 0 /\ req'[r].code = ""
    /\ inFlight' = inFlight + 1 /\ UNCHANGED total

MovesInside(r) ==
    /\ Inside(r) /\ req'[r].stage \in {"handler", "database", "handled"}
    /\ req'[r].code \in {"", "OK", "panic"}
    /\ SameOrigin(r) /\ UNCHANGED <<inFlight, total>>

Leaves(r, code) ==
    /\ Inside(r) /\ req'[r].stage = "answered" /\ req'[r].code = code
    /\ SameOrigin(r)
    /\ inFlight' = inFlight - 1
    /\ total' = IF code = "Internal" THEN total ELSE total + 1

GenOf(n, r) == IF n = "database" THEN req[r].dbgen ELSE req[r].gen

Untouched(n, r) ==
    /\ breakers'[n] = breakers[n] /\ GenOf(n, r)' = GenOf(n, r)
    /\ GenOf(n, r) # 0 => (Ended(n, r) /\ Bad(n, r))' = (Ended(n, r) /\ Bad(n, r))

LookedAt(n, r) ==
    /\ breakers'[n] = currentState(breakers[n], n, now)
    /\ GenOf(n, r)' = 0 /\ GenOf(n, r) = 0

EnteredBy(n, r) ==
    LET c == currentState(breakers[n], n, now)
    IN  /\ breakers'[n].gen = c.gen /\ breakers'[n].req = c.req + 1 /\ breakers'[n].fail = c.fail
        /\ GenOf(n, r) = 0 /\ GenOf(n, r)' = c.gen /\ ~(Ended(n, r) /\ Bad(n, r))'

ToldBy(n, r) ==
    /\ GenOf(n, r)' = GenOf(n, r)
    /\ ~(Ended(n, r) /\ Bad(n, r))
    /\ \E ok \in BOOLEAN :
          /\ breakers'[n] = afterRequest(n, breakers[n], GenOf(n, r), ok, now)
          /\ (Ended(n, r) /\ Bad(n, r))' = ~ok

BreakerMove(n, r) == Untouched(n, r) \/ LookedAt(n, r) \/ EnteredBy(n, r) \/ ToldBy(n, r)

\* What every step of a request does to the chain and to both breakers.
RequestMove(r) ==
    /\ PipelineShape' /\ Others(r)
    /\ BreakerMove("grpc-handler", r) /\ BreakerMove("database", r)
    /\ \/ ComesIn(r) \/ MovesInside(r)
       \/ \E code \in AnswerCodes \ {"Undecoded"} : Leaves(r, code)
       \/ /\ req[r].stage = "idle" /\ req'[r].stage = "answered" /\ req'[r].code = "Undecoded"
          /\ req'[r].by = "" /\ UNCHANGED <<inFlight, total>>

\* One request moves, and the others stay where they are.
LEMMA OneMoves ==
    ASSUME PipelineShape, NEW r \in Requests, NEW q \in RequestStates, Shaped(q), q.stage # "idle",
           req' = [req EXCEPT ![r] = q]
    PROVE  /\ req' \in [Requests -> RequestStates] /\ req'[r] = q /\ Others(r)
           /\ \A s \in Requests : Shaped(req'[s])
           /\ IsFiniteSet(Busy')
<1>1. req \in [Requests -> RequestStates]
  BY DEF PipelineShape, PipelineTypeOK
<1>2. req' \in [Requests -> RequestStates] /\ req'[r] = q /\ Others(r)
  BY <1>1 DEF Others
<1>3. \A s \in Requests : Shaped(req'[s])
  BY <1>2 DEF PipelineShape, Others
<1>4. Busy' = Busy \cup {r}
  BY <1>2 DEF Busy, Others
<1>5. IsFiniteSet(Busy')
  BY <1>4, FS_AddElement DEF PipelineShape
<1> QED BY <1>2, <1>3, <1>5

\* A message that does not decode (DecodingFails).
LEMMA DecodingMoves ==
    ASSUME PipelineShape, NEW r \in Requests, DecodingFails(r)
    PROVE  /\ PipelineShape' /\ Others(r) /\ req[r].stage = "idle"
           /\ req'[r].stage = "answered" /\ req'[r].code = "Undecoded" /\ req'[r].by = ""
           /\ req'[r].gen = 0 /\ req'[r].dbgen = 0 /\ req'[r].at = 0
           /\ UNCHANGED <<now, zset, tokens, breakers, inFlight, total>>
<1> DEFINE i == [NoRequest EXCEPT !.stage = "answered"]
           q == [i EXCEPT !.code = "Undecoded"]
<1>1. req[r].stage = "idle" /\ req' = [req EXCEPT ![r] = q]
      /\ UNCHANGED <<now, zset, tokens, breakers, inFlight, total>>
  BY DEF DecodingFails
<1>2. i \in RequestStates /\ i.stage = "answered" /\ i.gen = 0 /\ i.dbgen = 0 /\ i.by = "" /\ i.at = 0
  BY NoRequestFacts DEF RequestStates, RequestStages
<1> HIDE DEF i
<1>3. q \in RequestStates /\ q.stage = "answered" /\ q.gen = 0 /\ q.dbgen = 0 /\ q.by = "" /\ q.at = 0 /\ q.code = "Undecoded"
  BY <1>2 DEF RequestStates, AnswerCodes
<1> HIDE DEF q
<1>4. Shaped(q)
  BY <1>3 DEF Shaped
<1>5. /\ req' \in [Requests -> RequestStates] /\ req'[r] = q /\ Others(r)
      /\ \A s \in Requests : Shaped(req'[s])
      /\ IsFiniteSet(Busy')
  BY <1>1, <1>3, <1>4, OneMoves
<1>6. PipelineShape'
  BY <1>1, <1>5 DEF PipelineShape, PipelineTypeOK
<1> QED BY <1>1, <1>3, <1>5, <1>6

\* A request enters the chain, past one of the limiters or refused by it (Enter).
LEMMA EnterIsMove ==
    ASSUME PipelineShape, NEW r \in Requests, NEW call \in Calls, NEW c \in Senders,
           NEW stage \in {"limited", "refused"}, NEW by \in {"redis", "fallback"},
           Enter(r, call, c, stage, by),
           zset' \in [Senders -> SUBSET Nat], tokens' \in Nat
    PROVE  /\ RequestMove(r) /\ ComesIn(r) /\ now' = now
           /\ req'[r].stage = stage /\ req'[r].by = by /\ req'[r].client = c /\ req'[r].at = now
<1> DEFINE i == [NoRequest EXCEPT !.stage = stage]
           j == [i EXCEPT !.client = c]
           k == [j EXCEPT !.at = now]
           l == [k EXCEPT !.by = by]
           m == [l EXCEPT !.method = call[1]]
           q == [m EXCEPT !.cred = call[2]]
<1>1. req[r].stage = "idle" /\ req' = [req EXCEPT ![r] = q]
      /\ inFlight' = inFlight + 1 /\ UNCHANGED <<now, breakers, total>>
  BY DEF Enter
<1>2. call[1] \in Methods /\ call[2] \in {"", "key", "jwt"} /\ now \in Nat
  BY PipelineConstants DEF PipelineShape, PipelineTypeOK
<1>3. i \in RequestStates /\ i.stage = stage
      /\ i.gen = 0 /\ i.dbgen = 0 /\ i.dbfailed = FALSE /\ i.code = ""
  BY NoRequestFacts DEF RequestStates, RequestStages
<1> HIDE DEF i
<1>3a. j \in RequestStates /\ j.stage = stage /\ j.client = c
       /\ j.gen = 0 /\ j.dbgen = 0 /\ j.dbfailed = FALSE /\ j.code = ""
  BY <1>3 DEF RequestStates
<1> HIDE DEF j
<1>3b. k \in RequestStates /\ k.stage = stage /\ k.client = c /\ k.at = now
       /\ k.gen = 0 /\ k.dbgen = 0 /\ k.dbfailed = FALSE /\ k.code = ""
  BY <1>2, <1>3a DEF RequestStates
<1> HIDE DEF k
<1>3c. l \in RequestStates /\ l.stage = stage /\ l.client = c /\ l.at = now /\ l.by = by
       /\ l.gen = 0 /\ l.dbgen = 0 /\ l.dbfailed = FALSE /\ l.code = ""
  BY <1>3b DEF RequestStates
<1> HIDE DEF l
<1>3d. m \in RequestStates /\ m.stage = stage /\ m.client = c /\ m.at = now /\ m.by = by
       /\ m.gen = 0 /\ m.dbgen = 0 /\ m.dbfailed = FALSE /\ m.code = ""
  BY <1>2, <1>3c DEF RequestStates
<1> HIDE DEF m
<1>3e. q \in RequestStates /\ q.stage = stage /\ q.client = c /\ q.at = now /\ q.by = by
       /\ q.gen = 0 /\ q.dbgen = 0 /\ q.dbfailed = FALSE /\ q.code = ""
  BY <1>2, <1>3d DEF RequestStates
<1> HIDE DEF q
<1>4. Shaped(q)
  BY <1>3e DEF Shaped
<1>5. /\ req' \in [Requests -> RequestStates] /\ req'[r] = q /\ Others(r)
      /\ \A s \in Requests : Shaped(req'[s])
      /\ IsFiniteSet(Busy')
  BY <1>1, <1>3e, <1>4, OneMoves
<1>6. req[r].gen = 0 /\ req[r].dbgen = 0
  BY <1>1 DEF PipelineShape, Shaped
<1>7. Untouched("grpc-handler", r) /\ Untouched("database", r)
  BY <1>1, <1>3e, <1>5, <1>6 DEF Untouched, GenOf
<1>8. inFlight \in Int /\ total \in Int /\ now \in Nat /\ breakers \in [Breakers -> Breaker]
  BY DEF PipelineShape, PipelineTypeOK
<1>9. PipelineTypeOK'
  BY <1>1, <1>5, <1>8 DEF PipelineTypeOK
<1>10. PipelineShape'
  BY <1>5, <1>9 DEF PipelineShape
<1>11. ComesIn(r)
  BY <1>1, <1>3e, <1>5 DEF ComesIn
<1> QED BY <1>1, <1>3e, <1>5, <1>7, <1>10, <1>11 DEF RequestMove, BreakerMove

\* A request leaves the chain with a code (Leave).
LEMMA LeaveMoves ==
    ASSUME PipelineShape, NEW r \in Requests, NEW code \in AnswerCodes, Leave(r, code)
    PROVE  /\ req' \in [Requests -> RequestStates] /\ \A s \in Requests : Shaped(req'[s])
           /\ IsFiniteSet(Busy') /\ Others(r) /\ SameOrigin(r)
           /\ req'[r].stage = "answered" /\ req'[r].code = code
           /\ req'[r].gen = req[r].gen /\ req'[r].dbgen = req[r].dbgen /\ req'[r].dbfailed = req[r].dbfailed
           /\ inFlight' = inFlight - 1
           /\ total' = IF code = "Internal" THEN total ELSE total + 1
<1> DEFINE i == [req[r] EXCEPT !.stage = "answered"]
           j == [i EXCEPT !.code = code]
           k == [j EXCEPT !.method = ""]
           q == [k EXCEPT !.cred = ""]
           Same(x) == x.client = req[r].client /\ x.at = req[r].at /\ x.by = req[r].by /\ x.gen = req[r].gen
                      /\ x.dbgen = req[r].dbgen /\ x.dbfailed = req[r].dbfailed /\ x.stage = "answered"
<1>1. req \in [Requests -> RequestStates] /\ req[r] \in RequestStates
  BY DEF PipelineShape, PipelineTypeOK
<1>2. /\ req' = [req EXCEPT ![r].stage = "answered", ![r].code = code, ![r].method = "", ![r].cred = ""]
      /\ inFlight' = inFlight - 1 /\ total' = IF code = "Internal" THEN total ELSE total + 1
  BY DEF Leave
<1>3. req' = [req EXCEPT ![r] = q]
  BY <1>1, <1>2
<1>4. i \in RequestStates /\ Same(i)
  BY <1>1 DEF RequestStates, RequestStages
<1> HIDE DEF i
<1>4a. j \in RequestStates /\ Same(j) /\ j.code = code
  BY <1>4 DEF RequestStates
<1> HIDE DEF j
<1>4b. k \in RequestStates /\ Same(k) /\ k.code = code
  BY <1>4a DEF RequestStates
<1> HIDE DEF k
<1>4c. q \in RequestStates /\ Same(q) /\ q.code = code
  BY <1>4b DEF RequestStates
<1> HIDE DEF q
<1>5. Shaped(q)
  BY <1>4c DEF Shaped
<1>6. /\ req' \in [Requests -> RequestStates] /\ req'[r] = q /\ Others(r)
      /\ \A s \in Requests : Shaped(req'[s])
      /\ IsFiniteSet(Busy')
  BY <1>3, <1>4c, <1>5, OneMoves
<1> QED BY <1>2, <1>4c, <1>6 DEF SameOrigin

\* A breaker lets the request in: it moves on with the generation of the breaker (Execute).
LEMMA RunMoves ==
    ASSUME PipelineShape, NEW r \in Requests, NEW g \in Nat,
           \/ /\ req[r].stage = "limited"
              /\ req' = [req EXCEPT ![r].stage = "handler", ![r]["gen"] = g]
           \/ /\ req[r].stage = "handler"
              /\ req' = [req EXCEPT ![r].stage = "database", ![r]["dbgen"] = g]
    PROVE  /\ req' \in [Requests -> RequestStates] /\ \A s \in Requests : Shaped(req'[s])
           /\ IsFiniteSet(Busy') /\ Others(r) /\ SameOrigin(r) /\ req'[r].code = ""
           /\ ~req'[r].dbfailed /\ ~req[r].dbfailed
           /\ req[r].stage = "limited" =>
                 req'[r].stage = "handler" /\ req'[r].gen = g /\ req[r].gen = 0 /\ req'[r].dbgen = req[r].dbgen
           /\ req[r].stage = "handler" =>
                 req'[r].stage = "database" /\ req'[r].dbgen = g /\ req[r].dbgen = 0 /\ req'[r].gen = req[r].gen
<1>1. req \in [Requests -> RequestStates] /\ req[r] \in RequestStates /\ Shaped(req[r])
  BY DEF PipelineShape, PipelineTypeOK
<1>2. CASE req[r].stage = "limited"
  <2> DEFINE i == [req[r] EXCEPT !.stage = "handler"]
             q == [i EXCEPT !.gen = g]
  <2>1. req' = [req EXCEPT ![r] = q]
    BY <1>1, <1>2
  <2>2. i \in RequestStates /\ i.stage = "handler" /\ i.client = req[r].client /\ i.at = req[r].at
        /\ i.by = req[r].by /\ i.dbgen = req[r].dbgen /\ i.code = "" /\ ~i.dbfailed
    BY <1>1, <1>2 DEF RequestStates, RequestStages, Shaped
  <2> HIDE DEF i
  <2>3. q \in RequestStates /\ q.stage = "handler" /\ q.client = req[r].client /\ q.at = req[r].at
        /\ q.by = req[r].by /\ q.dbgen = req[r].dbgen /\ q.code = "" /\ ~q.dbfailed /\ q.gen = g
    BY <2>2 DEF RequestStates
  <2> HIDE DEF q
  <2>4. Shaped(q)
    BY <1>1, <1>2, <2>3 DEF Shaped
  <2>5. /\ req' \in [Requests -> RequestStates] /\ req'[r] = q /\ Others(r)
        /\ \A s \in Requests : Shaped(req'[s])
        /\ IsFiniteSet(Busy')
    BY <2>1, <2>3, <2>4, OneMoves
  <2> QED BY <1>1, <1>2, <2>3, <2>5 DEF SameOrigin, Shaped
<1>3. CASE req[r].stage = "handler"
  <2> DEFINE i == [req[r] EXCEPT !.stage = "database"]
             q == [i EXCEPT !.dbgen = g]
  <2>1. req' = [req EXCEPT ![r] = q]
    BY <1>1, <1>3
  <2>2. i \in RequestStates /\ i.stage = "database" /\ i.client = req[r].client /\ i.at = req[r].at
        /\ i.by = req[r].by /\ i.gen = req[r].gen /\ i.code = "" /\ ~i.dbfailed
    BY <1>1, <1>3 DEF RequestStates, RequestStages, Shaped
  <2> HIDE DEF i
  <2>3. q \in RequestStates /\ q.stage = "database" /\ q.client = req[r].client /\ q.at = req[r].at
        /\ q.by = req[r].by /\ q.gen = req[r].gen /\ q.code = "" /\ ~q.dbfailed /\ q.dbgen = g
    BY <2>2 DEF RequestStates
  <2> HIDE DEF q
  <2>4. Shaped(q)
    BY <2>3 DEF Shaped
  <2>5. /\ req' \in [Requests -> RequestStates] /\ req'[r] = q /\ Others(r)
        /\ \A s \in Requests : Shaped(req'[s])
        /\ IsFiniteSet(Busy')
    BY <2>1, <2>3, <2>4, OneMoves
  <2> QED BY <1>1, <1>3, <2>3, <2>5 DEF SameOrigin, Shaped
<1> QED BY <1>2, <1>3

\* The handler ends without a statement of its own (Handled).
LEMMA HandledMoves ==
    ASSUME PipelineShape, NEW r \in Requests, req[r].stage = "handler",
           NEW o \in {"OK", "panic"}, Handled(r, o)
    PROVE  /\ req' \in [Requests -> RequestStates] /\ \A s \in Requests : Shaped(req'[s])
           /\ IsFiniteSet(Busy') /\ Others(r) /\ SameOrigin(r)
           /\ req'[r].stage = "handled" /\ req'[r].code = o /\ ~req'[r].dbfailed
           /\ req'[r].gen = req[r].gen /\ req'[r].dbgen = 0 /\ req[r].dbgen = 0
           /\ UNCHANGED <<inFlight, total>>
<1> DEFINE i == [req[r] EXCEPT !.stage = "handled"]
           q == [i EXCEPT !.code = o]
<1>1. req \in [Requests -> RequestStates] /\ req[r] \in RequestStates /\ Shaped(req[r])
  BY DEF PipelineShape, PipelineTypeOK
<1>2. req' = [req EXCEPT ![r].stage = "handled", ![r].code = o] /\ UNCHANGED <<inFlight, total>>
  BY DEF Handled
<1>3. req' = [req EXCEPT ![r] = q]
  BY <1>1, <1>2
<1>4. i \in RequestStates /\ i.stage = "handled" /\ i.client = req[r].client /\ i.at = req[r].at
      /\ i.by = req[r].by /\ i.gen = req[r].gen /\ i.dbgen = req[r].dbgen /\ ~i.dbfailed
  BY <1>1 DEF RequestStates, RequestStages, Shaped
<1> HIDE DEF i
<1>5. q \in RequestStates /\ q.stage = "handled" /\ q.client = req[r].client /\ q.at = req[r].at
      /\ q.by = req[r].by /\ q.gen = req[r].gen /\ q.dbgen = req[r].dbgen /\ ~q.dbfailed /\ q.code = o
  BY <1>4 DEF RequestStates, AnswerCodes
<1> HIDE DEF q
<1>6. Shaped(q)
  BY <1>5 DEF Shaped
<1>7. /\ req' \in [Requests -> RequestStates] /\ req'[r] = q /\ Others(r)
      /\ \A s \in Requests : Shaped(req'[s])
      /\ IsFiniteSet(Busy')
  BY <1>3, <1>5, <1>6, OneMoves
<1> QED BY <1>1, <1>2, <1>5, <1>7 DEF SameOrigin, Shaped

EndsWith(r, outcome) ==
    req' = [req EXCEPT ![r].stage = "handled", ![r].dbfailed = (outcome # "ok"),
                       ![r].code = IF outcome = "panic" THEN "panic" ELSE "OK"]

\* The statement ends, and the database breaker counts its outcome (Statement).
LEMMA StatementMoves ==
    ASSUME PipelineShape, NEW r \in Requests, req[r].stage = "database",
           NEW outcome \in {"ok", "error", "panic"}, EndsWith(r, outcome)
    PROVE  /\ req' \in [Requests -> RequestStates] /\ \A s \in Requests : Shaped(req'[s])
           /\ IsFiniteSet(Busy') /\ Others(r) /\ SameOrigin(r)
           /\ req'[r].stage = "handled" /\ req'[r].dbfailed = (outcome # "ok")
           /\ req'[r].code = IF outcome = "panic" THEN "panic" ELSE "OK"
           /\ req'[r].gen = req[r].gen /\ req'[r].dbgen = req[r].dbgen /\ ~req[r].dbfailed
<1> DEFINE bad == (outcome # "ok")
           code == IF outcome = "panic" THEN "panic" ELSE "OK"
           i == [req[r] EXCEPT !.stage = "handled"]
           j == [i EXCEPT !.dbfailed = bad]
           q == [j EXCEPT !.code = code]
<1>1. req \in [Requests -> RequestStates] /\ req[r] \in RequestStates /\ Shaped(req[r])
  BY DEF PipelineShape, PipelineTypeOK
<1>2. req' = [req EXCEPT ![r] = q]
  BY <1>1 DEF EndsWith
<1>3. bad \in BOOLEAN /\ code \in {"OK", "panic"}
  OBVIOUS
<1>4. i \in RequestStates /\ i.stage = "handled" /\ i.client = req[r].client /\ i.at = req[r].at
      /\ i.by = req[r].by /\ i.gen = req[r].gen /\ i.dbgen = req[r].dbgen
  BY <1>1 DEF RequestStates, RequestStages
<1> HIDE DEF i, bad, code
<1>5. j \in RequestStates /\ j.stage = "handled" /\ j.client = req[r].client /\ j.at = req[r].at
      /\ j.by = req[r].by /\ j.gen = req[r].gen /\ j.dbgen = req[r].dbgen /\ j.dbfailed = bad
  BY <1>3, <1>4 DEF RequestStates
<1> HIDE DEF j
<1>6. q \in RequestStates /\ q.stage = "handled" /\ q.client = req[r].client /\ q.at = req[r].at
      /\ q.by = req[r].by /\ q.gen = req[r].gen /\ q.dbgen = req[r].dbgen /\ q.dbfailed = bad /\ q.code = code
  BY <1>3, <1>5 DEF RequestStates, AnswerCodes
<1> HIDE DEF q
<1>7. Shaped(q)
  BY <1>3, <1>6 DEF Shaped
<1>8. /\ req' \in [Requests -> RequestStates] /\ req'[r] = q /\ Others(r)
      /\ \A s \in Requests : Shaped(req'[s])
      /\ IsFiniteSet(Busy')
  BY <1>2, <1>6, <1>7, OneMoves
<1>9. ~req[r].dbfailed
  BY <1>1 DEF Shaped
<1> QED BY <1>6, <1>8, <1>9 DEF SameOrigin, bad, code

\* Decoding fails (DecodingFails).
LEMMA DecodingIsMove ==
    ASSUME PipelineShape, NEW r \in Requests, DecodingFails(r)
    PROVE  RequestMove(r) /\ UNCHANGED <<now, zset, tokens>>
<1>1. req[r].gen = 0 /\ req[r].dbgen = 0
  BY DecodingMoves DEF PipelineShape, Shaped
<1>2. Untouched("grpc-handler", r) /\ Untouched("database", r)
  BY <1>1, DecodingMoves DEF Untouched, GenOf
<1> QED BY <1>2, DecodingMoves DEF RequestMove, BreakerMove

\* A request leaves that no breaker has seen (RateLimitExceeded, Unauthenticated).
LEMMA TurnedAwayIsMove ==
    ASSUME PipelineShape, NEW r \in Requests, NEW code \in AnswerCodes \ {"Undecoded"}, Leave(r, code),
           req[r].stage \in {"limited", "refused"}, UNCHANGED <<now, zset, tokens, breakers>>
    PROVE  RequestMove(r)
<1>1. req[r].gen = 0 /\ req[r].dbgen = 0
  BY DEF PipelineShape, Shaped
<1>2. Untouched("grpc-handler", r) /\ Untouched("database", r)
  BY <1>1, LeaveMoves DEF Untouched, GenOf
<1>3. PipelineShape'
  BY LeaveMoves DEF PipelineShape, PipelineTypeOK
<1>4. Leaves(r, code) /\ Others(r)
  BY LeaveMoves DEF Leaves, Inside
<1> QED BY <1>2, <1>3, <1>4 DEF RequestMove, BreakerMove

\* The outer breaker lets a request in, or turns it away (EnterHandler).
LEMMA EnterHandlerIsMove ==
    ASSUME PipelineShape, NEW r \in Requests, EnterHandler(r)
    PROVE  RequestMove(r)
<1> DEFINE n == "grpc-handler"
           c == currentState(breakers[n], n, now)
           d == beforeRequest(n, breakers[n], now)
           code == IF c.state = "open" THEN "Unavailable" ELSE "ResourceExhausted"
<1>1. req[r].stage = "limited" /\ UNCHANGED <<now, zset, tokens>>
      /\ breakers' = [breakers EXCEPT ![n] = d]
      /\ IF Verdict(n, c) = "run"
         THEN req' = [req EXCEPT ![r].stage = "handler", ![r]["gen"] = c.gen] /\ UNCHANGED <<inFlight, total>>
         ELSE Leave(r, code)
  BY DEF EnterHandler, Execute, BreakerRefusal
<1>2. breakers \in [Breakers -> Breaker] /\ breakers[n] \in Breaker /\ n \in Breakers /\ now \in Nat
  BY PipelineConstants DEF PipelineShape, PipelineTypeOK
<1>3. d \in Breaker /\ d.gen = c.gen /\ d.fail = c.fail
      /\ d.req = IF Verdict(n, c) = "run" THEN c.req + 1 ELSE c.req
  BY <1>2, BeforeRequestFacts
<1>4. c \in Breaker /\ (Verdict(n, c) # "run" => d = c)
  BY <1>2, CurrentStateFacts DEF beforeRequest
<1>5. breakers' \in [Breakers -> Breaker] /\ breakers'[n] = d /\ breakers'["database"] = breakers["database"]
  BY <1>1, <1>2, <1>3, PipelineConstants
<1>6. req[r].gen = 0 /\ req[r].dbgen = 0
  BY <1>1 DEF PipelineShape, Shaped
<1>7. c.gen \in Nat
  BY <1>4 DEF Breaker
<1>8. CASE Verdict(n, c) = "run"
  <2>1. req' = [req EXCEPT ![r].stage = "handler", ![r]["gen"] = c.gen] /\ UNCHANGED <<inFlight, total>>
    BY <1>1, <1>8
  <2> HIDE DEF c, d
  <2>2. /\ req' \in [Requests -> RequestStates] /\ \A s \in Requests : Shaped(req'[s])
        /\ IsFiniteSet(Busy') /\ Others(r) /\ SameOrigin(r) /\ req'[r].code = ""
        /\ req'[r].stage = "handler" /\ req'[r].gen = c.gen /\ req'[r].dbgen = 0
    BY <1>1, <1>6, <1>7, <2>1, RunMoves
  <2>3. PipelineShape'
    BY <1>1, <1>5, <2>1, <2>2 DEF PipelineShape, PipelineTypeOK
  <2>4. Untouched("database", r)
    BY <1>5, <1>6, <2>2 DEF Untouched, GenOf
  <2>5. EnteredBy(n, r)
    BY <1>3, <1>5, <1>6, <1>8, <2>2 DEF EnteredBy, GenOf, Ended, Bad, c
  <2>6. MovesInside(r)
    BY <1>1, <2>1, <2>2 DEF MovesInside, Inside
  <2> QED BY <2>2, <2>3, <2>4, <2>5, <2>6 DEF RequestMove, BreakerMove
<1>9. CASE Verdict(n, c) # "run"
  <2>1. Leave(r, code) /\ code \in AnswerCodes \ {"Undecoded"}
    BY <1>1, <1>9 DEF AnswerCodes
  <2> HIDE DEF code
  <2>2. PipelineShape'
    BY <1>1, <1>5, <2>1, LeaveMoves DEF PipelineShape, PipelineTypeOK
  <2>3. Untouched("database", r)
    BY <1>5, <1>6, <2>1, LeaveMoves DEF Untouched, GenOf
  <2>4. LookedAt(n, r)
    BY <1>4, <1>5, <1>6, <1>9, <2>1, LeaveMoves DEF LookedAt, GenOf
  <2>5. Leaves(r, code) /\ Others(r)
    BY <1>1, <2>1, LeaveMoves DEF Leaves, Inside
  <2> QED BY <2>1, <2>2, <2>3, <2>4, <2>5 DEF RequestMove, BreakerMove
<1> QED BY <1>8, <1>9

\* The handlers that run no statement (HealthCheck, Authenticate, ValidateToken,
\* RefreshToken, RevokeToken).
LEMMA ServeIsMove ==
    ASSUME PipelineShape, NEW r \in Requests,
           HealthCheck(r) \/ Authenticate(r) \/ ValidateToken(r) \/ RefreshToken(r) \/ RevokeToken(r)
    PROVE  RequestMove(r) /\ UNCHANGED <<now, zset, tokens>>
<1>1. PICK o \in {"OK", "panic"} : Handled(r, o)
  BY DEF HealthCheck, Authenticate, ValidateToken, RefreshToken, RevokeToken, Serve
<1>2. req[r].stage = "handler" /\ UNCHANGED <<now, zset, tokens, breakers>>
  BY DEF HealthCheck, Authenticate, ValidateToken, RefreshToken, RevokeToken, Serve
<1>3. /\ req' \in [Requests -> RequestStates] /\ \A s \in Requests : Shaped(req'[s])
      /\ IsFiniteSet(Busy') /\ Others(r) /\ SameOrigin(r)
      /\ req'[r].stage = "handled" /\ req'[r].code = o
      /\ req'[r].gen = req[r].gen /\ req'[r].dbgen = 0 /\ req[r].dbgen = 0
      /\ UNCHANGED <<inFlight, total>>
  BY <1>1, <1>2, HandledMoves
<1>4. PipelineShape'
  BY <1>2, <1>3 DEF PipelineShape, PipelineTypeOK
<1>5. Untouched("grpc-handler", r) /\ Untouched("database", r)
  BY <1>2, <1>3 DEF Untouched, GenOf, Ended, Bad
<1>6. MovesInside(r)
  BY <1>2, <1>3 DEF MovesInside, Inside
<1> QED BY <1>2, <1>3, <1>4, <1>5, <1>6 DEF RequestMove, BreakerMove

\* The database breaker lets a statement in, or fails it at once (EnterDatabase).
LEMMA EnterDatabaseIsMove ==
    ASSUME PipelineShape, NEW r \in Requests, EnterDatabase(r)
    PROVE  RequestMove(r) /\ UNCHANGED <<now, zset, tokens>>
<1> DEFINE n == "database"
           c == currentState(breakers[n], n, now)
           d == beforeRequest(n, breakers[n], now)
<1>1. req[r].stage = "handler" /\ UNCHANGED <<now, zset, tokens>>
      /\ breakers' = [breakers EXCEPT ![n] = d]
      /\ IF Verdict(n, c) = "run"
         THEN req' = [req EXCEPT ![r].stage = "database", ![r]["dbgen"] = c.gen] /\ UNCHANGED <<inFlight, total>>
         ELSE Handled(r, "OK")
  BY DEF EnterDatabase, Execute
<1>2. breakers \in [Breakers -> Breaker] /\ breakers[n] \in Breaker /\ n \in Breakers /\ now \in Nat
  BY PipelineConstants DEF PipelineShape, PipelineTypeOK
<1>3. d \in Breaker /\ d.gen = c.gen /\ d.fail = c.fail
      /\ d.req = IF Verdict(n, c) = "run" THEN c.req + 1 ELSE c.req
  BY <1>2, BeforeRequestFacts
<1>4. c \in Breaker /\ (Verdict(n, c) # "run" => d = c)
  BY <1>2, CurrentStateFacts DEF beforeRequest
<1>5. breakers' \in [Breakers -> Breaker] /\ breakers'[n] = d /\ breakers'["grpc-handler"] = breakers["grpc-handler"]
  BY <1>1, <1>2, <1>3, PipelineConstants
<1>6. c.gen \in Nat
  BY <1>4 DEF Breaker
<1>7. CASE Verdict(n, c) = "run"
  <2>1. req' = [req EXCEPT ![r].stage = "database", ![r]["dbgen"] = c.gen] /\ UNCHANGED <<inFlight, total>>
    BY <1>1, <1>7
  <2> HIDE DEF c, d
  <2>2. /\ req' \in [Requests -> RequestStates] /\ \A s \in Requests : Shaped(req'[s])
        /\ IsFiniteSet(Busy') /\ Others(r) /\ SameOrigin(r) /\ req'[r].code = "" /\ ~req'[r].dbfailed
        /\ req'[r].stage = "database" /\ req'[r].dbgen = c.gen /\ req[r].dbgen = 0 /\ req'[r].gen = req[r].gen
    BY <1>1, <1>6, <2>1, RunMoves
  <2>3. PipelineShape'
    BY <1>1, <1>5, <2>1, <2>2 DEF PipelineShape, PipelineTypeOK
  <2>4. Untouched("grpc-handler", r)
    BY <1>1, <1>5, <2>2 DEF Untouched, GenOf, Ended, Bad
  <2>5. EnteredBy(n, r)
    BY <1>3, <1>5, <1>7, <2>2 DEF EnteredBy, GenOf, Ended, Bad, c
  <2>6. MovesInside(r)
    BY <1>1, <2>1, <2>2 DEF MovesInside, Inside
  <2> QED BY <1>1, <2>2, <2>3, <2>4, <2>5, <2>6 DEF RequestMove, BreakerMove
<1>8. CASE Verdict(n, c) # "run"
  <2>1. Handled(r, "OK")
    BY <1>1, <1>8
  <2>2. /\ req' \in [Requests -> RequestStates] /\ \A s \in Requests : Shaped(req'[s])
        /\ IsFiniteSet(Busy') /\ Others(r) /\ SameOrigin(r)
        /\ req'[r].stage = "handled" /\ req'[r].code = "OK"
        /\ req'[r].gen = req[r].gen /\ req'[r].dbgen = 0 /\ req[r].dbgen = 0
        /\ UNCHANGED <<inFlight, total>>
    BY <1>1, <2>1, HandledMoves
  <2>3. PipelineShape'
    BY <1>1, <1>5, <2>2 DEF PipelineShape, PipelineTypeOK
  <2>4. Untouched("grpc-handler", r)
    BY <1>1, <1>5, <2>2 DEF Untouched, GenOf, Ended, Bad
  <2>5. LookedAt(n, r)
    BY <1>4, <1>5, <1>8, <2>2 DEF LookedAt, GenOf
  <2>6. MovesInside(r)
    BY <1>1, <2>2 DEF MovesInside, Inside
  <2> QED BY <1>1, <2>2, <2>3, <2>4, <2>5, <2>6 DEF RequestMove, BreakerMove
<1> QED BY <1>7, <1>8

\* A statement ends and the database breaker is told (Statement).
LEMMA StatementIsMove ==
    ASSUME PipelineShape, NEW r \in Requests, Statement(r)
    PROVE  RequestMove(r) /\ UNCHANGED <<now, zset, tokens>>
<1> DEFINE n == "database"
<1>1. PICK outcome \in {"ok", "error", "panic"} :
         /\ breakers' = [breakers EXCEPT ![n] = afterRequest(n, @, req[r].dbgen, outcome = "ok", now)]
         /\ EndsWith(r, outcome)
  BY DEF Statement, EndsWith
<1>2. req[r].stage = "database" /\ UNCHANGED <<now, zset, tokens, inFlight, total>>
  BY DEF Statement
<1> DEFINE ok == (outcome = "ok")
           d == afterRequest(n, breakers[n], req[r].dbgen, ok, now)
<1>3. ok \in BOOLEAN
  OBVIOUS
<1>4. breakers \in [Breakers -> Breaker] /\ breakers[n] \in Breaker /\ n \in Breakers /\ now \in Nat
  BY PipelineConstants DEF PipelineShape, PipelineTypeOK
<1>5. breakers' = [breakers EXCEPT ![n] = d]
  BY <1>1
<1>6. /\ req' \in [Requests -> RequestStates] /\ \A s \in Requests : Shaped(req'[s])
      /\ IsFiniteSet(Busy') /\ Others(r) /\ SameOrigin(r)
      /\ req'[r].stage = "handled" /\ req'[r].dbfailed = ~ok /\ req'[r].code \in {"OK", "panic"}
      /\ req'[r].gen = req[r].gen /\ req'[r].dbgen = req[r].dbgen /\ ~req[r].dbfailed
  <2>1. /\ req' \in [Requests -> RequestStates] /\ \A s \in Requests : Shaped(req'[s])
        /\ IsFiniteSet(Busy') /\ Others(r) /\ SameOrigin(r)
        /\ req'[r].stage = "handled" /\ req'[r].dbfailed = (outcome # "ok")
        /\ req'[r].code = IF outcome = "panic" THEN "panic" ELSE "OK"
        /\ req'[r].gen = req[r].gen /\ req'[r].dbgen = req[r].dbgen /\ ~req[r].dbfailed
    BY <1>1, <1>2, StatementMoves
  <2> QED BY <2>1
<1> HIDE DEF ok
<1>7. d \in Breaker
  BY <1>3, <1>4, AfterRequestFacts
<1>8. breakers' \in [Breakers -> Breaker] /\ breakers'[n] = d /\ breakers'["grpc-handler"] = breakers["grpc-handler"]
  BY <1>4, <1>5, <1>7, PipelineConstants
<1>9. PipelineShape'
  BY <1>2, <1>6, <1>8 DEF PipelineShape, PipelineTypeOK
<1>10. Untouched("grpc-handler", r)
  BY <1>2, <1>6, <1>8 DEF Untouched, GenOf, Ended, Bad
<1>11. ToldBy(n, r)
  BY <1>2, <1>3, <1>6, <1>8 DEF ToldBy, GenOf, Ended, Bad
<1>12. MovesInside(r)
  BY <1>2, <1>6 DEF MovesInside, Inside
<1> QED BY <1>2, <1>6, <1>9, <1>10, <1>11, <1>12 DEF RequestMove, BreakerMove

\* The handler has ended: the outer breaker is told and the request leaves (Finish).
LEMMA FinishIsMove ==
    ASSUME PipelineShape, NEW r \in Requests, Finish(r)
    PROVE  RequestMove(r) /\ UNCHANGED <<now, zset, tokens>>
<1> DEFINE n == "grpc-handler"
           ok == (req[r].code # "panic")
           d == afterRequest(n, breakers[n], req[r].gen, ok, now)
           code == IF req[r].code = "panic" THEN "Internal" ELSE "OK"
<1>1. req[r].stage = "handled" /\ Leave(r, code) /\ UNCHANGED <<now, zset, tokens>>
      /\ breakers' = [breakers EXCEPT ![n] = d]
  BY DEF Finish
<1>2. ok \in BOOLEAN /\ code \in AnswerCodes \ {"Undecoded"} /\ (code = "Internal") = ~ok
  BY DEF AnswerCodes
<1>3. breakers \in [Breakers -> Breaker] /\ breakers[n] \in Breaker /\ n \in Breakers /\ now \in Nat
  BY PipelineConstants DEF PipelineShape, PipelineTypeOK
<1>4. Shaped(req[r])
  BY DEF PipelineShape
<1> HIDE DEF code, ok
<1>5. /\ req' \in [Requests -> RequestStates] /\ \A s \in Requests : Shaped(req'[s])
      /\ IsFiniteSet(Busy') /\ Others(r) /\ SameOrigin(r)
      /\ req'[r].stage = "answered" /\ req'[r].code = code
      /\ req'[r].gen = req[r].gen /\ req'[r].dbgen = req[r].dbgen /\ req'[r].dbfailed = req[r].dbfailed
      /\ inFlight' = inFlight - 1
      /\ total' = IF code = "Internal" THEN total ELSE total + 1
  BY <1>1, <1>2, LeaveMoves
<1>6. d \in Breaker
  BY <1>2, <1>3, AfterRequestFacts
<1>7. breakers' \in [Breakers -> Breaker] /\ breakers'[n] = d /\ breakers'["database"] = breakers["database"]
  BY <1>1, <1>3, <1>6, PipelineConstants
<1>8. PipelineShape'
  BY <1>1, <1>5, <1>7 DEF PipelineShape, PipelineTypeOK
<1>9. Untouched("database", r)
  BY <1>1, <1>5, <1>7 DEF Untouched, GenOf, Ended, Bad
<1>10. ToldBy(n, r)
  BY <1>1, <1>2, <1>4, <1>5, <1>7 DEF ToldBy, GenOf, Ended, Bad
<1>11. Leaves(r, code)
  BY <1>1, <1>5 DEF Leaves, Inside
<1> QED BY <1>1, <1>2, <1>5, <1>8, <1>9, <1>10, <1>11 DEF RequestMove, BreakerMove

-----------------------------------------------------------------------------
(* The metrics.                                                            *)

InChain == {r \in Requests : Inside(r)}

Answered == {r \in Requests : req[r].stage = "answered" /\ req[r].code \notin {"Internal", "Undecoded"}}

\* What is inside or answered is busy, so there are finitely many of them.
LEMMA BusyIsFinite ==
    ASSUME PipelineShape
    PROVE  IsFiniteSet(InChain) /\ IsFiniteSet(Answered)
<1>1. InChain \subseteq Busy /\ Answered \subseteq Busy
  BY DEF InChain, Answered, Busy, Inside
<1> QED BY <1>1, FS_Subset DEF PipelineShape

\* The gauge goes up and down with the requests, the counter up with the answers (Leave).
LEMMA MetricsMove ==
    ASSUME PipelineShape, MetricsExact, NEW r \in Requests, RequestMove(r)
    PROVE  MetricsExact'
<1>1. IsFiniteSet(InChain) /\ IsFiniteSet(Answered)
  BY BusyIsFinite
<1>2. inFlight = Cardinality(InChain) /\ total = Cardinality(Answered)
  BY DEF MetricsExact, InChain, Answered
<1>3. Others(r)
  BY DEF RequestMove
<1>4. inFlight \in Int /\ total \in Int
  BY DEF PipelineShape, PipelineTypeOK
<1> SUFFICES inFlight' = Cardinality(InChain') /\ total' = Cardinality(Answered')
  BY DEF MetricsExact, InChain, Answered
<1>5. CASE ComesIn(r)
  <2>1. r \notin InChain /\ InChain' = InChain \cup {r} /\ Answered' = Answered
    BY <1>3, <1>5 DEF ComesIn, InChain, Answered, Inside, Others
  <2> QED BY <1>1, <1>2, <1>5, <2>1, CountAdd DEF ComesIn
<1>6. CASE MovesInside(r)
  <2>1. InChain' = InChain /\ Answered' = Answered
    BY <1>3, <1>6 DEF MovesInside, InChain, Answered, Inside, Others
  <2> QED BY <1>2, <1>6, <2>1 DEF MovesInside
<1>7. ASSUME NEW code \in AnswerCodes \ {"Undecoded"}, Leaves(r, code)
      PROVE  inFlight' = Cardinality(InChain') /\ total' = Cardinality(Answered')
  <2>1. r \in InChain /\ InChain' = InChain \ {r} /\ r \notin Answered
    BY <1>3, <1>7 DEF Leaves, InChain, Answered, Inside, Others
  <2>2. Answered' = IF code = "Internal" THEN Answered ELSE Answered \cup {r}
    BY <1>3, <1>7 DEF Leaves, InChain, Answered, Inside, Others
  <2>3. inFlight' = Cardinality(InChain')
    BY <1>1, <1>2, <1>7, <2>1, CountRemove DEF Leaves
  <2>4. CASE code = "Internal"
    BY <1>2, <1>7, <2>2, <2>3, <2>4 DEF Leaves
  <2>5. CASE code # "Internal"
    <3>1. Answered' = Answered \cup {r}
      BY <2>2, <2>5
    <3>2. Cardinality(Answered') = Cardinality(Answered) + 1
      BY <1>1, <2>1, <3>1, CountAdd
    <3> QED BY <1>2, <1>7, <2>3, <2>5, <3>2 DEF Leaves
  <2> QED BY <2>4, <2>5
<1>8. CASE /\ req[r].stage = "idle" /\ req'[r].stage = "answered" /\ req'[r].code = "Undecoded"
           /\ req'[r].by = "" /\ UNCHANGED <<inFlight, total>>
  <2>1. InChain' = InChain /\ Answered' = Answered
    BY <1>3, <1>8 DEF InChain, Answered, Inside, Others
  <2> QED BY <1>2, <1>8, <2>1
<1> QED BY <1>5, <1>6, <1>7, <1>8 DEF RequestMove

-----------------------------------------------------------------------------
(***************************************************************************)
(* The breakers.  No request has a generation that is still to come, so    *)
(* when one begins nobody belongs to it.                                   *)
(***************************************************************************)
CallsOf(n) == {r \in Requests : Ran(n, r)}
FailuresOf(n) == {r \in Requests : Ran(n, r) /\ Ended(n, r) /\ Bad(n, r)}

CountsCalls(n) ==
    /\ \A r \in Requests : GenOf(n, r) <= breakers[n].gen
    /\ breakers[n].req = Cardinality(CallsOf(n))
    /\ breakers[n].fail = Cardinality(FailuresOf(n))

\* The calls of a generation are busy requests, so there are finitely many of them.
LEMMA CallsAreFinite ==
    ASSUME PipelineShape, NEW n \in {"grpc-handler", "database"}
    PROVE  /\ IsFiniteSet(CallsOf(n)) /\ IsFiniteSet(FailuresOf(n))
           /\ breakers[n] \in Breaker /\ n \in Breakers /\ now \in Nat
           /\ \A r \in Requests : GenOf(n, r) \in Nat
<1>1. breakers[n] \in Breaker /\ n \in Breakers /\ now \in Nat
  BY PipelineConstants DEF PipelineShape, PipelineTypeOK
<1>2. \A r \in Requests : GenOf(n, r) \in Nat /\ (req[r].stage = "idle" => GenOf(n, r) = 0)
  BY DEF PipelineShape, PipelineTypeOK, RequestStates, Shaped, GenOf
<1>3. breakers[n].gen # 0
  BY <1>1 DEF Breaker
<1>4. CallsOf(n) \subseteq Busy /\ FailuresOf(n) \subseteq Busy
  BY <1>2, <1>3 DEF CallsOf, FailuresOf, Busy, Ran, GenOf
<1> QED BY <1>1, <1>2, <1>4, FS_Subset DEF PipelineShape

\* A new generation, to which no request belongs.
LEMMA CountsBeginAnew ==
    ASSUME NEW n \in {"grpc-handler", "database"}, PipelineShape',
           breakers'[n].req = 0, breakers'[n].fail = 0,
           \A s \in Requests : GenOf(n, s)' < breakers'[n].gen
    PROVE  CountsCalls(n)'
<1>1. CallsOf(n)' = {} /\ FailuresOf(n)' = {}
  <2>1. \A s \in Requests : GenOf(n, s)' # breakers'[n].gen
    <3>1. breakers'[n].gen \in Nat /\ \A s \in Requests : GenOf(n, s)' \in Nat
      BY PipelineConstants DEF PipelineShape, PipelineTypeOK, GenOf, RequestStates, Breaker
    <3> QED BY <3>1
  <2> QED BY <2>1 DEF CallsOf, FailuresOf, Ran, GenOf
<1>2. \A s \in Requests : GenOf(n, s)' <= breakers'[n].gen
  <2>1. breakers'[n].gen \in Nat /\ \A s \in Requests : GenOf(n, s)' \in Nat
    BY PipelineConstants DEF PipelineShape, PipelineTypeOK, GenOf, RequestStates, Breaker
  <2> QED BY <2>1
<1> QED BY <1>1, <1>2, CountEmpty DEF CountsCalls

\* Every move keeps the counts of a breaker.
LEMMA CountsMove ==
    ASSUME PipelineShape, NEW n \in {"grpc-handler", "database"}, CountsCalls(n),
           NEW r \in Requests, PipelineShape', Others(r), BreakerMove(n, r)
    PROVE  CountsCalls(n)'
<1> DEFINE b == breakers[n]
           c == currentState(b, n, now)
<1>1. /\ IsFiniteSet(CallsOf(n)) /\ IsFiniteSet(FailuresOf(n))
      /\ b \in Breaker /\ n \in Breakers /\ now \in Nat
      /\ \A s \in Requests : GenOf(n, s) \in Nat
  BY CallsAreFinite
<1>2. b.gen \in Nat \ {0} /\ b.req \in Nat /\ b.fail \in Nat
  BY <1>1 DEF Breaker
<1>3. \A s \in Requests \ {r} : /\ GenOf(n, s)' = GenOf(n, s)
                                /\ (Ended(n, s) /\ Bad(n, s))' = (Ended(n, s) /\ Bad(n, s))
  BY DEF Others, GenOf, Ended, Bad
<1>4. c \in Breaker /\ (c = b \/ (c.gen = b.gen + 1 /\ c.req = 0 /\ c.fail = 0))
  BY <1>1, CurrentStateFacts
<1>5. c.gen \in Nat
  BY <1>4 DEF Breaker
<1>6. \A s \in Requests : GenOf(n, s) <= b.gen
  BY DEF CountsCalls
<1> HIDE DEF c
<1>7. CASE Untouched(n, r)
  <2>1. CallsOf(n)' = CallsOf(n)
    BY <1>3, <1>7 DEF Untouched, CallsOf, Ran, GenOf
  <2>2. FailuresOf(n)' = FailuresOf(n)
    BY <1>2, <1>3, <1>7 DEF Untouched, FailuresOf, Ran, GenOf
  <2> QED BY <1>3, <1>7, <2>1, <2>2 DEF Untouched, CountsCalls
<1>8. CASE LookedAt(n, r)
  <2>1. breakers'[n] = c
    BY <1>8 DEF LookedAt, c
  <2>2. CASE c = b
    BY <1>1, <1>2, <1>3, <1>7, <1>8, <2>1, <2>2 DEF LookedAt, Untouched
  <2>3. CASE c.gen = b.gen + 1 /\ c.req = 0 /\ c.fail = 0
    <3>1. \A s \in Requests : GenOf(n, s)' < c.gen
      BY <1>1, <1>2, <1>3, <1>6, <1>8, <2>3 DEF LookedAt
    <3> QED BY <2>1, <2>3, <3>1, CountsBeginAnew
  <2> QED BY <1>4, <2>2, <2>3
<1>9. CASE EnteredBy(n, r)
  <2>1. /\ breakers'[n].gen = c.gen /\ breakers'[n].req = c.req + 1 /\ breakers'[n].fail = c.fail
        /\ GenOf(n, r) = 0 /\ GenOf(n, r)' = c.gen /\ ~(Ended(n, r) /\ Bad(n, r))'
    BY <1>9 DEF EnteredBy, c
  <2>2. CASE c = b
    <3>1. r \notin CallsOf(n) /\ CallsOf(n)' = CallsOf(n) \cup {r}
      BY <1>2, <1>3, <2>1, <2>2 DEF CallsOf, Ran, GenOf
    <3>2. FailuresOf(n)' = FailuresOf(n)
      BY <1>2, <1>3, <2>1, <2>2 DEF FailuresOf, Ran, GenOf
    <3>3. Cardinality(CallsOf(n)') = Cardinality(CallsOf(n)) + 1
      BY <1>1, <3>1, CountAdd
    <3>4. \A s \in Requests : GenOf(n, s)' <= breakers'[n].gen
      BY <1>2, <1>3, <1>6, <2>1, <2>2
    <3> QED BY <2>1, <2>2, <3>2, <3>3, <3>4 DEF CountsCalls
  <2>3. CASE c.gen = b.gen + 1 /\ c.req = 0 /\ c.fail = 0
    <3>1. \A s \in Requests \ {r} : GenOf(n, s)' # c.gen /\ GenOf(n, s)' <= c.gen
      BY <1>1, <1>2, <1>3, <1>6, <2>3
    <3>2. CallsOf(n)' = {r} /\ FailuresOf(n)' = {}
      BY <2>1, <3>1 DEF CallsOf, FailuresOf, Ran, GenOf
    <3>3. Cardinality(CallsOf(n)') = 1 /\ Cardinality(FailuresOf(n)') = 0
      BY <3>2, FS_Singleton, FS_EmptySet
    <3>4. \A s \in Requests : GenOf(n, s)' <= breakers'[n].gen
      BY <1>5, <2>1, <3>1
    <3> QED BY <2>1, <2>3, <3>3, <3>4 DEF CountsCalls
  <2> QED BY <1>4, <2>2, <2>3
<1>10. CASE ToldBy(n, r)
  <2>1. PICK ok \in BOOLEAN :
           /\ breakers'[n] = afterRequest(n, b, GenOf(n, r), ok, now)
           /\ (Ended(n, r) /\ Bad(n, r))' = ~ok
    BY <1>10 DEF ToldBy
  <2>2. GenOf(n, r)' = GenOf(n, r) /\ ~(Ended(n, r) /\ Bad(n, r))
    BY <1>10 DEF ToldBy
  <2> DEFINE d == breakers'[n]
             g == GenOf(n, r)
  <2>3. /\ d \in Breaker
        /\ \/ c.gen # g /\ d = c
           \/ c.gen = g /\ d.gen = c.gen /\ d.req = c.req /\ d.fail = IF ok THEN c.fail ELSE c.fail + 1
           \/ d.gen = c.gen + 1 /\ d.req = 0 /\ d.fail = 0
    BY <1>1, <2>1, AfterRequestFacts DEF c
  <2>4. \A s \in Requests : GenOf(n, s)' = GenOf(n, s)
    BY <1>3, <2>2
  <2> HIDE DEF d
  <2>5. CASE d.gen > b.gen /\ d.req = 0 /\ d.fail = 0
    <3>1. \A s \in Requests : GenOf(n, s)' < d.gen
      BY <1>1, <1>2, <1>6, <2>3, <2>4, <2>5 DEF Breaker
    <3> QED BY <2>5, <3>1, CountsBeginAnew DEF d
  <2>6. CASE c = b /\ c.gen # g /\ d = c
    <3>1. CallsOf(n)' = CallsOf(n)
      BY <2>4, <2>6 DEF CallsOf, Ran, GenOf, d
    <3>2. FailuresOf(n)' = FailuresOf(n)
      BY <1>3, <2>4, <2>6 DEF FailuresOf, Ran, GenOf, d
    <3> QED BY <2>4, <2>6, <3>1, <3>2 DEF CountsCalls, d
  <2>7. CASE c = b /\ c.gen = g /\ d.gen = c.gen /\ d.req = c.req
             /\ d.fail = IF ok THEN c.fail ELSE c.fail + 1
    <3>1. CallsOf(n)' = CallsOf(n)
      BY <2>4, <2>7 DEF CallsOf, Ran, GenOf, d
    <3>2. r \notin FailuresOf(n)
      BY <2>2 DEF FailuresOf
    <3>3. FailuresOf(n)' = IF ok THEN FailuresOf(n) ELSE FailuresOf(n) \cup {r}
      BY <1>3, <2>1, <2>2, <2>4, <2>7 DEF FailuresOf, Ran, GenOf, d
    <3>4. Cardinality(FailuresOf(n)') = IF ok THEN b.fail ELSE b.fail + 1
      BY <1>1, <3>2, <3>3, CountAdd DEF CountsCalls
    <3> QED BY <2>4, <2>7, <3>1, <3>4 DEF CountsCalls, d
  <2> QED BY <1>1, <1>2, <1>4, <1>5, <1>6, <2>3, <2>5, <2>6, <2>7
<1> QED BY <1>7, <1>8, <1>9, <1>10 DEF BreakerMove

\* A step inside the chain is a move, keeps where the request came from, and lets nobody
\* pass whom the limiter did not let pass (Step).
LEMMA StepIsMove ==
    ASSUME PipelineShape, NEW r \in Requests, Step(r)
    PROVE  RequestMove(r) /\ UNCHANGED <<now, zset, tokens>> /\ SameOrigin(r) /\ (Passed(r)' => Passed(r))
<1>1. Shaped(req[r])
  BY DEF PipelineShape
<1>2. ASSUME RequestMove(r), req[r].stage \in {"limited", "handler", "database", "handled"}
      PROVE  SameOrigin(r) /\ (Passed(r)' => Passed(r))
  BY <1>1, <1>2 DEF RequestMove, ComesIn, MovesInside, Leaves, Passed, Shaped
<1>3. CASE RateLimitExceeded(r)
  <2>1. Leave(r, "ResourceExhausted") /\ req[r].stage = "refused" /\ UNCHANGED <<now, zset, tokens, breakers>>
    BY <1>3 DEF RateLimitExceeded
  <2>2. "ResourceExhausted" \in AnswerCodes \ {"Undecoded"}
    BY DEF AnswerCodes
  <2>3. RequestMove(r)
    BY <2>1, <2>2, TurnedAwayIsMove
  <2>4. SameOrigin(r) /\ ~Passed(r)'
    BY <2>1, <2>2, LeaveMoves DEF Passed
  <2> QED BY <2>1, <2>3, <2>4
<1>4. CASE Unauthenticated(r)
  <2>1. Leave(r, "Unauthenticated") /\ req[r].stage = "limited" /\ UNCHANGED <<now, zset, tokens, breakers>>
    BY <1>4 DEF Unauthenticated
  <2>2. "Unauthenticated" \in AnswerCodes \ {"Undecoded"}
    BY DEF AnswerCodes
  <2>3. RequestMove(r)
    BY <2>1, <2>2, TurnedAwayIsMove
  <2> QED BY <1>2, <2>1, <2>3
<1>5. CASE EnterHandler(r)
  BY <1>2, <1>5, EnterHandlerIsMove DEF EnterHandler
<1>6. CASE HealthCheck(r) \/ Authenticate(r) \/ ValidateToken(r) \/ RefreshToken(r) \/ RevokeToken(r)
  <2>1. req[r].stage = "handler"
    BY <1>6 DEF HealthCheck, Authenticate, ValidateToken, RefreshToken, RevokeToken, Serve
  <2> QED BY <1>2, <1>6, <2>1, ServeIsMove
<1>7. CASE EnterDatabase(r)
  BY <1>2, <1>7, EnterDatabaseIsMove DEF EnterDatabase
<1>8. CASE Statement(r)
  BY <1>2, <1>8, StatementIsMove DEF Statement
<1>9. CASE Finish(r)
  BY <1>2, <1>9, FinishIsMove DEF Finish
<1> QED BY <1>3, <1>4, <1>5, <1>6, <1>7, <1>8, <1>9 DEF Step

-----------------------------------------------------------------------------
(***************************************************************************)
(* The limiters.  The sorted set of a client still has every second of the *)
(* window in which one of its requests came, so whom it lets in at a       *)
(* second m finds the seconds let in before m among the live members.  The *)
(* tokens and the requests let in by the fallback in this second are       *)
(* together at most the burst.                                             *)
(***************************************************************************)
Seconds(c, t) ==
    {req[r].at : r \in {q \in Requests : /\ Passed(q) /\ req[q].by = "redis" /\ req[q].client = c
                                         /\ req[q].at \in t + 1 .. t + WindowSize}}

FallbackAt(t) == {r \in Requests : Passed(r) /\ req[r].by = "fallback" /\ req[r].at = t}

Remembered ==
    /\ \A r \in Requests : req[r].at <= now
    /\ \A c \in Senders : IsFiniteSet(zset[c])
    /\ \A r \in Requests, c \in Senders :
          req[r].stage # "idle" /\ req[r].by = "redis" /\ req[r].client = c /\ req[r].at > now - WindowSize
             => req[r].at \in zset[c]

SecondsBounded == \A c \in Senders, t \in Nat : Cardinality(Seconds(c, t)) <= RequestsPerSecond

BurstBounded ==
    /\ \A t \in Nat : Cardinality(FallbackAt(t)) <= BurstSize
    /\ \A t \in Nat : t = now => tokens + Cardinality(FallbackAt(t)) <= BurstSize

Admission == Remembered /\ SecondsBounded /\ BurstBounded

\* The sets that are counted are finite.
LEMMA AdmissionFinite ==
    ASSUME PipelineShape, \A r \in Requests : req[r].at <= now
    PROVE  /\ \A c \in Senders, t \in Nat : IsFiniteSet(Seconds(c, t)) /\ Cardinality(Seconds(c, t)) \in Nat
           /\ \A t \in Nat : IsFiniteSet(FallbackAt(t)) /\ Cardinality(FallbackAt(t)) \in Nat
<1>1. now \in Nat /\ \A r \in Requests : req[r].at \in Nat
  BY DEF PipelineShape, PipelineTypeOK, RequestStates
<1>2. IsFiniteSet(0 .. now)
  BY <1>1, FS_Interval
<1>3. ASSUME NEW c \in Senders, NEW t \in Nat
      PROVE  IsFiniteSet(Seconds(c, t)) /\ Cardinality(Seconds(c, t)) \in Nat
  <2>1. Seconds(c, t) \subseteq 0 .. now
    BY <1>1 DEF Seconds
  <2> QED BY <1>2, <2>1, FS_Subset, FS_CardinalityType
<1>4. ASSUME NEW t \in Nat
      PROVE  IsFiniteSet(FallbackAt(t)) /\ Cardinality(FallbackAt(t)) \in Nat
  <2>1. FallbackAt(t) \subseteq Busy
    BY DEF FallbackAt, Passed, Busy
  <2> QED BY <2>1, FS_Subset, FS_CardinalityType DEF PipelineShape
<1> QED BY <1>3, <1>4

\* A step after which no one more has passed keeps the bounds.
LEMMA NobodyPasses ==
    ASSUME PipelineShape, PipelineShape', Admission, NEW r \in Requests, Others(r),
           UNCHANGED <<now, zset>>, tokens' <= tokens,
           Passed(r)' => Passed(r) /\ SameOrigin(r),
           req'[r].at <= now,
           \A c \in Senders : req'[r].by = "redis" /\ req'[r].client = c /\ req'[r].at > now - WindowSize
                                 => req'[r].at \in zset[c]
    PROVE  Admission'
<1>1. \A s \in Requests : Passed(s)' => /\ Passed(s) /\ req'[s].client = req[s].client
                                         /\ req'[s].at = req[s].at /\ req'[s].by = req[s].by
  BY DEF Others, Passed, SameOrigin
<1>2. Remembered'
  BY DEF Admission, Remembered, Others
<1>3. /\ \A c \in Senders, t \in Nat : IsFiniteSet(Seconds(c, t)) /\ Cardinality(Seconds(c, t)) \in Nat
      /\ \A t \in Nat : IsFiniteSet(FallbackAt(t)) /\ Cardinality(FallbackAt(t)) \in Nat
  BY AdmissionFinite DEF Admission, Remembered
<1>4. SecondsBounded'
  <2> SUFFICES ASSUME NEW c \in Senders, NEW t \in Nat
               PROVE  Cardinality(Seconds(c, t)') <= RequestsPerSecond
    BY DEF SecondsBounded
  <2>1. Seconds(c, t)' \subseteq Seconds(c, t)
    BY <1>1 DEF Seconds
  <2>2. Cardinality(Seconds(c, t)') <= Cardinality(Seconds(c, t)) /\ Cardinality(Seconds(c, t)') \in Nat
    BY <1>3, <2>1, FS_Subset, FS_CardinalityType
  <2>3. Cardinality(Seconds(c, t)) <= RequestsPerSecond /\ Cardinality(Seconds(c, t)) \in Nat
    BY <1>3 DEF Admission, SecondsBounded
  <2>4. RequestsPerSecond \in Nat
    BY PipelineConstants
  <2> QED BY <2>2, <2>3, <2>4
<1>5. \A t \in Nat : Cardinality(FallbackAt(t)') <= Cardinality(FallbackAt(t)) /\ Cardinality(FallbackAt(t)') \in Nat
  <2> SUFFICES ASSUME NEW t \in Nat
               PROVE  Cardinality(FallbackAt(t)') <= Cardinality(FallbackAt(t)) /\ Cardinality(FallbackAt(t)') \in Nat
    OBVIOUS
  <2>1. FallbackAt(t)' \subseteq FallbackAt(t)
    BY <1>1 DEF FallbackAt
  <2> QED BY <1>3, <2>1, FS_Subset, FS_CardinalityType
<1>6. BurstBounded'
  <2>1. now \in Nat /\ tokens \in Nat /\ tokens' \in Nat
    BY DEF PipelineShape, PipelineTypeOK
  <2>2. BurstSize \in Nat
    BY PipelineConstants
  <2> SUFFICES ASSUME NEW t \in Nat
               PROVE  /\ Cardinality(FallbackAt(t)') <= BurstSize
                      /\ t = now => tokens' + Cardinality(FallbackAt(t)') <= BurstSize
    BY DEF BurstBounded
  <2>3. /\ Cardinality(FallbackAt(t)') <= Cardinality(FallbackAt(t))
        /\ Cardinality(FallbackAt(t)') \in Nat /\ Cardinality(FallbackAt(t)) \in Nat
    BY <1>3, <1>5
  <2>4. Cardinality(FallbackAt(t)) <= BurstSize /\ (t = now => tokens + Cardinality(FallbackAt(t)) <= BurstSize)
    BY DEF Admission, BurstBounded
  <2> QED BY <2>1, <2>2, <2>3, <2>4
<1> QED BY <1>2, <1>4, <1>6 DEF Admission

\* The Redis limiter lets a request in or refuses it (UnaryServerInterceptor, isAllowed).
LEMMA RedisAdmits ==
    ASSUME PipelineShape, Admission, NEW r \in Requests, UnaryServerInterceptor(r)
    PROVE  RequestMove(r) /\ Admission'
<1>1. PICK c \in Senders, call \in Calls :
         /\ Enter(r, call, c, IF isAllowed(c) THEN "limited" ELSE "refused", "redis")
         /\ zset' = [zset EXCEPT ![c] = Live(c) \cup {now}] /\ tokens' = tokens
  BY DEF UnaryServerInterceptor
<1> DEFINE stage == IF isAllowed(c) THEN "limited" ELSE "refused"
<1>2. /\ now \in Nat /\ tokens \in Nat /\ zset \in [Senders -> SUBSET Nat]
      /\ req \in [Requests -> RequestStates] /\ \A s \in Requests : req[s].at \in Nat
  BY DEF PipelineShape, PipelineTypeOK, RequestStates
<1>3. Live(c) \subseteq Nat /\ Live(c) \subseteq zset[c]
      /\ \A t \in zset[c] : t > now - WindowSize => t \in Live(c)
  BY <1>2 DEF Live
<1>4. IsFiniteSet(Live(c)) /\ IsFiniteSet(Live(c) \cup {now})
  BY <1>3, FS_Subset, FS_AddElement DEF Admission, Remembered
<1>5. /\ zset' \in [Senders -> SUBSET Nat] /\ zset'[c] = Live(c) \cup {now}
      /\ \A d \in Senders : d # c => zset'[d] = zset[d]
  <2>1. Live(c) \cup {now} \in SUBSET Nat
    BY <1>2, <1>3
  <2> HIDE DEF Live
  <2> QED BY <1>1, <1>2, <2>1
<1>6. /\ RequestMove(r) /\ ComesIn(r) /\ now' = now
      /\ req'[r].stage = stage /\ req'[r].by = "redis" /\ req'[r].client = c /\ req'[r].at = now
  BY <1>1, <1>2, <1>5, EnterIsMove
<1>7. Others(r) /\ PipelineShape' /\ req[r].stage = "idle"
  BY <1>6 DEF RequestMove, ComesIn
<1>8. Remembered'
  <2>1. \A s \in Requests : req'[s].at <= now
    BY <1>2, <1>6, <1>7 DEF Others, Admission, Remembered
  <2>2. \A d \in Senders : IsFiniteSet(zset'[d])
    BY <1>4, <1>5 DEF Admission, Remembered
  <2>3. ASSUME NEW s \in Requests, NEW d \in Senders, req'[s].stage # "idle", req'[s].by = "redis",
               req'[s].client = d, req'[s].at > now - WindowSize
        PROVE  req'[s].at \in zset'[d]
    <3>1. CASE s = r
      BY <1>5, <1>6, <2>3, <3>1
    <3>2. CASE s # r
      <4>1. req'[s] = req[s]
        BY <1>7, <3>2 DEF Others
      <4>2. req[s].at \in zset[d]
        BY <2>3, <4>1 DEF Admission, Remembered
      <4> QED BY <1>3, <1>5, <2>3, <4>1, <4>2
    <3> QED BY <3>1, <3>2
  <2> QED BY <1>6, <2>1, <2>2, <2>3 DEF Remembered
<1>9. /\ \A d \in Senders, t \in Nat : IsFiniteSet(Seconds(d, t)) /\ Cardinality(Seconds(d, t)) \in Nat
      /\ \A t \in Nat : IsFiniteSet(FallbackAt(t)) /\ Cardinality(FallbackAt(t)) \in Nat
  BY AdmissionFinite DEF Admission, Remembered
<1>10. ASSUME NEW d \in Senders, NEW t \in Nat
       PROVE  Cardinality(Seconds(d, t)') <= RequestsPerSecond
  <2>1. RequestsPerSecond \in Nat /\ WindowSize \in Nat
    BY PipelineConstants
  <2>2. CASE isAllowed(c) /\ d = c /\ now \in t + 1 .. t + WindowSize
    <3>1. Seconds(d, t)' \subseteq Live(c) \cup {now}
      <4> SUFFICES ASSUME NEW s \in Requests, Passed(s)', req'[s].by = "redis", req'[s].client = c,
                          req'[s].at \in t + 1 .. t + WindowSize, s # r
                   PROVE  req'[s].at \in Live(c)
        BY <1>6, <2>2 DEF Seconds
      <4>1. req'[s] = req[s]
        BY <1>7 DEF Others
      <4>2. req[s].stage # "idle"
        BY <4>1 DEF Passed
      <4>3. req[s].at > now - WindowSize
        BY <1>2, <2>1, <2>2, <4>1
      <4>4. req[s].at \in zset[c]
        BY <4>1, <4>2, <4>3 DEF Admission, Remembered
      <4> QED BY <1>3, <4>1, <4>3, <4>4
    <3>2. Cardinality(Live(c)) < RequestsPerSecond
      BY <2>2 DEF isAllowed
    <3>3. /\ Cardinality(Live(c) \cup {now}) <= Cardinality(Live(c)) + 1
          /\ Cardinality(Live(c)) \in Nat /\ Cardinality(Live(c) \cup {now}) \in Nat
      BY <1>4, FS_AddElement, FS_CardinalityType
    <3>4. Cardinality(Seconds(d, t)') <= Cardinality(Live(c) \cup {now}) /\ Cardinality(Seconds(d, t)') \in Nat
      BY <1>4, <3>1, FS_Subset, FS_CardinalityType
    <3> QED BY <2>1, <3>2, <3>3, <3>4
  <2>3. CASE ~(isAllowed(c) /\ d = c /\ now \in t + 1 .. t + WindowSize)
    <3>1. Seconds(d, t)' \subseteq Seconds(d, t)
      <4> SUFFICES ASSUME NEW s \in Requests, Passed(s)', req'[s].by = "redis", req'[s].client = d,
                          req'[s].at \in t + 1 .. t + WindowSize
                   PROVE  req'[s] = req[s] /\ Passed(s)
        BY DEF Seconds
      <4>1. s # r
        BY <1>6, <2>3 DEF Passed
      <4> QED BY <1>7, <4>1 DEF Others, Passed
    <3>2. /\ Cardinality(Seconds(d, t)') <= Cardinality(Seconds(d, t))
          /\ Cardinality(Seconds(d, t)') \in Nat /\ Cardinality(Seconds(d, t)) \in Nat
      BY <1>9, <3>1, FS_Subset, FS_CardinalityType
    <3>3. Cardinality(Seconds(d, t)) <= RequestsPerSecond
      BY DEF Admission, SecondsBounded
    <3> QED BY <2>1, <3>2, <3>3
  <2> QED BY <2>2, <2>3
<1>11. \A t \in Nat : FallbackAt(t)' = FallbackAt(t)
  BY <1>6, <1>7 DEF FallbackAt, Passed, Others
<1>12. BurstBounded'
  BY <1>1, <1>6, <1>11 DEF Admission, BurstBounded
<1> QED BY <1>6, <1>8, <1>10, <1>12 DEF Admission, SecondsBounded

\* The fallback lets a request in for a token, or refuses it (fallbackLimiter).
LEMMA FallbackAdmits ==
    ASSUME PipelineShape, Admission, NEW r \in Requests, fallbackLimiter(r)
    PROVE  RequestMove(r) /\ Admission'
<1>1. PICK c \in Senders, call \in Calls :
         /\ Enter(r, call, c, IF FallbackAllows THEN "limited" ELSE "refused", "fallback")
         /\ tokens' = (IF tokens > 0 THEN tokens - 1 ELSE tokens) /\ zset' = zset
  BY DEF fallbackLimiter
<1> DEFINE stage == IF FallbackAllows THEN "limited" ELSE "refused"
<1>2. /\ now \in Nat /\ tokens \in Nat /\ zset' \in [Senders -> SUBSET Nat] /\ tokens' \in Nat
      /\ req \in [Requests -> RequestStates] /\ BurstSize \in Nat
  <2>1. now \in Nat /\ tokens \in Nat /\ zset \in [Senders -> SUBSET Nat] /\ req \in [Requests -> RequestStates]
    BY DEF PipelineShape, PipelineTypeOK
  <2>2. tokens' \in Nat
    BY <1>1, <2>1
  <2> QED BY <1>1, <2>1, <2>2, PipelineConstants
<1>3. /\ RequestMove(r) /\ ComesIn(r) /\ now' = now
      /\ req'[r].stage = stage /\ req'[r].by = "fallback" /\ req'[r].client = c /\ req'[r].at = now
  BY <1>1, <1>2, EnterIsMove
<1>4. Others(r) /\ PipelineShape' /\ req[r].stage = "idle"
  BY <1>3 DEF RequestMove, ComesIn
<1>5. CASE ~FallbackAllows
  BY <1>1, <1>2, <1>3, <1>4, <1>5, NobodyPasses DEF Passed
<1>6. CASE FallbackAllows
  <2>1. Remembered'
    BY <1>1, <1>2, <1>3, <1>4 DEF Admission, Remembered, Others
  <2>2. \A d \in Senders, t \in Nat : Seconds(d, t)' = Seconds(d, t)
    <3> SUFFICES ASSUME NEW d \in Senders, NEW t \in Nat
                 PROVE  Seconds(d, t)' = Seconds(d, t)
      OBVIOUS
    <3>1. \A s \in Requests : Passed(s)' /\ req'[s].by = "redis" => Passed(s) /\ req'[s] = req[s]
      BY <1>3, <1>4 DEF Passed, Others
    <3>2. \A s \in Requests : Passed(s) => Passed(s)' /\ req'[s] = req[s]
      BY <1>3, <1>4 DEF Passed, Others
    <3> QED BY <3>1, <3>2 DEF Seconds
  <2>3. SecondsBounded'
    BY <2>2 DEF Admission, SecondsBounded
  <2>4. ASSUME NEW t \in Nat
        PROVE  /\ Cardinality(FallbackAt(t)') <= BurstSize
               /\ t = now => tokens' + Cardinality(FallbackAt(t)') <= BurstSize
    <3>1. IsFiniteSet(FallbackAt(t)) /\ Cardinality(FallbackAt(t)) \in Nat
      BY AdmissionFinite DEF Admission, Remembered
    <3>2. Cardinality(FallbackAt(t)) <= BurstSize /\ (t = now => tokens + Cardinality(FallbackAt(t)) <= BurstSize)
      BY DEF Admission, BurstBounded
    <3>3. tokens > 0 /\ tokens' = tokens - 1
      BY <1>1, <1>6 DEF FallbackAllows
    <3>4. CASE t = now
      <4>1. r \notin FallbackAt(t) /\ FallbackAt(t)' = FallbackAt(t) \cup {r}
        BY <1>3, <1>4, <1>6, <3>4 DEF FallbackAt, Passed, Others, ComesIn
      <4>2. Cardinality(FallbackAt(t)') = Cardinality(FallbackAt(t)) + 1
        BY <3>1, <4>1, CountAdd
      <4> QED BY <1>2, <3>1, <3>2, <3>3, <3>4, <4>2
    <3>5. CASE t # now
      <4>1. FallbackAt(t)' = FallbackAt(t)
        BY <1>3, <1>4, <3>5 DEF FallbackAt, Passed, Others
      <4> QED BY <3>2, <3>5, <4>1
    <3> QED BY <3>4, <3>5
  <2>5. BurstBounded'
    BY <1>3, <2>4 DEF BurstBounded
  <2> QED BY <1>3, <2>1, <2>3, <2>5 DEF Admission
<1> QED BY <1>3, <1>5, <1>6

\* A second passes: the tokens are refilled up to the burst, and nobody has come in this
\* second yet (PassSecond).
LEMMA SecondAdmits ==
    ASSUME PipelineShape, Admission, PassSecond
    PROVE  PipelineShape' /\ Admission'
<1>1. /\ now' = now + 1 /\ UNCHANGED <<zset, breakers, inFlight, total, req>>
      /\ tokens' = IF tokens + RequestsPerSecond > BurstSize THEN BurstSize ELSE tokens + RequestsPerSecond
  BY DEF PassSecond
<1>2. /\ now \in Nat /\ tokens \in Nat /\ BurstSize \in Nat /\ RequestsPerSecond \in Nat /\ WindowSize \in Nat
      /\ \A s \in Requests : req[s].at \in Nat
  BY PipelineConstants DEF PipelineShape, PipelineTypeOK, RequestStates
<1>3. tokens' \in Nat /\ tokens' <= BurstSize /\ now' \in Nat
  BY <1>1, <1>2
<1>4. PipelineShape'
  BY <1>1, <1>3 DEF PipelineShape, PipelineTypeOK, Busy
<1>5. Remembered'
  BY <1>1, <1>2 DEF Admission, Remembered
<1>6. SecondsBounded'
  BY <1>1 DEF Admission, SecondsBounded, Seconds, Passed
<1>7. \A t \in Nat : FallbackAt(t)' = FallbackAt(t)
  BY <1>1 DEF FallbackAt, Passed
<1>8. ASSUME NEW t \in Nat, t = now'
      PROVE  Cardinality(FallbackAt(t)) = 0
  <2>1. \A s \in Requests : req[s].at # t
    BY <1>1, <1>2, <1>8 DEF Admission, Remembered
  <2>2. FallbackAt(t) = {}
    BY <2>1 DEF FallbackAt
  <2> QED BY <2>2, CountEmpty
<1>9. BurstBounded'
  BY <1>2, <1>3, <1>7, <1>8 DEF Admission, BurstBounded
<1> QED BY <1>4, <1>5, <1>6, <1>9 DEF Admission

-----------------------------------------------------------------------------
PipelineInv ==
    /\ PipelineShape /\ MetricsExact /\ Admission
    /\ CountsCalls("grpc-handler") /\ CountsCalls("database")

\* In the beginning nothing is counted (NewRateLimiter, NewMetricsInterceptor,
\* NewCircuitBreakerManager).
LEMMA PipelineInvInit == PipelineInit => PipelineInv
<1> SUFFICES ASSUME PipelineInit
             PROVE  PipelineInv
  OBVIOUS
<1>1. /\ now = 0 /\ zset = [c \in Senders |-> {}] /\ tokens = BurstSize /\ inFlight = 0 /\ total = 0
      /\ breakers = [n \in Breakers |-> RegisterBreaker(n, 0)] /\ req = [r \in Requests |-> NoRequest]
  BY DEF PipelineInit, NewRateLimiter, NewMetricsInterceptor
<1>0. BurstSize \in Nat /\ RequestsPerSecond \in Nat
  BY PipelineConstants
<1>2. \A r \in Requests : /\ req[r] = NoRequest /\ req[r].stage = "idle" /\ req[r].gen = 0 /\ req[r].dbgen = 0
                          /\ req[r].at = 0
  BY <1>1, NoRequestFacts DEF NoRequest
<1>3. Busy = {} /\ InChain = {} /\ Answered = {} /\ \A t \in Nat : FallbackAt(t) = {}
  BY <1>2 DEF Busy, InChain, Answered, Inside, FallbackAt, Passed
<1>4. \A c \in Senders, t \in Nat : Seconds(c, t) = {}
  BY <1>2 DEF Seconds, Passed
<1>5. PipelineShape
  <2>1. breakers \in [Breakers -> Breaker]
    BY <1>1, RegisterFacts
  <2>2. req \in [Requests -> RequestStates] /\ \A r \in Requests : Shaped(req[r])
    BY <1>1, <1>2, NoRequestFacts
  <2>3. zset \in [Senders -> SUBSET Nat]
    BY <1>1
  <2>4. now \in Nat /\ tokens \in Nat /\ inFlight \in Int /\ total \in Int
    <3>1. now = 0 /\ tokens = BurstSize /\ inFlight = 0 /\ total = 0
      BY <1>1
    <3> QED BY <3>1, <1>0
  <2>5. IsFiniteSet(Busy)
    BY <1>3, CountEmpty
  <2> QED BY <2>1, <2>2, <2>3, <2>4, <2>5 DEF PipelineShape, PipelineTypeOK
<1>6. MetricsExact
  BY <1>1, <1>3, CountEmpty DEF MetricsExact, InChain, Answered
<1>7. Admission
  <2>1. Remembered
    <3>1. now = 0 /\ \A r \in Requests : req[r].at <= now
      <4>1. now = 0
        BY <1>1
      <4> QED BY <1>2, <4>1
    <3>2. \A c \in Senders : IsFiniteSet(zset[c])
      BY <1>1, CountEmpty
    <3> QED BY <1>2, <3>1, <3>2 DEF Remembered
  <2>2. SecondsBounded
    <3>1. \A c \in Senders, t \in Nat : Cardinality(Seconds(c, t)) = 0
      BY <1>4, CountEmpty
    <3> QED BY <1>0, <3>1 DEF SecondsBounded
  <2>3. BurstBounded
    <3>1. \A t \in Nat : Cardinality(FallbackAt(t)) = 0
      BY <1>3, CountEmpty
    <3>2. tokens = BurstSize
      BY <1>1
    <3> QED BY <1>0, <3>1, <3>2 DEF BurstBounded
  <2> QED BY <2>1, <2>2, <2>3 DEF Admission
<1>8. ASSUME NEW n \in {"grpc-handler", "database"}
      PROVE  CountsCalls(n)
  <2>1. n \in Breakers /\ breakers[n].gen = 1 /\ breakers[n].req = 0 /\ breakers[n].fail = 0
    BY <1>1, RegisterFacts, PipelineConstants
  <2>2. \A r \in Requests : GenOf(n, r) = 0
    BY <1>2 DEF GenOf
  <2>3. CallsOf(n) = {} /\ FailuresOf(n) = {}
    BY <2>1, <2>2 DEF CallsOf, FailuresOf, Ran, GenOf
  <2> QED BY <2>1, <2>2, <2>3, CountEmpty DEF CountsCalls
<1> QED BY <1>5, <1>6, <1>7, <1>8 DEF PipelineInv

\* Every step of the chain keeps the metrics, the counts and the bounds.
LEMMA PipelineStep == PipelineInv /\ [PipelineNext]_pipelineVars => PipelineInv'
<1> SUFFICES ASSUME PipelineInv, [PipelineNext]_pipelineVars
             PROVE  PipelineInv'
  OBVIOUS
<1>1. PipelineShape /\ MetricsExact /\ Admission /\ CountsCalls("grpc-handler") /\ CountsCalls("database")
  BY DEF PipelineInv
<1>2. ASSUME NEW r \in Requests, RequestMove(r), Admission'
      PROVE  PipelineInv'
  <2>1. PipelineShape' /\ Others(r) /\ BreakerMove("grpc-handler", r) /\ BreakerMove("database", r)
    BY <1>2 DEF RequestMove
  <2>2. MetricsExact'
    BY <1>1, <1>2, MetricsMove
  <2>3. CountsCalls("grpc-handler")' /\ CountsCalls("database")'
    BY <1>1, <2>1, CountsMove
  <2> QED BY <1>2, <2>1, <2>2, <2>3 DEF PipelineInv
<1>3. CASE PassSecond
  <2>1. PipelineShape' /\ Admission'
    BY <1>1, <1>3, SecondAdmits
  <2>2. UNCHANGED <<breakers, inFlight, total, req>>
    BY <1>3 DEF PassSecond
  <2>3. MetricsExact' /\ CountsCalls("grpc-handler")' /\ CountsCalls("database")'
    BY <1>1, <2>2 DEF MetricsExact, Inside, CountsCalls, CallsOf, FailuresOf, Ran, Ended, Bad, GenOf
  <2> QED BY <2>1, <2>3 DEF PipelineInv
<1>4. ASSUME NEW r \in Requests, DecodingFails(r)
      PROVE  PipelineInv'
  <2>1. RequestMove(r) /\ UNCHANGED <<now, zset, tokens>>
    BY <1>1, <1>4, DecodingIsMove
  <2>2. PipelineShape' /\ Others(r) /\ req[r].stage = "idle" /\ req'[r].by = "" /\ req'[r].at = 0
    BY <1>1, <1>4, DecodingMoves
  <2>3. now \in Nat /\ tokens \in Nat
    BY <1>1 DEF PipelineShape, PipelineTypeOK
  <2>4. Admission'
    <3>1. Remembered'
      <4>1. \A s \in Requests : req'[s].at <= now
        <5>1. \A s \in Requests : s # r => req'[s].at = req[s].at
          BY <2>2 DEF Others
        <5>2. \A s \in Requests : req[s].at <= now
          BY <1>1 DEF Admission, Remembered
        <5>3. req'[r].at = 0
          BY <2>2
        <5>4. ASSUME NEW s \in Requests
              PROVE  req'[s].at <= now
          <6>1. CASE s = r
            BY <2>3, <5>3, <6>1
          <6>2. CASE s # r
            BY <5>1, <5>2, <6>2
          <6> QED BY <6>1, <6>2
        <5> QED BY <5>4
      <4>2. \A c \in Senders : IsFiniteSet(zset'[c])
        BY <1>1, <2>1 DEF Admission, Remembered
      <4>3. \A s \in Requests : s # r => req'[s] = req[s]
        BY <2>2 DEF Others
      <4>4. \A s \in Requests, c \in Senders :
                req'[s].stage # "idle" /\ req'[s].by = "redis" /\ req'[s].client = c /\ req'[s].at > now - WindowSize
                   => req'[s].at \in zset[c]
        <5> SUFFICES ASSUME NEW s \in Requests, NEW c \in Senders, req'[s].stage # "idle", req'[s].by = "redis",
                            req'[s].client = c, req'[s].at > now - WindowSize
                     PROVE  req'[s].at \in zset[c]
          OBVIOUS
        <5>1. s # r
          BY <2>2
        <5>2. req'[s] = req[s]
          BY <4>3, <5>1
        <5> QED BY <1>1, <5>2 DEF Admission, Remembered
      <4> QED BY <2>1, <4>1, <4>2, <4>4 DEF Remembered
    <3>2. \A s \in Requests : req'[s].by # "" => req'[s] = req[s]
      BY <2>2 DEF Others
    <3>3. \A s \in Requests : Passed(s) => req'[s] = req[s]
      BY <2>2 DEF Others, Passed
    <3>4. \A d \in Senders, t \in Nat : Seconds(d, t)' = Seconds(d, t)
      <4> SUFFICES ASSUME NEW d \in Senders, NEW t \in Nat
                   PROVE  Seconds(d, t)' = Seconds(d, t)
        OBVIOUS
      <4> QED BY <3>2, <3>3 DEF Seconds, Passed
    <3>5. \A t \in Nat : FallbackAt(t)' = FallbackAt(t)
      BY <3>2, <3>3 DEF FallbackAt, Passed
    <3> QED BY <1>1, <2>1, <3>1, <3>4, <3>5 DEF Admission, SecondsBounded, BurstBounded
  <2> QED BY <1>2, <2>1, <2>4
<1>5. ASSUME NEW r \in Requests, UnaryServerInterceptor(r) \/ fallbackLimiter(r)
      PROVE  PipelineInv'
  BY <1>1, <1>2, <1>5, RedisAdmits, FallbackAdmits
<1>6. ASSUME NEW r \in Requests, Step(r)
      PROVE  PipelineInv'
  <2>1. RequestMove(r) /\ UNCHANGED <<now, zset, tokens>> /\ SameOrigin(r) /\ (Passed(r)' => Passed(r))
    BY <1>1, <1>6, StepIsMove
  <2>2. PipelineShape' /\ Others(r) /\ tokens \in Nat /\ now \in Nat
    BY <1>1, <2>1 DEF RequestMove, PipelineShape, PipelineTypeOK
  <2>3. req[r].stage # "idle"
    BY <1>6 DEF Step, RateLimitExceeded, Unauthenticated, EnterHandler, EnterDatabase, Statement, Finish,
                HealthCheck, Authenticate, ValidateToken, RefreshToken, RevokeToken, Serve
  <2>4. req'[r].at <= now
    BY <1>1, <2>1 DEF SameOrigin, Admission, Remembered
  <2>5. \A c \in Senders : req'[r].by = "redis" /\ req'[r].client = c /\ req'[r].at > now - WindowSize
                              => req'[r].at \in zset[c]
    BY <1>1, <2>1, <2>3 DEF SameOrigin, Admission, Remembered
  <2>6. tokens' <= tokens
    BY <2>1, <2>2
  <2>7. Admission'
    BY <1>1, <2>1, <2>2, <2>4, <2>5, <2>6, NobodyPasses
  <2> QED BY <1>2, <2>1, <2>7
<1>7. CASE UNCHANGED pipelineVars
  BY <1>7, <1>1 DEF pipelineVars, PipelineInv, PipelineShape, PipelineTypeOK, Busy, MetricsExact, Inside,
      CountsCalls, CallsOf, FailuresOf, Ran, Ended, Bad, GenOf, Admission, Remembered, SecondsBounded, Seconds,
      BurstBounded, FallbackAt, Passed
<1> QED BY <1>3, <1>4, <1>5, <1>6, <1>7 DEF PipelineNext

(***************************************************************************)
(* MetricsNeverDrift: for every set of requests and every mix of refusals, *)
(* panics and failures, the gauge of requests in flight is the number of   *)
(* requests inside the chain and the counter misses exactly those that     *)
(* panicked or did not decode (metrics.go, recovery.go).                   *)
(***************************************************************************)
THEOREM MetricsNeverDrift == PipelineSpec => []MetricsExact
<1>1. PipelineInit => PipelineInv
  BY PipelineInvInit
<1>2. PipelineInv /\ [PipelineNext]_pipelineVars => PipelineInv'
  BY PipelineStep
<1>3. PipelineInv => MetricsExact
  BY DEF PipelineInv
<1> QED BY <1>1, <1>2, <1>3, PTL DEF PipelineSpec

(***************************************************************************)
(* BreakersExact: for every setting of the breakers, each of the two on a  *)
(* request's way counts exactly the calls of its own generation and their  *)
(* failures, however late the calls of earlier generations end             *)
(* (circuit_breaker.go; gobreaker's beforeRequest and afterRequest).       *)
(***************************************************************************)
THEOREM BreakersExact == PipelineSpec => []BreakersCountTheirCalls
<1>1. PipelineInit => PipelineInv
  BY PipelineInvInit
<1>2. PipelineInv /\ [PipelineNext]_pipelineVars => PipelineInv'
  BY PipelineStep
<1>3. PipelineInv => BreakersCountTheirCalls
  BY DEF PipelineInv, CountsCalls, CallsOf, FailuresOf, BreakersCountTheirCalls
<1> QED BY <1>1, <1>2, <1>3, PTL DEF PipelineSpec

(***************************************************************************)
(* LimitersBound: for every rate, window and burst, no window of a client  *)
(* has more seconds with requests let in by Redis than the rate, and no    *)
(* second more requests let in by the fallback than the burst              *)
(* (rate_limiter.go).                                                      *)
(***************************************************************************)
THEOREM LimitersBound == PipelineSpec => []AdmissionBounded
<1>1. PipelineInit => PipelineInv
  BY PipelineInvInit
<1>2. PipelineInv /\ [PipelineNext]_pipelineVars => PipelineInv'
  BY PipelineStep
<1>3. PipelineInv => AdmissionBounded
  <2> SUFFICES ASSUME PipelineInv
               PROVE  AdmissionBounded
    OBVIOUS
  <2>1. now \in Nat /\ 0 .. now \subseteq Nat
    BY DEF PipelineInv, PipelineShape, PipelineTypeOK
  <2>2. SecondsBounded /\ BurstBounded
    BY DEF PipelineInv, Admission
  <2> QED BY <2>1, <2>2 DEF SecondsBounded, BurstBounded, Seconds, FallbackAt, AdmissionBounded
<1> QED BY <1>1, <1>2, <1>3, PTL DEF PipelineSpec

-----------------------------------------------------------------------------
(***************************************************************************)
(* HTTP sessions: the rotation of refresh tokens, for every set of         *)
(* accounts and browsers and every pair of expiries.                       *)
(***************************************************************************)

Tokens == [account : Accounts, issuedAt : Nat, expiresAt : Nat]

Rotations ==
    {NoRotation} \cup [at : {"checked", "issued"}, token : Tokens, blind : BOOLEAN, dead : BOOLEAN]

SessionTypeOK ==
    /\ second \in Nat
    /\ issued \subseteq Tokens /\ retired \subseteq Tokens
    /\ rotation \in [Browsers -> Rotations]
    /\ \A t \in DOMAIN blacklist : blacklist[t] \in Nat

\* No token lives longer from now than a refresh token, the lifetime of an entry.
Lifetimes ==
    /\ \A t \in issued : t.expiresAt <= second + RefreshExpiry
    /\ \A c \in Browsers : rotation[c] # NoRotation => rotation[c].token \in issued

\* The entry of a retired token lasts at least as long as the token.
Covered == \A t \in retired :
    second < t.expiresAt => t \in DOMAIN blacklist /\ t.expiresAt <= blacklist[t]

SessionInv == SessionTypeOK /\ Lifetimes /\ Covered /\ RotatedStaysDead

\* What the configuration gives as expiries.
LEMMA ExpiryFacts ==
    /\ AccessExpiry \in Nat /\ RefreshExpiry \in Nat /\ AccessExpiry <= RefreshExpiry
    /\ BlacklistTTL = RefreshExpiry
BY SessionAssumption DEF BlacklistTTL

\* generateTokens signs two tokens of this second, neither of which outlives RefreshExpiry.
LEMMA SignedFacts ==
    ASSUME second \in Nat, NEW u \in Accounts, NEW t \in generateTokens(u)
    PROVE  t \in Tokens /\ t.expiresAt <= second + RefreshExpiry
BY ExpiryFacts DEF generateTokens, SignedAccess, SignedRefresh, Tokens

\* Issuing tokens, to a login or to a refresh, keeps types and lifetimes.
LEMMA IssueFacts ==
    ASSUME SessionTypeOK, Lifetimes, NEW u \in Accounts
    PROVE  LET after == issued \cup generateTokens(u)
           IN  after \subseteq Tokens /\ \A t \in after : t.expiresAt <= second + RefreshExpiry
BY SignedFacts DEF SessionTypeOK, Lifetimes

\* Login issues tokens and touches no rotation (Login).
LEMMA LoginKeeps ==
    ASSUME SessionInv, NEW u \in Accounts, Login(u)
    PROVE  SessionInv'
<1>1. second' = second /\ blacklist' = blacklist /\ rotation' = rotation /\ retired' = retired
      /\ issued' = issued \cup generateTokens(u)
  BY DEF Login
<1>2. SessionTypeOK' /\ Lifetimes'
  BY <1>1, IssueFacts DEF SessionInv, SessionTypeOK, Lifetimes
<1> QED BY <1>1, <1>2 DEF SessionInv, Covered, RotatedStaysDead

\* A refresh that gets past the check with a retired token has seen no answer of Redis:
\* the entry is still there (RefreshToken, the lookup).
LEMMA CheckKeeps ==
    ASSUME SessionInv, NEW c \in Browsers, NEW t \in issued, CheckRefresh(c, t)
    PROVE  SessionInv'
<1> DEFINE r == [at |-> "checked", token |-> t, blind |-> Blacklisted(t), dead |-> t \in retired]
<1>1. second' = second /\ blacklist' = blacklist /\ retired' = retired /\ issued' = issued
      /\ rotation' = [rotation EXCEPT ![c] = r]
  BY DEF CheckRefresh
<1>2. t \in Tokens /\ second < t.expiresAt
  BY DEF SessionInv, SessionTypeOK, CheckRefresh, Parses
<1>3. Blacklisted(t) \in BOOLEAN
  BY DEF Blacklisted
<1>4. r \in Rotations
  BY <1>2, <1>3 DEF Rotations
<1>5. SessionTypeOK'
  BY <1>1, <1>4 DEF SessionInv, SessionTypeOK
<1>6. Lifetimes'
  BY <1>1 DEF SessionInv, SessionTypeOK, Lifetimes, NoRotation
<1>7. t \in retired => Blacklisted(t)
  BY <1>2, ExpiryFacts DEF SessionInv, SessionTypeOK, Covered, Blacklisted, Tokens
<1>8. r.dead => r.blind
  BY <1>7
<1>9. RotatedStaysDead'
  <2> SUFFICES ASSUME NEW d \in Browsers, rotation'[d].at # "idle", rotation'[d].dead
               PROVE  rotation'[d].blind
    BY DEF RotatedStaysDead
  <2>1. CASE d = c
    BY <1>1, <1>8, <2>1 DEF SessionInv, SessionTypeOK
  <2>2. CASE d # c
    BY <1>1, <2>2 DEF SessionInv, SessionTypeOK, RotatedStaysDead
  <2> QED BY <2>1, <2>2
<1> QED BY <1>1, <1>5, <1>6, <1>9 DEF SessionInv, Covered

\* The refreshed tokens are issued (RefreshToken, generateTokens).
LEMMA IssueKeeps ==
    ASSUME SessionInv, NEW c \in Browsers, IssueRefreshed(c)
    PROVE  SessionInv'
<1> DEFINE u == rotation[c].token.account
<1>1. second' = second /\ blacklist' = blacklist /\ retired' = retired
      /\ issued' = issued \cup generateTokens(u)
      /\ rotation' = [rotation EXCEPT ![c].at = "issued"]
  BY DEF IssueRefreshed
<1>2. rotation[c] \in Rotations /\ rotation[c] # NoRotation
  BY DEF SessionInv, SessionTypeOK, IssueRefreshed, NoRotation
<1>3. u \in Accounts
  BY <1>2 DEF Rotations, Tokens
<1>4. issued' \subseteq Tokens /\ \A t \in issued' : t.expiresAt <= second + RefreshExpiry
  BY <1>1, <1>3, IssueFacts DEF SessionInv
<1>5. rotation'[c] \in Rotations /\ rotation'[c].token = rotation[c].token
      /\ rotation'[c].dead = rotation[c].dead /\ rotation'[c].blind = rotation[c].blind
  BY <1>1, <1>2 DEF SessionInv, SessionTypeOK, Rotations
<1>6. \A d \in Browsers : d # c => rotation'[d] = rotation[d]
  BY <1>1 DEF SessionInv, SessionTypeOK
<1>7. SessionTypeOK'
  BY <1>1, <1>4, <1>5 DEF SessionInv, SessionTypeOK
<1>8. Lifetimes'
  BY <1>1, <1>2, <1>4, <1>5, <1>6 DEF SessionInv, Lifetimes
<1>9. RotatedStaysDead'
  BY <1>2, <1>5, <1>6 DEF SessionInv, RotatedStaysDead, IssueRefreshed
<1> QED BY <1>1, <1>7, <1>8, <1>9 DEF SessionInv, Covered

\* The old token gets an entry that outlives it, unless Redis fails (RefreshToken, Set).
LEMMA BlacklistKeeps ==
    ASSUME SessionInv, NEW c \in Browsers, BlacklistOld(c)
    PROVE  SessionInv'
<1> DEFINE t == rotation[c].token
<1>1. second' = second /\ issued' = issued /\ rotation' = [rotation EXCEPT ![c] = NoRotation]
  BY DEF BlacklistOld
<1>2. rotation[c] \in Rotations /\ rotation[c] # NoRotation
  BY DEF SessionInv, SessionTypeOK, BlacklistOld, NoRotation
<1>3. t \in Tokens /\ t.expiresAt <= second + RefreshExpiry
  BY <1>2 DEF SessionInv, Lifetimes, Rotations
<1>4. \A d \in Browsers : d # c => rotation'[d] = rotation[d]
  BY <1>1 DEF SessionInv, SessionTypeOK
<1>5. rotation'[c] = NoRotation /\ rotation' \in [Browsers -> Rotations]
  BY <1>1 DEF SessionInv, SessionTypeOK, Rotations
<1>6. Lifetimes' /\ RotatedStaysDead'
  BY <1>1, <1>4, <1>5 DEF SessionInv, Lifetimes, RotatedStaysDead, NoRotation
<1>7. CASE UNCHANGED <<blacklist, retired>>
  BY <1>1, <1>5, <1>6, <1>7 DEF SessionInv, SessionTypeOK, Covered
<1>8. CASE /\ blacklist' = [x \in DOMAIN blacklist \cup {t} |->
                              IF x = t THEN second + BlacklistTTL ELSE blacklist[x]]
           /\ retired' = retired \cup {t}
  <2>1. second + BlacklistTTL \in Nat /\ t.expiresAt <= second + BlacklistTTL
    BY <1>3, ExpiryFacts DEF SessionInv, SessionTypeOK
  <2>2. SessionTypeOK'
    BY <1>1, <1>3, <1>5, <1>8, <2>1 DEF SessionInv, SessionTypeOK
  <2>3. Covered'
    BY <1>1, <1>8, <2>1 DEF SessionInv, Covered
  <2> QED BY <1>6, <2>2, <2>3 DEF SessionInv
<1> QED BY <1>7, <1>8 DEF BlacklistOld

\* Time passes: an entry that Redis drops has no live token (Second).
LEMMA SecondKeeps ==
    ASSUME SessionInv, Second
    PROVE  SessionInv'
<1>1. second' = second + 1 /\ issued' = issued /\ rotation' = rotation /\ retired' = retired
      /\ blacklist' = [t \in {x \in DOMAIN blacklist : second' < blacklist[x]} |-> blacklist[t]]
  BY DEF Second
<1>2. SessionTypeOK'
  BY <1>1 DEF SessionInv, SessionTypeOK
<1>3. Lifetimes'
  BY <1>1, ExpiryFacts DEF SessionInv, SessionTypeOK, Lifetimes, Tokens
<1>4. Covered'
  BY <1>1 DEF SessionInv, SessionTypeOK, Covered, Tokens
<1> QED BY <1>1, <1>2, <1>3, <1>4 DEF SessionInv, RotatedStaysDead

\* A request of a route moves nothing the invariant speaks of (Routes).
LEMMA RoutesKeep ==
    ASSUME SessionInv, Routes
    PROVE  SessionInv'
<1>1. second' = second /\ issued' = issued /\ blacklist' = blacklist
      /\ rotation' = rotation /\ retired' = retired
  BY DEF Routes, ForgotPassword, ResetPassword, HttpValidateToken, Visit
<1> QED BY <1>1 DEF SessionInv, SessionTypeOK, Lifetimes, Covered, RotatedStaysDead

\* Initially nothing is issued (NewAuthHandler).
LEMMA SessionInvInit == SessionInit => SessionInv
BY DEF SessionInit, SessionInv, SessionTypeOK, Lifetimes, Covered, RotatedStaysDead, Rotations, NoRotation

(***************************************************************************)
(* RotationWorks: for every expiry of refresh tokens above that of access  *)
(* tokens, a token that a refresh over HTTP has blacklisted never          *)
(* passes the lookup of a later refresh that Redis answers (RefreshToken   *)
(* of handlers/auth.go).                                                   *)
(***************************************************************************)
THEOREM RotationWorks == SessionInit /\ [][SessionNext]_sessionVars => []RotatedStaysDead
<1>1. SessionInit => SessionInv
  BY SessionInvInit
<1>2. SessionInv /\ [SessionNext]_sessionVars => SessionInv'
  <2> SUFFICES ASSUME SessionInv, [SessionNext]_sessionVars
               PROVE  SessionInv'
    OBVIOUS
  <2>1. CASE \E u \in Accounts : Login(u)
    BY <2>1, LoginKeeps
  <2>2. CASE \E c \in Browsers, t \in issued : CheckRefresh(c, t)
    BY <2>2, CheckKeeps
  <2>3. CASE \E c \in Browsers : IssueRefreshed(c)
    BY <2>3, IssueKeeps
  <2>4. CASE \E c \in Browsers : BlacklistOld(c)
    BY <2>4, BlacklistKeeps
  <2>5. CASE Routes
    BY <2>5, RoutesKeep
  <2>6. CASE Second
    BY <2>6, SecondKeeps
  <2>7. CASE UNCHANGED sessionVars
    BY <2>7 DEF sessionVars, SessionInv, SessionTypeOK, Lifetimes, Covered, RotatedStaysDead
  <2> QED BY <2>1, <2>2, <2>3, <2>4, <2>5, <2>6, <2>7 DEF SessionNext
<1>3. SessionInv => RotatedStaysDead
  BY DEF SessionInv
<1> QED BY <1>1, <1>2, <1>3, PTL

-----------------------------------------------------------------------------
(***************************************************************************)
(* The record of activities: the watch for failed logins, for every        *)
(* threshold, clock and set of activities.                                 *)
(***************************************************************************)
Actions == {"login", "logout", "login_failed", "user_created", "user_updated", "user_deleted",
            "password_changed", "profile_updated"}

Documents == [user : Members \cup {Nil}, org : {Nil, "org"}, action : Actions \cup {"none"},
              address : Addresses \cup {Nil}, hour : Nat]

\* The failed logins from an address that the report of an hour counts.
FailedLogins(p, org, h) ==
    {a \in stored : /\ InOrganization(attempts[a], org) /\ attempts[a].action = "login_failed"
                    /\ attempts[a].hour >= h /\ attempts[a].address = p /\ attempts[a].hour <= h + 1}

Noticed(p, org, h) ==
    FailedLogins(p, org, h) \cap checks = {} => Cardinality(FailedLogins(p, org, h)) < Threshold

(***************************************************************************)
(* What makes PatternsNoticed inductive: an activity is on record only     *)
(* after it was attempted, so that a document is never overwritten; and a  *)
(* check that is under way and was not overtaken by the clock looks at the *)
(* hour of its own document, so that its search covers every report that   *)
(* counts the document.                                                    *)
(***************************************************************************)
ActivityInv ==
    /\ hour \in Nat
    /\ attempts \in [Activities -> Documents]
    /\ stored \subseteq Activities /\ checks \subseteq Activities /\ IsFiniteSet(stored)
    /\ \A a \in stored \cup checks : attempts[a].action # "none"
    /\ \A a \in checks : attempts[a].address \notin blind => attempts[a].hour = hour
    /\ backend = "elastic" =>
          \A p \in Addresses \ (alerts \cup blind), org \in {Nil, "org"}, h \in 0 .. MaxHours : Noticed(p, org, h)

\* The property speaks of the report of GetSecurityStats, the invariant of its documents.
LEMMA ReportIsFailedLogins ==
    ASSUME NEW p, NEW org, NEW h
    PROVE  {a \in buildSecurityStatsQuery(org, "login_failed", h) :
               attempts[a].address = p /\ attempts[a].hour <= h + 1} = FailedLogins(p, org, h)
BY DEF buildSecurityStatsQuery, SearchDocuments, FailedLogins

\* What checkFailedLoginPattern searches for.
LEMMA QueryFinds ==
    ASSUME NEW a, NEW d \in stored, attempts[d].action = "login_failed",
           attempts[d].address = attempts[a].address, attempts[d].hour >= hour - 1,
           InOrganization(attempts[d], attempts[a].org)
    PROVE  d \in checkFailedLoginQuery(attempts[a])
BY DEF checkFailedLoginQuery, SearchDocuments

\* A search finds only what is stored.
LEMMA QueryStored == ASSUME NEW doc PROVE checkFailedLoginQuery(doc) \subseteq stored
BY DEF checkFailedLoginQuery, SearchDocuments

\* Nothing is on record when the service starts.
LEMMA ActivityInvInit == ActivityInit => ActivityInv
<1> SUFFICES ASSUME ActivityInit
             PROVE  ActivityInv
  OBVIOUS
<1>1. attempts \in [Activities -> Documents] /\ hour \in Nat
  BY DEF ActivityInit, NoAttempt, Documents, Actions
<1>2. \A p, org, h : Noticed(p, org, h)
  <2>1. \A p, org, h : FailedLogins(p, org, h) = {}
    BY DEF ActivityInit, FailedLogins
  <2> QED BY <2>1, FS_EmptySet, ActivityAssumption DEF Noticed
<1>3. stored = {} /\ checks = {} /\ IsFiniteSet(stored)
  BY FS_EmptySet DEF ActivityInit
<1> QED BY <1>1, <1>2, <1>3 DEF ActivityInv

\* Reports that count the same documents are settled alike.
LEMMA SameReport ==
    ASSUME NEW p, NEW org, NEW h, Noticed(p, org, h), FailedLogins(p, org, h)' = FailedLogins(p, org, h),
           FailedLogins(p, org, h) \cap checks \subseteq checks'
    PROVE  Noticed(p, org, h)'
BY DEF Noticed

\* Logging: a failed login is on record together with its check.
LEMMA LogKeeps ==
    ASSUME ActivityInv, NEW a \in Activities, NEW u \in Members \cup {Nil}, NEW org \in {Nil, "org"},
           NEW action \in Actions, NEW p \in Addresses,
           attempts[a] = NoAttempt, Attempted(a, u, org, action, p),
           UNCHANGED <<backend, mapped, hour, alerts, blind>>,
           \/ backend = "elastic" /\ IndexDocument(a, action)
           \/ backend = "postgres" /\ CreateActivity(a, u, org)
           \/ UNCHANGED <<stored, checks>>
    PROVE  ActivityInv'
<1> DEFINE doc == [user |-> u, org |-> org, action |-> action, address |-> p, hour |-> hour]
<1>1. doc \in Documents /\ attempts' = [attempts EXCEPT ![a] = doc]
  BY DEF ActivityInv, Documents, Attempted, NewActivityDocument
<1>2. attempts' \in [Activities -> Documents] /\ attempts'[a] = doc
      /\ \A b \in Activities \ {a} : attempts'[b] = attempts[b]
  BY <1>1 DEF ActivityInv
<1>3. a \notin stored /\ a \notin checks
  BY DEF ActivityInv, NoAttempt
<1>4. /\ stored' \in {stored, stored \cup {a}} /\ checks' \in {checks, checks \cup {a}}
      /\ (backend = "elastic" /\ a \in stored' /\ action = "login_failed") => a \in checks'
  BY <1>3 DEF IndexDocument, CreateActivity, isSecurityEvent
<1>5. IsFiniteSet(stored') /\ stored' \subseteq Activities /\ checks' \subseteq Activities
  BY <1>4, FS_AddElement DEF ActivityInv
<1>6. \A b \in stored' \cup checks' : attempts'[b].action # "none"
  BY <1>2, <1>4 DEF Actions, ActivityInv
<1>7. \A b \in checks' : attempts'[b].address \notin blind' => attempts'[b].hour = hour'
  BY <1>2, <1>4 DEF ActivityInv
<1>8. ASSUME backend' = "elastic", NEW q \in Addresses \ (alerts' \cup blind'), NEW o \in {Nil, "org"}, NEW h \in 0 .. MaxHours
      PROVE  Noticed(q, o, h)'
  <2>1. Noticed(q, o, h)
    BY <1>8 DEF ActivityInv
  <2>2. CASE a \in FailedLogins(q, o, h)'
    <3>1. a \in checks'
      BY <1>2, <1>4, <1>8, <2>2 DEF FailedLogins
    <3> QED BY <2>2, <3>1 DEF Noticed
  <2>3. CASE a \notin FailedLogins(q, o, h)'
    <3>1. FailedLogins(q, o, h)' = FailedLogins(q, o, h)
      BY <1>2, <1>3, <1>4, <2>3 DEF FailedLogins, InOrganization, ActivityInv
    <3>2. checks \subseteq checks'
      BY <1>4
    <3> QED BY <2>1, <3>1, <3>2, SameReport
  <2> QED BY <2>2, <2>3
<1> QED BY <1>2, <1>5, <1>6, <1>7, <1>8 DEF ActivityInv

\* The check of a failed login settles every report that its document is in.
LEMMA PatternCheckKeeps ==
    ASSUME ActivityInv, NEW a \in Activities, checkFailedLoginPattern(a)
    PROVE  ActivityInv'
<1> DEFINE p == attempts[a].address
<1>1. /\ a \in checks /\ attempts[a].action = "login_failed" /\ checks' = checks \ {a}
      /\ UNCHANGED <<backend, mapped, hour, stored, attempts>>
      /\ alerts \subseteq alerts' /\ blind \subseteq blind'
  BY DEF checkFailedLoginPattern
<1>2. p \in alerts' \/ p \in blind' \/ (Cardinality(checkFailedLoginQuery(attempts[a])) < Threshold /\ blind' = blind)
  <2>1. IsFiniteSet(checkFailedLoginQuery(attempts[a]))
    BY QueryStored, FS_Subset DEF ActivityInv
  <2>2. Cardinality(checkFailedLoginQuery(attempts[a])) \in Nat
    BY <2>1, FS_CardinalityType
  <2> QED BY <2>2, ActivityAssumption DEF checkFailedLoginPattern
<1>3. \A q, o, h : FailedLogins(q, o, h)' = FailedLogins(q, o, h)
  BY <1>1 DEF FailedLogins, InOrganization
<1>4. ASSUME backend' = "elastic", NEW q \in Addresses \ (alerts' \cup blind'), NEW o \in {Nil, "org"}, NEW h \in 0 .. MaxHours
      PROVE  Noticed(q, o, h)'
  <2>1. Noticed(q, o, h)
    BY <1>1, <1>4 DEF ActivityInv
  <2>2. CASE a \notin FailedLogins(q, o, h)
    BY <1>1, <1>3, <2>1, <2>2 DEF Noticed
  <2>3. CASE a \in FailedLogins(q, o, h)
    <3>1. p = q /\ attempts[a].hour <= h + 1 /\ attempts[a].org = o
      BY <2>3 DEF FailedLogins, InOrganization
    <3>2. Cardinality(checkFailedLoginQuery(attempts[a])) < Threshold /\ p \notin blind
      BY <1>1, <1>2, <1>4, <3>1
    <3>3. hour <= h + 1 /\ hour \in Nat /\ h \in Nat
      BY <1>1, <3>1, <3>2, ActivityAssumption DEF ActivityInv
    <3>4. FailedLogins(q, o, h) \subseteq checkFailedLoginQuery(attempts[a])
      <4> SUFFICES ASSUME NEW d \in FailedLogins(q, o, h)
                   PROVE  d \in checkFailedLoginQuery(attempts[a])
        OBVIOUS
      <4>1. /\ d \in stored /\ attempts[d].action = "login_failed" /\ attempts[d].address = p
            /\ attempts[d].hour >= h /\ InOrganization(attempts[d], attempts[a].org)
        BY <3>1 DEF FailedLogins
      <4>2. attempts[d].hour \in Nat
        BY <4>1 DEF ActivityInv, Documents
      <4>3. attempts[d].hour >= hour - 1
        BY <3>3, <4>1, <4>2
      <4> QED BY <4>1, <4>3, QueryFinds
    <3>5. IsFiniteSet(checkFailedLoginQuery(attempts[a]))
      BY QueryStored, FS_Subset DEF ActivityInv
    <3>6. /\ Cardinality(FailedLogins(q, o, h)) <= Cardinality(checkFailedLoginQuery(attempts[a]))
          /\ Cardinality(FailedLogins(q, o, h)) \in Nat /\ Cardinality(checkFailedLoginQuery(attempts[a])) \in Nat
      BY <3>4, <3>5, FS_Subset, FS_CardinalityType
    <3>7. Cardinality(FailedLogins(q, o, h)) < Threshold
      BY <3>2, <3>6, ActivityAssumption
    <3> QED BY <1>3, <3>7 DEF Noticed
  <2> QED BY <2>2, <2>3
<1>5. \A b \in checks' : attempts'[b].address \notin blind' => attempts'[b].hour = hour'
  BY <1>1 DEF ActivityInv
<1> QED BY <1>1, <1>4, <1>5 DEF ActivityInv

\* The steps that leave every report as it is: checks of other actions, the clock, new indices.
LEMMA QuietActivityKeeps ==
    ASSUME ActivityInv, UNCHANGED <<backend, stored, attempts, alerts>>,
           hour' \in Nat, checks' \subseteq checks, blind \subseteq blind',
           \A a \in checks \ checks' : attempts[a].action # "login_failed",
           \A a \in checks' : attempts[a].address \notin blind' => attempts[a].hour = hour',
           \A a \in stored : getCurrentIndexName(attempts[a].hour) \in mapped'
                                <=> getCurrentIndexName(attempts[a].hour) \in mapped
    PROVE  ActivityInv'
<1>1. \A q, o, h : FailedLogins(q, o, h)' = FailedLogins(q, o, h)
  BY DEF FailedLogins, InOrganization, getCurrentIndexName
<1>2. ASSUME backend' = "elastic", NEW q \in Addresses \ (alerts' \cup blind'), NEW o \in {Nil, "org"}, NEW h \in 0 .. MaxHours
      PROVE  Noticed(q, o, h)'
  <2>1. Noticed(q, o, h)
    BY <1>2 DEF ActivityInv
  <2>2. FailedLogins(q, o, h) \cap checks \subseteq checks'
    BY DEF FailedLogins
  <2> QED BY <1>1, <2>1, <2>2, SameReport
<1> QED BY <1>2 DEF ActivityInv

\* Every operation of the activity service keeps the invariant.
LEMMA ActivityInvNext == ActivityInv /\ [ActivityNext]_activityVars => ActivityInv'
<1> SUFFICES ASSUME ActivityInv, [ActivityNext]_activityVars
             PROVE  ActivityInv'
  OBVIOUS
<1>1. ASSUME NEW a \in Activities, NEW u \in Members \cup {Nil}, NEW org \in {Nil, "org"},
             NEW action \in Actions, NEW p \in Addresses, LogActivity(a, u, org, action, p)
      PROVE  ActivityInv'
  BY <1>1, LogKeeps DEF LogActivity, Lost
<1>2. ASSUME NEW a \in Activities, NEW u \in Members, NEW p \in Addresses,
             \/ AuthenticateLogs(a, u, p) \/ LogLogout(a, u, p)
             \/ LogUserCreated(a, u, p) \/ LogUserUpdated(a, u, p) \/ LogUserDeleted(a, u, p)
             \/ LogPasswordChanged(a, u, p) \/ LogProfileUpdated(a, u, p)
             \/ \E org \in {Nil, "org"} : LogLoginFailed(a, org, p)
      PROVE  ActivityInv'
  <2>1. CASE /\ attempts[a] = NoAttempt
             /\ Attempted(a, u, "org", "login_failed", p)
             /\ UNCHANGED <<backend, mapped, hour, stored, checks, alerts, blind>>
    BY <2>1, LogKeeps DEF Actions
  <2>2. CASE \E org \in {Nil, "org"} : LogLoginFailed(a, org, p)
    BY <2>2, <1>1 DEF LogLoginFailed, Actions
  <2>3. CASE \/ LogLogin(a, u, p) \/ LogLogout(a, u, p)
             \/ LogUserCreated(a, u, p) \/ LogUserUpdated(a, u, p) \/ LogUserDeleted(a, u, p)
             \/ LogPasswordChanged(a, u, p) \/ LogProfileUpdated(a, u, p)
    BY <2>3, <1>1 DEF LogLogin, LogLogout, LogUserCreated, LogUserUpdated, LogUserDeleted,
                      LogPasswordChanged, LogProfileUpdated, Actions
  <2> QED BY <1>2, <2>1, <2>2, <2>3 DEF AuthenticateLogs
<1>3. ASSUME NEW a \in Activities, checkSecurityPatterns(a) \/ checkFailedLoginPattern(a)
      PROVE  ActivityInv'
  <2>1. CASE checkSecurityPatterns(a)
    <3>1. /\ checks' = checks \ {a} /\ attempts[a].action # "login_failed"
          /\ UNCHANGED <<backend, mapped, hour, stored, attempts, alerts, blind>>
      BY <2>1 DEF checkSecurityPatterns
    <3> QED BY <3>1, QuietActivityKeeps DEF ActivityInv
  <2> QED BY <1>3, <2>1, PatternCheckKeeps
<1>4. CASE CleanupOldActivities(0)
  <2>1. /\ backend = "postgres" /\ stored' \subseteq stored
        /\ UNCHANGED <<backend, mapped, hour, attempts, checks, alerts, blind>>
    BY <1>4 DEF CleanupOldActivities
  <2>2. IsFiniteSet(stored')
    BY <2>1, FS_Subset DEF ActivityInv
  <2> QED BY <2>1, <2>2 DEF ActivityInv
<1>5. CASE Hour
  <2>1. /\ hour' = hour + 1 /\ blind' = blind \cup {attempts[a].address : a \in checks}
        /\ UNCHANGED <<backend, mapped, stored, attempts, checks, alerts>>
    BY <1>5 DEF Hour
  <2> QED BY <2>1, QuietActivityKeeps DEF ActivityInv
<1>6. CASE initializeIndices
  <2>1. /\ ~IndexExists(getCurrentIndexName(hour)) /\ mapped' = mapped \cup {getCurrentIndexName(hour)}
        /\ UNCHANGED <<backend, hour, stored, attempts, checks, alerts, blind>>
    BY <1>6 DEF initializeIndices, CreateIndex
  <2>2. \A a \in stored : getCurrentIndexName(attempts[a].hour) # getCurrentIndexName(hour)
    BY <2>1 DEF IndexExists
  <2> QED BY <2>1, <2>2, QuietActivityKeeps DEF ActivityInv
<1>7. CASE UNCHANGED activityVars
  <2>1. UNCHANGED <<backend, mapped, hour, stored, attempts, checks, alerts, blind>>
    BY <1>7 DEF activityVars
  <2> QED BY <2>1, QuietActivityKeeps DEF ActivityInv
<1> QED BY <1>2, <1>3, <1>4, <1>5, <1>6, <1>7 DEF ActivityNext

\* In whatever order failed logins are indexed and checked, a burst that the security
\* report counts has raised an alert once its checks are over (checkFailedLoginPattern),
\* unless a search failed or was overtaken by the clock.
THEOREM PatternsAlwaysNoticed == ActivityInit /\ [][ActivityNext]_activityVars => []PatternsNoticed
<1>1. ASSUME ActivityInv
      PROVE  PatternsNoticed
  BY <1>1, ReportIsFailedLogins DEF ActivityInv, Noticed, PatternsNoticed
<1> QED BY <1>1, ActivityInvInit, ActivityInvNext, PTL
=============================================================================
