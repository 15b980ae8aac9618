-------------------------- MODULE SpecializedPools --------------------------
(***************************************************************************)
(* specialized_worker_pools.go: password hashing, cache warming and audit  *)
(* logging, three worker pools with their own front ends.  WorkerPool.tla  *)
(* has the pool in detail; here a pool is its bounded queue, the jobs its  *)
(* workers run, and whether it is new, running, stopping or stopped.       *)
(***************************************************************************)
EXTENDS Integers, Sequences, SequencesExt, FiniteSets

CONSTANTS HashRequests, AuditEvents,
          PoolSize,      \* workers of each pool; its queue holds twice as many
          BatchSize,     \* of the audit batch processor
          FlushChanCap,  \* batches the flush channel holds
          PriorityCap,   \* tasks each priority queue of the warmer holds
          MaxWarming     \* bound: warming tasks scheduled

ASSUME PoolsAssumption ==
    {PoolSize, BatchSize, FlushChanCap, PriorityCap, MaxWarming} \subseteq Nat \ {0}

VARIABLES pool,       \* pool -> [state, queue, running]
          hash,       \* hash request -> what became of it
          waiting,    \* hash requests with a caller in HashPasswordSync
          hashCancelled,  \* hash requests whose context is done
          slots,      \* tokens in the semaphore of the hashing rate limiter
          hashMetrics,
          priorityQueue, warming,      \* warming tasks: queued by priority; scheduled
          logged, buffer, flushChan,   \* audit events accepted; the batch processor
          processed, lost,             \* audit event -> how often; events given up
          dead                         \* a goroutine panicked outside any recover

hashVars == <<hash, waiting, hashCancelled, slots, hashMetrics>>
warmVars == <<priorityQueue, warming>>
auditVars == <<logged, buffer, flushChan, processed, lost>>
poolVars == <<pool, hashVars, warmVars, auditVars, dead>>

PoolNames == <<"password", "cache", "audit">>
Priorities == {"high", "normal", "low"}

PoolsInit ==
    /\ pool = [p \in Range(PoolNames) |-> [state |-> "new", queue |-> <<>>, running |-> {}]]
    /\ hash = [r \in HashRequests |-> "idle"]
    /\ waiting = {} /\ hashCancelled = {} /\ slots = 0
    /\ hashMetrics = [HashingRequests |-> 0, HashingCompleted |-> 0, HashingFailed |-> 0]
    /\ priorityQueue = [p \in Priorities |-> 0] /\ warming = 0
    /\ logged = {} /\ buffer = <<>> /\ flushChan = <<>>
    /\ processed = [e \in AuditEvents |-> 0] /\ lost = {}
    /\ dead = FALSE

-----------------------------------------------------------------------------
(* The pools.                                                              *)

Room(p) == Len(pool[p].queue) < 2 * PoolSize
Enqueued(p, j) == [pool EXCEPT ![p].queue = Append(@, j)]

\* What Submit may do with a job: a closed queue panics or the context is seen
\* first; a full queue rejects; after cancel the choice of the select is free.
SubmitOutcomes(p) ==
    IF pool[p].state = "stopped" THEN {"rejected", "panic"}
    ELSE IF ~Room(p) THEN {"rejected"}
    ELSE IF pool[p].state = "stopping" THEN {"accepted", "rejected"} ELSE {"accepted"}

StartSpecializedPools ==
    /\ \A p \in DOMAIN pool : pool[p].state = "new"
    /\ pool' = [p \in DOMAIN pool |-> [pool[p] EXCEPT !.state = "running"]]
    /\ UNCHANGED <<hashVars, warmVars, auditVars, dead>>

\* A worker takes the next job; it may still do so when the pool is stopping.
Take(p) ==
    /\ pool[p].state \in {"running", "stopping"}
    /\ pool[p].queue # <<>> /\ Cardinality(pool[p].running) < PoolSize
    /\ pool' = [pool EXCEPT ![p].queue = Tail(@), ![p].running = @ \cup {Head(pool[p].queue)}]
    /\ UNCHANGED <<hashVars, warmVars, auditVars, dead>>

JobEnds(p, j) == j \in pool[p].running /\ pool' = [pool EXCEPT ![p].running = @ \ {j}]

\* The pools are stopped one after the other.
StopSpecializedPools(i) ==
    LET p == PoolNames[i]
    IN /\ pool[p].state = "running"
       /\ i > 1 => pool[PoolNames[i - 1]].state = "stopped"
       /\ pool' = [pool EXCEPT ![p].state = "stopping"]
       /\ UNCHANGED <<hashVars, warmVars, auditVars, dead>>

\* All workers left; what is still in the queue is never run.
Stopped(p) ==
    /\ pool[p].state = "stopping" /\ pool[p].running = {}
    /\ pool' = [pool EXCEPT ![p].state = "stopped", ![p].queue = <<>>]
    /\ hash' = [r \in HashRequests |-> IF p = "password" /\ Contains(pool[p].queue, r) THEN "dropped" ELSE hash[r]]
    /\ lost' = IF p = "audit" THEN lost \cup UNION {Range(b) : b \in Range(pool[p].queue)} ELSE lost
    /\ UNCHANGED <<waiting, hashCancelled, slots, hashMetrics, warmVars, logged, buffer, flushChan, processed, dead>>

-----------------------------------------------------------------------------
(* Password hashing.                                                       *)

Metric(m) == hashMetrics' = [hashMetrics EXCEPT ![m] = @ + 1]

\* A rejected job leaves the result channel empty for ever.
HashPasswordAsync(r) == \E o \in SubmitOutcomes("password") :
    /\ hash[r] = "idle"
    /\ Metric("HashingRequests")
    /\ hash' = [hash EXCEPT ![r] = IF o = "accepted" THEN "pooled" ELSE "dropped"]
    /\ pool' = IF o = "accepted" THEN Enqueued("password", r) ELSE pool
    /\ waiting' = IF o = "panic" THEN waiting ELSE waiting \cup {r}
    /\ UNCHANGED <<hashCancelled, slots, warmVars, auditVars, dead>>

\* HashPasswordSync returns: with the result, on the timeout, or cancelled.
HashPasswordSync(r) ==
    /\ r \in waiting
    /\ waiting' = waiting \ {r}
    /\ hash' = [hash EXCEPT ![r] = IF @ = "answered" THEN "received" ELSE @]
    /\ UNCHANGED <<pool, hashCancelled, slots, hashMetrics, warmVars, auditVars, dead>>

CancelHash(r) ==
    /\ r \in waiting \ hashCancelled
    /\ hashCancelled' = hashCancelled \cup {r}
    /\ UNCHANGED <<pool, hash, waiting, slots, hashMetrics, warmVars, auditVars, dead>>

\* A slot is free, or the context is done and the select may see that first.
Acquire(r) ==
    /\ r \in pool["password"].running /\ hash[r] = "pooled"
    /\ slots < 2 * PoolSize
    /\ slots' = slots + 1
    /\ hash' = [hash EXCEPT ![r] = "hashing"]
    /\ UNCHANGED <<pool, waiting, hashCancelled, hashMetrics, warmVars, auditVars, dead>>

AcquireCancelled(r) ==
    /\ hash[r] = "pooled" /\ r \in hashCancelled
    /\ JobEnds("password", r)
    /\ hash' = [hash EXCEPT ![r] = "answered"]
    /\ Metric("HashingFailed")
    /\ UNCHANGED <<waiting, hashCancelled, slots, warmVars, auditVars, dead>>

Release(s) == IF s > 0 THEN s - 1 ELSE s

\* Faulty variant: the slot is kept when the context is done at the end.
processHashingRequestLeaks(r) == \E ok \in BOOLEAN, sent \in {TRUE, r \notin hashCancelled} :
    /\ hash[r] = "hashing" /\ JobEnds("password", r)
    /\ Metric(IF ok THEN "HashingCompleted" ELSE "HashingFailed")
    /\ hash' = [hash EXCEPT ![r] = IF sent THEN "answered" ELSE "dropped"]
    /\ slots' = IF sent THEN Release(slots) ELSE slots
    /\ UNCHANGED <<waiting, hashCancelled, warmVars, auditVars, dead>>

\* The hash is made or fails; the deferred Release runs after the answer, which
\* is not sent when the select sees the context done.
processHashingRequest(r) == \E ok \in BOOLEAN, sent \in {TRUE, r \notin hashCancelled} :
    /\ hash[r] = "hashing" /\ JobEnds("password", r)
    /\ Metric(IF ok THEN "HashingCompleted" ELSE "HashingFailed")
    /\ hash' = [hash EXCEPT ![r] = IF sent THEN "answered" ELSE "dropped"]
    /\ slots' = Release(slots)
    /\ UNCHANGED <<waiting, hashCancelled, warmVars, auditVars, dead>>

-----------------------------------------------------------------------------
(* Cache warming: a task is put into a priority queue, which nobody reads, *)
(* and submitted to the pool at once.                                      *)

\* A full queue hands the task to the next lower one, once.
ScheduleTask(p) ==
    LET next == CASE p = "high" -> "normal" [] p = "normal" -> "low" [] OTHER -> "none"
    IN IF priorityQueue[p] < PriorityCap THEN [priorityQueue EXCEPT ![p] = @ + 1]
       ELSE IF next # "none" /\ priorityQueue[next] < PriorityCap THEN [priorityQueue EXCEPT ![next] = @ + 1]
       ELSE priorityQueue

ScheduleWarmingTask(p) == \E o \in SubmitOutcomes("cache") :
    /\ warming < MaxWarming
    /\ warming' = warming + 1
    /\ priorityQueue' = ScheduleTask(p)
    /\ pool' = IF o = "accepted" THEN Enqueued("cache", warming) ELSE pool
    /\ UNCHANGED <<hashVars, auditVars, dead>>

WarmUserPermissionsAsync == \E p \in Priorities : ScheduleWarmingTask(p)
WarmFrequentlyUsedAsync == ScheduleWarmingTask("normal")

\* The result channel has room for the one result.
processWarmingTask == \E j \in pool["cache"].running :
    /\ JobEnds("cache", j)
    /\ UNCHANGED <<hashVars, warmVars, auditVars, dead>>

-----------------------------------------------------------------------------
(* Audit logging.                                                          *)

\* Faulty variant: the buffer is sent and not cleared.
flushBufferUnsafeKeeps(events) ==
    /\ buffer' = events
    /\ flushChan' = IF events # <<>> /\ Len(flushChan) < FlushChanCap THEN Append(flushChan, events) ELSE flushChan
    /\ lost' = IF Len(flushChan) < FlushChanCap THEN lost ELSE lost \cup Range(events)

\* A full flush channel drops the batch.
flushBufferUnsafe(events) ==
    /\ buffer' = <<>>
    /\ flushChan' = IF events # <<>> /\ Len(flushChan) < FlushChanCap THEN Append(flushChan, events) ELSE flushChan
    /\ lost' = IF Len(flushChan) < FlushChanCap THEN lost ELSE lost \cup Range(events)

\* AddEvent: one critical section of the buffer's mutex.
AddEvent(e) ==
    LET events == Append(buffer, e)
    IN IF Len(events) >= BatchSize THEN flushBufferUnsafe(events)
       ELSE buffer' = events /\ UNCHANGED <<flushChan, lost>>

LogAuditEventAsync(e) ==
    /\ e \notin logged
    /\ logged' = logged \cup {e}
    /\ AddEvent(e)
    /\ UNCHANGED <<pool, hashVars, warmVars, processed, dead>>

\* The timer fires whether or not the pool runs.
flushBuffer ==
    /\ buffer # <<>>
    /\ flushBufferUnsafe(buffer)
    /\ UNCHANGED <<logged, pool, hashVars, warmVars, processed, dead>>

\* The goroutine of the batch processor; nothing recovers its panics.
processBatch == \E o \in SubmitOutcomes("audit") :
    /\ flushChan # <<>>
    /\ flushChan' = Tail(flushChan)
    /\ pool' = IF o = "accepted" THEN Enqueued("audit", Head(flushChan)) ELSE pool
    /\ lost' = IF o = "accepted" THEN lost ELSE lost \cup Range(Head(flushChan))
    /\ dead' = (o = "panic")
    /\ UNCHANGED <<hashVars, warmVars, logged, buffer, processed>>

processAuditBatch == \E b \in pool["audit"].running :
    /\ JobEnds("audit", b)
    /\ processed' = [e \in AuditEvents |-> processed[e] + (IF Contains(b, e) THEN 1 ELSE 0)]
    /\ UNCHANGED <<hashVars, warmVars, logged, buffer, flushChan, lost, dead>>

PoolStep ==
    \/ StartSpecializedPools
    \/ \E p \in DOMAIN pool : Take(p) \/ Stopped(p)
    \/ \E i \in DOMAIN PoolNames : StopSpecializedPools(i)

HashingStep == \E r \in HashRequests :
    \/ HashPasswordAsync(r) \/ HashPasswordSync(r) \/ CancelHash(r)
    \/ Acquire(r) \/ AcquireCancelled(r) \/ processHashingRequest(r)

WarmingStep == WarmUserPermissionsAsync \/ WarmFrequentlyUsedAsync \/ processWarmingTask

AuditStep ==
    \/ \E e \in AuditEvents : LogAuditEventAsync(e)
    \/ flushBuffer \/ processBatch \/ processAuditBatch

PoolsNext == ~dead /\ (PoolStep \/ HashingStep \/ WarmingStep \/ AuditStep)

PoolsSpec == PoolsInit /\ [][PoolsNext]_poolVars

-----------------------------------------------------------------------------
(* Properties.                                                             *)

\* Whatever mix of results, failures and cancelled contexts, the rate limiter
\* gives back every slot: it holds one token per worker that is hashing, so a
\* worker never waits for one.
HashingSlotsExact ==
    /\ slots = Cardinality({r \in HashRequests : hash[r] = "hashing"})
    /\ slots <= PoolSize

\* Through the buffer, the flush channel, the queue and the workers, no audit
\* event is processed twice, and none disappears without having been given up
\* at a full or stopped stage.
AuditExactlyOnce ==
    LET Bearing(batches, e) == Cardinality({i \in DOMAIN batches : Contains(batches[i], e)})
        Places(e) == processed[e] + (IF e \in lost THEN 1 ELSE 0)
                     + Cardinality({i \in DOMAIN buffer : buffer[i] = e})
                     + Bearing(flushChan, e) + Bearing(pool["audit"].queue, e)
                     + Cardinality({b \in pool["audit"].running : Contains(b, e)})
    IN \A e \in AuditEvents : Places(e) = IF e \in logged THEN 1 ELSE 0
=============================================================================
