--------------------------- MODULE BulkEvaluator ---------------------------
(***************************************************************************)
(* The bulk permission evaluator,                                          *)
(* internal/application/services/bulk_permission_evaluator.go, on top of   *)
(* the worker pool it owns.  Each call of EvaluateBulk starts the shared   *)
(* pool, submits one job per permission, collects the results in a         *)
(* goroutine of its own, waits for that goroutine, for its timer or for    *)
(* its context, and stops the pool (a deferred call) before it returns.    *)
(*                                                                         *)
(* The calls are the gRPC requests that are in flight together, the        *)
(* batches of EvaluateBulkWithBatching and the unique requests of          *)
(* OptimizedBulkEvaluate.  An empty request returns before it touches the  *)
(* pool and is not modelled.  What evaluatePermission answers is data: a   *)
(* result is a verdict or an error.                                        *)
(***************************************************************************)
EXTENDS WorkerPool

CONSTANTS
    BulkCalls,      \* the calls of EvaluateBulk
    Closers,        \* the callers of Close
    N,              \* the permissions of one call
    Sequential,     \* the calls are the batches of EvaluateBulkWithBatching
    EvalErrors,     \* evaluatePermission may return an error
    MayCancel,      \* the context of a call may be cancelled
    EagerTimeout    \* the 5 s timer may fire while answers are still coming

\* The closures EvaluateBulk submits: one for each permission of each call.
CallJobs == BulkCalls \X (1 .. N)

ASSUME BulkAssumption ==
    /\ N \in Nat \ {0}
    /\ Closers \cap BulkCalls = {}
    /\ Jobs = CallJobs
    /\ Sequential \in BOOLEAN /\ EvalErrors \in BOOLEAN
    /\ MayCancel \in BOOLEAN /\ EagerTimeout \in BOOLEAN

VARIABLES
    pc,          \* where each caller of the pool is
    outcome,     \* how a call left its final select
    ctxDone,     \* the context of a call is cancelled
    next,        \* the permission the call submits next
    resultChan,  \* the buffer of resultChan
    collector,   \* the goroutine that collects the results
    collected,   \* its loop counter i
    results      \* the slice of results the response carries

callVars == <<pc, outcome, ctxDone, next, resultChan, collector, collected, results>>
bulkVars == <<vars, callVars>>

-----------------------------------------------------------------------------
Callers == BulkCalls \cup Closers
Indices == 1 .. N

\* "zero" is the zero value of PermissionEvaluationResult.
Answers == {"zero", "verdict", "error", "timeout"}
Outcomes == {"none", "done", "timeout", "cancelled", "panic"}

BulkInit ==
    /\ Init
    /\ pc = [c \in Callers |-> "idle"]
    /\ outcome = [c \in Callers |-> "none"]
    /\ ctxDone = [c \in BulkCalls |-> FALSE]
    /\ next = [c \in BulkCalls |-> 1]
    /\ resultChan = [c \in BulkCalls |-> << >>]
    /\ collector = [c \in BulkCalls |-> "none"]
    /\ collected = [c \in BulkCalls |-> 0]
    /\ results = [c \in BulkCalls |-> [i \in Indices |-> "zero"]]

-----------------------------------------------------------------------------
\* Faulty variants.

\* The result is stored at the loop counter instead of at result.Index.
CollectResultByCount(c) ==
    /\ collector[c] = "run"
    /\ resultChan[c] # << >>
    /\ resultChan' = [resultChan EXCEPT ![c] = Tail(@)]
    /\ results' = [results EXCEPT ![c][collected[c] + 1] = Head(resultChan[c])[2]]
    /\ collected' = [collected EXCEPT ![c] = @ + 1]
    /\ collector' = [collector EXCEPT ![c] = IF collected[c] + 1 = N THEN "done" ELSE "run"]
    /\ UNCHANGED <<vars, pc, outcome, ctxDone, next>>

\* The collector waits for results only.
CollectCancelledIgnored(c) ==
    /\ FALSE
    /\ UNCHANGED bulkVars

\* No timer in the final select.
EvaluationTimeoutMissing(c) ==
    /\ FALSE
    /\ UNCHANGED bulkVars

-----------------------------------------------------------------------------
\* EvaluateBulkWithBatching calls EvaluateBulk for one batch after the other.
BatchTurn(c) ==
    Sequential => \A d \in BulkCalls \ {c} : pc[d] \in {"idle", "returned"}

\* workerPool.Start(): waits for wp.mu, and does nothing in a started pool.
EvaluateBulkStart(c) ==
    /\ pc[c] = "idle"
    /\ BatchTurn(c)
    /\ \/ Start
       \/ started /\ ~stopping /\ UNCHANGED vars
    /\ pc' = [pc EXCEPT ![c] = "submit"]
    /\ UNCHANGED <<outcome, ctxDone, next, resultChan, collector, collected, results>>

\* workerPool.Submit(job) for the next permission.  A panic leaves the call
\* through its deferred Stop.
EvaluateBulkSubmit(c) ==
    LET j == <<c, next[c]>>
    IN  /\ pc[c] = "submit"
        /\ next[c] <= N
        /\ \/ Submit(j) /\ UNCHANGED <<pc, outcome, next>>
           \/ /\ Enqueue(j) \/ Reject(j)
              /\ next' = [next EXCEPT ![c] = @ + 1]
              /\ UNCHANGED <<pc, outcome>>
           \/ /\ SubmitPanics(j)
              /\ pc' = [pc EXCEPT ![c] = "stop"]
              /\ outcome' = [outcome EXCEPT ![c] = "panic"]
              /\ UNCHANGED next
        /\ UNCHANGED <<ctxDone, resultChan, collector, collected, results>>

\* All jobs are submitted: the collecting goroutine is started.
EvaluateBulkCollect(c) ==
    /\ pc[c] = "submit"
    /\ next[c] = N + 1
    /\ pc' = [pc EXCEPT ![c] = "wait"]
    /\ collector' = [collector EXCEPT ![c] = "run"]
    /\ UNCHANGED <<vars, outcome, ctxDone, next, resultChan, collected, results>>

-----------------------------------------------------------------------------
\* processEvaluationJobFunc and the end of executeJob: the result is sent (the
\* buffer has room for all of the call's results), or dropped when the
\* context is done.
ProcessEvaluationJob(w) ==
    LET c == held[w][1]
        i == held[w][2]
    IN  /\ ExecuteEnd(w)
        /\ \/ resultChan' = [resultChan EXCEPT ![c] = Append(@, <<i, "verdict">>)]
           \/ /\ EvalErrors \/ ctxDone[c]
              /\ resultChan' = [resultChan EXCEPT ![c] = Append(@, <<i, "error">>)]
           \/ ctxDone[c] /\ UNCHANGED resultChan
        /\ UNCHANGED <<pc, outcome, ctxDone, next, collector, collected, results>>

\* The collector's receive case: the result goes to result.Index.
CollectResult(c) ==
    /\ collector[c] = "run"
    /\ resultChan[c] # << >>
    /\ resultChan' = [resultChan EXCEPT ![c] = Tail(@)]
    /\ results' = [results EXCEPT ![c][Head(resultChan[c])[1]] = Head(resultChan[c])[2]]
    /\ collected' = [collected EXCEPT ![c] = @ + 1]
    /\ collector' = [collector EXCEPT ![c] = IF collected[c] + 1 = N THEN "done" ELSE "run"]
    /\ UNCHANGED <<vars, pc, outcome, ctxDone, next>>

\* The collector's ctx.Done() case: the results from the loop counter on are
\* overwritten.
CollectCancelled(c) ==
    /\ collector[c] = "run"
    /\ ctxDone[c]
    /\ results' = [results EXCEPT ![c] =
                      [i \in Indices |-> IF i > collected[c] THEN "timeout" ELSE @[i]]]
    /\ collector' = [collector EXCEPT ![c] = "done"]
    /\ UNCHANGED <<vars, pc, outcome, ctxDone, next, resultChan, collected>>

-----------------------------------------------------------------------------
LeaveWait(c, how) ==
    /\ pc[c] = "wait"
    /\ pc' = [pc EXCEPT ![c] = "stop"]
    /\ outcome' = [outcome EXCEPT ![c] = how]
    /\ UNCHANGED <<vars, ctxDone, next, resultChan, collector, collected, results>>

EvaluationDone(c) == collector[c] = "done" /\ LeaveWait(c, "done")

EvaluationCancelled(c) == ctxDone[c] /\ LeaveWait(c, "cancelled")

\* Nothing more will arrive on the call's result channel.
Starved(c) ==
    /\ collector[c] = "run"
    /\ resultChan[c] = << >>
    /\ \A i \in Indices :
          /\ job[<<c, i>>] # "held"
          /\ job[<<c, i>>] = "queued" => \A w \in Workers : worker[w] \in {"none", "exited"}

\* time.After(evaluationTimeout): the response is returned as it is.
EvaluationTimeout(c) ==
    /\ EagerTimeout \/ Starved(c)
    /\ LeaveWait(c, "timeout")

-----------------------------------------------------------------------------
\* The deferred workerPool.Stop() of a call, or the Stop of Close.
CallStop(c) ==
    /\ pc[c] = "stop" \/ (c \in Closers /\ pc[c] = "idle")
    /\ \/ /\ StopBegin
          /\ pc' = [pc EXCEPT ![c] = "stopping"]
          /\ UNCHANGED outcome
       \/ /\ ~started /\ ~stopping /\ UNCHANGED vars
          /\ pc' = [pc EXCEPT ![c] = "returned"]
          /\ UNCHANGED outcome
       \/ /\ StopPanicsOnQuit
          /\ pc' = [pc EXCEPT ![c] = "returned"]
          /\ outcome' = [outcome EXCEPT ![c] = "panic"]
    /\ UNCHANGED <<ctxDone, next, resultChan, collector, collected, results>>

CallStopped(c) ==
    /\ pc[c] = "stopping"
    /\ pc' = [pc EXCEPT ![c] = "returned"]
    /\ \/ StopEnd /\ UNCHANGED outcome
       \/ StopPanicsOnQueue /\ outcome' = [outcome EXCEPT ![c] = "panic"]
    /\ UNCHANGED <<ctxDone, next, resultChan, collector, collected, results>>

\* The client gives up, or the gRPC server cancels the context of a request
\* whose handler has returned.
CancelContext(c) ==
    /\ MayCancel
    /\ pc[c] # "idle"
    /\ ~ctxDone[c]
    /\ ctxDone' = [ctxDone EXCEPT ![c] = TRUE]
    /\ UNCHANGED <<vars, pc, outcome, next, resultChan, collector, collected, results>>

-----------------------------------------------------------------------------
CallStep(c) ==
    \/ EvaluateBulkStart(c) \/ EvaluateBulkSubmit(c) \/ EvaluateBulkCollect(c)
    \/ EvaluationDone(c) \/ EvaluationCancelled(c) \/ EvaluationTimeout(c)

CollectorStep(c) == CollectResult(c) \/ CollectCancelled(c)

StopperStep(c) == CallStop(c) \/ CallStopped(c)

PoolWorkerStep(w) ==
    \/ (Receive(w) \/ ExecuteBegin(w) \/ WorkerExit(w)) /\ UNCHANGED callVars
    \/ ProcessEvaluationJob(w)

BulkNext ==
    \/ \E c \in BulkCalls : CallStep(c) \/ CollectorStep(c) \/ CancelContext(c)
    \/ \E c \in Callers : StopperStep(c)
    \/ \E w \in Workers : PoolWorkerStep(w)

BulkSpec == BulkInit /\ [][BulkNext]_bulkVars

(***************************************************************************)
(* Every runnable goroutine runs: a call that has begun, its collector and *)
(* the workers.  A Stop that waits for wp.mu gets it although others take  *)
(* it again and again (sync.Mutex is starvation free).  The timer of a     *)
(* call fires in the end, and the server cancels the context of a request  *)
(* whose handler has returned.                                             *)
(***************************************************************************)
BulkFairness ==
    /\ \A c \in BulkCalls :
          /\ WF_bulkVars(pc[c] # "idle" /\ CallStep(c))
          /\ WF_bulkVars(CollectorStep(c))
          /\ WF_bulkVars(pc[c] = "returned" /\ CancelContext(c))
          /\ SF_bulkVars(StopperStep(c))
    /\ \A c \in Closers : WF_bulkVars(CallStopped(c))
    /\ \A w \in Workers : WF_bulkVars(PoolWorkerStep(w))

-----------------------------------------------------------------------------
(***************************************************************************)
(* An answer that counts as evaluated belongs to a job of this call and    *)
(* this permission that the pool has run to its end, whatever pool another *)
(* call has stopped or restarted in between.                               *)
(***************************************************************************)
VerdictsAreEvaluated ==
    \A c \in BulkCalls : \A i \in Indices :
        results[c][i] = "verdict" => job[<<c, i>>] = "done"

(***************************************************************************)
(* Every call that has begun returns, although it may have to wait for the *)
(* Stop of another one and the workers may have left before its jobs ran.  *)
(***************************************************************************)
CallsReturn == \A c \in BulkCalls : pc[c] = "submit" ~> pc[c] = "returned"

(***************************************************************************)
(* The collecting goroutine ends even when jobs were rejected or left in   *)
(* the queue of a stopped pool: only the end of the context frees it.      *)
(***************************************************************************)
CollectorsEnd == \A c \in BulkCalls : collector[c] = "run" ~> collector[c] = "done"

(***************************************************************************)
(* TestEvaluateBulkWithBatching calls EvaluateBulk twice and expects       *)
(* NoError: no call panics.  The code restarts a pool whose queue the      *)
(* first call has closed.                                                  *)
(***************************************************************************)
NoCallPanics == \A c \in Callers : outcome[c] # "panic"

=============================================================================
