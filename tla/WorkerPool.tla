----------------------------- MODULE WorkerPool -----------------------------
(***************************************************************************)
(* The generic worker pool of the auth service,                            *)
(* internal/application/services/worker_pool.go: a buffered channel of     *)
(* jobs, Size worker goroutines that select on it, a context and one quit  *)
(* channel per worker to stop them, and a mutex that Start and Stop hold.  *)
(*                                                                         *)
(* Start, Submit, SubmitWithTimeout and Stop may be called in any order,   *)
(* by any number of goroutines and any number of times: every user of the  *)
(* pool in the repository does so (the bulk permission evaluator starts    *)
(* and stops its pool on every call).  A job is a closure handed in once,  *)
(* so the jobs are the elements of the constant set Jobs.                  *)
(*                                                                         *)
(* The calls that return at once without changing anything (Start of a     *)
(* started pool, Stop of a stopped one, a worker that receives nil from a  *)
(* closed and drained queue and loops) are stuttering steps.               *)
(***************************************************************************)
EXTENDS Integers, Sequences, FiniteSets

CONSTANTS
    Size,    \* the number of workers, NewWorkerPool's argument
    Jobs,    \* the closures the callers submit
    NoJob    \* the job of a worker that has none

ASSUME SizeAssumption == Size \in Nat \ {0}
ASSUME JobsAssumption == IsFiniteSet(Jobs) /\ NoJob \notin Jobs

VARIABLES
    started,      \* wp.started
    stopping,     \* a Stop holds wp.mu and waits for the workers (wg.Wait)
    quitClosed,   \* the quit channels of wp.workers are closed
    cancelled,    \* wp.ctx is cancelled
    closed,       \* wp.jobQueue is closed
    queue,        \* the buffer of wp.jobQueue
    worker,       \* what each worker goroutine is doing
    held,         \* the job a worker received and has not finished
    job,          \* where each job is
    submitted,    \* metrics.JobsSubmitted
    inProgress,   \* metrics.JobsInProgress
    completed,    \* metrics.JobsCompleted
    panicked      \* the calls of the pool's API that have panicked

lifecycle == <<started, stopping, quitClosed, cancelled, closed>>
metrics   == <<submitted, inProgress, completed>>
vars == <<lifecycle, queue, worker, held, job, metrics, panicked>>

-----------------------------------------------------------------------------
Workers == 1 .. Size

\* make(chan func(), size*2)
QueueCap == 2 * Size

\* "none": never started, "idle": in the select of Worker.start, "received":
\* took a job and has not counted it yet, "running": in the job's body.
WorkerStates == {"none", "idle", "received", "running", "exited"}

\* "submit" and "submitT": counted by Submit or SubmitWithTimeout, which is
\* about to select.
JobStates ==
    {"new", "submit", "submitT", "queued", "held", "done", "rejected", "panicked"}

Calls == {"Submit", "CloseQuit", "CloseQueue"}

Init ==
    /\ started = FALSE /\ stopping = FALSE /\ quitClosed = FALSE
    /\ cancelled = FALSE /\ closed = FALSE
    /\ queue = << >>
    /\ worker = [w \in Workers |-> "none"]
    /\ held = [w \in Workers |-> NoJob]
    /\ job = [j \in Jobs |-> "new"]
    /\ submitted = 0 /\ inProgress = 0 /\ completed = 0
    /\ panicked = {}

-----------------------------------------------------------------------------
(***************************************************************************)
(* Faulty variants of the operations below: each is a plausible slip, and  *)
(* a property is worth checking only if it notices one of them.            *)
(***************************************************************************)
\* Start without its test of wp.started.
StartUnguarded ==
    /\ ~stopping
    /\ started' = TRUE
    /\ quitClosed' = FALSE
    /\ worker' = [w \in Workers |-> "idle"]
    /\ UNCHANGED <<stopping, cancelled, closed, queue, held, job, metrics, panicked>>

\* A worker that looks at the first job without taking it out.
ReceivePeeks(w) ==
    /\ worker[w] = "idle"
    /\ queue # << >>
    /\ worker' = [worker EXCEPT ![w] = "received"]
    /\ held' = [held EXCEPT ![w] = Head(queue)]
    /\ job' = [job EXCEPT ![Head(queue)] = "held"]
    /\ UNCHANGED <<lifecycle, queue, metrics, panicked>>

\* JobsInProgress-- left out of the deferred function.
ExecuteEndKeepsInProgress(w) ==
    /\ worker[w] = "running"
    /\ worker' = [worker EXCEPT ![w] = "idle"]
    /\ held' = [held EXCEPT ![w] = NoJob]
    /\ job' = [job EXCEPT ![held[w]] = "done"]
    /\ completed' = completed + 1
    /\ UNCHANGED <<lifecycle, queue, submitted, inProgress, panicked>>

\* Stop without wg.Wait().
StopEndNoWait ==
    /\ stopping
    /\ ~closed
    /\ closed' = TRUE
    /\ started' = FALSE
    /\ stopping' = FALSE
    /\ UNCHANGED <<quitClosed, cancelled, queue, worker, held, job, metrics, panicked>>

-----------------------------------------------------------------------------
(***************************************************************************)
(* Start: needs wp.mu, which a Stop that is waiting holds.  The context    *)
(* and the queue are the ones NewWorkerPool made: a pool that was stopped  *)
(* is restarted on a cancelled context and a closed queue.                 *)
(***************************************************************************)
Start ==
    /\ ~stopping
    /\ ~started
    /\ started' = TRUE
    /\ quitClosed' = FALSE
    /\ worker' = [w \in Workers |-> "idle"]
    /\ UNCHANGED <<stopping, cancelled, closed, queue, held, job, metrics, panicked>>

\* The first half of Submit and of SubmitWithTimeout: JobsSubmitted++.
SubmitCount(j, how) ==
    /\ job[j] = "new"
    /\ job' = [job EXCEPT ![j] = how]
    /\ submitted' = submitted + 1
    /\ UNCHANGED <<lifecycle, queue, worker, held, inProgress, completed, panicked>>

Submit(j) == SubmitCount(j, "submit")

SubmitWithTimeout(j) == SubmitCount(j, "submitT")

Submitting(j) == job[j] \in {"submit", "submitT"}

\* The select's send case is ready: the queue is open and has room.
Enqueue(j) ==
    /\ Submitting(j)
    /\ ~closed
    /\ Len(queue) < QueueCap
    /\ queue' = Append(queue, j)
    /\ job' = [job EXCEPT ![j] = "queued"]
    /\ UNCHANGED <<lifecycle, worker, held, metrics, panicked>>

\* ctx.Done(), or, for Submit only, the default case: no other case is ready.
Reject(j) ==
    /\ Submitting(j)
    /\ \/ cancelled
       \/ job[j] = "submit" /\ Len(queue) = QueueCap
    /\ job' = [job EXCEPT ![j] = "rejected"]
    /\ UNCHANGED <<lifecycle, queue, worker, held, metrics, panicked>>

\* time.After(timeout): the select may take it as soon as it is ready.
SubmitTimeout(j) ==
    /\ job[j] = "submitT"
    /\ job' = [job EXCEPT ![j] = "rejected"]
    /\ UNCHANGED <<lifecycle, queue, worker, held, metrics, panicked>>

\* The select picked the send case of a closed queue.
SubmitPanics(j) ==
    /\ Submitting(j)
    /\ closed
    /\ job' = [job EXCEPT ![j] = "panicked"]
    /\ panicked' = panicked \cup {"Submit"}
    /\ UNCHANGED <<lifecycle, queue, worker, held, metrics>>

-----------------------------------------------------------------------------
\* Worker.start's receive case.  A closed channel still hands out the jobs in
\* its buffer.
Receive(w) ==
    /\ worker[w] = "idle"
    /\ queue # << >>
    /\ worker' = [worker EXCEPT ![w] = "received"]
    /\ held' = [held EXCEPT ![w] = Head(queue)]
    /\ job' = [job EXCEPT ![Head(queue)] = "held"]
    /\ queue' = Tail(queue)
    /\ UNCHANGED <<lifecycle, metrics, panicked>>

\* executeJob up to the call of the job.
ExecuteBegin(w) ==
    /\ worker[w] = "received"
    /\ worker' = [worker EXCEPT ![w] = "running"]
    /\ inProgress' = inProgress + 1
    /\ UNCHANGED <<lifecycle, queue, held, job, submitted, completed, panicked>>

\* The job returned or panicked: the deferred function counts it and recovers,
\* and the worker goes back to its select.
ExecuteEnd(w) ==
    /\ worker[w] = "running"
    /\ worker' = [worker EXCEPT ![w] = "idle"]
    /\ held' = [held EXCEPT ![w] = NoJob]
    /\ job' = [job EXCEPT ![held[w]] = "done"]
    /\ inProgress' = inProgress - 1
    /\ completed' = completed + 1
    /\ UNCHANGED <<lifecycle, queue, submitted, panicked>>

\* The quit or the ctx.Done() case; the deferred wg.Done().
WorkerExit(w) ==
    /\ worker[w] = "idle"
    /\ quitClosed \/ cancelled
    /\ worker' = [worker EXCEPT ![w] = "exited"]
    /\ UNCHANGED <<lifecycle, queue, held, job, metrics, panicked>>

-----------------------------------------------------------------------------
(***************************************************************************)
(* Stop up to wg.Wait().  The quit channels and then the context are       *)
(* closed; a worker leaves on either and a Submit may go on sending in     *)
(* both cases, so the two closes are one step.                             *)
(***************************************************************************)
StopBegin ==
    /\ ~stopping
    /\ started
    /\ ~quitClosed
    /\ quitClosed' = TRUE
    /\ cancelled' = TRUE
    /\ stopping' = TRUE
    /\ UNCHANGED <<started, closed, queue, worker, held, job, metrics, panicked>>

\* close(worker.quit) of a channel that an earlier Stop, which then panicked
\* on the queue, has closed.
StopPanicsOnQuit ==
    /\ ~stopping
    /\ started
    /\ quitClosed
    /\ panicked' = panicked \cup {"CloseQuit"}
    /\ UNCHANGED <<lifecycle, queue, worker, held, job, metrics>>

AllExited == \A w \in Workers : worker[w] = "exited"

\* wg.Wait() returned; the queue is closed and the mutex released.
StopEnd ==
    /\ stopping
    /\ AllExited
    /\ ~closed
    /\ closed' = TRUE
    /\ started' = FALSE
    /\ stopping' = FALSE
    /\ UNCHANGED <<quitClosed, cancelled, queue, worker, held, job, metrics, panicked>>

\* wg.Wait() returned and close(wp.jobQueue) closes it a second time: the
\* deferred Unlock runs, started stays set.
StopPanicsOnQueue ==
    /\ stopping
    /\ AllExited
    /\ closed
    /\ panicked' = panicked \cup {"CloseQueue"}
    /\ stopping' = FALSE
    /\ UNCHANGED <<started, quitClosed, cancelled, closed, queue, worker, held, job, metrics>>

-----------------------------------------------------------------------------
SubmitStep(j) ==
    \/ Submit(j) \/ SubmitWithTimeout(j)
    \/ Enqueue(j) \/ Reject(j) \/ SubmitTimeout(j) \/ SubmitPanics(j)

WorkerStep(w) ==
    Receive(w) \/ ExecuteBegin(w) \/ ExecuteEnd(w) \/ WorkerExit(w)

StopStep == StopBegin \/ StopPanicsOnQuit \/ StopEnd \/ StopPanicsOnQueue

Next ==
    \/ Start
    \/ StopStep
    \/ \E j \in Jobs : SubmitStep(j)
    \/ \E w \in Workers : WorkerStep(w)

Spec == Init /\ [][Next]_vars

-----------------------------------------------------------------------------
TypeOK ==
    /\ started \in BOOLEAN /\ stopping \in BOOLEAN /\ quitClosed \in BOOLEAN
    /\ cancelled \in BOOLEAN /\ closed \in BOOLEAN
    /\ queue \in Seq(Jobs)
    /\ Len(queue) <= QueueCap
    /\ worker \in [Workers -> WorkerStates]
    /\ held \in [Workers -> Jobs \cup {NoJob}]
    /\ job \in [Jobs -> JobStates]
    /\ submitted \in Nat /\ inProgress \in Int /\ completed \in Nat
    /\ panicked \subseteq Calls

Busy(w) == worker[w] \in {"received", "running"}

(***************************************************************************)
(* No accepted job is lost or duplicated by the hand-over from Submit      *)
(* through the channel to a worker, across restarts too: a queued job is   *)
(* in the buffer at exactly one place, a job that is being executed is     *)
(* held by exactly one worker, and nothing else is in either.              *)
(***************************************************************************)
JobsConserved ==
    /\ \A i \in DOMAIN queue : job[queue[i]] = "queued"
    /\ \A i, k \in DOMAIN queue : queue[i] = queue[k] => i = k
    /\ \A j \in Jobs : job[j] = "queued" => \E i \in DOMAIN queue : queue[i] = j
    /\ \A w \in Workers : Busy(w) => held[w] \in Jobs /\ job[held[w]] = "held"
    /\ \A v, w \in Workers : Busy(v) /\ Busy(w) /\ held[v] = held[w] => v = w
    /\ \A j \in Jobs : job[j] = "held" => \E w \in Workers : Busy(w) /\ held[w] = j

(***************************************************************************)
(* Stop returns only when every worker has left its loop: while the pool   *)
(* is not started no goroutine of it is alive, so no job is being executed *)
(* (the callers free what their jobs use after Stop).                      *)
(***************************************************************************)
QuietWhenStopped ==
    ~started => \A w \in Workers : worker[w] \in {"none", "exited"}

(***************************************************************************)
(* The counters GetMetrics and GetStatus report are the truth at every     *)
(* moment, although they are updated under their own lock and not with the *)
(* queue: what was submitted, what is in progress, what is complete.       *)
(***************************************************************************)
MetricsExact ==
    /\ submitted = Cardinality({j \in Jobs : job[j] # "new"})
    /\ inProgress = Cardinality({w \in Workers : worker[w] = "running"})
    /\ completed = Cardinality({j \in Jobs : job[j] = "done"})

(***************************************************************************)
(* A panic of the API needs a pool that was stopped before: up to its      *)
(* first complete Stop no call of it panics, and a Stop that panics leaves *)
(* the pool marked as started for ever.                                    *)
(***************************************************************************)
PanicsOnlyAfterStop ==
    /\ panicked # {} => closed
    /\ "CloseQueue" \in panicked => started /\ quitClosed

=============================================================================
