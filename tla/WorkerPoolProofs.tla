-------------------------- MODULE WorkerPoolProofs --------------------------
(***************************************************************************)
(* Proofs about WorkerPool, for every size of the pool and every set of    *)
(* jobs.                                                                   *)
(***************************************************************************)
EXTENDS WorkerPool, FiniteSetTheorems, TLAPS

\* The pool has a worker and its queue a capacity (NewWorkerPool's size).
LEMMA SizeFacts == Size \in Nat /\ QueueCap \in Nat /\ Size >= 1
BY SizeAssumption DEF QueueCap

\* Sequence facts, in the form the queue's operations need.
LEMMA HeadTailFacts ==
    ASSUME NEW s \in Seq(Jobs), s # << >>
    PROVE  /\ Head(s) \in Jobs
           /\ Head(s) = s[1]
           /\ 1 \in DOMAIN s
           /\ Tail(s) \in Seq(Jobs)
           /\ Len(Tail(s)) = Len(s) - 1
           /\ DOMAIN Tail(s) = 1 .. (Len(s) - 1)
           /\ \A i \in DOMAIN Tail(s) : Tail(s)[i] = s[i + 1] /\ i + 1 \in DOMAIN s
           /\ \A i \in DOMAIN s : i # 1 => i - 1 \in DOMAIN Tail(s)
OBVIOUS

\* What Append does to the elements of the queue (the send of Submit).
LEMMA AppendFacts ==
    ASSUME NEW s \in Seq(Jobs), NEW j \in Jobs
    PROVE  /\ Append(s, j) \in Seq(Jobs)
           /\ Len(Append(s, j)) = Len(s) + 1
           /\ DOMAIN Append(s, j) = 1 .. (Len(s) + 1)
           /\ DOMAIN s = 1 .. Len(s)
           /\ Append(s, j)[Len(s) + 1] = j
           /\ \A i \in DOMAIN s : Append(s, j)[i] = s[i]
OBVIOUS

-----------------------------------------------------------------------------
\* A new pool is well typed (NewWorkerPool).
LEMMA TypeInit == Init => TypeOK
<1> SUFFICES ASSUME Init
             PROVE  TypeOK
  OBVIOUS
<1>1. queue \in Seq(Jobs) /\ Len(queue) <= QueueCap
  BY SizeFacts DEF Init
<1>2. worker \in [Workers -> WorkerStates] /\ held \in [Workers -> Jobs \cup {NoJob}]
  BY DEF Init, WorkerStates
<1>3. job \in [Jobs -> JobStates]
  BY DEF Init, JobStates
<1>4. submitted \in Nat /\ inProgress \in Int /\ completed \in Nat /\ panicked \subseteq Calls
  BY DEF Init
<1> QED BY <1>1, <1>2, <1>3, <1>4 DEF Init, TypeOK

\* Every operation of the pool keeps the types and the capacity of the queue.
LEMMA TypeNext == TypeOK /\ JobsConserved /\ [Next]_vars => TypeOK'
<1> SUFFICES ASSUME TypeOK, JobsConserved, [Next]_vars
             PROVE  TypeOK'
  OBVIOUS
<1> USE SizeFacts
<1>1. CASE Start
  BY <1>1 DEF Start, TypeOK, WorkerStates, metrics
<1>2. CASE StopStep
  BY <1>2 DEF StopStep, StopBegin, StopPanicsOnQuit, StopEnd, StopPanicsOnQueue,
              TypeOK, Calls, metrics, lifecycle
<1>3. ASSUME NEW j \in Jobs, SubmitStep(j)
      PROVE  TypeOK'
  <2>1. CASE Submit(j) \/ SubmitWithTimeout(j)
    BY <2>1 DEF Submit, SubmitWithTimeout, SubmitCount, TypeOK, JobStates, lifecycle
  <2>2. CASE Enqueue(j)
    BY <2>2, AppendFacts DEF Enqueue, TypeOK, JobStates, lifecycle, metrics
  <2>3. CASE Reject(j) \/ SubmitTimeout(j)
    BY <2>3 DEF Reject, SubmitTimeout, TypeOK, JobStates, lifecycle, metrics
  <2>4. CASE SubmitPanics(j)
    BY <2>4 DEF SubmitPanics, TypeOK, JobStates, Calls, lifecycle, metrics
  <2> QED BY <1>3, <2>1, <2>2, <2>3, <2>4 DEF SubmitStep
<1>4. ASSUME NEW w \in Workers, WorkerStep(w)
      PROVE  TypeOK'
  <2>1. CASE Receive(w)
    <3>1. queue \in Seq(Jobs) /\ queue # << >> /\ Len(queue) <= QueueCap
      BY <2>1 DEF Receive, TypeOK
    <3>2. Head(queue) \in Jobs /\ Tail(queue) \in Seq(Jobs) /\ Len(Tail(queue)) <= QueueCap
      BY <3>1, HeadTailFacts
    <3> QED BY <2>1, <3>2 DEF Receive, TypeOK, WorkerStates, JobStates, lifecycle, metrics
  <2>2. CASE ExecuteBegin(w)
    BY <2>2 DEF ExecuteBegin, TypeOK, WorkerStates, lifecycle
  <2>3. CASE ExecuteEnd(w)
    <3>1. worker' \in [Workers -> WorkerStates] /\ held' \in [Workers -> Jobs \cup {NoJob}]
      BY <2>3 DEF ExecuteEnd, TypeOK, WorkerStates
    <3>2. job' \in [Jobs -> JobStates]
      BY <2>3 DEF ExecuteEnd, TypeOK, JobStates
    <3> QED BY <2>3, <3>1, <3>2 DEF ExecuteEnd, TypeOK, lifecycle
  <2>4. CASE WorkerExit(w)
    BY <2>4 DEF WorkerExit, TypeOK, WorkerStates, lifecycle, metrics
  <2> QED BY <1>4, <2>1, <2>2, <2>3, <2>4 DEF WorkerStep
<1>5. CASE UNCHANGED vars
  BY <1>5 DEF TypeOK, vars, lifecycle, metrics
<1> QED BY <1>1, <1>2, <1>3, <1>4, <1>5 DEF Next

-----------------------------------------------------------------------------
(***************************************************************************)
(* The life cycle of the pool: a waiting Stop has closed the quit channels *)
(* of a started pool; quit channels that are closed outside a Stop belong  *)
(* to a pool whose queue is closed too; and the panic of a second close    *)
(* leaves the pool started with closed quit channels, where neither Start  *)
(* nor Stop moves it any more.                                             *)
(***************************************************************************)
Lifecycle ==
    /\ QuietWhenStopped
    /\ stopping => started /\ quitClosed
    /\ quitClosed /\ ~stopping => closed
    /\ panicked # {} => closed
    /\ "CloseQueue" \in panicked => started /\ quitClosed /\ ~stopping

\* A new pool is in the first state of its lifecycle.
LEMMA LifecycleInit == Init => Lifecycle
BY DEF Init, Lifecycle, QuietWhenStopped

\* Start, Stop and the exits of the workers keep the lifecycle facts.
LEMMA LifecycleNext == TypeOK /\ Lifecycle /\ [Next]_vars => Lifecycle'
<1> SUFFICES ASSUME TypeOK, Lifecycle, [Next]_vars
             PROVE  Lifecycle'
  OBVIOUS
<1> USE DEF Lifecycle, QuietWhenStopped
<1>1. CASE Start
  BY <1>1 DEF Start
<1>2. CASE StopBegin
  BY <1>2 DEF StopBegin
<1>3. CASE StopPanicsOnQuit
  BY <1>3 DEF StopPanicsOnQuit, lifecycle
<1>4. CASE StopEnd
  BY <1>4 DEF StopEnd, AllExited
<1>5. CASE StopPanicsOnQueue
  BY <1>5 DEF StopPanicsOnQueue
<1>6. ASSUME NEW j \in Jobs, SubmitStep(j)
      PROVE  Lifecycle'
  BY <1>6 DEF SubmitStep, Submit, SubmitWithTimeout, SubmitCount, Enqueue, Reject,
              SubmitTimeout, SubmitPanics, lifecycle
<1>7. ASSUME NEW w \in Workers, WorkerStep(w)
      PROVE  Lifecycle'
  <2>1. started
    BY <1>7 DEF WorkerStep, Receive, ExecuteBegin, ExecuteEnd, WorkerExit
  <2>2. UNCHANGED <<lifecycle, panicked>>
    BY <1>7 DEF WorkerStep, Receive, ExecuteBegin, ExecuteEnd, WorkerExit
  <2> QED BY <2>1, <2>2 DEF lifecycle
<1>8. CASE UNCHANGED vars
  BY <1>8 DEF vars, lifecycle
<1> QED BY <1>1, <1>2, <1>3, <1>4, <1>5, <1>6, <1>7, <1>8 DEF Next, StopStep

-----------------------------------------------------------------------------
(***************************************************************************)
(* JobsConserved, one conjunct at a time in the steps that disturb it.     *)
(***************************************************************************)
\* A new pool has accepted no job.
LEMMA ConservedInit == Init => JobsConserved
BY DEF Init, JobsConserved, Busy

\* Every operation of the pool keeps each accepted job at exactly one place.
LEMMA ConservedNext ==
    TypeOK /\ Lifecycle /\ JobsConserved /\ [Next]_vars => JobsConserved'
<1> SUFFICES ASSUME TypeOK, Lifecycle, JobsConserved, [Next]_vars
             PROVE  JobsConserved'
  OBVIOUS
<1>1. CASE Start
  BY <1>1 DEF Start, Lifecycle, QuietWhenStopped, JobsConserved, Busy
<1>2. CASE StopStep
  BY <1>2 DEF StopStep, StopBegin, StopPanicsOnQuit, StopEnd, StopPanicsOnQueue,
              JobsConserved, Busy
<1>3. ASSUME NEW j \in Jobs, SubmitStep(j)
      PROVE  JobsConserved'
  <2>1. CASE Enqueue(j)
    <3>1. queue \in Seq(Jobs) /\ job \in [Jobs -> JobStates]
      BY DEF TypeOK
    <3>2. \A i \in DOMAIN queue : queue[i] # j
      BY <2>1 DEF Enqueue, Submitting, JobsConserved
    <3>3. \A w \in Workers : Busy(w) => held[w] # j
      BY <2>1 DEF Enqueue, Submitting, JobsConserved
    <3>4. /\ DOMAIN queue = 1 .. Len(queue)
          /\ DOMAIN queue' = 1 .. (Len(queue) + 1)
          /\ Len(queue) \in Nat
          /\ queue'[Len(queue) + 1] = j
          /\ \A i \in DOMAIN queue : queue'[i] = queue[i] /\ queue[i] \in Jobs
      BY <2>1, <3>1, AppendFacts DEF Enqueue
    <3>5. job' = [job EXCEPT ![j] = "queued"] /\ UNCHANGED <<worker, held>>
      BY <2>1 DEF Enqueue
    <3>6. \A i \in DOMAIN queue' : job'[queue'[i]] = "queued"
      BY <3>1, <3>4, <3>5 DEF JobsConserved
    <3>7. \A i, k \in DOMAIN queue' : queue'[i] = queue'[k] => i = k
      BY <3>2, <3>4 DEF JobsConserved
    <3>8. \A x \in Jobs : job'[x] = "queued" => \E i \in DOMAIN queue' : queue'[i] = x
      BY <3>1, <3>4, <3>5 DEF JobsConserved
    <3> QED BY <3>1, <3>3, <3>5, <3>6, <3>7, <3>8, <2>1
            DEF JobsConserved, Busy, Enqueue, Submitting
  <2>2. CASE Submit(j) \/ SubmitWithTimeout(j) \/ Reject(j) \/ SubmitTimeout(j) \/ SubmitPanics(j)
    <3>1. /\ job[j] \in {"new", "submit", "submitT"}
          /\ job'[j] \in {"submit", "submitT", "rejected", "panicked"}
          /\ \A x \in Jobs : x # j => job'[x] = job[x]
          /\ UNCHANGED <<queue, worker, held>>
      BY <2>2 DEF TypeOK, Submit, SubmitWithTimeout, SubmitCount, Reject, SubmitTimeout,
                  SubmitPanics, Submitting
    <3>2. queue \in Seq(Jobs)
      BY DEF TypeOK
    <3> QED BY <3>1, <3>2 DEF JobsConserved, Busy
  <2> QED BY <1>3, <2>1, <2>2 DEF SubmitStep
<1>4. ASSUME NEW w \in Workers, WorkerStep(w)
      PROVE  JobsConserved'
  <2>1. CASE Receive(w)
    <3> DEFINE h == Head(queue)
    <3>1. queue \in Seq(Jobs) /\ queue # << >> /\ job \in [Jobs -> JobStates]
          /\ worker \in [Workers -> WorkerStates] /\ held \in [Workers -> Jobs \cup {NoJob}]
      BY <2>1 DEF TypeOK, Receive
    <3>2. h \in Jobs /\ h = queue[1] /\ 1 \in DOMAIN queue
      BY <3>1, HeadTailFacts
    <3>3. /\ \A i \in DOMAIN queue' : queue'[i] = queue[i + 1] /\ i + 1 \in DOMAIN queue
          /\ \A i \in DOMAIN queue : i # 1 => i - 1 \in DOMAIN queue'
          /\ DOMAIN queue' \subseteq Nat /\ DOMAIN queue \subseteq Nat /\ 0 \notin DOMAIN queue'
      BY <2>1, <3>1, HeadTailFacts DEF Receive
    <3>4. /\ job' = [job EXCEPT ![h] = "held"]
          /\ held' = [held EXCEPT ![w] = h]
          /\ worker' = [worker EXCEPT ![w] = "received"]
          /\ worker[w] = "idle"
      BY <2>1 DEF Receive
    <3>5. job[h] = "queued"
      BY <3>2 DEF JobsConserved
    <3> HIDE DEF h
    <3>6. \A i \in DOMAIN queue' : job'[queue'[i]] = "queued"
      BY <3>1, <3>2, <3>3, <3>4 DEF JobsConserved
    <3>7. \A i, k \in DOMAIN queue' : queue'[i] = queue'[k] => i = k
      BY <3>3 DEF JobsConserved
    <3>8. \A j \in Jobs : job'[j] = "queued" => \E i \in DOMAIN queue' : queue'[i] = j
      <4> SUFFICES ASSUME NEW j \in Jobs, job'[j] = "queued"
                   PROVE  \E i \in DOMAIN queue' : queue'[i] = j
        OBVIOUS
      <4>1. j # h /\ job[j] = "queued"
        BY <3>1, <3>2, <3>4
      <4>2. PICK k \in DOMAIN queue : queue[k] = j
        BY <4>1 DEF JobsConserved
      <4>3. k # 1 /\ k - 1 \in DOMAIN queue' /\ k \in Nat
        BY <3>2, <3>3, <4>1, <4>2
      <4> QED BY <3>3, <4>2, <4>3
    <3>9. \A v \in Workers : Busy(v)' => held'[v] \in Jobs /\ job'[held'[v]] = "held"
      BY <3>1, <3>2, <3>4 DEF JobsConserved, Busy
    <3>10. \A v, u \in Workers : Busy(v)' /\ Busy(u)' /\ held'[v] = held'[u] => v = u
      BY <3>1, <3>2, <3>4, <3>5 DEF JobsConserved, Busy
    <3>11. \A j \in Jobs : job'[j] = "held" => \E v \in Workers : Busy(v)' /\ held'[v] = j
      BY <3>1, <3>2, <3>4 DEF JobsConserved, Busy
    <3> QED BY <3>6, <3>7, <3>8, <3>9, <3>10, <3>11 DEF JobsConserved, Busy
  <2>2. CASE ExecuteBegin(w)
    <3>1. \A v \in Workers : Busy(v)' <=> Busy(v)
      BY <2>2 DEF ExecuteBegin, Busy, TypeOK
    <3> QED BY <2>2, <3>1 DEF ExecuteBegin, JobsConserved
  <2>3. CASE ExecuteEnd(w)
    <3>1. queue \in Seq(Jobs) /\ job \in [Jobs -> JobStates]
          /\ worker \in [Workers -> WorkerStates] /\ held \in [Workers -> Jobs \cup {NoJob}]
      BY DEF TypeOK
    <3>2. held[w] \in Jobs /\ job[held[w]] = "held" /\ Busy(w)
      BY <2>3 DEF ExecuteEnd, Busy, JobsConserved
    <3>3. /\ \A v \in Workers : Busy(v)' <=> Busy(v) /\ v # w
          /\ \A v \in Workers : v # w => held'[v] = held[v]
      BY <2>3, <3>1, <3>2 DEF ExecuteEnd, Busy
    <3>4. /\ job'[held[w]] = "done"
          /\ \A j \in Jobs : j # held[w] => job'[j] = job[j]
          /\ queue' = queue
      BY <2>3, <3>1, <3>2 DEF ExecuteEnd
    <3>5. \A i \in DOMAIN queue : queue[i] \in Jobs
      BY <3>1
    <3> QED BY <3>2, <3>3, <3>4, <3>5 DEF JobsConserved
  <2>4. CASE WorkerExit(w)
    <3>1. \A v \in Workers : Busy(v)' <=> Busy(v)
      BY <2>4 DEF WorkerExit, Busy, TypeOK
    <3> QED BY <2>4, <3>1 DEF WorkerExit, JobsConserved
  <2> QED BY <1>4, <2>1, <2>2, <2>3, <2>4 DEF WorkerStep
<1>5. CASE UNCHANGED vars
  BY <1>5 DEF JobsConserved, Busy, vars
<1> QED BY <1>1, <1>2, <1>3, <1>4, <1>5 DEF Next

-----------------------------------------------------------------------------
(***************************************************************************)
(* The counters.  Each step moves at most one element into or out of the   *)
(* set a counter counts.                                                   *)
(***************************************************************************)
\* There are finitely many workers, so counting them makes sense.
LEMMA WorkersFinite == IsFiniteSet(Workers)
BY SizeFacts, FS_Interval DEF Workers

\* A counter that is left alone still counts a set that is left alone.
LEMMA CountSame ==
    ASSUME NEW S, NEW T, S = T
    PROVE  Cardinality(S) = Cardinality(T)
OBVIOUS

\* An increment accounts for one element more (JobsSubmitted++).
LEMMA CountAdd ==
    ASSUME NEW S, NEW T, NEW x, IsFiniteSet(S), x \notin S, T = S \cup {x}
    PROVE  Cardinality(T) = Cardinality(S) + 1
BY FS_AddElement

\* A decrement accounts for one element less (JobsInProgress--).
LEMMA CountRemove ==
    ASSUME NEW S, NEW T, NEW x, IsFiniteSet(S), x \in S, T = S \ {x}
    PROVE  Cardinality(T) = Cardinality(S) - 1
BY FS_RemoveElement

\* The counters of a new pool are exact.
LEMMA MetricsInit == Init => MetricsExact
<1> SUFFICES ASSUME Init
             PROVE  MetricsExact
  OBVIOUS
<1>1. /\ {j \in Jobs : job[j] # "new"} = {}
      /\ {w \in Workers : worker[w] = "running"} = {}
      /\ {j \in Jobs : job[j] = "done"} = {}
  BY DEF Init
<1> QED BY <1>1, FS_EmptySet DEF Init, MetricsExact

\* Every operation that moves a job or a worker moves the counters with it.
LEMMA MetricsNext ==
    TypeOK /\ Lifecycle /\ JobsConserved /\ MetricsExact /\ [Next]_vars => MetricsExact'
<1> SUFFICES ASSUME TypeOK, Lifecycle, JobsConserved, MetricsExact, [Next]_vars
             PROVE  MetricsExact'
  OBVIOUS
<1> DEFINE Counted == {j \in Jobs : job[j] # "new"}
           Running == {w \in Workers : worker[w] = "running"}
           Done    == {j \in Jobs : job[j] = "done"}
<1>0. /\ IsFiniteSet(Counted) /\ IsFiniteSet(Running) /\ IsFiniteSet(Done)
      /\ submitted = Cardinality(Counted)
      /\ inProgress = Cardinality(Running)
      /\ completed = Cardinality(Done)
  BY JobsAssumption, WorkersFinite, FS_Subset DEF MetricsExact
<1>1. CASE Start
  <2>1. Counted' = Counted /\ Running' = {} /\ Running = {} /\ Done' = Done
    BY <1>1 DEF Start, Lifecycle, QuietWhenStopped
  <2> QED BY <1>0, <1>1, <2>1 DEF Start, MetricsExact, metrics
<1>2. CASE StopStep
  BY <1>2 DEF StopStep, StopBegin, StopPanicsOnQuit, StopEnd, StopPanicsOnQueue,
              MetricsExact, metrics
<1>3. ASSUME NEW j \in Jobs, SubmitStep(j)
      PROVE  MetricsExact'
  <2>1. CASE Submit(j) \/ SubmitWithTimeout(j)
    <3>1. Counted' = Counted \cup {j} /\ j \notin Counted /\ Running' = Running /\ Done' = Done
      BY <2>1 DEF Submit, SubmitWithTimeout, SubmitCount, TypeOK
    <3>2. submitted' = submitted + 1 /\ UNCHANGED <<inProgress, completed>>
      BY <2>1 DEF Submit, SubmitWithTimeout, SubmitCount
    <3>3. Cardinality(Counted') = Cardinality(Counted) + 1
      BY <1>0, <3>1, CountAdd
    <3> QED BY <1>0, <3>1, <3>2, <3>3 DEF MetricsExact
  <2>2. CASE Enqueue(j) \/ Reject(j) \/ SubmitTimeout(j) \/ SubmitPanics(j)
    <3>1. Counted' = Counted /\ Running' = Running /\ Done' = Done
      BY <2>2 DEF Enqueue, Reject, SubmitTimeout, SubmitPanics, Submitting, TypeOK
    <3>2. UNCHANGED metrics
      BY <2>2 DEF Enqueue, Reject, SubmitTimeout, SubmitPanics
    <3> QED BY <1>0, <3>1, <3>2 DEF MetricsExact, metrics
  <2> QED BY <1>3, <2>1, <2>2 DEF SubmitStep
<1>4. ASSUME NEW w \in Workers, WorkerStep(w)
      PROVE  MetricsExact'
  <2>1. CASE Receive(w)
    <3>1. queue \in Seq(Jobs) /\ queue # << >>
      BY <2>1 DEF Receive, TypeOK
    <3>2. Head(queue) \in Jobs /\ job[Head(queue)] = "queued"
      BY <3>1, HeadTailFacts DEF JobsConserved
    <3>3. Counted' = Counted /\ Running' = Running /\ Done' = Done
      BY <2>1, <3>2 DEF Receive, TypeOK
    <3> QED BY <1>0, <2>1, <3>3 DEF Receive, MetricsExact, metrics
  <2>2. CASE ExecuteBegin(w)
    <3>1. Counted' = Counted /\ Running' = Running \cup {w} /\ w \notin Running /\ Done' = Done
      BY <2>2 DEF ExecuteBegin, TypeOK
    <3>2. Cardinality(Running') = Cardinality(Running) + 1
      BY <1>0, <3>1, CountAdd
    <3> QED BY <1>0, <2>2, <3>1, <3>2 DEF ExecuteBegin, MetricsExact
  <2>3. CASE ExecuteEnd(w)
    <3>1. held[w] \in Jobs /\ job[held[w]] = "held"
      BY <2>3 DEF ExecuteEnd, JobsConserved, Busy
    <3>2. Running' = Running \ {w} /\ w \in Running
      BY <2>3 DEF ExecuteEnd, TypeOK
    <3>3. Done' = Done \cup {held[w]} /\ held[w] \notin Done /\ Counted' = Counted
      BY <2>3, <3>1 DEF ExecuteEnd, TypeOK
    <3>4. Cardinality(Running') = Cardinality(Running) - 1
      BY <1>0, <3>2, CountRemove
    <3>5. Cardinality(Done') = Cardinality(Done) + 1
      BY <1>0, <3>3, CountAdd
    <3> QED BY <1>0, <2>3, <3>3, <3>4, <3>5 DEF ExecuteEnd, MetricsExact
  <2>4. CASE WorkerExit(w)
    <3>1. Counted' = Counted /\ Running' = Running /\ Done' = Done
      BY <2>4 DEF WorkerExit, TypeOK
    <3> QED BY <1>0, <2>4, <3>1 DEF WorkerExit, MetricsExact, metrics
  <2> QED BY <1>4, <2>1, <2>2, <2>3, <2>4 DEF WorkerStep
<1>5. CASE UNCHANGED vars
  BY <1>5 DEF MetricsExact, vars, metrics
<1> QED BY <1>1, <1>2, <1>3, <1>4, <1>5 DEF Next

-----------------------------------------------------------------------------
(***************************************************************************)
(* The inductive invariant: none of its parts but the life cycle is        *)
(* inductive alone.  Conservation needs the life cycle (Start may only     *)
(* overwrite workers that hold nothing), the counters need conservation (a *)
(* job that ends was not counted before).                                  *)
(***************************************************************************)
IInv == TypeOK /\ Lifecycle /\ JobsConserved /\ MetricsExact

\* IInv holds in every reachable state.
THEOREM PoolInvariant == Spec => []IInv
<1>1. Init => IInv
  BY TypeInit, LifecycleInit, ConservedInit, MetricsInit DEF IInv
<1>2. IInv /\ [Next]_vars => IInv'
  BY TypeNext, LifecycleNext, ConservedNext, MetricsNext DEF IInv
<1> QED BY <1>1, <1>2, PTL DEF Spec

\* Every variable of the pool keeps its type, and the queue its capacity.
THEOREM PoolTypeCorrect == Spec => []TypeOK
<1>1. IInv => TypeOK
  BY DEF IInv
<1> QED BY <1>1, PoolInvariant, PTL

\* Submit's select, the channel and the workers' loop neither lose nor
\* duplicate an accepted job, for any number of starts and stops.
THEOREM PoolConservesJobs == Spec => []JobsConserved
<1>1. IInv => JobsConserved
  BY DEF IInv
<1> QED BY <1>1, PoolInvariant, PTL

\* When Stop has returned no worker goroutine is alive.
THEOREM PoolQuietWhenStopped == Spec => []QuietWhenStopped
<1>1. IInv => QuietWhenStopped
  BY DEF IInv, Lifecycle
<1> QED BY <1>1, PoolInvariant, PTL

\* The counters of executeJob and Submit are exact in every state.
THEOREM PoolMetricsExact == Spec => []MetricsExact
<1>1. IInv => MetricsExact
  BY DEF IInv
<1> QED BY <1>1, PoolInvariant, PTL

\* No call of the pool panics before its first Stop has returned, and a Stop
\* that panicked leaves the pool started for ever.
THEOREM PoolPanicsOnlyAfterStop == Spec => []PanicsOnlyAfterStop
<1>1. IInv => PanicsOnlyAfterStop
  BY DEF IInv, Lifecycle, PanicsOnlyAfterStop
<1> QED BY <1>1, PoolInvariant, PTL
=============================================================================
