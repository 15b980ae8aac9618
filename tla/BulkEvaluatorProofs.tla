------------------------ MODULE BulkEvaluatorProofs ------------------------
(***************************************************************************)
(* Proofs about BulkEvaluator, for every number of calls, of permissions   *)
(* in a call and of workers.  The calls use the pool as its own            *)
(* specification allows, so that what WorkerPoolProofs shows of the pool   *)
(* holds while calls start and stop it under each other.                   *)
(***************************************************************************)
EXTENDS BulkEvaluator, WorkerPoolProofs

CallTypeOK ==
    /\ next \in [BulkCalls -> Nat \ {0}]
    /\ ctxDone \in [BulkCalls -> BOOLEAN]
    /\ collector \in [BulkCalls -> {"none", "run", "done"}]
    /\ collected \in [BulkCalls -> Nat]
    /\ resultChan \in [BulkCalls -> Seq(Indices \X Answers)]
    /\ results \in [BulkCalls -> [Indices -> Answers]]

\* What is in the result channel of a call: answers to its own permissions, at most one
\* to each, from jobs that have ended, and not yet collected.
ChannelInv(c) ==
    /\ \A k \in DOMAIN resultChan[c] :
          /\ resultChan[c][k][2] \in {"verdict", "error"}
          /\ job[<<c, resultChan[c][k][1]>>] = "done"
          /\ ~ctxDone[c] => results[c][resultChan[c][k][1]] = "zero"
    /\ \A k, l \in DOMAIN resultChan[c] : resultChan[c][k][1] = resultChan[c][l][1] => k = l

Answered(c) == {i \in Indices : results[c][i] # "zero"}

\* What a call has collected: answers of jobs that have ended, and, while its context
\* lives, as many as the loop has counted.
ResultsInv(c) ==
    /\ \A i \in Indices : results[c][i] \in {"verdict", "error"} => job[<<c, i>>] = "done"
    /\ ~ctxDone[c] =>
          /\ \A i \in Indices : results[c][i] # "timeout"
          /\ collected[c] = Cardinality(Answered(c))
          /\ collector[c] = "done" => collected[c] = N

CallInv(c) == ChannelInv(c) /\ ResultsInv(c)

BulkInv == IInv /\ CallTypeOK /\ \A c \in BulkCalls : CallInv(c)

(***************************************************************************)
(* A call whose collector ended by itself, its context alive, answers      *)
(* every permission it was asked for: a slot of the response stays zero    *)
(* only for a call that ran into its timer or was cancelled.               *)
(***************************************************************************)
EveryPermissionAnswered ==
    \A c \in BulkCalls : collector[c] = "done" /\ ~ctxDone[c] =>
        \A i \in Indices : results[c][i] \in {"verdict", "error"}

-----------------------------------------------------------------------------
(* The evaluator uses the pool as the pool's specification allows.         *)

\* The next permission of a call is one of its jobs.
LEMMA NextIsJob ==
    ASSUME CallTypeOK, NEW c \in BulkCalls, next[c] <= N
    PROVE  <<c, next[c]>> \in Jobs
BY BulkAssumption DEF CallTypeOK, CallJobs

\* A submission of EvaluateBulk is one of the pool.
LEMMA SubmitOfPool ==
    ASSUME CallTypeOK, NEW c \in BulkCalls, EvaluateBulkSubmit(c)
    PROVE  Next
<1>1. <<c, next[c]>> \in Jobs
  BY NextIsJob DEF EvaluateBulkSubmit
<1>2. SubmitStep(<<c, next[c]>>)
  BY DEF EvaluateBulkSubmit, SubmitStep
<1> QED BY <1>1, <1>2 DEF Next

\* A step of the evaluator is one of the pool, or leaves the pool alone.
LEMMA StepOfPool == CallTypeOK /\ [BulkNext]_bulkVars => [Next]_vars
<1> SUFFICES ASSUME CallTypeOK, [BulkNext]_bulkVars
             PROVE  Next \/ UNCHANGED vars
  OBVIOUS
<1>1. ASSUME NEW c \in BulkCalls, CallStep(c)
      PROVE  Next \/ UNCHANGED vars
  <2>1. CASE EvaluateBulkStart(c)
    BY <2>1 DEF EvaluateBulkStart, Next
  <2>2. CASE EvaluateBulkSubmit(c)
    BY <2>2, SubmitOfPool
  <2>3. CASE EvaluateBulkCollect(c) \/ EvaluationDone(c) \/ EvaluationCancelled(c) \/ EvaluationTimeout(c)
    BY <2>3 DEF EvaluateBulkCollect, EvaluationDone, EvaluationCancelled, EvaluationTimeout, LeaveWait
  <2> QED BY <1>1, <2>1, <2>2, <2>3 DEF CallStep
<1>2. ASSUME NEW c \in BulkCalls, CollectorStep(c) \/ CancelContext(c)
      PROVE  UNCHANGED vars
  BY <1>2 DEF CollectorStep, CollectResult, CollectCancelled, CancelContext
<1>3. ASSUME NEW c \in Callers, StopperStep(c)
      PROVE  Next \/ UNCHANGED vars
  BY <1>3 DEF StopperStep, CallStop, CallStopped, Next, StopStep
<1>4. ASSUME NEW w \in Workers, PoolWorkerStep(w)
      PROVE  Next
  BY <1>4 DEF PoolWorkerStep, ProcessEvaluationJob, Next, WorkerStep
<1>5. CASE UNCHANGED bulkVars
  BY <1>5 DEF bulkVars
<1> QED BY <1>1, <1>2, <1>3, <1>4, <1>5 DEF BulkNext

\* A job that has ended stays so: nothing takes it up again.
LEMMA DoneStays ==
    ASSUME IInv, [Next]_vars, NEW j \in Jobs, job[j] = "done"
    PROVE  job'[j] = "done"
<1> USE DEF IInv, TypeOK
<1>1. CASE Start \/ StopStep \/ UNCHANGED vars
  BY <1>1 DEF Start, StopStep, StopBegin, StopPanicsOnQuit, StopEnd, StopPanicsOnQueue, vars
<1>2. ASSUME NEW k \in Jobs, SubmitStep(k)
      PROVE  job'[j] = "done"
  BY <1>2 DEF SubmitStep, Submit, SubmitWithTimeout, SubmitCount, Submitting, Enqueue, Reject,
              SubmitTimeout, SubmitPanics
<1>3. ASSUME NEW w \in Workers, WorkerStep(w)
      PROVE  job'[j] = "done"
  <2>1. CASE Receive(w)
    <3>1. Head(queue) \in Jobs /\ job[Head(queue)] = "queued"
      BY <2>1, HeadTailFacts DEF Receive, JobsConserved
    <3> QED BY <2>1, <3>1 DEF Receive
  <2>2. CASE ExecuteEnd(w)
    BY <2>2 DEF ExecuteEnd
  <2>3. CASE ExecuteBegin(w) \/ WorkerExit(w)
    BY <2>3 DEF ExecuteBegin, WorkerExit
  <2> QED BY <1>3, <2>1, <2>2, <2>3 DEF WorkerStep
<1> QED BY <1>1, <1>2, <1>3 DEF Next

-----------------------------------------------------------------------------
(* The calls.                                                              *)

\* A call keeps its invariant when its channel, context and results are left alone.
LEMMA CallFrame ==
    ASSUME IInv, CallTypeOK, [Next]_vars, NEW c \in BulkCalls, CallInv(c),
           resultChan'[c] = resultChan[c], results'[c] = results[c], ctxDone'[c] = ctxDone[c],
           collected'[c] = collected[c],
           collector'[c] = "done" => collector[c] = "done"
    PROVE  CallInv(c)'
<1>1. \A i \in Indices : job[<<c, i>>] = "done" => job'[<<c, i>>] = "done"
  BY DoneStays, BulkAssumption DEF CallJobs, Indices
<1>2. \A k \in DOMAIN resultChan[c] : resultChan[c][k][1] \in Indices
  BY DEF CallTypeOK
<1>3. ChannelInv(c)'
  BY <1>1, <1>2 DEF CallInv, ChannelInv
<1>4. Answered(c)' = Answered(c)
  BY DEF Answered
<1>5. ResultsInv(c)'
  BY <1>1, <1>4 DEF CallInv, ResultsInv
<1> QED BY <1>3, <1>5 DEF CallInv

\* The steps that only move the call, its submissions and the stops of the pool.
LEMMA QuietStep ==
    ASSUME BulkInv, [Next]_vars,
           UNCHANGED <<ctxDone, resultChan, collected, results>>,
           \A c \in BulkCalls : collector'[c] = "done" => collector[c] = "done"
    PROVE  \A c \in BulkCalls : CallInv(c)'
BY CallFrame DEF BulkInv

\* The collector's receive: the answer moves from the channel to its slot.
LEMMA CollectKeeps ==
    ASSUME BulkInv, NEW c \in BulkCalls, CollectResult(c)
    PROVE  CallTypeOK' /\ CallInv(c)'
<1> DEFINE ch == resultChan[c]
           i == ch[1][1]
           a == ch[1][2]
<1>0. ChannelInv(c) /\ ResultsInv(c)
  BY DEF BulkInv, CallInv
<1>1. /\ ch \in Seq(Indices \X Answers) /\ ch # << >>
      /\ Head(ch) = ch[1] /\ 1 \in DOMAIN ch /\ ch[1] \in Indices \X Answers
      /\ Tail(ch) \in Seq(Indices \X Answers)
      /\ \A k \in DOMAIN Tail(ch) : k + 1 \in DOMAIN ch /\ Tail(ch)[k] = ch[k + 1] /\ k + 1 # 1 /\ k \in Nat
  BY DEF BulkInv, CallTypeOK, CollectResult
<1>2. i \in Indices /\ a \in {"verdict", "error"} /\ a \in Answers /\ job[<<c, i>>] = "done"
  BY <1>1 DEF BulkInv, CallInv, ChannelInv
<1>3. /\ resultChan' = [resultChan EXCEPT ![c] = Tail(ch)]
      /\ results' = [results EXCEPT ![c][i] = a]
      /\ collected' = [collected EXCEPT ![c] = @ + 1]
      /\ collector' = [collector EXCEPT ![c] = IF collected[c] + 1 = N THEN "done" ELSE "run"]
      /\ job' = job /\ ctxDone' = ctxDone /\ next' = next
  BY <1>1 DEF CollectResult, vars
<1>4. CallTypeOK'
  BY <1>1, <1>2, <1>3 DEF BulkInv, CallTypeOK
<1>5. /\ resultChan'[c] = Tail(ch)
      /\ results'[c] = [results[c] EXCEPT ![i] = a]
      /\ collected'[c] = collected[c] + 1
      /\ collector'[c] = IF collected[c] + 1 = N THEN "done" ELSE "run"
      /\ results[c] \in [Indices -> Answers] /\ collected[c] \in Nat
  BY <1>3 DEF BulkInv, CallTypeOK
<1>6. ChannelInv(c)'
  <2>1. \A k \in DOMAIN ch : ch[k][1] \in Indices /\ (k # 1 => ch[k][1] # i)
    BY <1>1 DEF BulkInv, CallInv, ChannelInv
  <2>2. \A k \in DOMAIN Tail(ch) :
           /\ Tail(ch)[k][2] \in {"verdict", "error"}
           /\ job'[<<c, Tail(ch)[k][1]>>] = "done"
           /\ ~ctxDone'[c] => results'[c][Tail(ch)[k][1]] = "zero"
    <3> SUFFICES ASSUME NEW k \in DOMAIN Tail(ch)
                 PROVE  /\ Tail(ch)[k][2] \in {"verdict", "error"}
                        /\ job'[<<c, Tail(ch)[k][1]>>] = "done"
                        /\ ~ctxDone'[c] => results'[c][Tail(ch)[k][1]] = "zero"
      OBVIOUS
    <3>1. k + 1 \in DOMAIN ch /\ Tail(ch)[k] = ch[k + 1] /\ ch[k + 1][1] \in Indices /\ ch[k + 1][1] # i
      BY <1>1, <2>1
    <3>2. /\ ch[k + 1][2] \in {"verdict", "error"} /\ job[<<c, ch[k + 1][1]>>] = "done"
          /\ ~ctxDone[c] => results[c][ch[k + 1][1]] = "zero"
      BY <1>0, <3>1 DEF ChannelInv
    <3>3. results'[c][ch[k + 1][1]] = results[c][ch[k + 1][1]]
      BY <1>5, <3>1
    <3> HIDE DEF ch, i
    <3> QED BY <1>3, <3>1, <3>2, <3>3
  <2>3. \A k, l \in DOMAIN Tail(ch) : Tail(ch)[k][1] = Tail(ch)[l][1] => k = l
    <3> SUFFICES ASSUME NEW k \in DOMAIN Tail(ch), NEW l \in DOMAIN Tail(ch), Tail(ch)[k][1] = Tail(ch)[l][1]
                 PROVE  k = l
      OBVIOUS
    <3>1. k + 1 = l + 1
      BY <1>1 DEF BulkInv, CallInv, ChannelInv
    <3> QED BY <1>1, <3>1
  <2> QED BY <1>5, <2>2, <2>3 DEF ChannelInv
<1>7. ResultsInv(c)'
  <2>1. \A k \in Indices : results'[c][k] \in {"verdict", "error"} => job'[<<c, k>>] = "done"
    <3> SUFFICES ASSUME NEW k \in Indices, results'[c][k] \in {"verdict", "error"}
                 PROVE  job[<<c, k>>] = "done"
      BY <1>3
    <3>1. CASE k = i
      BY <3>1, <1>2
    <3>2. CASE k # i
      BY <3>2, <1>0, <1>5 DEF ResultsInv
    <3> QED BY <3>1, <3>2
  <2>2. ASSUME ~ctxDone'[c]
        PROVE  /\ \A k \in Indices : results'[c][k] # "timeout"
               /\ collected'[c] = Cardinality(Answered(c)')
               /\ collector'[c] = "done" => collected'[c] = N
    <3>1. results[c][i] = "zero"
      BY <1>1, <1>3, <2>2 DEF BulkInv, CallInv, ChannelInv
    <3>2. Answered(c)' = Answered(c) \cup {i} /\ i \notin Answered(c)
      BY <1>2, <1>5, <3>1 DEF Answered
    <3>3. IsFiniteSet(Answered(c))
      <4>1. IsFiniteSet(Indices)
        BY FS_Interval, BulkAssumption DEF Indices
      <4> QED BY <4>1, FS_Subset DEF Answered
    <3>4. Cardinality(Answered(c)') = Cardinality(Answered(c)) + 1
      BY <3>2, <3>3, CountAdd
    <3> QED BY <1>2, <1>3, <1>5, <2>2, <3>4 DEF BulkInv, CallInv, ResultsInv
  <2> QED BY <2>1, <2>2 DEF ResultsInv
<1> QED BY <1>4, <1>6, <1>7 DEF CallInv

\* The collector's ctx.Done(): what it overwrites belongs to a cancelled call.
LEMMA CancelledKeeps ==
    ASSUME BulkInv, NEW c \in BulkCalls, CollectCancelled(c)
    PROVE  CallTypeOK' /\ CallInv(c)'
<1>1. /\ results' = [results EXCEPT ![c] =
                        [i \in Indices |-> IF i > collected[c] THEN "timeout" ELSE results[c][i]]]
      /\ collector' = [collector EXCEPT ![c] = "done"]
      /\ ctxDone[c] /\ ctxDone' = ctxDone /\ job' = job /\ next' = next
      /\ resultChan' = resultChan /\ collected' = collected
  BY DEF CollectCancelled, vars, BulkInv, CallTypeOK
<1>2. CallTypeOK'
  BY <1>1 DEF BulkInv, CallTypeOK, Answers
<1>3. \A i \in Indices : results'[c][i] \in {"timeout", results[c][i]}
  BY <1>1 DEF BulkInv, CallTypeOK
<1>4. ChannelInv(c)'
  BY <1>1 DEF BulkInv, CallInv, ChannelInv
<1>5. ResultsInv(c)'
  BY <1>1, <1>3 DEF BulkInv, CallInv, ResultsInv
<1> QED BY <1>2, <1>4, <1>5 DEF CallInv

\* A job ends: its answer is the first that its permission gets.
LEMMA JobEndKeeps ==
    ASSUME BulkInv, NEW w \in Workers, ProcessEvaluationJob(w)
    PROVE  CallTypeOK' /\ \A c \in BulkCalls : CallInv(c)'
<1>1. /\ worker[w] = "running" /\ job' = [job EXCEPT ![held[w]] = "done"]
      /\ UNCHANGED <<ctxDone, next, collector, collected, results>>
  BY DEF ProcessEvaluationJob, ExecuteEnd
<1>2. held[w] \in Jobs /\ job[held[w]] = "held"
  BY <1>1 DEF BulkInv, IInv, JobsConserved, Busy
<1>3. PICK c \in BulkCalls, i \in Indices : held[w] = <<c, i>>
  BY <1>2, BulkAssumption DEF CallJobs, Indices
<1>4. job'[<<c, i>>] = "done" /\ job[<<c, i>>] # "done"
  BY <1>1, <1>2, <1>3 DEF BulkInv, IInv, TypeOK
<1>5. \A j \in Jobs : job[j] = "done" => job'[j] = "done"
  BY <1>1, <1>2 DEF BulkInv, IInv, TypeOK
<1>6. \/ UNCHANGED resultChan
      \/ \E a \in {"verdict", "error"} :
            resultChan' = [resultChan EXCEPT ![c] = Append(resultChan[c], <<i, a>>)]
  BY <1>3 DEF ProcessEvaluationJob
<1>7. [Next]_vars
  BY DEF ProcessEvaluationJob, WorkerStep, Next
<1>8. CASE UNCHANGED resultChan
  <2>1. CallTypeOK'
    BY <1>1, <1>8 DEF BulkInv, CallTypeOK
  <2> QED BY <1>1, <1>7, <1>8, <2>1, QuietStep
<1>9. ASSUME NEW a \in {"verdict", "error"},
             resultChan' = [resultChan EXCEPT ![c] = Append(resultChan[c], <<i, a>>)]
      PROVE  CallTypeOK' /\ \A d \in BulkCalls : CallInv(d)'
  <2> DEFINE ch == resultChan[c]
  <2>0. ChannelInv(c)
    BY DEF BulkInv, CallInv
  <2>1. /\ ch \in Seq(Indices \X Answers) /\ <<i, a>> \in Indices \X Answers
        /\ resultChan'[c] = Append(ch, <<i, a>>)
        /\ \A d \in BulkCalls \ {c} : resultChan'[d] = resultChan[d]
    BY <1>9 DEF BulkInv, CallTypeOK, Answers
  <2>2. /\ Append(ch, <<i, a>>) \in Seq(Indices \X Answers)
        /\ \A k \in DOMAIN Append(ch, <<i, a>>) :
              \/ k \in DOMAIN ch /\ Append(ch, <<i, a>>)[k] = ch[k]
              \/ k = Len(ch) + 1 /\ Append(ch, <<i, a>>)[k] = <<i, a>>
    BY <2>1
  <2>3. CallTypeOK'
    BY <1>1, <1>9, <2>2 DEF BulkInv, CallTypeOK
  <2>4. \A d \in BulkCalls \ {c} : CallInv(d)'
    BY <1>1, <1>7, <2>1, CallFrame DEF BulkInv
  <2>5. \A k \in DOMAIN ch : ch[k][1] \in Indices /\ ch[k][1] # i /\ <<c, ch[k][1]>> \in Jobs
    <3> SUFFICES ASSUME NEW k \in DOMAIN ch
                 PROVE  ch[k][1] \in Indices /\ ch[k][1] # i /\ <<c, ch[k][1]>> \in Jobs
      OBVIOUS
    <3>1. ch[k][1] \in Indices
      BY <2>1
    <3>2. job[<<c, ch[k][1]>>] = "done"
      BY <2>0 DEF ChannelInv
    <3> QED BY <1>4, <3>1, <3>2, BulkAssumption DEF CallJobs, Indices
  <2>6. ~ctxDone[c] => results[c][i] = "zero"
    <3>1. results[c][i] \in Answers
      BY DEF BulkInv, CallTypeOK
    <3> QED BY <1>4, <3>1 DEF BulkInv, CallInv, ResultsInv, Answers
  <2>7. ChannelInv(c)'
    <3>1. \A k \in DOMAIN resultChan'[c] :
             /\ resultChan'[c][k][2] \in {"verdict", "error"}
             /\ job'[<<c, resultChan'[c][k][1]>>] = "done"
             /\ ~ctxDone'[c] => results'[c][resultChan'[c][k][1]] = "zero"
      <4> SUFFICES ASSUME NEW k \in DOMAIN resultChan'[c]
                   PROVE  /\ resultChan'[c][k][2] \in {"verdict", "error"}
                          /\ job'[<<c, resultChan'[c][k][1]>>] = "done"
                          /\ ~ctxDone'[c] => results'[c][resultChan'[c][k][1]] = "zero"
        OBVIOUS
      <4>1. CASE k \in DOMAIN ch /\ resultChan'[c][k] = ch[k]
        <5>1. /\ ch[k][2] \in {"verdict", "error"} /\ job[<<c, ch[k][1]>>] = "done"
              /\ ~ctxDone[c] => results[c][ch[k][1]] = "zero"
          BY <4>1, <2>0 DEF ChannelInv
        <5> QED BY <4>1, <5>1, <1>1, <1>5, <2>5
      <4>2. CASE resultChan'[c][k] = <<i, a>>
        BY <4>2, <1>1, <1>4, <2>6
      <4> QED BY <2>1, <2>2, <4>1, <4>2
    <3>2. \A k, l \in DOMAIN resultChan'[c] : resultChan'[c][k][1] = resultChan'[c][l][1] => k = l
      <4>1. \A k, l \in DOMAIN ch : ch[k][1] = ch[l][1] => k = l
        BY <2>0 DEF ChannelInv
      <4> SUFFICES ASSUME NEW k \in DOMAIN resultChan'[c], NEW l \in DOMAIN resultChan'[c],
                          resultChan'[c][k][1] = resultChan'[c][l][1]
                   PROVE  k = l
        OBVIOUS
      <4> HIDE DEF ch
      <4>2. \/ k \in DOMAIN ch /\ resultChan'[c][k][1] = ch[k][1]
            \/ k = Len(ch) + 1 /\ resultChan'[c][k][1] = i
        BY <2>1, <2>2
      <4>3. \/ l \in DOMAIN ch /\ resultChan'[c][l][1] = ch[l][1]
            \/ l = Len(ch) + 1 /\ resultChan'[c][l][1] = i
        BY <2>1, <2>2
      <4> QED BY <2>5, <4>1, <4>2, <4>3
    <3> QED BY <3>1, <3>2 DEF ChannelInv
  <2>8. ResultsInv(c)'
    <3>1. Answered(c)' = Answered(c)
      BY <1>1 DEF Answered
    <3>2. \A k \in Indices : job[<<c, k>>] = "done" => job'[<<c, k>>] = "done"
      BY <1>5, BulkAssumption DEF CallJobs, Indices
    <3> QED BY <1>1, <3>1, <3>2 DEF BulkInv, CallInv, ResultsInv
  <2> QED BY <2>3, <2>4, <2>7, <2>8 DEF CallInv
<1> QED BY <1>6, <1>8, <1>9

-----------------------------------------------------------------------------
(* The whole evaluator.                                                    *)

\* No answer is expected or given before the first call.
LEMMA BulkInvInit == BulkInit => BulkInv
<1> SUFFICES ASSUME BulkInit
             PROVE  BulkInv
  OBVIOUS
<1>1. IInv
  BY TypeInit, LifecycleInit, ConservedInit, MetricsInit DEF BulkInit, IInv
<1>2. CallTypeOK
  <2>1. << >> \in Seq(Indices \X Answers)
    OBVIOUS
  <2> QED BY <2>1 DEF BulkInit, CallTypeOK, Answers
<1>3. ASSUME NEW c \in BulkCalls
      PROVE  CallInv(c)
  <2>1. resultChan[c] = << >> /\ collected[c] = 0 /\ collector[c] = "none"
        /\ \A i \in Indices : results[c][i] = "zero"
    BY DEF BulkInit
  <2>2. Answered(c) = {}
    BY <2>1 DEF Answered
  <2>3. ChannelInv(c)
    BY <2>1 DEF ChannelInv
  <2>4. ResultsInv(c)
    BY <2>1, <2>2, FS_EmptySet DEF ResultsInv
  <2> QED BY <2>3, <2>4 DEF CallInv
<1> QED BY <1>1, <1>2, <1>3 DEF BulkInv

\* Every step of a call, a collector, a stopper or a worker keeps the invariant.
LEMMA BulkInvNext == BulkInv /\ [BulkNext]_bulkVars => BulkInv'
<1> SUFFICES ASSUME BulkInv, [BulkNext]_bulkVars
             PROVE  BulkInv'
  OBVIOUS
<1>1. [Next]_vars
  BY StepOfPool DEF BulkInv
<1>2. IInv'
  BY <1>1, TypeNext, LifecycleNext, ConservedNext, MetricsNext DEF BulkInv, IInv
<1> SUFFICES CallTypeOK' /\ \A d \in BulkCalls : CallInv(d)'
  BY <1>2 DEF BulkInv
<1>3. ASSUME NEW c \in BulkCalls, CallStep(c)
      PROVE  CallTypeOK' /\ \A d \in BulkCalls : CallInv(d)'
  <2>1. UNCHANGED <<ctxDone, resultChan, collected, results>>
    BY <1>3 DEF CallStep, EvaluateBulkStart, EvaluateBulkSubmit, EvaluateBulkCollect, EvaluationDone,
                EvaluationCancelled, EvaluationTimeout, LeaveWait
  <2>2. collector' = collector \/ collector' = [collector EXCEPT ![c] = "run"]
    BY <1>3 DEF CallStep, EvaluateBulkStart, EvaluateBulkSubmit, EvaluateBulkCollect, EvaluationDone,
                EvaluationCancelled, EvaluationTimeout, LeaveWait
  <2>3. next' = next \/ next' = [next EXCEPT ![c] = next[c] + 1]
    BY <1>3 DEF CallStep, EvaluateBulkStart, EvaluateBulkSubmit, EvaluateBulkCollect, EvaluationDone,
                EvaluationCancelled, EvaluationTimeout, LeaveWait
  <2>4. CallTypeOK'
    <3>1. collector' \in [BulkCalls -> {"none", "run", "done"}]
      BY <2>2 DEF BulkInv, CallTypeOK
    <3>2. next' \in [BulkCalls -> Nat \ {0}]
      BY <2>3 DEF BulkInv, CallTypeOK
    <3> QED BY <2>1, <3>1, <3>2 DEF BulkInv, CallTypeOK
  <2>5. \A d \in BulkCalls : collector'[d] = "done" => collector[d] = "done"
    BY <2>2 DEF BulkInv, CallTypeOK
  <2> QED BY <1>1, <2>1, <2>4, <2>5, QuietStep
<1>4. ASSUME NEW c \in BulkCalls, CollectorStep(c)
      PROVE  CallTypeOK' /\ \A d \in BulkCalls : CallInv(d)'
  <2>1. CallTypeOK' /\ CallInv(c)'
    BY <1>4, CollectKeeps, CancelledKeeps DEF CollectorStep
  <2>2. ASSUME NEW d \in BulkCalls, d # c
        PROVE  CallInv(d)'
    <3>1. /\ resultChan'[d] = resultChan[d] /\ results'[d] = results[d] /\ ctxDone'[d] = ctxDone[d]
          /\ collected'[d] = collected[d] /\ collector'[d] = collector[d]
      BY <1>4, <2>2 DEF CollectorStep, CollectResult, CollectCancelled, BulkInv, CallTypeOK
    <3> QED BY <1>1, <3>1, CallFrame DEF BulkInv
  <2> QED BY <2>1, <2>2
<1>5. ASSUME NEW c \in BulkCalls, CancelContext(c)
      PROVE  CallTypeOK' /\ \A d \in BulkCalls : CallInv(d)'
  <2>1. ctxDone' = [ctxDone EXCEPT ![c] = TRUE] /\ UNCHANGED <<vars, next, resultChan, collector, collected, results>>
    BY <1>5 DEF CancelContext
  <2>2. CallTypeOK'
    BY <2>1 DEF BulkInv, CallTypeOK
  <2>3. ASSUME NEW d \in BulkCalls
        PROVE  CallInv(d)'
    <3>1. ctxDone'[d] \/ ctxDone'[d] = ctxDone[d]
      BY <2>1 DEF BulkInv, CallTypeOK
    <3>2. ChannelInv(d)'
      BY <2>1, <3>1 DEF BulkInv, CallInv, ChannelInv, vars
    <3>3. ResultsInv(d)'
      <4>1. Answered(d)' = Answered(d)
        BY <2>1 DEF Answered
      <4> QED BY <2>1, <3>1, <4>1 DEF BulkInv, CallInv, ResultsInv, vars
    <3> QED BY <3>2, <3>3 DEF CallInv
  <2> QED BY <2>2, <2>3
<1>6. CASE \/ UNCHANGED bulkVars
           \/ \E c \in Callers : StopperStep(c)
           \/ \E w \in Workers : (Receive(w) \/ ExecuteBegin(w) \/ WorkerExit(w)) /\ UNCHANGED callVars
  <2>1. UNCHANGED <<ctxDone, next, resultChan, collector, collected, results>>
    BY <1>6 DEF bulkVars, callVars, StopperStep, CallStop, CallStopped
  <2>2. CallTypeOK'
    BY <2>1 DEF BulkInv, CallTypeOK
  <2> QED BY <1>1, <2>1, <2>2, QuietStep
<1>7. ASSUME NEW w \in Workers, ProcessEvaluationJob(w)
      PROVE  CallTypeOK' /\ \A d \in BulkCalls : CallInv(d)'
  BY <1>7, JobEndKeeps
<1> QED BY <1>3, <1>4, <1>5, <1>6, <1>7 DEF BulkNext, PoolWorkerStep

\* The invariant holds in every state of every behaviour of the evaluator.
LEMMA BulkInvariant == BulkSpec => []BulkInv
<1> QED BY BulkInvInit, BulkInvNext, PTL DEF BulkSpec

\* A response contains a verdict only where the job of this call and this permission has
\* run to its end (VerdictsAreEvaluated), however calls start and stop the shared pool.
THEOREM VerdictsAlwaysEvaluated == BulkSpec => []VerdictsAreEvaluated
<1>1. BulkInv => VerdictsAreEvaluated
  BY DEF BulkInv, CallInv, ResultsInv, VerdictsAreEvaluated
<1> QED BY <1>1, BulkInvariant, PTL

\* EvaluateBulk leaves no slot of a response empty unless its timer fired or its context
\* ended: the counter of the collector counts permissions, not messages, because no
\* permission is answered twice.
THEOREM NoPermissionForgotten == BulkSpec => []EveryPermissionAnswered
<1>1. ASSUME BulkInv
      PROVE  EveryPermissionAnswered
  <2> SUFFICES ASSUME NEW c \in BulkCalls, collector[c] = "done", ~ctxDone[c], NEW i \in Indices
               PROVE  results[c][i] \in {"verdict", "error"}
    BY DEF EveryPermissionAnswered
  <2>1. Cardinality(Answered(c)) = N
    BY <1>1 DEF BulkInv, CallInv, ResultsInv
  <2>2. IsFiniteSet(Indices) /\ Cardinality(Indices) = N
    BY FS_Interval, BulkAssumption DEF Indices
  <2>3. Answered(c) \subseteq Indices
    BY DEF Answered
  <2>4. Answered(c) = Indices
    BY <2>1, <2>2, <2>3, FS_Subset
  <2>5. results[c][i] \in Answers /\ results[c][i] # "zero" /\ results[c][i] # "timeout"
    BY <1>1, <2>4 DEF BulkInv, CallTypeOK, CallInv, ResultsInv, Answered
  <2> QED BY <2>5 DEF Answers
<1> QED BY <1>1, BulkInvariant, PTL

\* The evaluator implements the specification of the pool's callers: whatever calls and
\* closers do together is a sequence of operations of the pool, so the theorems of
\* WorkerPoolProofs hold for the pool that EvaluateBulk starts and stops.
THEOREM EvaluatorUsesPool == BulkSpec => Spec
<1>1. BulkInit => Init
  BY DEF BulkInit
<1>2. BulkInv /\ [BulkNext]_bulkVars => [Next]_vars
  BY StepOfPool DEF BulkInv
<1> QED BY <1>1, <1>2, BulkInvariant, PTL DEF BulkSpec, Spec
=============================================================================
