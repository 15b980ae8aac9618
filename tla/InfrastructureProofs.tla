------------------------ MODULE InfrastructureProofs ------------------------
(***************************************************************************)
(* What the services under the application guarantee for every number of   *)
(* events, every capacity and every number of attempts: the attempts of    *)
(* the event producer are accounted for, and an accepted event is lost     *)
(* only in the places named by LostOnlyByFaults (enhanced_producer.go,     *)
(* persistent_queue.go); the slots of the hashing pool do not leak, and an *)
(* audit event is processed once or given up                               *)
(* (specialized_worker_pools.go); a version that is recorded in the table  *)
(* of migrations has run, with any number of replicas killed at any point  *)
(* (migrations.go).                                                        *)
(***************************************************************************)
EXTENDS EventProducer, SpecializedPools, Startup, FiniteSetTheorems, TLAPS

-----------------------------------------------------------------------------
(* The event producer.                                                     *)

(***************************************************************************)
(* The inductive invariant of the producer.  A copy that will be sent is   *)
(* Fresh: it has an attempt left, and as many failures are on record as it *)
(* carries.  A copy on its way to the dead letter topic is Spent.  Copies  *)
(* of one event may carry different attempts (a Remove that failed, a      *)
(* crash), so that the record bounds them from above and does not equal    *)
(* them.                                                                   *)
(***************************************************************************)
Fresh(c) == c \in Copies /\ c.att < RetryAttempts /\ c.att <= fails[c.id]
Spent(c) == c \in Copies /\ c.att = RetryAttempts /\ fails[c.id] = RetryAttempts

Threads     == [pc : ThreadPCs, cur : Copies \cup {NoCopy}]
MoverStates == [pc : {"idle", "loop", "remove", "exited"}, cur : Copies \cup {NoCopy}, todo : SUBSET Copies]
FileStates  == [att : Attempts, status : {"none", "pending", "failed"}]

StateInv ==
    /\ running \in BOOLEAN /\ stopping \in BOOLEAN /\ cancelled \in BOOLEAN /\ closed \in BOOLEAN
    /\ ~running => sender.pc = "exited" /\ burier.pc = "exited"

HistoryInv ==
    /\ fails \in [Events -> Attempts]
    /\ delivered \subseteq Events /\ buried \subseteq Events
    /\ \A e \in buried : fails[e] = RetryAttempts

QueueInv == queue \in Seq(Copies) /\ \A i \in 1 .. Len(queue) : Fresh(queue[i])

DeadInv == deadQueue \in Seq(Copies) /\ \A i \in 1 .. Len(deadQueue) : Spent(deadQueue[i])

FileInv ==
    /\ file \in [Events -> FileStates]
    /\ \A e \in Events :
          /\ file[e].status = "failed" => file[e].att \in 1 .. RetryAttempts - 1 /\ file[e].att <= fails[e]
          /\ file[e].status = "pending" => file[e].att = 0

SenderInv ==
    /\ sender \in Threads
    /\ sender.pc = "sending" => Fresh(sender.cur)
    /\ sender.pc = "failed" => /\ sender.cur \in Copies /\ sender.cur.att <= fails[sender.cur.id]
                               /\ sender.cur.att = 0 => cancelled
    /\ sender.pc \in {"idle", "exited"} => sender.cur = NoCopy

BurierInv ==
    /\ burier \in Threads /\ burier.pc # "failed"
    /\ burier.pc = "sending" => Spent(burier.cur)
    /\ burier.pc # "sending" => burier.cur = NoCopy

\* Between the hand-over from the file and its removal the event is in the channel, or
\* being sent, or delivered, unless it has failed again or the producer was stopped.
HandedOver(e, att) ==
    \/ fails[e] > att \/ cancelled
    \/ e \in delivered
    \/ \E i \in 1 .. Len(queue) : queue[i].id = e
    \/ sender.pc = "sending" /\ sender.cur.id = e

MoverInv ==
    /\ mover \in [Movers -> MoverStates]
    /\ \A m \in Movers : \A c \in mover[m].todo : Fresh(c)
    /\ \A m \in Movers : mover[m].pc = "remove" => Fresh(mover[m].cur)

HandOverInv ==
    \A m \in Movers : mover[m].pc = "remove" => HandedOver(mover[m].cur.id, mover[m].cur.att)

ProducerInv ==
    /\ StateInv /\ HistoryInv /\ QueueInv /\ DeadInv /\ FileInv
    /\ SenderInv /\ BurierInv /\ MoverInv /\ HandOverInv

-----------------------------------------------------------------------------
\* What the constants are.
LEMMA ProducerConstants ==
    /\ QueueSize \in Nat /\ DeadLetterSize \in Nat /\ RetryAttempts \in Nat /\ RetryAttempts > 0
    /\ NoEvent \notin Events /\ "retry" \notin Loaders
    /\ Attempts = 0 .. RetryAttempts /\ 0 \in Attempts
BY ProducerAssumption DEF Attempts

\* The states of threads that are not at work (Gone, GoneMover, NoCopy).
LEMMA GoneFacts ==
    /\ Gone \in Threads /\ Gone.pc = "exited" /\ Gone.cur = NoCopy
    /\ [Gone EXCEPT !.pc = "idle"] \in Threads
    /\ [Gone EXCEPT !.pc = "idle"].pc = "idle" /\ [Gone EXCEPT !.pc = "idle"].cur = NoCopy
    /\ GoneMover \in MoverStates /\ GoneMover.pc = "exited" /\ GoneMover.todo = {}
    /\ [GoneMover EXCEPT !.pc = "idle"] \in MoverStates
    /\ [GoneMover EXCEPT !.pc = "idle"].pc = "idle" /\ [GoneMover EXCEPT !.pc = "idle"].todo = {}
    /\ NoCopy.id = NoEvent /\ NoCopy.att = 0
BY DEF Gone, GoneMover, NoCopy, Threads, ThreadPCs, MoverStates

\* A channel takes one event more at its end.
LEMMA AppendFacts ==
    ASSUME NEW S, NEW q \in Seq(S), NEW c \in S
    PROVE  /\ Append(q, c) \in Seq(S) /\ Len(Append(q, c)) = Len(q) + 1
           /\ \A i \in 1 .. Len(q) : Append(q, c)[i] = q[i]
           /\ Append(q, c)[Len(q) + 1] = c
           /\ \A i \in 1 .. Len(Append(q, c)) : i \in 1 .. Len(q) \/ i = Len(q) + 1
OBVIOUS

\* A channel gives its first event.
LEMMA TailFacts ==
    ASSUME NEW S, NEW q \in Seq(S), q # << >>
    PROVE  /\ Head(q) \in S /\ Head(q) = q[1] /\ 1 \in 1 .. Len(q)
           /\ Tail(q) \in Seq(S) /\ Len(Tail(q)) = Len(q) - 1
           /\ \A i \in 1 .. Len(Tail(q)) : Tail(q)[i] = q[i + 1] /\ i + 1 \in 1 .. Len(q)
           /\ \A i \in 1 .. Len(q) : i = 1 \/ (i - 1 \in 1 .. Len(Tail(q)) /\ Tail(q)[i - 1] = q[i])
OBVIOUS

\* An event that goes to the end of the channel (PublishEvent, the movers' select).
LEMMA QueueAppend ==
    ASSUME QueueInv, NEW c, Fresh(c), queue' = Append(queue, c), UNCHANGED fails
    PROVE  /\ QueueInv'
           /\ \A e : (\E i \in 1 .. Len(queue) : queue[i].id = e) => (\E i \in 1 .. Len(queue') : queue'[i].id = e)
           /\ \E i \in 1 .. Len(queue') : queue'[i].id = c.id
<1>1. c \in Copies /\ queue \in Seq(Copies)
  BY DEF Fresh, QueueInv
<1>2. /\ queue' \in Seq(Copies) /\ Len(queue') = Len(queue) + 1 /\ Len(queue) \in Nat
      /\ \A i \in 1 .. Len(queue) : queue'[i] = queue[i]
      /\ queue'[Len(queue) + 1] = c
      /\ \A i \in 1 .. Len(queue') : i \in 1 .. Len(queue) \/ i = Len(queue) + 1
  BY <1>1, AppendFacts
<1>3. \A i \in 1 .. Len(queue') : Fresh(queue[i])'
  <2> SUFFICES ASSUME NEW i \in 1 .. Len(queue')
               PROVE  Fresh(queue[i])'
    OBVIOUS
  <2>1. CASE i \in 1 .. Len(queue)
    BY <1>2, <2>1 DEF QueueInv, Fresh
  <2>2. CASE i = Len(queue) + 1
    BY <1>2, <2>2 DEF Fresh
  <2> QED BY <1>2, <2>1, <2>2
<1>4. \A i \in 1 .. Len(queue) : i \in 1 .. Len(queue') /\ queue'[i] = queue[i]
  BY <1>2
<1>5. Len(queue) + 1 \in 1 .. Len(queue')
  BY <1>2
<1> QED BY <1>2, <1>3, <1>4, <1>5 DEF QueueInv
\* The event at the head of the channel goes to the sender (processLocalQueue).
LEMMA QueueTail ==
    ASSUME QueueInv, queue # << >>, queue' = Tail(queue), UNCHANGED fails
    PROVE  /\ QueueInv' /\ Fresh(Head(queue))
           /\ \A e : (\E i \in 1 .. Len(queue) : queue[i].id = e)
                        => Head(queue).id = e \/ (\E i \in 1 .. Len(queue') : queue'[i].id = e)
<1>1. queue \in Seq(Copies)
  BY DEF QueueInv
<1>2. /\ Head(queue) = queue[1] /\ 1 \in 1 .. Len(queue)
      /\ queue' \in Seq(Copies)
      /\ \A i \in 1 .. Len(queue') : queue'[i] = queue[i + 1] /\ i + 1 \in 1 .. Len(queue)
      /\ \A i \in 1 .. Len(queue) : i = 1 \/ (i - 1 \in 1 .. Len(queue') /\ queue'[i - 1] = queue[i])
  BY <1>1, TailFacts
<1>3. \A i \in 1 .. Len(queue') : Fresh(queue[i])'
  BY <1>2 DEF QueueInv, Fresh
<1>4. ASSUME NEW e, NEW i \in 1 .. Len(queue), queue[i].id = e, Head(queue).id # e
      PROVE  \E j \in 1 .. Len(queue') : queue'[j].id = e
  <2>1. i - 1 \in 1 .. Len(queue') /\ queue'[i - 1].id = e
    BY <1>2, <1>4
  <2> QED BY <2>1
<1> QED BY <1>2, <1>3, <1>4 DEF QueueInv

\* A copy stays Fresh, and a Spent one Spent, while the failures only grow.
LEMMA FailsGrow ==
    ASSUME HistoryInv, fails' \in [Events -> Attempts],
           \A e \in Events : fails'[e] >= fails[e]
    PROVE  /\ \A c : Fresh(c) => Fresh(c)'
           /\ \A c : Spent(c) => Spent(c)'
<1>1. RetryAttempts \in Nat /\ Attempts = 0 .. RetryAttempts
  BY ProducerConstants
<1>2. \A e \in Events : fails[e] \in 0 .. RetryAttempts /\ fails'[e] \in 0 .. RetryAttempts
  BY <1>1 DEF HistoryInv
<1>3. ASSUME NEW c, Fresh(c)
      PROVE  Fresh(c)'
  <2>1. c \in Copies /\ c.id \in Events /\ c.att \in Nat
    BY <1>1, <1>3 DEF Fresh, Copies
  <2>2. c.att < RetryAttempts /\ c.att <= fails[c.id]
    BY <1>3 DEF Fresh
  <2>3. fails[c.id] \in Nat /\ fails'[c.id] \in Nat /\ fails'[c.id] >= fails[c.id]
    BY <1>2, <2>1
  <2>4. c.att <= fails'[c.id]
    BY <2>1, <2>2, <2>3
  <2> QED BY <2>1, <2>2, <2>4 DEF Fresh
<1>4. ASSUME NEW c, Spent(c)
      PROVE  Spent(c)'
  <2>1. c \in Copies /\ c.id \in Events
    BY <1>4 DEF Spent, Copies
  <2>2. fails[c.id] = RetryAttempts /\ c.att = RetryAttempts
    BY <1>4 DEF Spent
  <2>3. fails'[c.id] = RetryAttempts
    BY <1>1, <1>2, <2>1, <2>2
  <2> QED BY <2>1, <2>2, <2>3 DEF Spent
<1> QED BY <1>3, <1>4

\* In the beginning, and in a new process, there are no copies in memory (NewEnhancedProducer).
LEMMA ProducerInvInit == ProducerInit => ProducerInv
<1> SUFFICES ASSUME ProducerInit
             PROVE  ProducerInv
  OBVIOUS
<1>1. StateInv /\ HistoryInv
  BY ProducerConstants, GoneFacts DEF ProducerInit, StateInv, HistoryInv
<1>2. QueueInv /\ DeadInv
  BY DEF ProducerInit, QueueInv, DeadInv
<1>3. FileInv
  <2>1. NoFile \in FileStates /\ NoFile.status = "none"
    BY ProducerConstants DEF NoFile, FileStates
  <2> QED BY <2>1 DEF ProducerInit, FileInv
<1>4. SenderInv /\ BurierInv
  BY GoneFacts DEF ProducerInit, SenderInv, BurierInv
<1>5. MoverInv /\ HandOverInv
  BY GoneFacts DEF ProducerInit, MoverInv, HandOverInv
<1> QED BY <1>1, <1>2, <1>3, <1>4, <1>5 DEF ProducerInv

\* The process ends and is started anew: the files and what the brokers have stay
\* (Crash, and the panic of handleFailedEvent).
LEMMA NewProcessKeeps ==
    ASSUME ProducerInv, NewProcess, UNCHANGED <<file, delivered, buried, fails>>
    PROVE  ProducerInv'
<1>1. StateInv' /\ HistoryInv'
  BY GoneFacts DEF ProducerInv, NewProcess, StateInv, HistoryInv
<1>2. QueueInv' /\ DeadInv'
  BY DEF NewProcess, QueueInv, DeadInv
<1>3. FileInv'
  BY DEF ProducerInv, FileInv
<1>4. SenderInv' /\ BurierInv'
  BY GoneFacts DEF NewProcess, SenderInv, BurierInv
<1>5. MoverInv' /\ HandOverInv'
  BY GoneFacts DEF NewProcess, MoverInv, HandOverInv
<1> QED BY <1>1, <1>2, <1>3, <1>4, <1>5 DEF ProducerInv

\* Start finds the threads gone (~isRunning) and sets them going.
LEMMA StartKeeps ==
    ASSUME ProducerInv, NEW l \in Loaders, Start(l)
    PROVE  ProducerInv'
<1>1. /\ running' = TRUE
      /\ UNCHANGED <<stopping, cancelled, closed, queue, deadQueue, file, delivered, buried, fails>>
      /\ sender' = [Gone EXCEPT !.pc = "idle"] /\ burier' = [Gone EXCEPT !.pc = "idle"]
      /\ sender.pc = "exited"
  BY DEF Start, history, ProducerInv, StateInv
<1>2. StateInv' /\ HistoryInv' /\ QueueInv' /\ DeadInv' /\ FileInv'
  BY <1>1 DEF ProducerInv, StateInv, HistoryInv, QueueInv, DeadInv, FileInv, Fresh, Spent
<1>3. SenderInv' /\ BurierInv'
  BY <1>1, GoneFacts DEF SenderInv, BurierInv
<1>4. mover' \in [Movers -> MoverStates] /\ \A m \in Movers :
          /\ mover'[m].todo = mover[m].todo /\ mover'[m].cur = mover[m].cur
          /\ mover'[m].pc = "remove" => mover[m].pc = "remove"
  BY DEF ProducerInv, MoverInv, Start, Movers, MoverStates
<1>5. MoverInv'
  BY <1>1, <1>4 DEF ProducerInv, MoverInv, Fresh
<1>6. HandOverInv'
  BY <1>1, <1>4 DEF ProducerInv, HandOverInv, HandedOver
<1> QED BY <1>2, <1>3, <1>5, <1>6 DEF ProducerInv
\* PublishEvent: a new copy has no attempt behind it.
LEMMA PublishKeeps ==
    ASSUME ProducerInv, NEW e \in Events, Publish(e)
    PROVE  ProducerInv'
<1>1. UNCHANGED <<running, stopping, cancelled, closed, deadQueue, sender, burier, mover, delivered, buried, fails>>
  BY DEF Publish, PublishCheck, PublishEvent, state, threads, history
<1>2. StateInv' /\ HistoryInv' /\ DeadInv' /\ SenderInv' /\ BurierInv' /\ MoverInv'
  BY <1>1 DEF ProducerInv, StateInv, HistoryInv, DeadInv, SenderInv, BurierInv, MoverInv, Fresh, Spent
<1>3. \/ UNCHANGED <<queue, file>>
      \/ queue' = Append(queue, [id |-> e, att |-> 0]) /\ UNCHANGED file
      \/ Persisted(e, 0, "pending") /\ UNCHANGED queue
  BY DEF Publish, PublishCheck, PublishEvent
<1>4. CASE UNCHANGED <<queue, file>>
  BY <1>1, <1>2, <1>4 DEF ProducerInv, QueueInv, FileInv, HandOverInv, HandedOver, Fresh
<1>5. CASE queue' = Append(queue, [id |-> e, att |-> 0]) /\ UNCHANGED file
  <2> DEFINE c == [id |-> e, att |-> 0]
  <2>1. Fresh(c)
    BY ProducerConstants DEF ProducerInv, HistoryInv, Fresh, Copies
  <2>2. queue' = Append(queue, c)
    BY <1>5
  <2> HIDE DEF c
  <2>3. QueueInv' /\ \A x : (\E i \in 1 .. Len(queue) : queue[i].id = x) => (\E i \in 1 .. Len(queue') : queue'[i].id = x)
    BY <1>1, <2>1, <2>2, QueueAppend DEF ProducerInv
  <2>4. HandOverInv'
    BY <1>1, <2>3 DEF ProducerInv, HandOverInv, HandedOver
  <2> QED BY <1>1, <1>2, <1>5, <2>3, <2>4 DEF ProducerInv, FileInv
<1>6. CASE Persisted(e, 0, "pending") /\ UNCHANGED queue
  <2>1. FileInv'
    BY <1>1, <1>6, ProducerConstants DEF ProducerInv, FileInv, Persisted, FileStates
  <2> QED BY <1>1, <1>2, <1>6, <2>1 DEF ProducerInv, QueueInv, HandOverInv, HandedOver, Fresh
<1> QED BY <1>3, <1>4, <1>5, <1>6

\* The sender takes the event at the head of the channel.
LEMMA ReceiveKeeps ==
    ASSUME ProducerInv, SenderReceive
    PROVE  ProducerInv'
<1>1. /\ UNCHANGED <<running, stopping, cancelled, closed, deadQueue, file, burier, mover, delivered, buried, fails>>
      /\ queue # << >> /\ queue' = Tail(queue) /\ sender' = [pc |-> "sending", cur |-> Head(queue)]
      /\ sender.pc = "idle"
  BY DEF SenderReceive, state, history
<1>2. running /\ StateInv' /\ HistoryInv' /\ DeadInv' /\ FileInv' /\ BurierInv' /\ MoverInv'
  BY <1>1 DEF ProducerInv, StateInv, HistoryInv, DeadInv, FileInv, BurierInv, MoverInv, Fresh, Spent
<1>3. /\ QueueInv' /\ Fresh(Head(queue))
      /\ \A e : (\E i \in 1 .. Len(queue) : queue[i].id = e)
                   => Head(queue).id = e \/ (\E i \in 1 .. Len(queue') : queue'[i].id = e)
  BY <1>1, QueueTail DEF ProducerInv
<1>4. sender' \in Threads /\ sender'.pc = "sending" /\ sender'.cur = Head(queue)
  BY <1>1, <1>3 DEF Threads, ThreadPCs, Fresh
<1>5. SenderInv'
  BY <1>1, <1>3, <1>4 DEF SenderInv, Fresh
<1>6. HandOverInv'
  BY <1>1, <1>3, <1>4 DEF ProducerInv, HandOverInv, HandedOver
<1> QED BY <1>2, <1>3, <1>5, <1>6 DEF ProducerInv

\* The sender is done with an event that was written (SendSucceeds), put into a file or
\* dropped (RetryLater), or handed to the second channel (DeadLetter), or exits.
SenderRests ==
    /\ sender'.pc \in {"idle", "exited"} /\ sender' \in Threads /\ sender'.cur = NoCopy
    /\ UNCHANGED <<running, stopping, cancelled, closed, queue, burier, mover, buried, fails>>
    /\ delivered' = delivered \/ (sender.pc = "sending" /\ delivered' = delivered \cup {sender.cur.id})
    /\ sender.pc = "sending" => delivered' = delivered \cup {sender.cur.id}
    /\ sender.pc # "exited"

\* What the sender leaves alone then.
LEMMA RestKeeps ==
    ASSUME ProducerInv, SenderRests
    PROVE  StateInv' /\ HistoryInv' /\ QueueInv' /\ SenderInv' /\ BurierInv' /\ MoverInv' /\ HandOverInv'
<1>1. sender.pc = "sending" => sender.cur.id \in Events
  BY DEF ProducerInv, SenderInv, Fresh, Copies
<1>2. HistoryInv' /\ running
  BY <1>1 DEF ProducerInv, HistoryInv, SenderRests, StateInv
<1>3. StateInv' /\ QueueInv' /\ BurierInv' /\ MoverInv'
  BY <1>2 DEF ProducerInv, SenderRests, StateInv, QueueInv, BurierInv, MoverInv, Fresh, Spent
<1>4. SenderInv'
  BY DEF SenderRests, SenderInv
<1>5. HandOverInv'
  BY DEF ProducerInv, SenderRests, HandOverInv, HandedOver
<1> QED BY <1>2, <1>3, <1>4, <1>5

\* sendEvent wrote the message, or the sender exits.
LEMMA SentKeeps ==
    ASSUME ProducerInv, SendSucceeds \/ SenderExit
    PROVE  ProducerInv'
<1>1. SenderRests /\ UNCHANGED <<deadQueue, file>>
  BY GoneFacts DEF SendSucceeds, SenderExit, SenderRests, state, history
<1>2. DeadInv' /\ FileInv'
  BY <1>1 DEF ProducerInv, DeadInv, FileInv, Spent, SenderRests
<1> QED BY <1>1, <1>2, RestKeeps DEF ProducerInv

\* handleFailedEvent with attempts left: the file carries the attempts of the copy.
LEMMA RetryLaterKeeps ==
    ASSUME ProducerInv, RetryLater
    PROVE  ProducerInv'
<1>1. SenderRests /\ UNCHANGED deadQueue
  BY GoneFacts DEF RetryLater, SenderRests, state, history
<1>2. /\ sender.cur \in Copies /\ sender.cur.id \in Events /\ sender.cur.att \in 1 .. RetryAttempts - 1
      /\ sender.cur.att <= fails[sender.cur.id]
  BY DEF ProducerInv, SenderInv, RetryLater, Copies
<1>3. sender.cur.att \in Attempts
  BY <1>2 DEF Copies
<1>4. FileInv'
  <2>1. CASE UNCHANGED file
    BY <1>1, <2>1 DEF ProducerInv, FileInv, SenderRests
  <2>2. CASE Persisted(sender.cur.id, sender.cur.att, "failed")
    <3>1. [att |-> sender.cur.att, status |-> "failed"] \in FileStates
      BY <1>3 DEF FileStates
    <3>2. file' \in [Events -> FileStates] /\ file'[sender.cur.id] = [att |-> sender.cur.att, status |-> "failed"]
      BY <1>2, <2>2, <3>1 DEF ProducerInv, FileInv, Persisted
    <3>3. \A e \in Events : e # sender.cur.id => file'[e] = file[e]
      BY <2>2 DEF ProducerInv, FileInv, Persisted
    <3>4. UNCHANGED fails
      BY <1>1 DEF SenderRests
    <3> QED BY <1>2, <3>2, <3>3, <3>4 DEF ProducerInv, FileInv
  <2> QED BY <2>1, <2>2 DEF RetryLater
<1>5. DeadInv'
  BY <1>1 DEF ProducerInv, DeadInv, Spent, SenderRests
<1> QED BY <1>1, <1>4, <1>5, RestKeeps DEF ProducerInv

\* handleFailedEvent without attempts left: RetryAttempts failures are on record.
LEMMA DeadLetterKeeps ==
    ASSUME ProducerInv, DeadLetter
    PROVE  ProducerInv'
<1>1. SenderRests /\ UNCHANGED file
  BY GoneFacts DEF DeadLetter, SenderRests, state, history
<1>2. UNCHANGED fails
  BY <1>1 DEF SenderRests
<1>3. sender.cur \in Copies /\ sender.cur.id \in Events /\ sender.cur.att = RetryAttempts
      /\ sender.cur.att <= fails[sender.cur.id]
  BY DEF ProducerInv, SenderInv, DeadLetter, Copies
<1>4. fails[sender.cur.id] \in 0 .. RetryAttempts
  BY <1>3, ProducerConstants DEF ProducerInv, HistoryInv
<1>5. Spent(sender.cur)
  BY <1>3, <1>4, ProducerConstants DEF Spent
<1>6. DeadInv'
  <2>1. CASE deadQueue' = deadQueue
    BY <1>2, <2>1 DEF ProducerInv, DeadInv, Spent
  <2>2. CASE deadQueue' = Append(deadQueue, sender.cur)
    <3>1. deadQueue \in Seq(Copies) /\ \A i \in 1 .. Len(deadQueue) : Spent(deadQueue[i])
      BY DEF ProducerInv, DeadInv
    <3>2. /\ deadQueue' \in Seq(Copies)
          /\ \A i \in 1 .. Len(deadQueue') : (i \in 1 .. Len(deadQueue) /\ deadQueue'[i] = deadQueue[i])
                                             \/ deadQueue'[i] = sender.cur
      BY <1>3, <2>2, <3>1, AppendFacts
    <3>3. \A i \in 1 .. Len(deadQueue') : Spent(deadQueue'[i])
      BY <1>5, <3>1, <3>2
    <3> QED BY <1>2, <3>2, <3>3 DEF DeadInv, Spent
  <2> QED BY <2>1, <2>2 DEF DeadLetter
<1>7. FileInv'
  BY <1>1, <1>2 DEF ProducerInv, FileInv
<1> QED BY <1>1, <1>6, <1>7, RestKeeps DEF ProducerInv
\* A failed write is one attempt of the copy and one more failure on record.
LEMMA SendFailsKeeps ==
    ASSUME ProducerInv, SendFails
    PROVE  ProducerInv'
<1> DEFINE x == sender.cur.id
<1>1. /\ sender.pc = "sending"
      /\ UNCHANGED <<running, stopping, cancelled, closed, queue, deadQueue, file, burier, mover, buried>>
      /\ delivered' = delivered \/ delivered' = delivered \cup {x}
      /\ sender' = [sender EXCEPT !.pc = "failed", !.cur.att = @ + 1]
      /\ fails' = [fails EXCEPT ![x] = IF @ < RetryAttempts THEN @ + 1 ELSE @]
  BY DEF SendFails, state
<1>2. /\ sender \in Threads /\ sender.cur \in Copies /\ x \in Events /\ sender.cur.att \in Attempts
      /\ sender.cur.att < RetryAttempts /\ sender.cur.att <= fails[x]
  BY <1>1 DEF ProducerInv, SenderInv, Fresh, Copies
<1>3. RetryAttempts \in Nat /\ Attempts = 0 .. RetryAttempts /\ sender.cur.att \in Nat
  BY <1>2, ProducerConstants
<1>4. \A e \in Events : fails[e] \in 0 .. RetryAttempts
  BY <1>3 DEF ProducerInv, HistoryInv
<1>5. fails' \in [Events -> Attempts] /\ \A e \in Events : fails'[e] >= fails[e]
  <2> DEFINE f == IF fails[x] < RetryAttempts THEN fails[x] + 1 ELSE fails[x]
  <2>1. f \in Attempts /\ f >= fails[x]
    <3>1. fails[x] \in 0 .. RetryAttempts
      BY <1>2, <1>4
    <3> HIDE DEF x
    <3> QED BY <1>3, <3>1
  <2>2. fails \in [Events -> Attempts] /\ fails' = [fails EXCEPT ![x] = f]
    BY <1>1 DEF ProducerInv, HistoryInv
  <2> HIDE DEF f, x
  <2>3. fails' \in [Events -> Attempts] /\ \A e \in Events : fails'[e] = IF e = x THEN f ELSE fails[e]
    BY <2>1, <2>2
  <2> QED BY <1>3, <1>4, <2>1, <2>3
<1>6. fails'[x] > sender.cur.att /\ \A a \in Nat : a < RetryAttempts /\ a <= fails[x] => fails'[x] > a
  <2>1. fails'[x] = IF fails[x] < RetryAttempts THEN fails[x] + 1 ELSE fails[x]
    BY <1>1, <1>2 DEF ProducerInv, HistoryInv
  <2>2. fails[x] \in 0 .. RetryAttempts
    BY <1>2, <1>4
  <2> HIDE DEF x
  <2> QED BY <1>2, <1>3, <2>1, <2>2
<1>7. (\A c : Fresh(c) => Fresh(c)') /\ (\A c : Spent(c) => Spent(c)')
  BY <1>5, FailsGrow DEF ProducerInv
<1>8. sender' \in Threads /\ sender'.pc = "failed" /\ sender'.cur \in Copies /\ sender'.cur.id = x
      /\ sender'.cur.att = sender.cur.att + 1
  <2>1. sender.cur.att + 1 \in Attempts
    BY <1>2, <1>3
  <2>2. [sender.cur EXCEPT !.att = @ + 1] \in Copies /\ [sender.cur EXCEPT !.att = @ + 1].id = x
        /\ [sender.cur EXCEPT !.att = @ + 1].att = sender.cur.att + 1
    BY <1>2, <2>1 DEF Copies
  <2> DEFINE d == [sender.cur EXCEPT !.att = @ + 1]
  <2>3. sender' = [[sender EXCEPT !.pc = "failed"] EXCEPT !.cur = d]
    BY <1>1, <1>2 DEF Threads
  <2>4. d \in Copies /\ d.id = x /\ d.att = sender.cur.att + 1
    BY <2>2
  <2> HIDE DEF d, x
  <2>5. sender'.cur = d /\ sender'.pc = "failed" /\ sender' \in Threads
    BY <1>2, <2>3, <2>4 DEF Threads, ThreadPCs
  <2> QED BY <2>4, <2>5
<1>9. StateInv' /\ running
  BY <1>1, <1>8 DEF ProducerInv, StateInv
<1>10. HistoryInv'
  BY <1>1, <1>2, <1>3, <1>4, <1>5 DEF ProducerInv, HistoryInv
<1>11. QueueInv' /\ DeadInv'
  BY <1>1, <1>7 DEF ProducerInv, QueueInv, DeadInv
<1>12. FileInv'
  <2>1. ASSUME NEW e \in Events, file[e].status = "failed"
        PROVE  file[e].att <= fails'[e]
    <3>1. file[e].att \in 1 .. RetryAttempts - 1 /\ file[e].att <= fails[e]
      BY <2>1 DEF ProducerInv, FileInv
    <3>2. fails'[e] >= fails[e] /\ fails[e] \in 0 .. RetryAttempts /\ fails'[e] \in 0 .. RetryAttempts
      BY <1>3, <1>4, <1>5
    <3> QED BY <1>3, <3>1, <3>2
  <2> QED BY <1>1, <2>1 DEF ProducerInv, FileInv
<1>13. SenderInv'
  <2>1. sender'.cur.att <= fails'[x] /\ sender'.cur.att # 0
    <3>1. fails'[x] \in Nat /\ fails'[x] > sender.cur.att /\ sender'.cur.att = sender.cur.att + 1
      BY <1>2, <1>3, <1>5, <1>6, <1>8
    <3> QED BY <1>3, <3>1
  <2> QED BY <1>8, <2>1 DEF SenderInv
<1>14. BurierInv'
  BY <1>1, <1>7 DEF ProducerInv, BurierInv
<1>15. MoverInv'
  BY <1>1, <1>7 DEF ProducerInv, MoverInv
<1>16. HandOverInv'
  <2> SUFFICES ASSUME NEW m \in Movers, mover[m].pc = "remove"
               PROVE  HandedOver(mover[m].cur.id, mover[m].cur.att)'
    BY <1>1 DEF HandOverInv
  <2>1. Fresh(mover[m].cur) /\ HandedOver(mover[m].cur.id, mover[m].cur.att)
    BY DEF ProducerInv, MoverInv, HandOverInv
  <2>2. /\ mover[m].cur.id \in Events /\ mover[m].cur.att \in Nat
        /\ mover[m].cur.att < RetryAttempts /\ mover[m].cur.att <= fails[mover[m].cur.id]
    BY <1>3, <2>1 DEF Fresh, Copies
  <2>3. CASE mover[m].cur.id = x
    <3>1. fails'[x] > mover[m].cur.att
      BY <1>6, <2>2, <2>3
    <3> QED BY <1>1, <2>3, <3>1 DEF HandedOver
  <2>4. CASE mover[m].cur.id # x
    <3>1. fails'[mover[m].cur.id] = fails[mover[m].cur.id]
      BY <1>1, <2>2, <2>4 DEF ProducerInv, HistoryInv
    <3> QED BY <1>1, <2>1, <2>4, <3>1 DEF HandedOver
  <2> QED BY <2>3, <2>4
<1> QED BY <1>9, <1>10, <1>11, <1>12, <1>13, <1>14, <1>15, <1>16 DEF ProducerInv

\* The context ends the wait for a writer: the copy fails with its attempts as before.
LEMMA SendCancelledKeeps ==
    ASSUME ProducerInv, SendCancelled
    PROVE  ProducerInv'
<1>1. /\ sender.pc = "sending" /\ cancelled /\ sender' = [sender EXCEPT !.pc = "failed"]
      /\ UNCHANGED <<running, stopping, cancelled, closed, queue, deadQueue, file, burier, mover, delivered, buried, fails>>
  BY DEF SendCancelled, state, history
<1>2. sender' \in Threads /\ sender'.pc = "failed" /\ sender'.cur = sender.cur /\ Fresh(sender.cur)
  BY <1>1 DEF ProducerInv, SenderInv, Threads, ThreadPCs
<1>3. StateInv' /\ HistoryInv' /\ QueueInv' /\ DeadInv' /\ FileInv' /\ BurierInv' /\ MoverInv'
  BY <1>1, <1>2 DEF ProducerInv, StateInv, HistoryInv, QueueInv, DeadInv, FileInv, BurierInv, MoverInv, Fresh, Spent
<1>4. SenderInv'
  BY <1>1, <1>2 DEF SenderInv, Fresh
<1>5. HandOverInv'
  BY <1>1 DEF ProducerInv, HandOverInv, HandedOver
<1> QED BY <1>3, <1>4, <1>5 DEF ProducerInv

\* processDeadLetterQueue: what it takes and writes has failed RetryAttempts times.
LEMMA BurierKeeps ==
    ASSUME ProducerInv, BurierStep
    PROVE  ProducerInv'
<1>1. UNCHANGED <<running, stopping, cancelled, closed, queue, file, sender, mover, delivered, fails>>
  BY DEF BurierStep, BurierReceive, Bury, BurierExit, state, history
<1>2. QueueInv' /\ FileInv' /\ SenderInv' /\ MoverInv' /\ HandOverInv'
  BY <1>1 DEF ProducerInv, QueueInv, FileInv, SenderInv, MoverInv, HandOverInv, HandedOver, Fresh
<1>3. running
  BY DEF BurierStep, BurierReceive, Bury, BurierExit, ProducerInv, StateInv
<1>4. StateInv'
  BY <1>1, <1>3 DEF ProducerInv, StateInv
<1>5. CASE BurierReceive
  <2>1. /\ deadQueue # << >> /\ deadQueue' = Tail(deadQueue) /\ UNCHANGED buried
        /\ burier' = [pc |-> "sending", cur |-> Head(deadQueue)]
    BY <1>5 DEF BurierReceive
  <2>2. deadQueue \in Seq(Copies) /\ \A i \in 1 .. Len(deadQueue) : Spent(deadQueue[i])
    BY DEF ProducerInv, DeadInv
  <2>3. /\ Head(deadQueue) = deadQueue[1] /\ 1 \in 1 .. Len(deadQueue)
        /\ deadQueue' \in Seq(Copies)
        /\ \A i \in 1 .. Len(deadQueue') : deadQueue'[i] = deadQueue[i + 1] /\ i + 1 \in 1 .. Len(deadQueue)
    BY <2>1, <2>2, TailFacts
  <2>4. \A i \in 1 .. Len(deadQueue') : Spent(deadQueue'[i])
    BY <2>2, <2>3
  <2>5. DeadInv'
    BY <1>1, <2>3, <2>4 DEF DeadInv, Spent
  <2>6. Spent(Head(deadQueue)) /\ burier'.pc = "sending" /\ burier'.cur = Head(deadQueue)
    BY <2>1, <2>2, <2>3
  <2>7. burier' \in Threads
    BY <2>1, <2>6 DEF Threads, ThreadPCs, Spent
  <2>8. BurierInv'
    BY <1>1, <2>6, <2>7 DEF BurierInv, Spent
  <2> QED BY <1>1, <1>2, <1>4, <2>1, <2>5, <2>8 DEF ProducerInv, HistoryInv
<1>6. CASE Bury
  <2>1. Spent(burier.cur) /\ burier.cur.id \in Events
    BY <1>6 DEF Bury, ProducerInv, BurierInv, Spent, Copies
  <2>2. UNCHANGED deadQueue /\ (buried' = buried \cup {burier.cur.id} \/ buried' = buried)
    BY <1>6 DEF Bury
  <2>3. HistoryInv'
    BY <1>1, <2>1, <2>2 DEF ProducerInv, HistoryInv, Spent
  <2>4. BurierInv'
    BY <1>6, GoneFacts DEF Bury, BurierInv
  <2>5. DeadInv'
    BY <1>1, <2>2 DEF ProducerInv, DeadInv, Spent
  <2> QED BY <1>2, <1>4, <2>3, <2>4, <2>5 DEF ProducerInv
<1>7. CASE BurierExit
  <2>1. BurierInv'
    BY <1>7, GoneFacts DEF BurierExit, BurierInv
  <2>2. HistoryInv' /\ DeadInv'
    BY <1>1, <1>7 DEF BurierExit, ProducerInv, HistoryInv, DeadInv, Spent
  <2> QED BY <1>2, <1>4, <2>1, <2>2 DEF ProducerInv
<1> QED BY <1>5, <1>6, <1>7 DEF BurierStep
\* The copy of a file that can be brought back has an attempt left.
LEMMA CopyFresh ==
    ASSUME ProducerInv, NEW e \in Events, OnDisk(e)
    PROVE  Fresh(CopyOf(e))
<1>1. file[e] \in FileStates /\ file[e].status \in {"pending", "failed"} /\ file[e].att \in Attempts
  BY DEF ProducerInv, FileInv, OnDisk, FileStates
<1>2. CopyOf(e) \in Copies /\ CopyOf(e).att = file[e].att /\ CopyOf(e).id = e
  BY <1>1 DEF CopyOf, Copies
<1>3. fails[e] \in 0 .. RetryAttempts /\ RetryAttempts \in Nat /\ RetryAttempts > 0
  BY ProducerConstants DEF ProducerInv, HistoryInv
<1>4. CASE file[e].status = "failed"
  <2>1. file[e].att \in 1 .. RetryAttempts - 1 /\ file[e].att <= fails[e]
    BY <1>4 DEF ProducerInv, FileInv
  <2>2. file[e].att < RetryAttempts
    BY <1>3, <2>1
  <2> QED BY <1>2, <2>1, <2>2 DEF Fresh
<1>5. CASE file[e].status = "pending"
  <2>1. file[e].att = 0
    BY <1>5 DEF ProducerInv, FileInv
  <2> QED BY <1>2, <1>3, <2>1 DEF Fresh
<1> QED BY <1>1, <1>4, <1>5

\* One mover changes and everything else stays.
LEMMA MoverChanges ==
    ASSUME ProducerInv, NEW m \in Movers, NEW s \in MoverStates, mover' = [mover EXCEPT ![m] = s],
           UNCHANGED <<running, stopping, cancelled, closed, queue, deadQueue, sender, burier, delivered, buried, fails>>,
           FileInv', s.pc # "remove", \A c \in s.todo : Fresh(c)
    PROVE  ProducerInv'
<1>1. StateInv' /\ HistoryInv' /\ QueueInv' /\ DeadInv' /\ SenderInv' /\ BurierInv'
  BY DEF ProducerInv, StateInv, HistoryInv, QueueInv, DeadInv, SenderInv, BurierInv, Fresh, Spent
<1>2. mover' \in [Movers -> MoverStates] /\ mover'[m] = s /\ \A k \in Movers : k # m => mover'[k] = mover[k]
  BY DEF ProducerInv, MoverInv
<1>3. MoverInv'
  BY <1>2 DEF ProducerInv, MoverInv, Fresh
<1>4. HandOverInv'
  BY <1>2 DEF ProducerInv, HandOverInv, HandedOver
<1> QED BY <1>1, <1>3, <1>4 DEF ProducerInv

\* A tick, and the loader's GetAll: the list holds copies of files.
LEMMA ListKeeps ==
    ASSUME ProducerInv, NEW m \in Movers, NEW D, D \subseteq {e \in Events : OnDisk(e)},
           mover' = [mover EXCEPT ![m] = [pc |-> "loop", cur |-> NoCopy, todo |-> {CopyOf(e) : e \in D}]],
           UNCHANGED <<running, stopping, cancelled, closed, queue, deadQueue, file, sender, burier, delivered, buried, fails>>
    PROVE  ProducerInv'
<1> DEFINE s == [pc |-> "loop", cur |-> NoCopy, todo |-> {CopyOf(e) : e \in D}]
<1>1. \A e \in D : Fresh(CopyOf(e)) /\ CopyOf(e) \in Copies
  BY CopyFresh DEF Fresh
<1>2. s \in MoverStates /\ s.pc # "remove" /\ \A c \in s.todo : Fresh(c)
  BY <1>1 DEF MoverStates
<1>3. mover' = [mover EXCEPT ![m] = s]
  OBVIOUS
<1>4. FileInv'
  BY DEF ProducerInv, FileInv
<1> HIDE DEF s
<1> QED BY <1>2, <1>3, <1>4, MoverChanges

\* RetryTick and LoadAll.
LEMMA ListsKeep ==
    ASSUME ProducerInv, (\E due \in SUBSET Events : RetryTick(due)) \/ (\E l \in Loaders : LoadAll(l))
    PROVE  ProducerInv'
<1>1. ASSUME NEW due \in SUBSET Events, RetryTick(due)
      PROVE  ProducerInv'
  <2>1. due \subseteq {e \in Events : OnDisk(e)}
    BY <1>1 DEF RetryTick, Retryable, OnDisk
  <2>2. /\ mover' = [mover EXCEPT !["retry"] = [pc |-> "loop", cur |-> NoCopy, todo |-> {CopyOf(e) : e \in due}]]
        /\ UNCHANGED <<running, stopping, cancelled, closed, queue, deadQueue, file, sender, burier, delivered, buried, fails>>
    BY <1>1 DEF RetryTick, state, history
  <2>3. "retry" \in Movers
    BY DEF Movers
  <2> QED BY <2>1, <2>2, <2>3, ListKeeps
<1>2. ASSUME NEW l \in Loaders, LoadAll(l)
      PROVE  ProducerInv'
  <2> DEFINE D == {x \in Events : OnDisk(x)}
  <2>1. /\ mover' = [mover EXCEPT ![l] = [pc |-> "loop", cur |-> NoCopy, todo |-> {CopyOf(e) : e \in D}]]
        /\ UNCHANGED <<running, stopping, cancelled, closed, queue, deadQueue, file, sender, burier, delivered, buried, fails>>
    BY <1>2 DEF LoadAll, state, history
  <2>2. l \in Movers /\ D \subseteq {e \in Events : OnDisk(e)}
    BY DEF Movers
  <2> HIDE DEF D
  <2> QED BY <2>1, <2>2, ListKeeps
<1> QED BY <1>1, <1>2

\* The hand-over from the list to the channel (MoveEnqueue).
LEMMA MoveEnqueueKeeps ==
    ASSUME ProducerInv, NEW m \in Movers, NEW c, MoveEnqueue(m, c)
    PROVE  ProducerInv'
<1>1. /\ c \in mover[m].todo
      /\ UNCHANGED <<running, stopping, cancelled, closed, deadQueue, file, sender, burier, delivered, buried, fails>>
  BY DEF MoveEnqueue, state, history
<1>2. mover \in [Movers -> MoverStates] /\ mover[m] \in MoverStates /\ Fresh(c) /\ c \in Copies
  BY <1>1 DEF ProducerInv, MoverInv, Fresh
<1>3. CASE queue' = Append(queue, c) /\ mover' = [mover EXCEPT ![m] = [pc |-> "remove", cur |-> c, todo |-> @.todo \ {c}]]
  <2> DEFINE s == [pc |-> "remove", cur |-> c, todo |-> mover[m].todo \ {c}]
  <2>1. s \in MoverStates /\ s.pc = "remove" /\ s.cur = c /\ s.todo \subseteq mover[m].todo
    BY <1>2 DEF MoverStates
  <2>2. mover' = [mover EXCEPT ![m] = s]
    BY <1>3
  <2> HIDE DEF s
  <2>3. mover' \in [Movers -> MoverStates] /\ mover'[m] = s /\ \A k \in Movers : k # m => mover'[k] = mover[k]
    BY <1>2, <2>1, <2>2
  <2>4. /\ QueueInv'
        /\ \A e : (\E i \in 1 .. Len(queue) : queue[i].id = e) => (\E i \in 1 .. Len(queue') : queue'[i].id = e)
        /\ \E i \in 1 .. Len(queue') : queue'[i].id = c.id
    BY <1>1, <1>2, <1>3, QueueAppend DEF ProducerInv
  <2>5. StateInv' /\ HistoryInv' /\ DeadInv' /\ FileInv' /\ SenderInv' /\ BurierInv'
    BY <1>1 DEF ProducerInv, StateInv, HistoryInv, DeadInv, FileInv, SenderInv, BurierInv, Fresh, Spent
  <2>6. MoverInv'
    <3>1. \A k \in Movers : \A d \in mover'[k].todo : Fresh(d)
      BY <2>1, <2>3 DEF ProducerInv, MoverInv
    <3>2. \A k \in Movers : mover'[k].pc = "remove" => Fresh(mover'[k].cur)
      BY <1>2, <2>1, <2>3 DEF ProducerInv, MoverInv
    <3> QED BY <1>1, <2>3, <3>1, <3>2 DEF MoverInv, Fresh
  <2>7. HandOverInv'
    <3> SUFFICES ASSUME NEW k \in Movers, mover'[k].pc = "remove"
                 PROVE  HandedOver(mover[k].cur.id, mover[k].cur.att)'
      BY DEF HandOverInv
    <3>1. CASE k = m
      BY <2>1, <2>3, <2>4, <3>1 DEF HandedOver
    <3>2. CASE k # m
      BY <1>1, <2>3, <2>4, <3>2 DEF ProducerInv, HandOverInv, HandedOver
    <3> QED BY <3>1, <3>2
  <2> QED BY <2>4, <2>5, <2>6, <2>7 DEF ProducerInv
<1>4. CASE UNCHANGED queue /\ mover' = [mover EXCEPT ![m].todo = @ \ {c}] /\ mover[m].pc = "loop"
  <2> DEFINE s == [mover[m] EXCEPT !.todo = @ \ {c}]
  <2>1. s \in MoverStates /\ s.pc = "loop" /\ s.todo = mover[m].todo \ {c}
    BY <1>2, <1>4 DEF MoverStates
  <2>2. mover' = [mover EXCEPT ![m] = s]
    BY <1>4
  <2> HIDE DEF s
  <2>3. FileInv' /\ \A d \in s.todo : Fresh(d)
    BY <1>1, <2>1 DEF ProducerInv, FileInv, MoverInv
  <2> QED BY <1>1, <1>4, <2>1, <2>2, <2>3, MoverChanges
<1> QED BY <1>3, <1>4 DEF MoveEnqueue

\* Remove, and the end of a mover's list.
LEMMA MoveOnKeeps ==
    ASSUME ProducerInv, NEW m \in Movers, MoveRemove(m) \/ MoveEnd(m) \/ (m = "retry" /\ MoverExit)
    PROVE  ProducerInv'
<1>1. UNCHANGED <<running, stopping, cancelled, closed, queue, deadQueue, sender, burier, delivered, buried, fails>>
  BY DEF MoveRemove, MoveEnd, MoverExit, state, history
<1>2. mover \in [Movers -> MoverStates] /\ mover[m] \in MoverStates
  BY DEF ProducerInv, MoverInv
<1>3. CASE MoveRemove(m)
  <2> DEFINE s == [mover[m] EXCEPT !.pc = "loop", !.cur = NoCopy]
  <2>1. s \in MoverStates /\ s.pc = "loop" /\ s.todo = mover[m].todo
    BY <1>2 DEF MoverStates
  <2>2. mover' = [mover EXCEPT ![m] = s]
    BY <1>2, <1>3 DEF MoveRemove
  <2> HIDE DEF s
  <2>3. \A c \in s.todo : Fresh(c)
    BY <2>1 DEF ProducerInv, MoverInv
  <2>4. NoFile \in FileStates /\ NoFile.status = "none"
    BY ProducerConstants DEF NoFile, FileStates
  <2>5. FileInv'
    BY <1>1, <1>3, <2>4 DEF MoveRemove, ProducerInv, FileInv
  <2> QED BY <1>1, <2>1, <2>2, <2>3, <2>5, MoverChanges
<1>4. CASE MoveEnd(m) \/ (m = "retry" /\ MoverExit)
  <2>1. \E s \in {GoneMover, [GoneMover EXCEPT !.pc = "idle"]} : mover' = [mover EXCEPT ![m] = s]
    BY <1>4 DEF MoveEnd, MoverExit
  <2>2. PICK s \in {GoneMover, [GoneMover EXCEPT !.pc = "idle"]} : mover' = [mover EXCEPT ![m] = s]
    BY <2>1
  <2>3. s \in MoverStates /\ s.pc # "remove" /\ s.todo = {}
    BY GoneFacts
  <2>4. UNCHANGED file
    BY <1>4 DEF MoveEnd, MoverExit
  <2>5. FileInv'
    BY <1>1, <2>4 DEF ProducerInv, FileInv
  <2> QED BY <1>1, <2>2, <2>3, <2>5, MoverChanges
<1> QED BY <1>3, <1>4
\* Stop: it cancels the context, and ends when the three goroutines it waits for are gone.
LEMMA StopKeeps ==
    ASSUME ProducerInv, StopBegin \/ StopEnd
    PROVE  ProducerInv'
<1>1. UNCHANGED <<queue, deadQueue, file, sender, burier, mover, delivered, buried, fails>> /\ (cancelled => cancelled')
  BY DEF StopBegin, StopEnd, threads, history
<1>2. StateInv'
  BY DEF ProducerInv, StateInv, StopBegin, StopEnd, threads
<1>3. HistoryInv' /\ QueueInv' /\ DeadInv' /\ FileInv' /\ BurierInv' /\ MoverInv'
  BY <1>1 DEF ProducerInv, HistoryInv, QueueInv, DeadInv, FileInv, BurierInv, MoverInv, Fresh, Spent
<1>4. SenderInv'
  BY <1>1 DEF ProducerInv, SenderInv, Fresh
<1>5. HandOverInv'
  BY <1>1 DEF ProducerInv, HandOverInv, HandedOver
<1> QED BY <1>2, <1>3, <1>4, <1>5 DEF ProducerInv

\* Every step of the producer keeps the account of the attempts.
LEMMA ProducerStep == ProducerInv /\ [ProducerNext]_producerVars => ProducerInv'
<1> SUFFICES ASSUME ProducerInv, [ProducerNext]_producerVars
             PROVE  ProducerInv'
  OBVIOUS
<1>1. CASE UNCHANGED producerVars
  BY <1>1 DEF producerVars, state, threads, history, ProducerInv, StateInv, HistoryInv, QueueInv, DeadInv, FileInv,
      SenderInv, BurierInv, MoverInv, HandOverInv, HandedOver, Fresh, Spent
<1>2. CASE \E l \in Loaders : Start(l)
  BY <1>2, StartKeeps
<1>3. CASE \E e \in Events : Publish(e)
  BY <1>3, PublishKeeps
<1>4. CASE SenderStep
  <2>1. CASE RetryPanics
    BY <2>1, NewProcessKeeps DEF RetryPanics
  <2> QED BY <1>4, <2>1, ReceiveKeeps, SentKeeps, SendFailsKeeps, SendCancelledKeeps, RetryLaterKeeps, DeadLetterKeeps
          DEF SenderStep
<1>5. CASE BurierStep
  BY <1>5, BurierKeeps
<1>6. CASE (\E due \in SUBSET Events : RetryTick(due)) \/ (\E l \in Loaders : LoadAll(l))
  BY <1>6, ListsKeep
<1>7. CASE \E m \in Movers : MoverStep(m)
  BY <1>7, MoveEnqueueKeeps, MoveOnKeeps DEF MoverStep
<1>8. CASE MoverExit
  <2>1. "retry" \in Movers
    BY DEF Movers
  <2> QED BY <1>8, <2>1, MoveOnKeeps
<1>9. CASE StopBegin \/ StopEnd
  BY <1>9, StopKeeps
<1>10. CASE Crash
  BY <1>10, NewProcessKeeps DEF Crash
<1> QED BY <1>1, <1>2, <1>3, <1>4, <1>5, <1>6, <1>7, <1>8, <1>9, <1>10 DEF ProducerNext

\* The invariant accounts for the attempts.
LEMMA InvAccounts == ProducerInv => AttemptsAccounted
<1> SUFFICES ASSUME ProducerInv
             PROVE  AttemptsAccounted
  OBVIOUS
<1>1. BuriedWasTried
  <2> SUFFICES ASSUME NEW e \in Events, e \in buried \/ burier.cur.id = e \/ InQueue(deadQueue, e)
               PROVE  fails[e] = RetryAttempts
    BY DEF BuriedWasTried
  <2>1. CASE e \in buried
    BY <2>1 DEF ProducerInv, HistoryInv
  <2>2. CASE burier.cur.id = e
    <3>1. burier.pc = "sending"
      BY <2>2, GoneFacts, ProducerConstants DEF ProducerInv, BurierInv
    <3> QED BY <2>2, <3>1 DEF ProducerInv, BurierInv, Spent
  <2>3. CASE InQueue(deadQueue, e)
    <3>1. DOMAIN deadQueue = 1 .. Len(deadQueue)
      BY DEF ProducerInv, DeadInv
    <3> QED BY <2>3, <3>1 DEF ProducerInv, DeadInv, InQueue, Spent
  <2> QED BY <2>1, <2>2, <2>3
<1>2. FilesHaveAttemptsLeft
  BY DEF ProducerInv, FileInv, FilesHaveAttemptsLeft
<1>3. FailuresCounted
  <2> SUFFICES ASSUME sender.pc = "failed", ~cancelled
               PROVE  sender.cur.att > 0
    BY DEF FailuresCounted
  <2>1. sender.cur \in Copies /\ sender.cur.att # 0
    BY DEF ProducerInv, SenderInv
  <2>2. sender.cur.att \in 0 .. RetryAttempts /\ RetryAttempts \in Nat
    BY <2>1, ProducerConstants DEF Copies
  <2> QED BY <2>1, <2>2
<1> QED BY <1>1, <1>2, <1>3 DEF AttemptsAccounted

(***************************************************************************)
(* AttemptsAlwaysAccounted: for every number of events, loaders and        *)
(* attempts and every capacity of the channels, what reaches the dead      *)
(* letter topic has failed RetryAttempts times, a file has attempts left,  *)
(* and the backoff never shifts by a negative count while the producer     *)
(* runs (handleFailedEvent, loadPersistedEvents, retryFailedEvents).       *)
(***************************************************************************)
THEOREM AttemptsAlwaysAccounted == ProducerSpec => []AttemptsAccounted
<1>1. ProducerInit => ProducerInv
  BY ProducerInvInit
<1>2. ProducerInv /\ [ProducerNext]_producerVars => ProducerInv'
  BY ProducerStep
<1>3. ProducerInv => AttemptsAccounted
  BY InvAccounts
<1> QED BY <1>1, <1>2, <1>3, PTL DEF ProducerSpec

-----------------------------------------------------------------------------
\* The ways an event may be lost in one step, as LostOnlyByFaults names them.
MayLose(e) ==
    \/ crashes' # crashes
    \/ sender.pc = "failed" /\ sender.cur.att = 0
    \/ sender.cur.id = e /\ (CanFail("disk") \/ ~Persistence)
    \/ sender.cur.id = e /\ ~HasRoom(deadQueue, DeadLetterSize)
    \/ burier.cur.id = e /\ (CanFail("deadLetter") \/ cancelled)
    \/ \E m \in Movers : mover[m].pc = "remove" /\ mover[m].cur.id = e
                          /\ (fails[e] > mover[m].cur.att \/ cancelled)

\* An event in a channel is at one of its places.
LEMMA InQueues ==
    ASSUME ProducerInv
    PROVE  /\ \A e : InQueue(queue, e) <=> \E i \in 1 .. Len(queue) : queue[i].id = e
           /\ \A e : InQueue(deadQueue, e) <=> \E i \in 1 .. Len(deadQueue) : deadQueue[i].id = e
<1>1. DOMAIN queue = 1 .. Len(queue) /\ DOMAIN deadQueue = 1 .. Len(deadQueue)
  BY DEF ProducerInv, QueueInv, DeadInv
<1> QED BY <1>1 DEF InQueue

\* No step loses an event in another way.
LEMMA LosesOnlySo ==
    ASSUME ProducerInv, ProducerInv', ProducerNext, NEW e \in Events, Kept(e), crashes \in Nat
    PROVE  Kept(e)' \/ MayLose(e)
<1>1. /\ InQueue(queue, e) <=> \E i \in 1 .. Len(queue) : queue[i].id = e
      /\ InQueue(deadQueue, e) <=> \E i \in 1 .. Len(deadQueue) : deadQueue[i].id = e
  BY InQueues
<1>2. /\ InQueue(queue', e) <=> \E i \in 1 .. Len(queue') : queue'[i].id = e
      /\ InQueue(deadQueue', e) <=> \E i \in 1 .. Len(deadQueue') : deadQueue'[i].id = e
  <2>1. DOMAIN queue' = 1 .. Len(queue') /\ DOMAIN deadQueue' = 1 .. Len(deadQueue')
    BY DEF ProducerInv, QueueInv, DeadInv
  <2> QED BY <2>1 DEF InQueue
<1>3. /\ sender.pc \in {"idle", "exited"} => sender.cur.id # e
      /\ burier.pc # "sending" => burier.cur.id # e
  BY GoneFacts, ProducerConstants DEF ProducerInv, SenderInv, BurierInv
<1>4. CASE \E l \in Loaders : Start(l)
  <2>1. sender.pc = "exited" /\ burier.pc = "exited" /\ UNCHANGED <<queue, deadQueue, file, delivered, buried>>
    BY <1>4 DEF Start, ProducerInv, StateInv
  <2> QED BY <1>3, <2>1 DEF Kept, OnDisk
<1>5. CASE \E x \in Events : Publish(x)
  <2>1. UNCHANGED <<deadQueue, sender, burier, delivered, buried>>
    BY <1>5 DEF Publish, PublishCheck, PublishEvent, threads
  <2>2. OnDisk(e) => OnDisk(e)'
    BY <1>5 DEF Publish, PublishCheck, PublishEvent, Persisted, OnDisk, ProducerInv, FileInv
  <2>3. InQueue(queue, e) => InQueue(queue', e)
    <3>1. CASE UNCHANGED queue
      BY <3>1
    <3>2. CASE \E x \in Events : queue' = Append(queue, [id |-> x, att |-> 0])
      <4>1. PICK x \in Events : queue' = Append(queue, [id |-> x, att |-> 0])
        BY <3>2
      <4>2. queue \in Seq(Copies) /\ [id |-> x, att |-> 0] \in Copies
        BY ProducerConstants DEF ProducerInv, QueueInv, Copies
      <4>3. \A i \in 1 .. Len(queue) : i \in 1 .. Len(queue') /\ queue'[i] = queue[i]
        BY <4>1, <4>2, AppendFacts
      <4> QED BY <1>1, <1>2, <4>3
    <3> QED BY <1>5, <3>1, <3>2 DEF Publish, PublishCheck, PublishEvent
  <2> QED BY <2>1, <2>2, <2>3 DEF Kept
<1>6. CASE SenderStep
  <2>1. CASE SenderReceive
    <3>1. /\ queue # << >> /\ queue' = Tail(queue) /\ sender' = [pc |-> "sending", cur |-> Head(queue)]
          /\ UNCHANGED <<deadQueue, file, burier, delivered, buried, fails>> /\ sender.pc = "idle"
      BY <2>1 DEF SenderReceive, history
    <3>2. InQueue(queue, e) => Head(queue).id = e \/ InQueue(queue', e)
      BY <1>1, <1>2, <3>1, QueueTail DEF ProducerInv
    <3>3. sender'.cur = Head(queue)
      BY <3>1
    <3> QED BY <1>3, <3>1, <3>2, <3>3 DEF Kept, OnDisk
  <2>2. CASE SendSucceeds \/ SenderExit
    BY <1>3, <2>2 DEF SendSucceeds, SenderExit, Kept, OnDisk
  <2>3. CASE SendFails
    <3>1. sender'.cur.id = sender.cur.id
      BY <2>3 DEF SendFails, ProducerInv, SenderInv, Threads, Fresh, Copies
    <3> QED BY <2>3, <3>1 DEF SendFails, Kept, OnDisk
  <2>4. CASE SendCancelled
    <3>1. sender'.cur = sender.cur
      BY <2>4 DEF SendCancelled, ProducerInv, SenderInv, Threads
    <3> QED BY <2>4, <3>1 DEF SendCancelled, Kept, OnDisk
  <2>5. CASE RetryLater
    <3>1. UNCHANGED <<queue, deadQueue, burier, delivered, buried>>
      BY <2>5 DEF RetryLater
    <3>2. OnDisk(e) => OnDisk(e)'
      BY <2>5 DEF RetryLater, Persisted, OnDisk, ProducerInv, FileInv
    <3>3. sender.cur.id = e => OnDisk(e)' \/ MayLose(e)
      BY <2>5 DEF RetryLater, Persisted, OnDisk, MayLose, ProducerInv, FileInv
    <3> QED BY <3>1, <3>2, <3>3 DEF Kept
  <2>6. CASE DeadLetter
    <3>1. UNCHANGED <<queue, file, burier, delivered, buried>>
      BY <2>6 DEF DeadLetter
    <3>2. CASE ~HasRoom(deadQueue, DeadLetterSize)
      <4>1. UNCHANGED deadQueue
        BY <2>6, <3>2 DEF DeadLetter
      <4> QED BY <3>1, <3>2, <4>1 DEF Kept, OnDisk, MayLose
    <3>3. CASE HasRoom(deadQueue, DeadLetterSize)
      <4>1. deadQueue' = Append(deadQueue, sender.cur) /\ sender.cur \in Copies /\ deadQueue \in Seq(Copies)
        BY <2>6, <3>3 DEF DeadLetter, ProducerInv, SenderInv, DeadInv
      <4>2. /\ Len(deadQueue) \in Nat /\ Len(deadQueue') = Len(deadQueue) + 1
            /\ \A i \in 1 .. Len(deadQueue) : deadQueue'[i] = deadQueue[i]
            /\ deadQueue'[Len(deadQueue) + 1] = sender.cur
        BY <4>1, AppendFacts
      <4>3. (\A i \in 1 .. Len(deadQueue) : i \in 1 .. Len(deadQueue')) /\ Len(deadQueue) + 1 \in 1 .. Len(deadQueue')
        BY <4>2
      <4>4. InQueue(deadQueue, e) \/ sender.cur.id = e => InQueue(deadQueue', e)
        BY <1>1, <1>2, <4>2, <4>3
      <4> QED BY <3>1, <4>4 DEF Kept, OnDisk
    <3> QED BY <3>2, <3>3
  <2>7. CASE RetryPanics
    BY <2>7 DEF RetryPanics, MayLose
  <2> QED BY <1>6, <2>1, <2>2, <2>3, <2>4, <2>5, <2>6, <2>7 DEF SenderStep
<1>7. CASE BurierStep
  <2>1. UNCHANGED <<queue, file, sender, delivered>>
    BY <1>7 DEF BurierStep, BurierReceive, Bury, BurierExit
  <2>2. CASE BurierReceive
    <3>1. /\ deadQueue # << >> /\ deadQueue' = Tail(deadQueue) /\ burier'.cur = Head(deadQueue) /\ UNCHANGED buried
          /\ burier.pc = "idle" /\ deadQueue \in Seq(Copies)
      BY <2>2 DEF BurierReceive, ProducerInv, DeadInv
    <3>2. Head(deadQueue) = deadQueue[1]
          /\ \A i \in 1 .. Len(deadQueue) : i = 1 \/ (i - 1 \in 1 .. Len(deadQueue') /\ deadQueue'[i - 1] = deadQueue[i])
      BY <3>1, TailFacts
    <3>3. InQueue(deadQueue, e) => Head(deadQueue).id = e \/ InQueue(deadQueue', e)
      BY <1>1, <1>2, <3>2
    <3> QED BY <1>3, <2>1, <3>1, <3>3 DEF Kept, OnDisk
  <2>3. CASE Bury
    BY <2>1, <2>3 DEF Bury, Kept, OnDisk, MayLose
  <2>4. CASE BurierExit
    BY <1>3, <2>1, <2>4 DEF BurierExit, Kept, OnDisk
  <2> QED BY <1>7, <2>2, <2>3, <2>4 DEF BurierStep
<1>8. CASE (\E due \in SUBSET Events : RetryTick(due)) \/ (\E l \in Loaders : LoadAll(l)) \/ MoverExit
            \/ (\E m \in Movers : MoveEnd(m)) \/ StopBegin \/ StopEnd
  <2>1. UNCHANGED <<queue, deadQueue, file, sender, burier, delivered, buried>>
    BY <1>8 DEF RetryTick, LoadAll, MoverExit, MoveEnd, StopBegin, StopEnd, threads
  <2> QED BY <2>1 DEF Kept, OnDisk
<1>9. ASSUME NEW m \in Movers, NEW c, MoveEnqueue(m, c)
      PROVE  Kept(e)'
  <2>1. UNCHANGED <<deadQueue, file, sender, burier, delivered, buried, fails>> /\ Fresh(c)
    BY <1>9 DEF MoveEnqueue, history, ProducerInv, MoverInv
  <2>2. InQueue(queue, e) => InQueue(queue', e)
    BY <1>1, <1>2, <1>9, <2>1, QueueAppend DEF MoveEnqueue, ProducerInv
  <2> QED BY <2>1, <2>2 DEF Kept, OnDisk
<1>10. ASSUME NEW m \in Movers, MoveRemove(m)
       PROVE  Kept(e)' \/ MayLose(e)
  <2>1. UNCHANGED <<queue, deadQueue, sender, burier, delivered, buried>> /\ mover[m].pc = "remove"
    BY <1>10 DEF MoveRemove
  <2>2. CASE mover[m].cur.id # e
    <3>1. OnDisk(e) => OnDisk(e)'
      BY <1>10, <2>2 DEF MoveRemove, OnDisk, ProducerInv, FileInv
    <3> QED BY <2>1, <3>1 DEF Kept
  <2>3. CASE mover[m].cur.id = e
    <3>1. HandedOver(e, mover[m].cur.att)
      BY <2>1, <2>3 DEF ProducerInv, HandOverInv
    <3>2. CASE fails[e] > mover[m].cur.att \/ cancelled
      BY <2>1, <2>3, <3>2 DEF MayLose
    <3>3. CASE e \in delivered \/ InQueue(queue, e) \/ sender.cur.id = e
      BY <2>1, <3>3 DEF Kept
    <3> QED BY <1>1, <3>1, <3>2, <3>3 DEF HandedOver
  <2> QED BY <2>2, <2>3
<1>11. CASE Crash
  <2>1. crashes' = crashes + 1
    BY <1>11 DEF Crash
  <2>2. crashes' # crashes
    BY <2>1
  <2> QED BY <2>2 DEF MayLose
<1> QED BY <1>4, <1>5, <1>6, <1>7, <1>8, <1>9, <1>10, <1>11 DEF ProducerNext, MoverStep
\* The crashes are counted.
LEMMA CrashesCounted ==
    ASSUME crashes \in Nat, [ProducerNext]_producerVars
    PROVE  crashes' \in Nat
<1>1. CASE Crash
  BY <1>1 DEF Crash
<1>2. CASE UNCHANGED producerVars
  BY <1>2 DEF producerVars, history
<1>3. CASE ProducerNext /\ ~Crash
  <2>1. UNCHANGED crashes
    BY <1>3 DEF ProducerNext, Start, LoadAll, Publish, PublishCheck, PublishEvent, SenderStep, SenderReceive,
        SendSucceeds, SendFails, SendCancelled, RetryLater, DeadLetter, RetryPanics, SenderExit, BurierStep,
        BurierReceive, Bury, BurierExit, RetryTick, MoverStep, MoveEnqueue, MoveRemove, MoveEnd, MoverExit,
        StopBegin, StopEnd, history
  <2> QED BY <2>1
<1> QED BY <1>1, <1>2, <1>3

(***************************************************************************)
(* LossesAreFaults: for every number of events, loaders and attempts, an   *)
(* event that the producer has accepted disappears only in a crash or      *)
(* panic, with a file that cannot be written, at a full second channel, in *)
(* a failed write to the dead letter topic, or in the Remove that follows  *)
(* the hand-over of its file when it has failed again in between           *)
(* (enhanced_producer.go, persistent_queue.go).                            *)
(***************************************************************************)
THEOREM LossesAreFaults == ProducerSpec => LostOnlyByFaults
<1> DEFINE Inv == ProducerInv /\ crashes \in Nat
<1>1. ProducerInit => Inv
  BY ProducerInvInit DEF ProducerInit
<1>2. Inv /\ [ProducerNext]_producerVars => Inv'
  BY ProducerStep, CrashesCounted
<1>3. Inv /\ Inv' /\ [ProducerNext]_producerVars
        => [\A e \in Events : Kept(e) /\ ~Kept(e)' =>
              \/ crashes' # crashes
              \/ sender.pc = "failed" /\ sender.cur.att = 0
              \/ sender.cur.id = e /\ (CanFail("disk") \/ ~Persistence)
              \/ sender.cur.id = e /\ ~HasRoom(deadQueue, DeadLetterSize)
              \/ burier.cur.id = e /\ (CanFail("deadLetter") \/ cancelled)
              \/ \E m \in Movers : mover[m].pc = "remove" /\ mover[m].cur.id = e
                                    /\ (fails[e] > mover[m].cur.att \/ cancelled)]_producerVars
  BY LosesOnlySo DEF MayLose
<1> HIDE DEF Inv
<1> QED BY <1>1, <1>2, <1>3, PTL DEF ProducerSpec, LostOnlyByFaults

-----------------------------------------------------------------------------
(* The specialized pools.                                                  *)

Batches    == Seq(AuditEvents)
Jobs       == HashRequests \cup Nat \cup Batches
PoolSet    == {"password", "cache", "audit"}
PoolStates == [state : {"new", "running", "stopping", "stopped"}, queue : Seq(Jobs), running : SUBSET Jobs]
HashStates == {"idle", "pooled", "hashing", "answered", "received", "dropped"}

\* The pools and their queues have their shapes.
PoolsShape ==
    /\ pool \in [PoolSet -> PoolStates]
    /\ warming \in Nat /\ buffer \in Batches /\ flushChan \in Seq(Batches)
    /\ pool["audit"].queue \in Seq(Batches) /\ pool["audit"].running \subseteq Batches

Hashing == {r \in HashRequests : hash[r] = "hashing"}

(***************************************************************************)
(* A token of the semaphore belongs to a job that a worker runs: the       *)
(* workers bound the tokens, and not the semaphore of twice their number.  *)
(***************************************************************************)
HashingInv ==
    /\ hash \in [HashRequests -> HashStates]
    /\ IsFiniteSet(pool["password"].running) /\ Cardinality(pool["password"].running) <= PoolSize
    /\ Hashing \subseteq pool["password"].running
    /\ slots = Cardinality(Hashing)

\* The pools by name.
LEMMA PoolNameFacts ==
    /\ Range(PoolNames) = PoolSet /\ DOMAIN PoolNames = 1 .. 3
    /\ \A i \in 1 .. 3 : PoolNames[i] \in PoolSet
BY DEF Range, PoolNames, PoolSet

\* A job goes to the end of a queue (Submit).
LEMMA PoolEnqueue ==
    ASSUME pool \in [PoolSet -> PoolStates], NEW p \in PoolSet, NEW j \in Jobs, pool' = Enqueued(p, j)
    PROVE  /\ pool' \in [PoolSet -> PoolStates] /\ \A q \in PoolSet : q # p => pool'[q] = pool[q]
           /\ pool'[p].state = pool[p].state /\ pool'[p].running = pool[p].running
           /\ pool'[p].queue = Append(pool[p].queue, j)
<1> DEFINE new == [pool[p] EXCEPT !.queue = Append(@, j)]
<1>1. pool[p] \in PoolStates
  OBVIOUS
<1>2. Append(pool[p].queue, j) \in Seq(Jobs)
  BY <1>1 DEF PoolStates
<1>3. new \in PoolStates /\ new.state = pool[p].state /\ new.running = pool[p].running
      /\ new.queue = Append(pool[p].queue, j)
  BY <1>1, <1>2 DEF PoolStates
<1>4. pool' = [pool EXCEPT ![p] = new]
  BY DEF Enqueued
<1> HIDE DEF new
<1> QED BY <1>3, <1>4

\* A worker takes the job at the head of the queue (Take).
LEMMA PoolTake ==
    ASSUME pool \in [PoolSet -> PoolStates], NEW p \in PoolSet, Take(p)
    PROVE  /\ pool' \in [PoolSet -> PoolStates] /\ \A q \in PoolSet : q # p => pool'[q] = pool[q]
           /\ pool[p].queue # << >> /\ pool'[p].queue = Tail(pool[p].queue)
           /\ pool'[p].running = pool[p].running \cup {Head(pool[p].queue)}
           /\ Cardinality(pool[p].running) < PoolSize
<1> DEFINE new == [pool[p] EXCEPT !.queue = Tail(@), !.running = @ \cup {Head(pool[p].queue)}]
<1>1. pool[p] \in PoolStates /\ pool[p].queue # << >> /\ Cardinality(pool[p].running) < PoolSize
  BY DEF Take
<1>2. Tail(pool[p].queue) \in Seq(Jobs) /\ Head(pool[p].queue) \in Jobs
  BY <1>1 DEF PoolStates
<1>3. new \in PoolStates /\ new.running = pool[p].running \cup {Head(pool[p].queue)} /\ new.queue = Tail(pool[p].queue)
  BY <1>1, <1>2 DEF PoolStates
<1>4. pool' = [pool EXCEPT ![p] = new]
  BY <1>1 DEF Take, PoolStates
<1> HIDE DEF new
<1> QED BY <1>1, <1>3, <1>4

\* A job ends (JobEnds).
LEMMA PoolEnds ==
    ASSUME pool \in [PoolSet -> PoolStates], NEW p \in PoolSet, NEW j, JobEnds(p, j)
    PROVE  /\ pool' \in [PoolSet -> PoolStates] /\ \A q \in PoolSet : q # p => pool'[q] = pool[q]
           /\ pool'[p].queue = pool[p].queue /\ j \in pool[p].running
           /\ pool'[p].running = pool[p].running \ {j}
<1> DEFINE new == [pool[p] EXCEPT !.running = @ \ {j}]
<1>1. pool[p] \in PoolStates
  OBVIOUS
<1>2. new \in PoolStates /\ new.queue = pool[p].queue /\ new.running = pool[p].running \ {j}
  BY <1>1 DEF PoolStates
<1>3. pool' = [pool EXCEPT ![p] = new] /\ j \in pool[p].running
  BY DEF JobEnds
<1> HIDE DEF new
<1> QED BY <1>2, <1>3

\* The pools start, or one begins to stop: the queues and workers are as before.
LEMMA PoolTurns ==
    ASSUME pool \in [PoolSet -> PoolStates],
           StartSpecializedPools \/ \E i \in DOMAIN PoolNames : StopSpecializedPools(i)
    PROVE  /\ pool' \in [PoolSet -> PoolStates]
           /\ \A q \in PoolSet : pool'[q].queue = pool[q].queue /\ pool'[q].running = pool[q].running
<1>1. CASE StartSpecializedPools
  <2>1. DOMAIN pool = PoolSet /\ pool' = [p \in PoolSet |-> [pool[p] EXCEPT !.state = "running"]]
    BY <1>1 DEF StartSpecializedPools
  <2>2. \A q \in PoolSet : [pool[q] EXCEPT !.state = "running"] \in PoolStates
           /\ [pool[q] EXCEPT !.state = "running"].queue = pool[q].queue
           /\ [pool[q] EXCEPT !.state = "running"].running = pool[q].running
    BY DEF PoolStates
  <2> QED BY <2>1, <2>2
<1>2. ASSUME NEW i \in DOMAIN PoolNames, StopSpecializedPools(i)
      PROVE  /\ pool' \in [PoolSet -> PoolStates]
             /\ \A q \in PoolSet : pool'[q].queue = pool[q].queue /\ pool'[q].running = pool[q].running
  <2> DEFINE p == PoolNames[i]
             new == [pool[p] EXCEPT !.state = "stopping"]
  <2>1. p \in PoolSet /\ pool' = [pool EXCEPT ![p] = new]
    BY <1>2, PoolNameFacts DEF StopSpecializedPools
  <2> HIDE DEF p
  <2>2. new \in PoolStates /\ new.queue = pool[p].queue /\ new.running = pool[p].running
    BY <2>1 DEF PoolStates
  <2> HIDE DEF new
  <2> QED BY <2>1, <2>2
<1> QED BY <1>1, <1>2

\* A pool has stopped: its queue is given up (Stopped).
LEMMA PoolStops ==
    ASSUME pool \in [PoolSet -> PoolStates], NEW p \in PoolSet, Stopped(p)
    PROVE  /\ pool' \in [PoolSet -> PoolStates] /\ \A q \in PoolSet : q # p => pool'[q] = pool[q]
           /\ pool'[p].queue = << >> /\ pool[p].running = {} /\ pool'[p].running = {}
<1> DEFINE new == [pool[p] EXCEPT !.state = "stopped", !.queue = << >>]
<1>1. pool[p] \in PoolStates /\ pool[p].running = {} /\ << >> \in Seq(Jobs)
  BY DEF Stopped
<1>2. new \in PoolStates /\ new.queue = << >> /\ new.running = {}
  BY <1>1 DEF PoolStates
<1>3. pool' = [pool EXCEPT ![p] = new]
  BY <1>1 DEF Stopped, PoolStates
<1> HIDE DEF new
<1> QED BY <1>1, <1>2, <1>3
\* The shapes hold in the beginning.
LEMMA ShapeInit == PoolsInit => PoolsShape
<1> SUFFICES ASSUME PoolsInit
             PROVE  PoolsShape
  OBVIOUS
<1>1. [state |-> "new", queue |-> << >>, running |-> {}] \in PoolStates
  BY DEF PoolStates
<1>2. pool = [p \in PoolSet |-> [state |-> "new", queue |-> << >>, running |-> {}]]
  BY PoolNameFacts DEF PoolsInit
<1>3. pool \in [PoolSet -> PoolStates] /\ pool["audit"].queue = << >> /\ pool["audit"].running = {}
  BY <1>1, <1>2 DEF PoolSet
<1>4. warming = 0 /\ buffer = << >> /\ flushChan = << >>
  BY DEF PoolsInit
<1>5. << >> \in Batches /\ << >> \in Seq(Batches)
  BY DEF Batches
<1>6. warming \in Nat
  BY <1>4
<1> QED BY <1>3, <1>4, <1>5, <1>6 DEF PoolsShape

\* A step of the buffer of the batch processor (AddEvent, flushBufferUnsafe).
LEMMA BufferShape ==
    ASSUME PoolsShape, (\E e \in AuditEvents : LogAuditEventAsync(e)) \/ flushBuffer
    PROVE  UNCHANGED <<pool, warming>> /\ buffer' \in Batches /\ flushChan' \in Seq(Batches)
<1>1. UNCHANGED <<pool, warming>>
  BY DEF LogAuditEventAsync, flushBuffer, warmVars
<1>2. buffer \in Seq(AuditEvents) /\ flushChan \in Seq(Batches)
  BY DEF PoolsShape, Batches
<1>3. ASSUME NEW b \in Seq(AuditEvents), flushBufferUnsafe(b)
      PROVE  buffer' \in Batches /\ flushChan' \in Seq(Batches)
  <2>1. buffer' \in Batches
    BY <1>3 DEF flushBufferUnsafe, Batches
  <2>2. b \in Batches
    BY DEF Batches
  <2>3. flushChan' \in Seq(Batches)
    BY <1>2, <1>3, <2>2 DEF flushBufferUnsafe
  <2> QED BY <2>1, <2>3
<1>4. ASSUME NEW e \in AuditEvents, AddEvent(e)
      PROVE  buffer' \in Batches /\ flushChan' \in Seq(Batches)
  <2>1. Append(buffer, e) \in Seq(AuditEvents)
    BY <1>2
  <2>2. CASE Len(Append(buffer, e)) >= BatchSize
    BY <1>3, <1>4, <2>1, <2>2 DEF AddEvent
  <2>3. CASE ~(Len(Append(buffer, e)) >= BatchSize)
    BY <1>2, <1>4, <2>1, <2>3 DEF AddEvent, Batches
  <2> QED BY <2>2, <2>3
<1> QED BY <1>1, <1>2, <1>3, <1>4 DEF LogAuditEventAsync, flushBuffer

\* What processBatch does with the batch at the head of the flush channel.
LEMMA BatchSubmitted ==
    ASSUME PoolsShape, processBatch
    PROVE  /\ flushChan # << >> /\ flushChan' = Tail(flushChan) /\ Head(flushChan) \in Batches
           /\ UNCHANGED <<hash, waiting, hashCancelled, slots, hashMetrics, warming, logged, buffer, processed>>
           /\ pool' \in [PoolSet -> PoolStates] /\ \A q \in PoolSet : q # "audit" => pool'[q] = pool[q]
           /\ pool'["audit"].running = pool["audit"].running
           /\ \/ pool'["audit"].queue = Append(pool["audit"].queue, Head(flushChan)) /\ UNCHANGED lost
              \/ pool'["audit"].queue = pool["audit"].queue /\ lost' = lost \cup Range(Head(flushChan))
<1>1. /\ flushChan # << >> /\ flushChan' = Tail(flushChan)
      /\ UNCHANGED <<hash, waiting, hashCancelled, slots, hashMetrics, warming, logged, buffer, processed>>
      /\ \/ pool' = Enqueued("audit", Head(flushChan)) /\ UNCHANGED lost
         \/ pool' = pool /\ lost' = lost \cup Range(Head(flushChan))
  BY DEF processBatch, hashVars, warmVars
<1>2. Head(flushChan) \in Batches /\ Head(flushChan) \in Jobs /\ pool \in [PoolSet -> PoolStates] /\ "audit" \in PoolSet
  BY <1>1 DEF PoolsShape, Jobs, PoolSet
<1>3. CASE pool' = Enqueued("audit", Head(flushChan)) /\ UNCHANGED lost
  <2> DEFINE b == Head(flushChan)
  <2>1. pool' = Enqueued("audit", b) /\ b \in Jobs
    BY <1>2, <1>3
  <2>2. b = Head(flushChan)
    OBVIOUS
  <2> HIDE DEF b
  <2>3. /\ pool' \in [PoolSet -> PoolStates] /\ \A q \in PoolSet : q # "audit" => pool'[q] = pool[q]
        /\ pool'["audit"].running = pool["audit"].running
        /\ pool'["audit"].queue = Append(pool["audit"].queue, b)
    BY <1>2, <2>1, PoolEnqueue
  <2> QED BY <1>1, <1>2, <1>3, <2>2, <2>3
<1>4. CASE pool' = pool /\ lost' = lost \cup Range(Head(flushChan))
  BY <1>1, <1>2, <1>4
<1> QED BY <1>1, <1>3, <1>4

\* Every step keeps the shapes.
LEMMA ShapeStep == PoolsShape /\ [PoolsNext]_poolVars => PoolsShape'
<1> SUFFICES ASSUME PoolsShape, [PoolsNext]_poolVars
             PROVE  PoolsShape'
  OBVIOUS
<1>1. /\ pool \in [PoolSet -> PoolStates] /\ DOMAIN pool = PoolSet
      /\ "audit" \in PoolSet /\ "password" \in PoolSet /\ "cache" \in PoolSet
      /\ pool["audit"].queue \in Seq(Batches) /\ pool["audit"].running \subseteq Batches
      /\ "audit" # "password" /\ "audit" # "cache"
  BY DEF PoolsShape, PoolSet
<1>2. ASSUME UNCHANGED <<warming, buffer, flushChan>>, pool' \in [PoolSet -> PoolStates],
             pool'["audit"].queue \in Seq(Batches), pool'["audit"].running \subseteq Batches
      PROVE  PoolsShape'
  BY <1>2 DEF PoolsShape
<1>3. CASE PoolStep
  <2>1. UNCHANGED <<warming, buffer, flushChan>>
    BY <1>3 DEF PoolStep, StartSpecializedPools, Take, Stopped, StopSpecializedPools, warmVars, auditVars
  <2>2. CASE StartSpecializedPools \/ \E i \in DOMAIN PoolNames : StopSpecializedPools(i)
    BY <1>1, <1>2, <2>1, <2>2, PoolTurns
  <2>3. ASSUME NEW p \in PoolSet, Take(p)
        PROVE  PoolsShape'
    <3>1. /\ pool' \in [PoolSet -> PoolStates] /\ \A q \in PoolSet : q # p => pool'[q] = pool[q]
          /\ pool[p].queue # << >> /\ pool'[p].queue = Tail(pool[p].queue)
          /\ pool'[p].running = pool[p].running \cup {Head(pool[p].queue)}
      BY <1>1, <2>3, PoolTake
    <3>2. pool'["audit"].queue \in Seq(Batches) /\ pool'["audit"].running \subseteq Batches
      <4>1. CASE p = "audit"
        <5>1. Head(pool["audit"].queue) \in Batches /\ Tail(pool["audit"].queue) \in Seq(Batches)
          BY <1>1, <3>1, <4>1
        <5> QED BY <1>1, <3>1, <4>1, <5>1
      <4>2. CASE p # "audit"
        BY <1>1, <3>1, <4>2
      <4> QED BY <4>1, <4>2
    <3> QED BY <1>2, <2>1, <3>1, <3>2
  <2>4. ASSUME NEW p \in PoolSet, Stopped(p)
        PROVE  PoolsShape'
    <3>1. /\ pool' \in [PoolSet -> PoolStates] /\ \A q \in PoolSet : q # p => pool'[q] = pool[q]
          /\ pool'[p].queue = << >> /\ pool'[p].running = {}
      BY <1>1, <2>4, PoolStops
    <3>2. pool'["audit"].queue \in Seq(Batches) /\ pool'["audit"].running \subseteq Batches
      <4>1. CASE p = "audit"
        <5>1. << >> \in Seq(Batches)
          OBVIOUS
        <5>2. pool'["audit"].queue = << >> /\ pool'["audit"].running = {}
          BY <3>1, <4>1
        <5> QED BY <5>1, <5>2
      <4>2. CASE p # "audit"
        BY <1>1, <3>1, <4>2
      <4> QED BY <4>1, <4>2
    <3> QED BY <1>2, <2>1, <3>1, <3>2
  <2> QED BY <1>1, <1>3, <2>2, <2>3, <2>4 DEF PoolStep
<1>4. CASE HashingStep
  <2>1. UNCHANGED <<warming, buffer, flushChan>>
    BY <1>4 DEF HashingStep, HashPasswordAsync, HashPasswordSync, CancelHash, Acquire, AcquireCancelled,
        processHashingRequest, warmVars, auditVars
  <2>2. PICK r \in HashRequests : UNCHANGED pool \/ pool' = Enqueued("password", r) \/ JobEnds("password", r)
    BY <1>4 DEF HashingStep, HashPasswordAsync, HashPasswordSync, CancelHash, Acquire, AcquireCancelled,
        processHashingRequest
  <2>3. r \in Jobs
    BY DEF Jobs
  <2>4. pool' \in [PoolSet -> PoolStates] /\ pool'["audit"] = pool["audit"]
    BY <1>1, <2>2, <2>3, PoolEnqueue, PoolEnds
  <2> QED BY <1>1, <1>2, <2>1, <2>4
<1>5. CASE WarmingStep
  <2>1. UNCHANGED <<buffer, flushChan>> /\ warming' \in Nat
    BY <1>5 DEF WarmingStep, WarmUserPermissionsAsync, WarmFrequentlyUsedAsync, ScheduleWarmingTask,
        processWarmingTask, warmVars, auditVars, PoolsShape
  <2>2. PICK j \in {warming} \cup pool["cache"].running :
           UNCHANGED pool \/ pool' = Enqueued("cache", j) \/ JobEnds("cache", j)
    BY <1>5 DEF WarmingStep, WarmUserPermissionsAsync, WarmFrequentlyUsedAsync, ScheduleWarmingTask,
        processWarmingTask
  <2>3. j \in Jobs
    BY <1>1 DEF Jobs, PoolStates, PoolsShape
  <2>4. pool' \in [PoolSet -> PoolStates] /\ pool'["audit"] = pool["audit"]
    BY <1>1, <2>2, <2>3, PoolEnqueue, PoolEnds
  <2> QED BY <1>1, <2>1, <2>4 DEF PoolsShape
<1>6. CASE AuditStep
  <2>1. CASE (\E e \in AuditEvents : LogAuditEventAsync(e)) \/ flushBuffer
    BY <2>1, BufferShape DEF PoolsShape
  <2>2. CASE processBatch
    <3>1. /\ flushChan # << >> /\ flushChan' = Tail(flushChan) /\ Head(flushChan) \in Batches
          /\ UNCHANGED <<warming, buffer>>
          /\ pool' \in [PoolSet -> PoolStates]
          /\ pool'["audit"].running = pool["audit"].running
          /\ \/ pool'["audit"].queue = Append(pool["audit"].queue, Head(flushChan))
             \/ pool'["audit"].queue = pool["audit"].queue
      BY <2>2, BatchSubmitted
    <3>2. pool'["audit"].queue \in Seq(Batches)
      <4>1. \A b \in Batches : Append(pool["audit"].queue, b) \in Seq(Batches)
        BY <1>1
      <4> QED BY <1>1, <3>1, <4>1
    <3>3. flushChan' \in Seq(Batches)
      BY <3>1 DEF PoolsShape
    <3> QED BY <1>1, <3>1, <3>2, <3>3 DEF PoolsShape
  <2>3. CASE processAuditBatch
    <3>1. PICK b : JobEnds("audit", b)
      BY <2>3 DEF processAuditBatch
    <3>2. /\ pool' \in [PoolSet -> PoolStates] /\ pool'["audit"].queue = pool["audit"].queue
          /\ pool'["audit"].running = pool["audit"].running \ {b}
      BY <1>1, <3>1, PoolEnds
    <3>3. UNCHANGED <<warming, buffer, flushChan>>
      BY <2>3 DEF processAuditBatch, warmVars
    <3> QED BY <1>1, <1>2, <3>2, <3>3
  <2> QED BY <1>6, <2>1, <2>2, <2>3 DEF AuditStep
<1>7. CASE UNCHANGED poolVars
  BY <1>7 DEF poolVars, warmVars, auditVars, PoolsShape
<1> QED BY <1>3, <1>4, <1>5, <1>6, <1>7 DEF PoolsNext
-----------------------------------------------------------------------------
\* One more, and one less.
LEMMA OneMore ==
    ASSUME NEW S, IsFiniteSet(S), NEW x, x \notin S
    PROVE  IsFiniteSet(S \cup {x}) /\ Cardinality(S \cup {x}) = Cardinality(S) + 1
BY FS_AddElement

LEMMA OneLess ==
    ASSUME NEW S, IsFiniteSet(S), NEW x \in S
    PROVE  /\ IsFiniteSet(S \ {x}) /\ Cardinality(S \ {x}) = Cardinality(S) - 1
           /\ Cardinality(S) \in Nat /\ Cardinality(S) > 0
<1>1. IsFiniteSet(S \ {x}) /\ Cardinality(S \ {x}) \in Nat /\ Cardinality(S) \in Nat
  BY FS_RemoveElement, FS_CardinalityType
<1>2. Cardinality((S \ {x}) \cup {x}) = Cardinality(S \ {x}) + 1
  BY <1>1, FS_AddElement
<1>3. (S \ {x}) \cup {x} = S
  OBVIOUS
<1> QED BY <1>1, <1>2, <1>3

\* Workers take at most as many jobs as there are workers (Take).
LEMMA WorkersBounded ==
    ASSUME NEW S, IsFiniteSet(S), Cardinality(S) < PoolSize, NEW x
    PROVE  IsFiniteSet(S \cup {x}) /\ Cardinality(S \cup {x}) <= PoolSize
<1>1. Cardinality(S) \in Nat /\ PoolSize \in Nat
  BY FS_CardinalityType, PoolsAssumption
<1>2. CASE x \in S
  <2>1. S \cup {x} = S
    BY <1>2
  <2> QED BY <1>1, <2>1
<1>3. CASE x \notin S
  BY <1>1, <1>3, OneMore
<1> QED BY <1>2, <1>3

\* What leaves the workers of the hashing pool, the hashes and the slots alone keeps the account.
LEMMA HashingUntouched ==
    ASSUME HashingInv, UNCHANGED <<hash, slots>>, pool'["password"].running = pool["password"].running
    PROVE  HashingInv'
BY DEF HashingInv, Hashing

\* The steps of one hash request.
LEMMA HashingKeeps ==
    ASSUME PoolsShape, HashingInv, HashingStep
    PROVE  HashingInv'
<1>1. /\ pool \in [PoolSet -> PoolStates] /\ "password" \in PoolSet
      /\ hash \in [HashRequests -> HashStates]
  BY DEF PoolsShape, PoolSet, HashingInv
<1> DEFINE W == pool["password"].running
<1>2. IsFiniteSet(W) /\ Cardinality(W) <= PoolSize /\ Hashing \subseteq W /\ slots = Cardinality(Hashing)
  BY DEF HashingInv
<1>3. IsFiniteSet(Hashing)
  BY <1>2, FS_Subset
<1>4. PICK r \in HashRequests : \/ HashPasswordAsync(r) \/ HashPasswordSync(r) \/ CancelHash(r)
                                \/ Acquire(r) \/ AcquireCancelled(r) \/ processHashingRequest(r)
  BY DEF HashingStep
<1>5. CASE HashPasswordAsync(r) \/ HashPasswordSync(r) \/ CancelHash(r)
  <2>1. UNCHANGED slots /\ hash' \in [HashRequests -> HashStates]
    BY <1>1, <1>5 DEF HashPasswordAsync, HashPasswordSync, CancelHash, HashStates
  <2>2. Hashing' = Hashing
    BY <1>1, <1>5 DEF HashPasswordAsync, HashPasswordSync, CancelHash, Hashing
  <2>3. pool' = pool \/ pool' = Enqueued("password", r)
    BY <1>5 DEF HashPasswordAsync, HashPasswordSync, CancelHash
  <2>4. pool'["password"].running = W
    <3>1. r \in Jobs
      BY DEF Jobs
    <3> QED BY <1>1, <2>3, <3>1, PoolEnqueue
  <2> QED BY <1>2, <2>1, <2>2, <2>4 DEF HashingInv
<1>6. CASE Acquire(r)
  <2>1. /\ r \in W /\ hash[r] = "pooled" /\ slots' = slots + 1 /\ UNCHANGED pool
        /\ hash' = [hash EXCEPT ![r] = "hashing"]
    BY <1>6 DEF Acquire
  <2>2. r \notin Hashing /\ Hashing' = Hashing \cup {r} /\ hash' \in [HashRequests -> HashStates]
    BY <1>1, <2>1 DEF Hashing, HashStates
  <2>3. Cardinality(Hashing') = Cardinality(Hashing) + 1
    BY <1>3, <2>2, OneMore
  <2> QED BY <1>2, <2>1, <2>2, <2>3 DEF HashingInv
<1>7. CASE AcquireCancelled(r) \/ processHashingRequest(r)
  <2>1. JobEnds("password", r)
    BY <1>7 DEF AcquireCancelled, processHashingRequest
  <2>2. pool'["password"].running = W \ {r} /\ r \in W
    BY <1>1, <2>1, PoolEnds
  <2>3. IsFiniteSet(W \ {r}) /\ Cardinality(W \ {r}) <= PoolSize
    <3>1. PoolSize \in Nat
      BY PoolsAssumption
    <3> HIDE DEF W
    <3> QED BY <1>2, <2>2, <3>1, OneLess
  <2>4. hash' \in [HashRequests -> HashStates] /\ Hashing' = Hashing \ {r}
    BY <1>1, <1>7 DEF AcquireCancelled, processHashingRequest, Hashing, HashStates
  <2>5. slots' = Cardinality(Hashing')
    <3>1. CASE AcquireCancelled(r)
      <4>1. UNCHANGED slots /\ Hashing \ {r} = Hashing
        BY <3>1 DEF AcquireCancelled, Hashing
      <4> QED BY <1>2, <2>4, <4>1
    <3>2. CASE processHashingRequest(r)
      <4>1. slots' = Release(slots) /\ r \in Hashing
        BY <3>2 DEF processHashingRequest, Hashing
      <4>2. Cardinality(Hashing \ {r}) = Cardinality(Hashing) - 1 /\ Cardinality(Hashing) > 0
        BY <1>3, <4>1, OneLess
      <4> QED BY <1>2, <2>4, <4>1, <4>2 DEF Release
    <3> QED BY <1>7, <3>1, <3>2
  <2> QED BY <1>2, <2>2, <2>3, <2>4, <2>5 DEF HashingInv
<1> QED BY <1>4, <1>5, <1>6, <1>7

\* Every step of the pools keeps the account of the slots.
LEMMA HashingInvStep == PoolsShape /\ HashingInv /\ [PoolsNext]_poolVars => HashingInv'
<1> SUFFICES ASSUME PoolsShape, HashingInv, [PoolsNext]_poolVars
             PROVE  HashingInv'
  OBVIOUS
<1>1. /\ pool \in [PoolSet -> PoolStates] /\ DOMAIN pool = PoolSet
      /\ "audit" \in PoolSet /\ "password" \in PoolSet /\ "cache" \in PoolSet
      /\ "audit" # "password" /\ "password" # "cache"
  BY DEF PoolsShape, PoolSet
<1>2. CASE PoolStep
  <2>1. CASE StartSpecializedPools \/ \E i \in DOMAIN PoolNames : StopSpecializedPools(i)
    <3>1. UNCHANGED <<hash, slots>>
      BY <2>1 DEF StartSpecializedPools, StopSpecializedPools, hashVars
    <3> QED BY <1>1, <2>1, <3>1, PoolTurns, HashingUntouched
  <2>2. ASSUME NEW p \in PoolSet, Take(p)
        PROVE  HashingInv'
    <3>1. UNCHANGED <<hash, slots>>
      BY <2>2 DEF Take, hashVars
    <3>2. /\ \A q \in PoolSet : q # p => pool'[q] = pool[q]
          /\ pool'[p].running = pool[p].running \cup {Head(pool[p].queue)}
          /\ Cardinality(pool[p].running) < PoolSize
      BY <1>1, <2>2, PoolTake
    <3>3. CASE p = "password"
      <4>1. IsFiniteSet(pool'["password"].running) /\ Cardinality(pool'["password"].running) <= PoolSize
        <5> DEFINE W == pool["password"].running
                   j == Head(pool["password"].queue)
        <5>1. pool'["password"].running = W \cup {j} /\ IsFiniteSet(W) /\ Cardinality(W) < PoolSize
          BY <3>2, <3>3 DEF HashingInv
        <5> HIDE DEF W, j
        <5> QED BY <5>1, WorkersBounded
      <4> QED BY <3>1, <3>2, <3>3, <4>1 DEF HashingInv, Hashing
    <3>4. CASE p # "password"
      BY <1>1, <3>1, <3>2, <3>4, HashingUntouched
    <3> QED BY <3>3, <3>4
  <2>3. ASSUME NEW p \in PoolSet, Stopped(p)
        PROVE  HashingInv'
    <3>1. UNCHANGED slots /\ hash' = [r \in HashRequests |-> IF p = "password" /\ Contains(pool[p].queue, r) THEN "dropped" ELSE hash[r]]
      BY <2>3 DEF Stopped
    <3>2. /\ \A q \in PoolSet : q # p => pool'[q] = pool[q]
          /\ pool[p].running = {} /\ pool'[p].running = {}
      BY <1>1, <2>3, PoolStops
    <3>3. CASE p = "password"
      <4>1. Hashing = {} /\ pool'["password"].running = pool["password"].running
        BY <3>2, <3>3 DEF HashingInv
      <4>2. Hashing' = {} /\ hash' \in [HashRequests -> HashStates]
        BY <3>1, <4>1 DEF Hashing, HashingInv, HashStates
      <4> QED BY <3>1, <4>1, <4>2 DEF HashingInv
    <3>4. CASE p # "password"
      <4>1. hash' = hash
        BY <3>1, <3>4 DEF HashingInv
      <4> QED BY <1>1, <3>1, <3>2, <3>4, <4>1, HashingUntouched
    <3> QED BY <3>3, <3>4
  <2> QED BY <1>1, <1>2, <2>1, <2>2, <2>3 DEF PoolStep
<1>3. CASE HashingStep
  BY <1>3, HashingKeeps
<1>4. CASE WarmingStep
  <2>1. UNCHANGED <<hash, slots>>
    BY <1>4 DEF WarmingStep, WarmUserPermissionsAsync, WarmFrequentlyUsedAsync, ScheduleWarmingTask,
        processWarmingTask, hashVars
  <2>2. PICK j \in {warming} \cup pool["cache"].running :
           UNCHANGED pool \/ pool' = Enqueued("cache", j) \/ JobEnds("cache", j)
    BY <1>4 DEF WarmingStep, WarmUserPermissionsAsync, WarmFrequentlyUsedAsync, ScheduleWarmingTask,
        processWarmingTask
  <2>3. j \in Jobs
    BY <1>1 DEF Jobs, PoolStates, PoolsShape
  <2>4. pool'["password"] = pool["password"]
    BY <1>1, <2>2, <2>3, PoolEnqueue, PoolEnds
  <2> QED BY <2>1, <2>4, HashingUntouched
<1>5. CASE AuditStep
  <2>1. UNCHANGED <<hash, slots>>
    BY <1>5 DEF AuditStep, LogAuditEventAsync, flushBuffer, processBatch, processAuditBatch, hashVars
  <2>2. pool'["password"] = pool["password"]
    <3>1. CASE (\E e \in AuditEvents : LogAuditEventAsync(e)) \/ flushBuffer
      BY <3>1, BufferShape
    <3>2. CASE processBatch
      BY <1>1, <3>2, BatchSubmitted
    <3>3. CASE processAuditBatch
      BY <1>1, <3>3, PoolEnds DEF processAuditBatch
    <3> QED BY <1>5, <3>1, <3>2, <3>3 DEF AuditStep
  <2> QED BY <2>1, <2>2, HashingUntouched
<1>6. CASE UNCHANGED poolVars
  BY <1>6, HashingUntouched DEF poolVars, hashVars
<1> QED BY <1>2, <1>3, <1>4, <1>5, <1>6 DEF PoolsNext

(***************************************************************************)
(* SlotsNeverLeak: for every number of requests and workers, the semaphore *)
(* of the hashing pool holds one token per job that a worker hashes, never *)
(* more than there are workers (processHashingRequest, Acquire, Release).  *)
(***************************************************************************)
THEOREM SlotsNeverLeak == PoolsSpec => []HashingSlotsExact
<1>1. PoolsInit => PoolsShape /\ HashingInv
  <2> SUFFICES ASSUME PoolsInit
               PROVE  PoolsShape /\ HashingInv
    OBVIOUS
  <2>1. pool["password"].running = {} /\ Hashing = {} /\ slots = 0 /\ hash \in [HashRequests -> HashStates]
    BY PoolNameFacts DEF PoolsInit, PoolSet, Hashing, HashStates
  <2>2. IsFiniteSet({}) /\ Cardinality({}) = 0 /\ PoolSize \in Nat
    BY FS_EmptySet, PoolsAssumption
  <2>3. HashingInv
    BY <2>1, <2>2 DEF HashingInv
  <2> QED BY <2>3, ShapeInit
<1>2. PoolsShape /\ HashingInv /\ [PoolsNext]_poolVars => PoolsShape' /\ HashingInv'
  BY ShapeStep, HashingInvStep
<1>3. HashingInv => HashingSlotsExact
  <2> SUFFICES ASSUME HashingInv
               PROVE  HashingSlotsExact
    OBVIOUS
  <2>1. Cardinality(Hashing) <= Cardinality(pool["password"].running)
    BY FS_Subset DEF HashingInv
  <2>2. IsFiniteSet(Hashing) /\ Cardinality(Hashing) \in Nat /\ Cardinality(pool["password"].running) \in Nat
    BY FS_Subset, FS_CardinalityType DEF HashingInv
  <2>3. Cardinality(pool["password"].running) <= PoolSize /\ PoolSize \in Nat /\ slots = Cardinality(Hashing)
    BY PoolsAssumption DEF HashingInv
  <2> QED BY <2>1, <2>2, <2>3 DEF HashingSlotsExact, Hashing
<1> QED BY <1>1, <1>2, <1>3, PTL DEF PoolsSpec
-----------------------------------------------------------------------------
(* The places where an audit event can be, counted.                        *)

Hits(q, P) == {i \in 1 .. Len(q) : q[i] \in P}

\* The places of a sequence that hold a member of P are counted by a natural number.
LEMMA HitsFinite ==
    ASSUME NEW S, NEW q \in Seq(S), NEW P
    PROVE  IsFiniteSet(Hits(q, P)) /\ Cardinality(Hits(q, P)) \in Nat
<1>1. IsFiniteSet(1 .. Len(q))
  BY FS_Interval
<1>2. Hits(q, P) \subseteq 1 .. Len(q)
  BY DEF Hits
<1>3. IsFiniteSet(Hits(q, P))
  BY <1>1, <1>2, FS_Subset
<1> QED BY <1>3, FS_CardinalityType

\* Append adds one place, counted when it holds a member of P.
LEMMA HitsAppend ==
    ASSUME NEW S, NEW q \in Seq(S), NEW P, NEW c \in S
    PROVE  Cardinality(Hits(Append(q, c), P)) = Cardinality(Hits(q, P)) + (IF c \in P THEN 1 ELSE 0)
<1> DEFINE n == Len(q) + 1
           A == Append(q, c)
<1>1. /\ A \in Seq(S) /\ Len(A) = n /\ Len(q) \in Nat
      /\ \A i \in 1 .. Len(q) : A[i] = q[i]
      /\ A[n] = c
  OBVIOUS
<1> HIDE DEF A
<1>2. IsFiniteSet(Hits(q, P)) /\ Cardinality(Hits(q, P)) \in Nat
  BY HitsFinite
<1>3. n \notin Hits(q, P)
  BY <1>1 DEF Hits
<1>4. CASE c \in P
  <2>1. Hits(A, P) = Hits(q, P) \cup {n}
    BY <1>1, <1>4 DEF Hits
  <2>2. Cardinality(Hits(A, P)) = Cardinality(Hits(q, P)) + 1
    BY <1>2, <1>3, <2>1, OneMore
  <2> QED BY <1>4, <2>2 DEF A
<1>5. CASE c \notin P
  <2>1. Hits(A, P) = Hits(q, P)
    BY <1>1, <1>5 DEF Hits
  <2> QED BY <1>2, <1>5, <2>1 DEF A
<1> QED BY <1>4, <1>5

\* Tail removes the first place.
LEMMA HitsTail ==
    ASSUME NEW S, NEW q \in Seq(S), NEW P, q # << >>
    PROVE  Cardinality(Hits(q, P)) = Cardinality(Hits(Tail(q), P)) + (IF Head(q) \in P THEN 1 ELSE 0)
<1> DEFINE T == Tail(q)
           A == Hits(T, P)
           B == Hits(q, P) \ {1}
           f == [i \in A |-> i + 1]
<1>1. /\ T \in Seq(S) /\ Len(q) \in Nat /\ Len(T) = Len(q) - 1 /\ Len(q) > 0
      /\ \A i \in 1 .. Len(T) : T[i] = q[i + 1]
      /\ Head(q) = q[1]
  OBVIOUS
<1> HIDE DEF T
<1>2. IsFiniteSet(A) /\ Cardinality(A) \in Nat /\ IsFiniteSet(Hits(q, P)) /\ Cardinality(Hits(q, P)) \in Nat
  BY <1>1, HitsFinite
<1>3. A \subseteq Nat /\ \A i \in A : i + 1 \in B
  BY <1>1 DEF Hits
<1>4. \A k \in B : k - 1 \in A /\ (k - 1) + 1 = k
  BY <1>1 DEF Hits
<1>5. f \in Bijection(A, B)
  <2>1. f \in [A -> B]
    BY <1>3
  <2>2. \A i, j \in A : f[i] = f[j] => i = j
    BY <1>3
  <2>3. \A k \in B : \E i \in A : f[i] = k
    BY <1>4
  <2> HIDE DEF f, A, B
  <2> QED BY <2>1, <2>2, <2>3 DEF Bijection, Injection, IsInjective, Surjection
<1>6. Cardinality(B) = Cardinality(A)
  BY <1>2, <1>5, FS_Bijection DEF ExistsBijection
<1>7. CASE Head(q) \in P
  <2>1. 1 \in Hits(q, P)
    BY <1>1, <1>7 DEF Hits
  <2>2. Cardinality(B) = Cardinality(Hits(q, P)) - 1
    BY <1>2, <2>1, OneLess
  <2> QED BY <1>2, <1>6, <1>7, <2>2 DEF T
<1>8. CASE Head(q) \notin P
  <2>1. B = Hits(q, P)
    BY <1>1, <1>8 DEF Hits
  <2>2. Cardinality(Hits(q, P)) = Cardinality(A)
    BY <1>6, <2>1
  <2> HIDE DEF B, f
  <2> QED BY <1>2, <1>8, <2>2 DEF T
<1> QED BY <1>7, <1>8
\* The batches with event e, and the places of e: given up, in the buffer, in the flush
\* channel, in the queue, and with a worker.
Bears(e)   == {b \in Batches : Contains(b, e)}
GivenUp(e) == IF e \in lost THEN 1 ELSE 0
Buffered(e) == Cardinality(Hits(buffer, {e}))
Flushed(e) == Cardinality(Hits(flushChan, Bears(e)))
Queued(e)  == Cardinality(Hits(pool["audit"].queue, Bears(e)))
InWork(e)  == Cardinality(pool["audit"].running \cap Bears(e))

\* A batch holds e when one of its places does.
LEMMA BearsHits ==
    ASSUME NEW b \in Batches, NEW e
    PROVE  /\ b \in Bears(e) <=> Cardinality(Hits(b, {e})) # 0
           /\ b \in Bears(e) <=> e \in Range(b)
           /\ Cardinality(Hits(b, {e})) \in Nat
<1>1. b \in Seq(AuditEvents) /\ DOMAIN b = 1 .. Len(b)
  BY DEF Batches
<1>2. IsFiniteSet(Hits(b, {e})) /\ Cardinality(Hits(b, {e})) \in Nat
  BY <1>1, HitsFinite
<1>3. Cardinality(Hits(b, {e})) = 0 <=> Hits(b, {e}) = {}
  BY <1>2, FS_EmptySet
<1>4. b \in Bears(e) <=> Hits(b, {e}) # {}
  BY DEF Bears, Contains, Hits
<1>5. b \in Bears(e) <=> e \in Range(b)
  BY <1>1 DEF Bears, Contains, Range
<1> QED BY <1>2, <1>3, <1>4, <1>5

AuditInv ==
    /\ IsFiniteSet(pool["audit"].running)
    /\ processed \in [AuditEvents -> Nat]
    /\ \A e \in AuditEvents :
          processed[e] + GivenUp(e) + Buffered(e) + Flushed(e) + Queued(e) + InWork(e)
             = (IF e \in logged THEN 1 ELSE 0)

\* The counts are natural numbers.
LEMMA CountsNat ==
    ASSUME PoolsShape, AuditInv, NEW e \in AuditEvents
    PROVE  /\ processed[e] \in Nat /\ GivenUp(e) \in Nat /\ Buffered(e) \in Nat
           /\ Flushed(e) \in Nat /\ Queued(e) \in Nat /\ InWork(e) \in Nat
<1>1. processed[e] \in Nat /\ GivenUp(e) \in Nat
  BY DEF AuditInv, GivenUp
<1>2. buffer \in Seq(AuditEvents) /\ flushChan \in Seq(Batches) /\ pool["audit"].queue \in Seq(Batches)
  BY DEF PoolsShape, Batches
<1>3. Buffered(e) \in Nat
  BY <1>2, HitsFinite DEF Buffered
<1>4. Flushed(e) \in Nat
  BY <1>2, HitsFinite DEF Flushed
<1>5. Queued(e) \in Nat
  BY <1>2, HitsFinite DEF Queued
<1>6. InWork(e) \in Nat
  <2>1. IsFiniteSet(pool["audit"].running \cap Bears(e))
    BY FS_Subset DEF AuditInv
  <2> QED BY <2>1, FS_CardinalityType DEF InWork
<1> QED BY <1>1, <1>3, <1>4, <1>5, <1>6

\* A buffer that is flushed becomes one batch in the channel, or is given up.
LEMMA FlushCounts ==
    ASSUME PoolsShape, AuditInv, NEW b \in Batches, flushBufferUnsafe(b), NEW e \in AuditEvents,
           Cardinality(Hits(b, {e})) <= 1, Cardinality(Hits(b, {e})) = 1 => GivenUp(e) = 0
    PROVE  /\ Buffered(e)' = 0
           /\ Flushed(e)' + GivenUp(e)' = Flushed(e) + GivenUp(e) + Cardinality(Hits(b, {e}))
<1>1. flushChan \in Seq(Batches) /\ Flushed(e) \in Nat /\ GivenUp(e) \in Nat
  BY CountsNat DEF PoolsShape
<1>2. /\ b \in Bears(e) <=> Cardinality(Hits(b, {e})) # 0
      /\ b \in Bears(e) <=> e \in Range(b)
      /\ Cardinality(Hits(b, {e})) \in Nat
  BY BearsHits
<1>3. Buffered(e)' = 0
  <2>1. Hits(<< >>, {e}) = {}
    BY DEF Hits
  <2>2. Cardinality(Hits(<< >>, {e})) = 0
    BY <2>1, FS_EmptySet
  <2> QED BY <2>2 DEF flushBufferUnsafe, Buffered
<1> DEFINE h == Cardinality(Hits(b, {e}))
<1>4. h \in {0, 1} /\ (b \in Bears(e) <=> h = 1) /\ (e \in Range(b) <=> h = 1) /\ (h = 1 => GivenUp(e) = 0)
  BY <1>2
<1>5. b = << >> => h = 0
  <2>1. b = << >> => Range(b) = {}
    BY DEF Range
  <2> QED BY <1>4, <2>1
<1>6. CASE Len(flushChan) < FlushChanCap
  <2>1. lost' = lost /\ flushChan' = IF b # << >> THEN Append(flushChan, b) ELSE flushChan
    BY <1>6 DEF flushBufferUnsafe
  <2>2. GivenUp(e)' = GivenUp(e)
    BY <2>1 DEF GivenUp
  <2>3. CASE b = << >>
    <3>1. Flushed(e)' = Flushed(e)
      BY <2>1, <2>3 DEF Flushed
    <3> HIDE DEF h
    <3>2. h = 0
      BY <1>5, <2>3
    <3>3. Flushed(e)' + GivenUp(e)' = Flushed(e) + GivenUp(e) + h
      BY <1>1, <2>2, <3>1, <3>2
    <3> QED BY <1>3, <3>3 DEF h
  <2>4. CASE b # << >>
    <3>1. Flushed(e)' = Flushed(e) + (IF b \in Bears(e) THEN 1 ELSE 0)
      BY <1>1, <2>1, <2>4, HitsAppend DEF Flushed
    <3> HIDE DEF h
    <3>2. Flushed(e)' + GivenUp(e)' = Flushed(e) + GivenUp(e) + h
      BY <1>1, <1>4, <2>2, <3>1
    <3> QED BY <1>3, <3>2 DEF h
  <2> QED BY <2>3, <2>4
<1>7. CASE ~(Len(flushChan) < FlushChanCap)
  <2>1. lost' = lost \cup Range(b) /\ flushChan' = flushChan
    BY <1>7 DEF flushBufferUnsafe
  <2>2. Flushed(e)' = Flushed(e)
    BY <2>1 DEF Flushed
  <2>3. GivenUp(e)' = GivenUp(e) + h
    <3> HIDE DEF h
    <3> QED BY <1>4, <2>1 DEF GivenUp
  <2> HIDE DEF h
  <2>4. Flushed(e)' + GivenUp(e)' = Flushed(e) + GivenUp(e) + h
    BY <1>1, <1>4, <2>2, <2>3
  <2> QED BY <1>3, <2>4 DEF h
<1> QED BY <1>6, <1>7
\* What leaves the places of the audit events alone keeps the account.
LEMMA AuditUntouched ==
    ASSUME AuditInv, UNCHANGED <<logged, buffer, flushChan, processed, lost>>,
           pool'["audit"].queue = pool["audit"].queue, pool'["audit"].running = pool["audit"].running
    PROVE  AuditInv'
BY DEF AuditInv, GivenUp, Buffered, Flushed, Queued, InWork

\* AddEvent and the flush of the timer.
LEMMA BufferCounts ==
    ASSUME PoolsShape, AuditInv, (\E x \in AuditEvents : LogAuditEventAsync(x)) \/ flushBuffer
    PROVE  AuditInv'
<1>1. UNCHANGED <<pool, processed>>
  BY DEF LogAuditEventAsync, flushBuffer
<1>2. buffer \in Seq(AuditEvents) /\ buffer \in Batches
  BY DEF PoolsShape, Batches
<1> SUFFICES ASSUME NEW e \in AuditEvents
             PROVE  processed[e] + GivenUp(e)' + Buffered(e)' + Flushed(e)' + Queued(e) + InWork(e)
                      = (IF e \in logged' THEN 1 ELSE 0)
  BY <1>1 DEF AuditInv, Queued, InWork
<1>3. /\ processed[e] \in Nat /\ GivenUp(e) \in Nat /\ Buffered(e) \in Nat
      /\ Flushed(e) \in Nat /\ Queued(e) \in Nat /\ InWork(e) \in Nat
  BY CountsNat
<1>4. processed[e] + GivenUp(e) + Buffered(e) + Flushed(e) + Queued(e) + InWork(e) = (IF e \in logged THEN 1 ELSE 0)
  BY DEF AuditInv
<1>5. Buffered(e) <= 1 /\ (Buffered(e) = 1 => GivenUp(e) = 0)
  BY <1>3, <1>4
<1>6. CASE flushBuffer
  <2>1. flushBufferUnsafe(buffer) /\ UNCHANGED logged
    BY <1>6 DEF flushBuffer
  <2>2. Buffered(e)' = 0 /\ Flushed(e)' + GivenUp(e)' = Flushed(e) + GivenUp(e) + Buffered(e)
    BY <1>2, <1>5, <2>1, FlushCounts DEF Buffered
  <2>3. Flushed(e)' \in Int /\ GivenUp(e)' \in Int
    <3>1. GivenUp(e)' \in Int
      BY DEF GivenUp
    <3>2. flushChan' \in Seq(Batches)
      BY <1>6, BufferShape
    <3>3. Cardinality(Hits(flushChan', Bears(e))) \in Nat
      BY <3>2, HitsFinite
    <3> QED BY <3>1, <3>3 DEF Flushed
  <2> QED BY <1>3, <1>4, <2>1, <2>2, <2>3
<1>7. ASSUME NEW x \in AuditEvents, LogAuditEventAsync(x)
      PROVE  processed[e] + GivenUp(e)' + Buffered(e)' + Flushed(e)' + Queued(e) + InWork(e)
               = (IF e \in logged' THEN 1 ELSE 0)
  <2> DEFINE b == Append(buffer, x)
             h == Cardinality(Hits(b, {e}))
  <2>1. AddEvent(x) /\ x \notin logged /\ logged' = logged \cup {x}
    BY <1>7 DEF LogAuditEventAsync
  <2>2. b \in Batches
    BY <1>2 DEF Batches
  <2>3. h = Buffered(e) + (IF x \in {e} THEN 1 ELSE 0)
    BY <1>2, HitsAppend DEF Buffered
  <2>4. /\ processed[e] + GivenUp(e) + h + Flushed(e) + Queued(e) + InWork(e) = (IF e \in logged' THEN 1 ELSE 0)
        /\ h \in Nat /\ h <= 1 /\ (h = 1 => GivenUp(e) = 0)
    <3> HIDE DEF h, b
    <3>1. CASE x = e
      <4>1. e \notin logged /\ e \in logged' /\ h = Buffered(e) + 1
        BY <2>1, <2>3, <3>1
      <4>2. processed[e] = 0 /\ GivenUp(e) = 0 /\ Buffered(e) = 0 /\ Flushed(e) = 0 /\ Queued(e) = 0 /\ InWork(e) = 0
        <5>1. processed[e] + GivenUp(e) + Buffered(e) + Flushed(e) + Queued(e) + InWork(e) = 0
          BY <1>4, <4>1
        <5> DEFINE a == processed[e]
                   g == GivenUp(e)
                   c == Buffered(e)
                   f == Flushed(e)
                   q == Queued(e)
                   w == InWork(e)
        <5>2. a \in Nat /\ g \in Nat /\ c \in Nat /\ f \in Nat /\ q \in Nat /\ w \in Nat
          BY <1>3
        <5>3. a + g + c + f + q + w = 0
          BY <5>1
        <5> HIDE DEF a, g, c, f, q, w
        <5>4. a = 0 /\ g = 0 /\ c = 0 /\ f = 0 /\ q = 0 /\ w = 0
          BY <5>2, <5>3
        <5> QED BY <5>4 DEF a, g, c, f, q, w
      <4>3. h = 1
        BY <4>1, <4>2
      <4> QED BY <4>1, <4>2, <4>3
    <3>2. CASE x # e
      <4>1. (e \in logged' <=> e \in logged) /\ h = Buffered(e)
        BY <1>3, <2>1, <2>3, <3>2
      <4> QED BY <1>3, <1>4, <4>1
    <3> QED BY <3>1, <3>2
  <2>5. CASE Len(b) >= BatchSize
    <3>1. flushBufferUnsafe(b)
      BY <2>1, <2>5 DEF AddEvent
    <3>2. Cardinality(Hits(b, {e})) <= 1 /\ (Cardinality(Hits(b, {e})) = 1 => GivenUp(e) = 0)
      BY <2>4
    <3> HIDE DEF b
    <3>3. Buffered(e)' = 0 /\ Flushed(e)' + GivenUp(e)' = Flushed(e) + GivenUp(e) + h
      BY <2>2, <3>1, <3>2, FlushCounts
    <3>4. Flushed(e)' \in Int /\ GivenUp(e)' \in Int
      <4>1. GivenUp(e)' \in Int
        BY DEF GivenUp
      <4>2. flushChan' \in Seq(Batches)
        BY <1>7, BufferShape
      <4>3. Cardinality(Hits(flushChan', Bears(e))) \in Nat
        BY <4>2, HitsFinite
      <4> QED BY <4>1, <4>3 DEF Flushed
    <3> HIDE DEF h
    <3> QED BY <1>3, <2>4, <3>3, <3>4
  <2>6. CASE ~(Len(b) >= BatchSize)
    <3>1. buffer' = b /\ UNCHANGED <<flushChan, lost>>
      BY <2>1, <2>6 DEF AddEvent
    <3>2. Buffered(e)' = h /\ Flushed(e)' = Flushed(e) /\ GivenUp(e)' = GivenUp(e)
      BY <3>1 DEF Buffered, Flushed, GivenUp
    <3> HIDE DEF h, b
    <3> QED BY <2>4, <3>2
  <2> QED BY <2>5, <2>6
<1> QED BY <1>6, <1>7

\* processBatch: a batch goes from the channel to the queue, or is given up.
LEMMA SubmitCounts ==
    ASSUME PoolsShape, AuditInv, processBatch
    PROVE  AuditInv'
<1> DEFINE b == Head(flushChan)
<1>1. /\ flushChan # << >> /\ flushChan' = Tail(flushChan) /\ b \in Batches
      /\ UNCHANGED <<logged, buffer, processed>>
      /\ pool'["audit"].running = pool["audit"].running
      /\ \/ pool'["audit"].queue = Append(pool["audit"].queue, b) /\ UNCHANGED lost
         \/ pool'["audit"].queue = pool["audit"].queue /\ lost' = lost \cup Range(b)
  BY BatchSubmitted
<1>2. flushChan \in Seq(Batches) /\ pool["audit"].queue \in Seq(Batches)
  BY DEF PoolsShape
<1> SUFFICES ASSUME NEW e \in AuditEvents
             PROVE  processed[e] + GivenUp(e)' + Buffered(e) + Flushed(e)' + Queued(e)' + InWork(e)
                      = (IF e \in logged THEN 1 ELSE 0)
  BY <1>1 DEF AuditInv, Buffered, InWork
<1>3. /\ processed[e] \in Nat /\ GivenUp(e) \in Nat /\ Buffered(e) \in Nat
      /\ Flushed(e) \in Nat /\ Queued(e) \in Nat /\ InWork(e) \in Nat
  BY CountsNat
<1>4. processed[e] + GivenUp(e) + Buffered(e) + Flushed(e) + Queued(e) + InWork(e) = (IF e \in logged THEN 1 ELSE 0)
  BY DEF AuditInv
<1>5. Flushed(e)' \in Nat /\ Flushed(e) = Flushed(e)' + (IF b \in Bears(e) THEN 1 ELSE 0)
  <2>1. flushChan' \in Seq(Batches)
    BY <1>1, <1>2
  <2>2. Cardinality(Hits(flushChan', Bears(e))) \in Nat
    BY <2>1, HitsFinite
  <2> QED BY <1>1, <1>2, <2>2, HitsTail DEF Flushed
<1>6. b \in Bears(e) <=> e \in Range(b)
  BY <1>1, BearsHits
<1> HIDE DEF b
<1>7. CASE pool'["audit"].queue = Append(pool["audit"].queue, b) /\ UNCHANGED lost
  <2>1. Queued(e)' = Queued(e) + (IF b \in Bears(e) THEN 1 ELSE 0)
    BY <1>1, <1>2, <1>7, HitsAppend DEF Queued
  <2>2. GivenUp(e)' = GivenUp(e)
    BY <1>7 DEF GivenUp
  <2> QED BY <1>3, <1>4, <1>5, <2>1, <2>2
<1>8. CASE pool'["audit"].queue = pool["audit"].queue /\ lost' = lost \cup Range(b)
  <2>1. Queued(e)' = Queued(e)
    BY <1>8 DEF Queued
  <2>2. GivenUp(e)' = IF e \in lost \/ b \in Bears(e) THEN 1 ELSE 0
    BY <1>6, <1>8 DEF GivenUp
  <2>3. GivenUp(e) = IF e \in lost THEN 1 ELSE 0
    BY DEF GivenUp
  <2> QED BY <1>3, <1>4, <1>5, <2>1, <2>2, <2>3
<1> QED BY <1>1, <1>7, <1>8

\* processAuditBatch: a batch with a worker is processed.
LEMMA ProcessCounts ==
    ASSUME PoolsShape, AuditInv, processAuditBatch
    PROVE  AuditInv'
<1>1. PICK b \in pool["audit"].running :
         /\ JobEnds("audit", b)
         /\ processed' = [e \in AuditEvents |-> processed[e] + (IF Contains(b, e) THEN 1 ELSE 0)]
  BY DEF processAuditBatch
<1>2. UNCHANGED <<logged, buffer, flushChan, lost>>
  BY DEF processAuditBatch
<1>3. /\ pool'["audit"].queue = pool["audit"].queue
      /\ pool'["audit"].running = pool["audit"].running \ {b} /\ b \in Batches
  <2>1. "audit" \in PoolSet
    BY DEF PoolSet
  <2> QED BY <1>1, <2>1, PoolEnds DEF PoolsShape
<1>4. IsFiniteSet(pool["audit"].running) /\ IsFiniteSet(pool'["audit"].running)
  BY <1>3, FS_Subset DEF AuditInv
<1>5. processed' \in [AuditEvents -> Nat]
  BY <1>1 DEF AuditInv
<1> SUFFICES ASSUME NEW e \in AuditEvents
             PROVE  processed'[e] + GivenUp(e) + Buffered(e) + Flushed(e) + Queued(e) + InWork(e)'
                      = (IF e \in logged THEN 1 ELSE 0)
  BY <1>2, <1>3, <1>4, <1>5 DEF AuditInv, GivenUp, Buffered, Flushed, Queued
<1>6. /\ processed[e] \in Nat /\ GivenUp(e) \in Nat /\ Buffered(e) \in Nat
      /\ Flushed(e) \in Nat /\ Queued(e) \in Nat /\ InWork(e) \in Nat
  BY CountsNat
<1>7. processed[e] + GivenUp(e) + Buffered(e) + Flushed(e) + Queued(e) + InWork(e) = (IF e \in logged THEN 1 ELSE 0)
  BY DEF AuditInv
<1> DEFINE R == pool["audit"].running \cap Bears(e)
<1>8. IsFiniteSet(R) /\ InWork(e) = Cardinality(R)
  BY <1>4, FS_Subset DEF InWork
<1>9. CASE Contains(b, e)
  <2>1. b \in R /\ InWork(e)' = Cardinality(R \ {b})
    <3>1. b \in R
      BY <1>3, <1>9 DEF Bears
    <3>2. pool'["audit"].running \cap Bears(e) = R \ {b}
      BY <1>3
    <3> QED BY <3>1, <3>2 DEF InWork
  <2> HIDE DEF R
  <2>2. InWork(e)' = InWork(e) - 1
    BY <1>8, <2>1, OneLess
  <2>3. processed'[e] = processed[e] + 1
    BY <1>1, <1>9
  <2> QED BY <1>6, <1>7, <2>2, <2>3
<1>10. CASE ~Contains(b, e)
  <2>1. pool'["audit"].running \cap Bears(e) = R
    BY <1>3, <1>10 DEF Bears
  <2>2. InWork(e)' = InWork(e)
    BY <1>8, <2>1 DEF InWork
  <2>3. processed'[e] = processed[e]
    BY <1>1, <1>6, <1>10
  <2> QED BY <1>7, <2>2, <2>3
<1> QED BY <1>9, <1>10

\* A worker takes a batch: it was in no worker's hands.
LEMMA TakeCounts ==
    ASSUME PoolsShape, AuditInv, Take("audit")
    PROVE  AuditInv'
<1> DEFINE q == pool["audit"].queue
           b == Head(pool["audit"].queue)
<1>1. /\ q # << >> /\ pool'["audit"].queue = Tail(q) /\ pool'["audit"].running = pool["audit"].running \cup {b}
      /\ q \in Seq(Batches)
  <2>1. "audit" \in PoolSet
    BY DEF PoolSet
  <2> QED BY <2>1, PoolTake DEF PoolsShape
<1>2. UNCHANGED <<logged, buffer, flushChan, processed, lost>>
  BY DEF Take, auditVars
<1>3. IsFiniteSet(pool["audit"].running) /\ IsFiniteSet(pool'["audit"].running)
  <2> DEFINE W == pool["audit"].running
  <2>1. IsFiniteSet(W) /\ pool'["audit"].running = W \cup {b}
    BY <1>1 DEF AuditInv
  <2>2. \A x : IsFiniteSet(W \cup {x})
    <3> HIDE DEF W
    <3> QED BY <2>1, FS_AddElement
  <2> QED BY <2>1, <2>2
<1>4. b \in Batches
  BY <1>1
<1> SUFFICES ASSUME NEW e \in AuditEvents
             PROVE  processed[e] + GivenUp(e) + Buffered(e) + Flushed(e) + Queued(e)' + InWork(e)'
                      = (IF e \in logged THEN 1 ELSE 0)
  BY <1>2, <1>3 DEF AuditInv, GivenUp, Buffered, Flushed
<1>5. /\ processed[e] \in Nat /\ GivenUp(e) \in Nat /\ Buffered(e) \in Nat
      /\ Flushed(e) \in Nat /\ Queued(e) \in Nat /\ InWork(e) \in Nat
  BY CountsNat
<1>6. processed[e] + GivenUp(e) + Buffered(e) + Flushed(e) + Queued(e) + InWork(e) = (IF e \in logged THEN 1 ELSE 0)
  BY DEF AuditInv
<1>7. Queued(e)' \in Nat /\ Queued(e) = Queued(e)' + (IF b \in Bears(e) THEN 1 ELSE 0)
  <2>1. Tail(q) \in Seq(Batches)
    BY <1>1
  <2>2. Cardinality(Hits(Tail(q), Bears(e))) \in Nat
    BY <2>1, HitsFinite
  <2> HIDE DEF q
  <2>3. Cardinality(Hits(q, Bears(e))) = Cardinality(Hits(Tail(q), Bears(e))) + (IF Head(q) \in Bears(e) THEN 1 ELSE 0)
    BY <1>1, HitsTail
  <2> QED BY <1>1, <2>2, <2>3 DEF Queued, q
<1> DEFINE R == pool["audit"].running \cap Bears(e)
<1>8. IsFiniteSet(R) /\ InWork(e) = Cardinality(R)
  BY <1>3, FS_Subset DEF InWork
<1>9. CASE b \in Bears(e)
  <2>1. InWork(e) = 0
    BY <1>5, <1>6, <1>7, <1>9
  <2>2. R = {}
    BY <1>8, <2>1, FS_EmptySet
  <2>3. pool'["audit"].running \cap Bears(e) = R \cup {b} /\ b \notin R
    BY <1>1, <1>9, <2>2
  <2>4. InWork(e)' = InWork(e) + 1
    BY <1>8, <2>3, OneMore DEF InWork
  <2> QED BY <1>5, <1>6, <1>7, <1>9, <2>4
<1>10. CASE b \notin Bears(e)
  <2>1. pool'["audit"].running \cap Bears(e) = R
    BY <1>1, <1>10
  <2>2. InWork(e)' = InWork(e)
    BY <1>8, <2>1 DEF InWork
  <2> QED BY <1>5, <1>6, <1>7, <1>10, <2>2
<1> QED BY <1>9, <1>10

\* The audit pool has stopped: what is in its queue is given up.
LEMMA StoppedCounts ==
    ASSUME PoolsShape, AuditInv, Stopped("audit")
    PROVE  AuditInv'
<1> DEFINE q == pool["audit"].queue
<1>1. /\ pool'["audit"].queue = << >> /\ pool["audit"].running = {} /\ pool'["audit"].running = {}
      /\ q \in Seq(Batches)
  <2>1. "audit" \in PoolSet
    BY DEF PoolSet
  <2> QED BY <2>1, PoolStops DEF PoolsShape
<1>2. UNCHANGED <<logged, buffer, flushChan, processed>> /\ lost' = lost \cup UNION {Range(b) : b \in Range(q)}
  BY DEF Stopped
<1> SUFFICES ASSUME NEW e \in AuditEvents
             PROVE  processed[e] + GivenUp(e)' + Buffered(e) + Flushed(e) + Queued(e)' + InWork(e)
                      = (IF e \in logged THEN 1 ELSE 0)
  BY <1>1, <1>2 DEF AuditInv, Buffered, Flushed, InWork
<1>3. /\ processed[e] \in Nat /\ GivenUp(e) \in Nat /\ Buffered(e) \in Nat
      /\ Flushed(e) \in Nat /\ Queued(e) \in Nat /\ InWork(e) \in Nat
  BY CountsNat
<1>4. processed[e] + GivenUp(e) + Buffered(e) + Flushed(e) + Queued(e) + InWork(e) = (IF e \in logged THEN 1 ELSE 0)
  BY DEF AuditInv
<1>5. Queued(e)' = 0
  <2>1. Hits(<< >>, Bears(e)) = {}
    BY DEF Hits
  <2> QED BY <1>1, <2>1, FS_EmptySet DEF Queued
<1>6. Queued(e) # 0 <=> \E i \in 1 .. Len(q) : q[i] \in Bears(e)
  <2>1. IsFiniteSet(Hits(q, Bears(e)))
    BY <1>1, HitsFinite
  <2>2. Cardinality(Hits(q, Bears(e))) = 0 <=> Hits(q, Bears(e)) = {}
    BY <2>1, FS_EmptySet
  <2> QED BY <2>2 DEF Queued, Hits
<1>7. Queued(e) # 0 <=> e \in UNION {Range(b) : b \in Range(q)}
  <2>1. DOMAIN q = 1 .. Len(q) /\ \A i \in 1 .. Len(q) : q[i] \in Batches
    BY <1>1
  <2>2. \A i \in 1 .. Len(q) : q[i] \in Bears(e) <=> e \in Range(q[i])
    BY <2>1, BearsHits
  <2>3. Range(q) = {q[i] : i \in 1 .. Len(q)}
    BY <2>1 DEF Range
  <2> HIDE DEF q
  <2>4. e \in UNION {Range(b) : b \in Range(q)} <=> \E i \in 1 .. Len(q) : e \in Range(q[i])
    BY <2>3
  <2> QED BY <1>6, <2>2, <2>4
<1> HIDE DEF q
<1>8. GivenUp(e)' = IF e \in lost \/ Queued(e) # 0 THEN 1 ELSE 0
  BY <1>2, <1>7 DEF GivenUp
<1>9. GivenUp(e) = IF e \in lost THEN 1 ELSE 0
  BY DEF GivenUp
<1> QED BY <1>3, <1>4, <1>5, <1>8, <1>9
\* Every step of the pools keeps the account of the audit events.
LEMMA AuditInvStep == PoolsShape /\ AuditInv /\ [PoolsNext]_poolVars => AuditInv'
<1> SUFFICES ASSUME PoolsShape, AuditInv, [PoolsNext]_poolVars
             PROVE  AuditInv'
  OBVIOUS
<1>1. /\ pool \in [PoolSet -> PoolStates] /\ DOMAIN pool = PoolSet
      /\ "audit" \in PoolSet /\ "password" \in PoolSet /\ "cache" \in PoolSet
      /\ "audit" # "password" /\ "audit" # "cache"
  BY DEF PoolsShape, PoolSet
<1>2. CASE PoolStep
  <2>1. CASE StartSpecializedPools \/ \E i \in DOMAIN PoolNames : StopSpecializedPools(i)
    <3>1. UNCHANGED <<logged, buffer, flushChan, processed, lost>>
      BY <2>1 DEF StartSpecializedPools, StopSpecializedPools, auditVars
    <3> QED BY <1>1, <2>1, <3>1, PoolTurns, AuditUntouched
  <2>2. ASSUME NEW p \in PoolSet, Take(p), p # "audit"
        PROVE  AuditInv'
    <3>1. UNCHANGED <<logged, buffer, flushChan, processed, lost>>
      BY <2>2 DEF Take, auditVars
    <3>2. pool'["audit"] = pool["audit"]
      BY <1>1, <2>2, PoolTake
    <3> QED BY <3>1, <3>2, AuditUntouched
  <2>3. ASSUME NEW p \in PoolSet, Stopped(p), p # "audit"
        PROVE  AuditInv'
    <3>1. UNCHANGED <<logged, buffer, flushChan, processed, lost>>
      BY <2>3 DEF Stopped
    <3>2. pool'["audit"] = pool["audit"]
      BY <1>1, <2>3, PoolStops
    <3> QED BY <3>1, <3>2, AuditUntouched
  <2> QED BY <1>1, <1>2, <2>1, <2>2, <2>3, TakeCounts, StoppedCounts DEF PoolStep
<1>3. CASE HashingStep
  <2>1. UNCHANGED <<logged, buffer, flushChan, processed, lost>>
    BY <1>3 DEF HashingStep, HashPasswordAsync, HashPasswordSync, CancelHash, Acquire, AcquireCancelled,
        processHashingRequest, auditVars
  <2>2. PICK r \in HashRequests : UNCHANGED pool \/ pool' = Enqueued("password", r) \/ JobEnds("password", r)
    BY <1>3 DEF HashingStep, HashPasswordAsync, HashPasswordSync, CancelHash, Acquire, AcquireCancelled,
        processHashingRequest
  <2>3. r \in Jobs
    BY DEF Jobs
  <2>4. pool'["audit"] = pool["audit"]
    BY <1>1, <2>2, <2>3, PoolEnqueue, PoolEnds
  <2> QED BY <2>1, <2>4, AuditUntouched
<1>4. CASE WarmingStep
  <2>1. UNCHANGED <<logged, buffer, flushChan, processed, lost>>
    BY <1>4 DEF WarmingStep, WarmUserPermissionsAsync, WarmFrequentlyUsedAsync, ScheduleWarmingTask,
        processWarmingTask, auditVars
  <2>2. PICK j \in {warming} \cup pool["cache"].running :
           UNCHANGED pool \/ pool' = Enqueued("cache", j) \/ JobEnds("cache", j)
    BY <1>4 DEF WarmingStep, WarmUserPermissionsAsync, WarmFrequentlyUsedAsync, ScheduleWarmingTask,
        processWarmingTask
  <2>3. j \in Jobs
    BY <1>1 DEF Jobs, PoolStates, PoolsShape
  <2>4. pool'["audit"] = pool["audit"]
    BY <1>1, <2>2, <2>3, PoolEnqueue, PoolEnds
  <2> QED BY <2>1, <2>4, AuditUntouched
<1>5. CASE AuditStep
  BY <1>5, BufferCounts, SubmitCounts, ProcessCounts DEF AuditStep
<1>6. CASE UNCHANGED poolVars
  BY <1>6, AuditUntouched DEF poolVars, auditVars
<1> QED BY <1>2, <1>3, <1>4, <1>5, <1>6 DEF PoolsNext

(***************************************************************************)
(* AuditedOnce: for every number of events and every size of the batches,  *)
(* the flush channel, the queue and the pool, a logged audit event is in   *)
(* exactly one place: it is never processed twice and never disappears     *)
(* without having been given up (AddEvent, flushBufferUnsafe,              *)
(* processBatch, processAuditBatch, Stop).                                 *)
(***************************************************************************)
THEOREM AuditedOnce == PoolsSpec => []AuditExactlyOnce
<1>1. PoolsInit => PoolsShape /\ AuditInv
  <2> SUFFICES ASSUME PoolsInit
               PROVE  PoolsShape /\ AuditInv
    OBVIOUS
  <2>1. /\ pool["audit"].running = {} /\ pool["audit"].queue = << >> /\ buffer = << >> /\ flushChan = << >>
        /\ processed = [e \in AuditEvents |-> 0] /\ lost = {} /\ logged = {}
    BY PoolNameFacts DEF PoolsInit, PoolSet
  <2>2. \A P : Hits(<< >>, P) = {}
    BY DEF Hits
  <2>3. IsFiniteSet({}) /\ Cardinality({}) = 0
    BY FS_EmptySet
  <2>4. \A e \in AuditEvents : /\ processed[e] = 0 /\ GivenUp(e) = 0 /\ Buffered(e) = 0 /\ Flushed(e) = 0
                               /\ Queued(e) = 0 /\ InWork(e) = 0 /\ e \notin logged
    BY <2>1, <2>2, <2>3 DEF GivenUp, Buffered, Flushed, Queued, InWork
  <2>5. AuditInv
    <3>1. IsFiniteSet(pool["audit"].running) /\ processed \in [AuditEvents -> Nat]
      BY <2>1, <2>3
    <3> QED BY <2>4, <3>1 DEF AuditInv
  <2> QED BY <2>5, ShapeInit
<1>2. PoolsShape /\ AuditInv /\ [PoolsNext]_poolVars => PoolsShape' /\ AuditInv'
  BY ShapeStep, AuditInvStep
<1>3. PoolsShape /\ AuditInv => AuditExactlyOnce
  <2> SUFFICES ASSUME PoolsShape, AuditInv, NEW e \in AuditEvents
               PROVE  processed[e] + (IF e \in lost THEN 1 ELSE 0)
                         + Cardinality({i \in DOMAIN buffer : buffer[i] = e})
                         + Cardinality({i \in DOMAIN flushChan : Contains(flushChan[i], e)})
                         + Cardinality({i \in DOMAIN pool["audit"].queue : Contains(pool["audit"].queue[i], e)})
                         + Cardinality({b \in pool["audit"].running : Contains(b, e)})
                           = IF e \in logged THEN 1 ELSE 0
    BY DEF AuditExactlyOnce
  <2>1. /\ buffer \in Seq(AuditEvents) /\ flushChan \in Seq(Batches) /\ pool["audit"].queue \in Seq(Batches)
        /\ pool["audit"].running \subseteq Batches
    BY DEF PoolsShape, Batches
  <2>2. \A q \in Seq(Batches) : {i \in DOMAIN q : Contains(q[i], e)} = Hits(q, Bears(e))
    <3> SUFFICES ASSUME NEW q \in Seq(Batches)
                 PROVE  {i \in DOMAIN q : Contains(q[i], e)} = Hits(q, Bears(e))
      OBVIOUS
    <3>1. DOMAIN q = 1 .. Len(q) /\ \A i \in 1 .. Len(q) : q[i] \in Batches
      OBVIOUS
    <3> QED BY <3>1 DEF Hits, Bears
  <2>3. Cardinality({i \in DOMAIN flushChan : Contains(flushChan[i], e)}) = Flushed(e)
    BY <2>1, <2>2 DEF Flushed
  <2>4. Cardinality({i \in DOMAIN pool["audit"].queue : Contains(pool["audit"].queue[i], e)}) = Queued(e)
    BY <2>1, <2>2 DEF Queued
  <2>5. Cardinality({i \in DOMAIN buffer : buffer[i] = e}) = Buffered(e)
    <3>1. {i \in DOMAIN buffer : buffer[i] = e} = Hits(buffer, {e})
      BY <2>1 DEF Hits
    <3> QED BY <3>1 DEF Buffered
  <2>6. Cardinality({b \in pool["audit"].running : Contains(b, e)}) = InWork(e)
    <3>1. {b \in pool["audit"].running : Contains(b, e)} = pool["audit"].running \cap Bears(e)
      BY <2>1 DEF Bears
    <3> QED BY <3>1 DEF InWork
  <2>7. (IF e \in lost THEN 1 ELSE 0) = GivenUp(e)
    BY DEF GivenUp
  <2> QED BY <2>3, <2>4, <2>5, <2>6, <2>7 DEF AuditInv
<1> QED BY <1>1, <1>2, <1>3, PTL DEF PoolsSpec

-----------------------------------------------------------------------------
(***************************************************************************)
(* Migrations of one database by any number of replicas that are killed at *)
(* any point.  The invariant follows each replica through the list: it is  *)
(* past a version only when that version's statements have run, by its own *)
(* hand or by another's, and it records a version only after they have.    *)
(***************************************************************************)

Stages == {"off", "connect", "pool", "check", "up", "record", "seed", "organizations",
           "permissions", "roles", "createRole", "grants", "users", "userRoles", "activities",
           "redis", "serving", "waiting"}

\* Stages that RunMigrations has not ended in.
Early == {"off", "connect", "pool", "check", "up", "record"}

AllVersions == {Versions[i] : i \in 1 .. Len(Versions)}

StartTypeOK ==
    /\ at \in [Replicas -> Stages]
    /\ ver \in [Replicas -> 1 .. Len(Versions)]
    /\ schema \subseteq AllVersions

\* How far a replica is says what the schema holds.
Progress == \A r \in Replicas :
    /\ \A i \in 1 .. Len(Versions) : i < ver[r] => Versions[i] \in schema
    /\ at[r] = "record" => Versions[ver[r]] \in schema
    /\ at[r] \notin Early => schema = AllVersions

StartInv == StartTypeOK /\ migrations \subseteq schema /\ Progress

\* RunMigrations lists five versions.
LEMMA FiveVersions == Len(Versions) = 5
BY DEF Versions

\* A process that ends, wherever it is, takes nothing from the schema (End).
LEMMA EndKeeps ==
    ASSUME StartInv, NEW r \in Replicas, End(r)
    PROVE  StartInv'
<1>1. schema' = schema /\ migrations' = migrations
      /\ at' = [at EXCEPT ![r] = "off"] /\ ver' = [ver EXCEPT ![r] = 1]
  BY DEF End, GotoStage
<1>2. StartTypeOK'
  BY <1>1, FiveVersions DEF StartInv, StartTypeOK, Stages
<1>3. Progress'
  <2> SUFFICES ASSUME NEW q \in Replicas
               PROVE  /\ \A i \in 1 .. Len(Versions) : i < ver'[q] => Versions[i] \in schema
                      /\ at'[q] = "record" => Versions[ver'[q]] \in schema
                      /\ at'[q] \notin Early => schema = AllVersions
    BY <1>1, Zenon DEF Progress, AllVersions, Versions
  <2>1. CASE q = r
    BY <1>1, <2>1, FiveVersions DEF StartInv, StartTypeOK, Early
  <2>2. CASE q # r
    BY <1>1, <2>2 DEF StartInv, StartTypeOK, Progress
  <2> QED BY <2>1, <2>2
<1> QED BY <1>1, <1>2, <1>3 DEF StartInv

\* A step to another stage, by a replica that does not leave the migrations by it and is
\* not about to record one, leaves the invariant as it is (GotoStage).
LEMMA GotoKeeps ==
    ASSUME StartInv, NEW r \in Replicas, NEW l \in Stages, GotoStage(r, l),
           UNCHANGED <<schema, migrations, ver>>, l # "record", l \notin Early => at[r] \notin Early
    PROVE  StartInv'
<1>1. at' = [at EXCEPT ![r] = l]
  BY DEF GotoStage
<1>2. StartTypeOK'
  BY <1>1 DEF StartInv, StartTypeOK
<1>3. Progress'
  <2> SUFFICES ASSUME NEW q \in Replicas
               PROVE  /\ \A i \in 1 .. Len(Versions) : i < ver[q] => Versions[i] \in schema
                      /\ at'[q] = "record" => Versions[ver[q]] \in schema
                      /\ at'[q] \notin Early => schema = AllVersions
    BY Zenon DEF Progress, AllVersions, Versions
  <2>1. CASE q = r
    BY <1>1, <2>1 DEF StartInv, StartTypeOK, Progress
  <2>2. CASE q # r
    BY <1>1, <2>2 DEF StartInv, StartTypeOK, Progress
  <2> QED BY <2>1, <2>2
<1> QED BY <1>2, <1>3 DEF StartInv

\* A step that leaves main and the schema where they are: the goroutines of the servers.
LEMMA SilentKeeps ==
    ASSUME StartInv, UNCHANGED <<schema, migrations, ver, at>>
    PROVE  StartInv'
BY DEF StartInv, StartTypeOK, Progress, AllVersions, Versions

\* Going on to the next version, or to the seeder after the last, once this one has run
\* (runMigration returned nil).
LEMMA NextKeeps ==
    ASSUME StartInv, NEW r \in Replicas, NextMigration(r), schema' = schema,
           migrations' \subseteq schema, Version(r) \in schema
    PROVE  StartInv'
<1> DEFINE v == ver[r]
<1>1. at' = [at EXCEPT ![r] = IF v < 5 THEN "check" ELSE "seed"]
      /\ ver' = [ver EXCEPT ![r] = IF v < 5 THEN v + 1 ELSE v]
  BY FiveVersions DEF NextMigration, GotoStage
<1>2. v \in 1 .. 5 /\ Versions[v] \in schema
      /\ \A i \in 1 .. 5 : i < v => Versions[i] \in schema
  BY FiveVersions DEF StartInv, StartTypeOK, Progress, Version
<1>3. StartTypeOK'
  BY <1>1, <1>2, FiveVersions DEF StartInv, StartTypeOK, Stages
<1>4. Progress'
  <2> SUFFICES ASSUME NEW q \in Replicas
               PROVE  /\ \A i \in 1 .. 5 : i < ver'[q] => Versions[i] \in schema
                      /\ at'[q] = "record" => Versions[ver'[q]] \in schema
                      /\ at'[q] \notin Early => schema = AllVersions
    BY FiveVersions DEF Progress, AllVersions, Versions
  <2>1. CASE q = r /\ v < 5
    BY <1>1, <1>2, <2>1 DEF StartInv, StartTypeOK, Early
  <2>2. CASE q = r /\ ~(v < 5)
    <3>1. v = 5
      BY <1>2, <2>2
    <3>2. \A i \in 1 .. 5 : Versions[i] \in schema
      BY <1>2, <3>1
    <3>3. schema = AllVersions
      BY <3>2, FiveVersions DEF StartInv, StartTypeOK, AllVersions
    <3> QED BY <1>1, <2>2, <3>2, <3>3 DEF StartInv, StartTypeOK
  <2>3. CASE q # r
    BY <1>1, <2>3, FiveVersions DEF StartInv, StartTypeOK, Progress
  <2> QED BY <2>1, <2>2, <2>3
<1> QED BY <1>3, <1>4 DEF StartInv

\* A version that is recorded has run, so skipping it is safe (runMigration, the lookup).
LEMMA CheckKeeps ==
    ASSUME StartInv, NEW r \in Replicas, checkMigration(r)
    PROVE  StartInv'
<1>1. schema' = schema /\ migrations' = migrations
  BY DEF checkMigration, Tables
<1>2. CASE Version(r) \in migrations
  BY <1>1, <1>2, NextKeeps DEF checkMigration, StartInv
<1>3. CASE Version(r) \notin migrations
  BY <1>1, <1>3, GotoKeeps DEF checkMigration, Stages, Early
<1> QED BY <1>2, <1>3

\* The statements of a version add to the schema, for this replica and the others (Up).
LEMMA UpKeeps ==
    ASSUME StartInv, NEW r \in Replicas, Up(r)
    PROVE  StartInv'
<1>1. CASE End(r)
  BY <1>1, EndKeeps
<1>2. CASE ~End(r)
  <2>1. schema' = schema \cup {Versions[ver[r]]} /\ migrations' = migrations /\ ver' = ver
        /\ at' = [at EXCEPT ![r] = "record"]
    BY <1>2 DEF Up, GotoStage, Version
  <2>2. Versions[ver[r]] \in AllVersions
    BY DEF StartInv, StartTypeOK, AllVersions
  <2>3. StartTypeOK'
    BY <2>1, <2>2 DEF StartInv, StartTypeOK, Stages, AllVersions, Versions
  <2>4. Progress'
    <3> SUFFICES ASSUME NEW q \in Replicas
                 PROVE  /\ \A i \in 1 .. Len(Versions) : i < ver[q] => Versions[i] \in schema'
                        /\ at'[q] = "record" => Versions[ver[q]] \in schema'
                        /\ at'[q] \notin Early => schema' = AllVersions
      BY <2>1 DEF Progress, AllVersions, Versions
    <3>1. \A i \in 1 .. Len(Versions) : i < ver[q] => Versions[i] \in schema
      BY DEF StartInv, Progress
    <3>2. CASE q = r
      BY <2>1, <3>1, <3>2 DEF StartInv, StartTypeOK, Early
    <3>3. CASE q # r
      <4>1. at'[q] = at[q]
        BY <2>1, <3>3 DEF StartInv, StartTypeOK
      <4> QED BY <2>1, <2>2, <3>1, <4>1 DEF StartInv, Progress
    <3> QED BY <3>2, <3>3
  <2> QED BY <2>1, <2>3, <2>4 DEF StartInv
<1> QED BY <1>1, <1>2

\* A version is recorded when its statements have run (recordMigration).
LEMMA RecordKeeps ==
    ASSUME StartInv, NEW r \in Replicas, recordMigration(r)
    PROVE  StartInv'
<1>1. CASE End(r)
  BY <1>1, EndKeeps
<1>2. CASE ~End(r)
  <2>1. migrations' = migrations \cup {Version(r)} /\ NextMigration(r) /\ schema' = schema
    BY <1>2 DEF recordMigration
  <2>2. Version(r) \in schema
    BY DEF StartInv, Progress, recordMigration, Version
  <2> QED BY <2>1, <2>2, NextKeeps DEF StartInv
<1> QED BY <1>1, <1>2

\* Before the migrations: configuration and connections.
LEMMA ConnectKeeps ==
    ASSUME StartInv, NEW r \in Replicas,
           Load(r) \/ initializeConnection(r) \/ configureConnectionPool(r)
    PROVE  StartInv'
<1>1. CASE End(r)
  BY <1>1, EndKeeps
<1>2. CASE ~End(r)
  <2>1. UNCHANGED <<schema, migrations, ver>>
        /\ \E l \in {"connect", "pool", "check"} : GotoStage(r, l)
    BY <1>2 DEF Load, initializeConnection, configureConnectionPool, Tables
  <2> QED BY <2>1, GotoKeeps DEF Stages, Early
<1> QED BY <1>1, <1>2

\* The seeder goes from one of its stages to another (SeedAll).
LEMMA SeedKeeps ==
    ASSUME StartInv, NEW r \in Replicas, Seed(r)
    PROVE  StartInv'
<1>1. UNCHANGED <<schema, migrations, ver>>
  BY DEF Seed, SeedAll, SeedFails, seedOrganizations, seedPermissions, seedRoles,
         seedRolePermissions, seedUsers, seedUserRoles, seedUserActivities, SeedStep, Tables
<1>2. at[r] \notin Early
  BY DEF Seed, SeedAll, SeedFails, seedOrganizations, seedPermissions, seedRoles,
         seedRolePermissions, seedUsers, seedUserRoles, seedUserActivities, SeedStep, Early
<1>3. \E l \in Stages \ Early : GotoStage(r, l)
  BY DEF Seed, SeedAll, SeedFails, seedOrganizations, seedPermissions, seedRoles,
         seedRolePermissions, seedUsers, seedUserRoles, seedUserActivities, SeedStep, Early, Stages
<1> QED BY <1>1, <1>2, <1>3, GotoKeeps DEF Early

\* Redis and the signal: main goes on to serve and to wait, or ends.
LEMMA MainKeeps ==
    ASSUME StartInv, NEW r \in Replicas,
           InitializeRedis(r) \/ ReceiveSignal(r) \/ WaitReturns(r) \/ Kill(r)
    PROVE  StartInv'
<1>1. CASE End(r)
  BY <1>1, EndKeeps
<1>2. CASE ~End(r)
  <2>1. UNCHANGED <<schema, migrations, ver>> /\ at[r] \notin Early
        /\ \E l \in {"serving", "waiting"} : GotoStage(r, l)
    BY <1>2 DEF InitializeRedis, ReceiveSignal, WaitReturns, Kill, Tables, Early
  <2> QED BY <2>1, GotoKeeps DEF Stages, Early
<1> QED BY <1>1, <1>2

\* The servers run beside main.
LEMMA ServerKeeps ==
    ASSUME StartInv, NEW r \in Replicas,
           \/ RunHTTP(r) \/ NewAuthGRPCServer(r) \/ StartGRPC(r) \/ BeginRPC(r) \/ EndRPC(r)
           \/ RegisterVisitor(r) \/ Signal(r) \/ setupGracefulShutdown(r) \/ GracefulStop(r)
           \/ ShutdownTimeout(r)
    PROVE  StartInv'
<1>1. UNCHANGED <<schema, migrations, ver, at>>
  BY DEF RunHTTP, NewAuthGRPCServer, StartGRPC, BeginRPC, EndRPC, RegisterVisitor, Signal,
         setupGracefulShutdown, GracefulStop, ShutdownTimeout, Tables
<1> QED BY <1>1, SilentKeeps

\* An empty database, and no process.
LEMMA StartInvInit == StartInit => StartInv
BY FiveVersions DEF StartInit, StartInv, StartTypeOK, Progress, Stages, Early

(***************************************************************************)
(* MigrationsAreSafe: for any number of replicas and of restarts, killed   *)
(* at any point, a version in the table migrations has run to its end, and *)
(* a replica that seeds or serves has the whole schema (RunMigrations,     *)
(* runMigration).                                                          *)
(***************************************************************************)
THEOREM MigrationsAreSafe == StartInit /\ [][StartNext]_startVars => []RecordedIsApplied
<1>1. StartInit => StartInv
  BY StartInvInit
<1>2. StartInv /\ [StartNext]_startVars => StartInv'
  <2> SUFFICES ASSUME StartInv, [StartNext]_startVars
               PROVE  StartInv'
    OBVIOUS
  <2>1. CASE UNCHANGED startVars
    BY <2>1, SilentKeeps DEF startVars
  <2>2. CASE StartNext
    <3>1. PICK r \in Replicas :
            \/ Load(r) \/ initializeConnection(r) \/ configureConnectionPool(r)
            \/ checkMigration(r) \/ Up(r) \/ recordMigration(r) \/ Seed(r)
            \/ InitializeRedis(r) \/ ReceiveSignal(r) \/ WaitReturns(r) \/ Kill(r)
            \/ RunHTTP(r) \/ NewAuthGRPCServer(r) \/ StartGRPC(r) \/ BeginRPC(r) \/ EndRPC(r)
            \/ RegisterVisitor(r) \/ Signal(r) \/ setupGracefulShutdown(r) \/ GracefulStop(r)
            \/ ShutdownTimeout(r)
      BY <2>2 DEF StartNext
    <3> QED BY <3>1, ConnectKeeps, CheckKeeps, UpKeeps, RecordKeeps, SeedKeeps, MainKeeps,
               ServerKeeps
  <2> QED BY <2>1, <2>2
<1>3. StartInv => RecordedIsApplied
  BY DEF StartInv, Progress, RecordedIsApplied, Early, AllVersions
<1> QED BY <1>1, <1>2, <1>3, PTL
=============================================================================
