--------------------------- MODULE EventProducer ---------------------------
(***************************************************************************)
(* The Kafka event producer, internal/events/enhanced_producer.go, with    *)
(* its files of internal/events/persistent_queue.go.                       *)
(*                                                                         *)
(* PublishEvent puts an event into a bounded channel, or into a file when  *)
(* the channel is full.  One goroutine sends what is in the channel; an    *)
(* event that fails is written to a file and brought back by a second      *)
(* goroutine, or goes to a second channel when its attempts are used up,   *)
(* from which a third one writes it to the dead letter topic.  A fourth    *)
(* brings all files back when the producer is started.                     *)
(*                                                                         *)
(* A file and a channel hold copies of the event with its own Attempts     *)
(* (JSON in between).  The files survive a crash, nothing else does.       *)
(* Backoff is abstracted to "the time has come or not".  The metrics and   *)
(* the contents of the messages are left out; marshalling an event, whose  *)
(* data the Publish functions build from plain values, does not fail.      *)
(***************************************************************************)
EXTENDS Integers, Sequences, FiniteSets

CONSTANTS
    Events,         \* the events published
    NoEvent,
    QueueSize,      \* config.LocalQueueSize
    DeadLetterSize, \* the capacity of deadLetterQueue
    RetryAttempts,  \* config.RetryAttempts
    Persistence,    \* config.EnableLocalPersistence
    Loaders,        \* bound: the loadPersistedEvents goroutines alive at once
    Faults,         \* what may fail: "kafka", "deadLetter", "disk"
    MayStop,        \* Stop may be called
    MaxCrashes      \* bound on the crashes

ASSUME ProducerAssumption ==
    /\ QueueSize \in Nat /\ DeadLetterSize \in Nat /\ RetryAttempts \in Nat \ {0}
    /\ Persistence \in BOOLEAN /\ MayStop \in BOOLEAN /\ MaxCrashes \in Nat
    /\ Faults \subseteq {"kafka", "deadLetter", "disk"}
    /\ NoEvent \notin Events
    /\ "retry" \notin Loaders

VARIABLES
    running,     \* p.isRunning
    stopping,    \* a Stop holds p.mu and waits for the goroutines
    cancelled,   \* p.ctx is cancelled
    closed,      \* p.writers are closed
    queue,       \* localQueue
    deadQueue,   \* deadLetterQueue
    file,        \* the files of the persistent queue
    pub,         \* the PublishEvent of each event
    sender,      \* processLocalQueue
    burier,      \* processDeadLetterQueue
    mover,       \* retryFailedEvents and the loadPersistedEvents
    delivered,   \* the events in the topic
    buried,      \* the events in the dead letter topic
    fails,       \* history: the failed attempts of each event, at most RetryAttempts
    crashes,     \* the crashes so far
    panicked     \* a goroutine of the producer has panicked

state   == <<running, stopping, cancelled, closed>>
threads == <<sender, burier, mover>>
history == <<fails, crashes, panicked>>
producerVars == <<state, queue, deadQueue, file, pub, threads, delivered, buried, history>>

-----------------------------------------------------------------------------
Movers   == Loaders \cup {"retry"}
Attempts == 0 .. RetryAttempts

Copies == [id : Events, att : Attempts]
NoCopy == [id |-> NoEvent, att |-> 0]

\* A file holds the attempts and the status of its event.
NoFile == [att |-> 0, status |-> "none"]
OnDisk(e) == file[e].status # "none"
CopyOf(e) == [id |-> e, att |-> file[e].att]

Gone == [pc |-> "exited", cur |-> NoCopy]
GoneMover == [pc |-> "exited", cur |-> NoCopy, todo |-> {}]

\* A process that has created its producer and not started it.
NewProcess ==
    /\ running' = FALSE /\ stopping' = FALSE /\ cancelled' = FALSE /\ closed' = FALSE
    /\ pub' = [e \in Events |-> IF pub[e] = "checked" THEN "refused" ELSE pub[e]]
    /\ queue' = << >> /\ deadQueue' = << >>
    /\ sender' = Gone /\ burier' = Gone
    /\ mover' = [m \in Movers |-> GoneMover]

ProducerInit ==
    /\ running = FALSE /\ stopping = FALSE /\ cancelled = FALSE /\ closed = FALSE
    /\ queue = << >> /\ deadQueue = << >>
    /\ file = [e \in Events |-> NoFile]
    /\ pub = [e \in Events |-> "new"]
    /\ sender = Gone /\ burier = Gone
    /\ mover = [m \in Movers |-> GoneMover]
    /\ delivered = {} /\ buried = {}
    /\ fails = [e \in Events |-> 0]
    /\ crashes = 0 /\ panicked = FALSE

CanFail(what) == what \in Faults

HasRoom(q, size) == Len(q) < size

\* persistentQueue.Enqueue: the file of an event is overwritten.
Persisted(e, att, status) == file' = [file EXCEPT ![e] = [att |-> att, status |-> status]]

-----------------------------------------------------------------------------
(***************************************************************************)
(* Faulty variants.                                                        *)
(***************************************************************************)
\* The file is removed before the event is put into the channel.
MoveRemovesFirst(m, c) ==
    /\ mover[m].pc = "loop"
    /\ c \in mover[m].todo
    /\ file' = [file EXCEPT ![c.id] = NoFile]
    /\ \/ /\ HasRoom(queue, QueueSize)
          /\ queue' = Append(queue, c)
       \/ /\ ~HasRoom(queue, QueueSize)
          /\ UNCHANGED queue
    /\ mover' = [mover EXCEPT ![m].todo = @ \ {c}]
    /\ UNCHANGED <<state, deadQueue, pub, sender, burier, delivered, buried, history>>

\* Attempts++ already when the event is taken from the channel.
ReceiveCounts ==
    /\ sender.pc = "idle"
    /\ queue # << >>
    /\ sender' = [pc |-> "sending", cur |-> [Head(queue) EXCEPT !.att = @ + 1]]
    /\ queue' = Tail(queue)
    /\ UNCHANGED <<state, deadQueue, file, pub, burier, mover, delivered, buried, history>>

\* GetRetryableEvents looks for the wrong status.
PendingOnly == {e \in Events : file[e].status = "pending"}

\* A break that leaves the select and not the loop.
MoverExitBreaks ==
    /\ mover["retry"].pc = "idle"
    /\ cancelled
    /\ UNCHANGED producerVars

-----------------------------------------------------------------------------
\* Start.  The context is the one of NewEnhancedProducer, also after a Stop.
Start(l) ==
    /\ ~running /\ ~stopping
    /\ mover[l].pc = "exited"
    /\ running' = TRUE
    /\ sender' = [Gone EXCEPT !.pc = "idle"]
    /\ burier' = [Gone EXCEPT !.pc = "idle"]
    /\ mover' = IF Persistence
                THEN [mover EXCEPT !["retry"].pc = "idle", ![l].pc = "idle"]
                ELSE mover
    /\ UNCHANGED <<stopping, cancelled, closed, queue, deadQueue, file, pub, delivered, buried, history>>

\* PublishEvent reads p.isRunning without the lock: what it read may be old
\* by the time of its next step.
PublishCheck(e) ==
    /\ pub[e] = "new"
    /\ pub' = [pub EXCEPT ![e] = IF running THEN "checked" ELSE "refused"]
    /\ UNCHANGED <<state, queue, deadQueue, file, threads, delivered, buried, history>>

\* The select of PublishEvent: the channel, the caller's context, or, when the
\* channel is full, a file with the status Pending.
PublishEvent(e) ==
    /\ pub[e] = "checked"
    /\ \/ /\ HasRoom(queue, QueueSize)
          /\ queue' = Append(queue, [id |-> e, att |-> 0])
          /\ pub' = [pub EXCEPT ![e] = "accepted"]
          /\ UNCHANGED file
       \/ /\ ~HasRoom(queue, QueueSize) /\ Persistence
          /\ Persisted(e, 0, "pending")
          /\ pub' = [pub EXCEPT ![e] = "accepted"]
          /\ UNCHANGED queue
       \/ /\ pub' = [pub EXCEPT ![e] = "refused"]  \* ctx.Done(), or an error
          /\ UNCHANGED <<queue, file>>
    /\ UNCHANGED <<state, deadQueue, threads, delivered, buried, history>>

\* PublishUserRegistered and the other typed publishers: each makes an event of
\* its own, with a new identifier, and calls PublishEvent.
Publish(e) == PublishCheck(e) \/ PublishEvent(e)

-----------------------------------------------------------------------------
(***************************************************************************)
(* processLocalQueue.                                                      *)
(***************************************************************************)
SenderReceive ==
    /\ sender.pc = "idle"
    /\ queue # << >>
    /\ sender' = [pc |-> "sending", cur |-> Head(queue)]
    /\ queue' = Tail(queue)
    /\ UNCHANGED <<state, deadQueue, file, pub, burier, mover, delivered, buried, history>>

\* sendEvent wrote the message.
SendSucceeds ==
    /\ sender.pc = "sending"
    /\ ~closed
    /\ delivered' = delivered \cup {sender.cur.id}
    /\ sender' = [Gone EXCEPT !.pc = "idle"]
    /\ UNCHANGED <<state, queue, deadQueue, file, pub, burier, mover, buried, history>>

\* WriteMessages failed (a closed writer always does), or was cut short by the
\* context; an open writer may have got the message to the broker.
SendFails ==
    /\ sender.pc = "sending"
    /\ CanFail("kafka") \/ cancelled
    /\ \/ ~closed /\ delivered' = delivered \cup {sender.cur.id}
       \/ UNCHANGED delivered
    /\ sender' = [sender EXCEPT !.pc = "failed", !.cur.att = @ + 1]
    /\ fails' = [fails EXCEPT ![sender.cur.id] = IF @ < RetryAttempts THEN @ + 1 ELSE @]
    /\ UNCHANGED <<state, queue, deadQueue, file, pub, burier, mover, buried, crashes, panicked>>

\* The select for a writer took ctx.Done(): Attempts is as before.
SendCancelled ==
    /\ sender.pc = "sending"
    /\ cancelled
    /\ sender' = [sender EXCEPT !.pc = "failed"]
    /\ UNCHANGED <<state, queue, deadQueue, file, pub, burier, mover, delivered, buried, history>>

\* handleFailedEvent of an event with attempts left: a file, if it can be
\* written.
RetryLater ==
    /\ sender.pc = "failed"
    /\ sender.cur.att \in 1 .. RetryAttempts - 1
    /\ \/ Persistence /\ Persisted(sender.cur.id, sender.cur.att, "failed")
       \/ (CanFail("disk") \/ ~Persistence) /\ UNCHANGED file
    /\ sender' = [Gone EXCEPT !.pc = "idle"]
    /\ UNCHANGED <<state, queue, deadQueue, pub, burier, mover, delivered, buried, history>>

\* handleFailedEvent of an event without attempts left; it is dropped when
\* the second channel is full.
DeadLetter ==
    /\ sender.pc = "failed"
    /\ sender.cur.att = RetryAttempts
    /\ deadQueue' = IF HasRoom(deadQueue, DeadLetterSize)
                    THEN Append(deadQueue, sender.cur)
                    ELSE deadQueue
    /\ sender' = [Gone EXCEPT !.pc = "idle"]
    /\ UNCHANGED <<state, queue, file, pub, burier, mover, delivered, buried, history>>

\* handleFailedEvent of an event with no attempt: 1 << (Attempts - 1) is a
\* shift by a negative count, which ends the process.
RetryPanics ==
    /\ sender.pc = "failed"
    /\ sender.cur.att = 0
    /\ panicked' = TRUE
    /\ NewProcess
    /\ UNCHANGED <<file, delivered, buried, fails, crashes>>

SenderExit ==
    /\ sender.pc = "idle"
    /\ cancelled
    /\ sender' = Gone
    /\ UNCHANGED <<state, queue, deadQueue, file, pub, burier, mover, delivered, buried, history>>

-----------------------------------------------------------------------------
(***************************************************************************)
(* processDeadLetterQueue.                                                 *)
(***************************************************************************)
BurierReceive ==
    /\ burier.pc = "idle"
    /\ deadQueue # << >>
    /\ burier' = [pc |-> "sending", cur |-> Head(deadQueue)]
    /\ deadQueue' = Tail(deadQueue)
    /\ UNCHANGED <<state, queue, file, pub, sender, mover, delivered, buried, history>>

\* sendToDeadLetterQueue; a failure is only logged.
Bury ==
    /\ burier.pc = "sending"
    /\ \/ buried' = buried \cup {burier.cur.id}
       \/ (CanFail("deadLetter") \/ cancelled) /\ UNCHANGED buried
    /\ burier' = [Gone EXCEPT !.pc = "idle"]
    /\ UNCHANGED <<state, queue, deadQueue, file, pub, sender, mover, delivered, history>>

BurierExit ==
    /\ burier.pc = "idle"
    /\ cancelled
    /\ burier' = Gone
    /\ UNCHANGED <<state, queue, deadQueue, file, pub, sender, mover, delivered, buried, history>>

-----------------------------------------------------------------------------
(***************************************************************************)
(* retryFailedEvents and loadPersistedEvents: read the files, then put     *)
(* each event into the channel and remove its file, or leave it there.     *)
(***************************************************************************)
\* What GetRetryableEvents looks at.
Retryable == {e \in Events : file[e].status = "failed"}

\* A tick: the events whose NextRetry has passed.
RetryTick(due) ==
    /\ mover["retry"].pc = "idle"
    /\ due \subseteq Retryable
    /\ due # {}
    /\ mover' = [mover EXCEPT !["retry"] =
                    [pc |-> "loop", cur |-> NoCopy, todo |-> {CopyOf(e) : e \in due}]]
    /\ UNCHANGED <<state, queue, deadQueue, file, pub, sender, burier, delivered, buried, history>>

\* loadPersistedEvents: GetAll.
LoadAll(l) ==
    /\ mover[l].pc = "idle"
    /\ mover' = [mover EXCEPT ![l] =
                    [pc |-> "loop", cur |-> NoCopy,
                     todo |-> {CopyOf(e) : e \in {x \in Events : OnDisk(x)}}]]
    /\ UNCHANGED <<state, queue, deadQueue, file, pub, sender, burier, delivered, buried, history>>

\* The select's send case, or its default when the channel is full.
MoveEnqueue(m, c) ==
    /\ mover[m].pc = "loop"
    /\ c \in mover[m].todo
    /\ \/ /\ HasRoom(queue, QueueSize)
          /\ queue' = Append(queue, c)
          /\ mover' = [mover EXCEPT ![m] = [pc |-> "remove", cur |-> c, todo |-> @.todo \ {c}]]
       \/ /\ ~HasRoom(queue, QueueSize)
          /\ mover' = [mover EXCEPT ![m].todo = @ \ {c}]
          /\ UNCHANGED queue
    /\ UNCHANGED <<state, deadQueue, file, pub, sender, burier, delivered, buried, history>>

\* persistentQueue.Remove; a failure is only logged.
MoveRemove(m) ==
    /\ mover[m].pc = "remove"
    /\ \/ file' = [file EXCEPT ![mover[m].cur.id] = NoFile]
       \/ CanFail("disk") /\ UNCHANGED file
    /\ mover' = [mover EXCEPT ![m].pc = "loop", ![m].cur = NoCopy]
    /\ UNCHANGED <<state, queue, deadQueue, pub, sender, burier, delivered, buried, history>>

\* The list is done: the retry goroutine waits for its next tick, a loader
\* ends.  A loader also ends at the ctx.Done() case of its select.
MoveEnd(m) ==
    /\ mover[m].pc = "loop"
    /\ mover[m].todo = {} \/ (m \in Loaders /\ cancelled)
    /\ mover' = [mover EXCEPT ![m] =
                    IF m = "retry" THEN [GoneMover EXCEPT !.pc = "idle"] ELSE GoneMover]
    /\ UNCHANGED <<state, queue, deadQueue, file, pub, sender, burier, delivered, buried, history>>

MoverExit ==
    /\ mover["retry"].pc = "idle"
    /\ cancelled
    /\ mover' = [mover EXCEPT !["retry"] = GoneMover]
    /\ UNCHANGED <<state, queue, deadQueue, file, pub, sender, burier, delivered, buried, history>>

-----------------------------------------------------------------------------
\* Stop up to wg.Wait(), which does not count the loaders.
StopBegin ==
    /\ MayStop
    /\ running /\ ~stopping
    /\ cancelled' = TRUE
    /\ stopping' = TRUE
    /\ UNCHANGED <<running, closed, queue, deadQueue, file, pub, threads, delivered, buried, history>>

StopEnd ==
    /\ stopping
    /\ sender.pc = "exited" /\ burier.pc = "exited" /\ mover["retry"].pc = "exited"
    /\ running' = FALSE
    /\ stopping' = FALSE
    /\ closed' = TRUE
    /\ UNCHANGED <<cancelled, queue, deadQueue, file, pub, threads, delivered, buried, history>>

\* The process dies and is started anew.
Crash ==
    /\ crashes < MaxCrashes
    /\ crashes' = crashes + 1
    /\ NewProcess
    /\ UNCHANGED <<file, delivered, buried, fails, panicked>>

-----------------------------------------------------------------------------
SenderStep ==
    \/ SenderReceive \/ SendSucceeds \/ SendFails \/ SendCancelled
    \/ RetryLater \/ DeadLetter \/ RetryPanics \/ SenderExit

BurierStep == BurierReceive \/ Bury \/ BurierExit

MoverStep(m) == (\E c \in Copies : MoveEnqueue(m, c)) \/ MoveRemove(m) \/ MoveEnd(m)

ProducerNext ==
    \/ \E l \in Loaders : Start(l) \/ LoadAll(l)
    \/ \E e \in Events : Publish(e)
    \/ SenderStep \/ BurierStep
    \/ \E due \in SUBSET Events : RetryTick(due)
    \/ \E m \in Movers : MoverStep(m)
    \/ MoverExit
    \/ StopBegin \/ StopEnd \/ Crash

ProducerSpec == ProducerInit /\ [][ProducerNext]_producerVars

\* The goroutines run; the ticker ticks, and at some tick the backoff of every
\* failed event is over.  A select that finds the context done at every tick
\* takes that case in the end (Go picks among the ready cases at random).
ProducerFairness ==
    /\ WF_producerVars(SenderStep) /\ WF_producerVars(BurierStep)
    /\ \A m \in Movers : WF_producerVars(MoverStep(m))
    /\ SF_producerVars(RetryTick(Retryable))
    /\ SF_producerVars(MoverExit) /\ WF_producerVars(StopEnd)

-----------------------------------------------------------------------------
ThreadPCs == {"idle", "sending", "failed", "exited"}

InQueue(q, e) == \E i \in DOMAIN q : q[i].id = e

\* Event e is still somewhere, or has arrived somewhere.
Kept(e) ==
    \/ InQueue(queue, e) \/ InQueue(deadQueue, e)
    \/ sender.cur.id = e \/ burier.cur.id = e
    \/ OnDisk(e)
    \/ e \in delivered \/ e \in buried

(***************************************************************************)
(* The attempts are accounted for across files, reloads and crashes: an    *)
(* event is in the dead letter topic, or on its way there, only after      *)
(* RetryAttempts attempts to deliver it have failed.                       *)
(***************************************************************************)
BuriedWasTried ==
    \A e \in Events :
        e \in buried \/ burier.cur.id = e \/ InQueue(deadQueue, e) => fails[e] = RetryAttempts

(***************************************************************************)
(* The files hold no event for which there is nothing left to do: the file *)
(* of a failed event has attempts left, so a reload never sends an event   *)
(* more than RetryAttempts times from one copy.                            *)
(***************************************************************************)
FilesHaveAttemptsLeft ==
    \A e \in Events :
        /\ file[e].status = "failed" => file[e].att \in 1 .. RetryAttempts - 1
        /\ file[e].status = "pending" => file[e].att = 0

(***************************************************************************)
(* The backoff of handleFailedEvent shifts by Attempts - 1, which must not *)
(* be negative: while the producer runs, every failure it handles was      *)
(* counted as an attempt, for copies read back from a file too.            *)
(***************************************************************************)
FailuresCounted == sender.pc = "failed" /\ ~cancelled => sender.cur.att > 0

(***************************************************************************)
(* The attempts to deliver an event are accounted for wherever its copies  *)
(* go: to a file and back, to the second channel, through a crash          *)
(* (handleFailedEvent, loadPersistedEvents, retryFailedEvents).            *)
(***************************************************************************)
AttemptsAccounted == BuriedWasTried /\ FilesHaveAttemptsLeft /\ FailuresCounted

(***************************************************************************)
(* The places where an accepted event can be lost, and no others: a crash  *)
(* or panic, a failed write of its file, a full second channel, a failed   *)
(* write to the dead letter topic, and the Remove that follows the         *)
(* hand-over from a file to the channel, when the event has failed again   *)
(* in between.                                                             *)
(***************************************************************************)
LostOnlyByFaults ==
    [][\A e \in Events :
          Kept(e) /\ ~Kept(e)' =>
              \/ crashes' # crashes
              \/ sender.pc = "failed" /\ sender.cur.att = 0
              \/ sender.cur.id = e /\ (CanFail("disk") \/ ~Persistence)
              \/ sender.cur.id = e /\ ~HasRoom(deadQueue, DeadLetterSize)
              \/ burier.cur.id = e /\ (CanFail("deadLetter") \/ cancelled)
              \/ \E m \in Movers : mover[m].pc = "remove" /\ mover[m].cur.id = e
                                    /\ (fails[e] > mover[m].cur.att \/ cancelled)]_producerVars

(***************************************************************************)
(* An event that failed and was written to a file does not stay there: its *)
(* turn comes while the producer runs.                                     *)
(***************************************************************************)
FailedFilesRetried ==
    \A e \in Events :
        file[e].status = "failed" ~> (file[e].status # "failed" \/ cancelled \/ ~running)

(***************************************************************************)
(* Stop returns, although the retry goroutine finishes its list before it  *)
(* looks at the context.                                                   *)
(***************************************************************************)
StopReturns == stopping ~> ~stopping

=============================================================================
