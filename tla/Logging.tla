------------------------------ MODULE Logging ------------------------------
(***************************************************************************)
(* internal/logging: LoggingService writes to the console and hands every  *)
(* entry to the KafkaLogger, whose goroutine processLogs collects them in  *)
(* batches for an asynchronous writer.  Closing is checked under a lock    *)
(* and acted upon after it, so entries race with Close; Fatal ends the     *)
(* process.  A batch counts as delivered when the writer has it.           *)
(***************************************************************************)
EXTENDS Integers, Sequences, SequencesExt

CONSTANTS Entries,       \* log entries
          BufferSize,    \* of the channel
          LogBatchSize   \* of KafkaLoggerConfig

ASSUME LoggingAssumption == BufferSize \in Nat \ {0} /\ LogBatchSize \in Nat \ {0}

VARIABLES entry,          \* entry -> where its call is
          fatal,          \* entries logged by Fatal
          console,        \* entries on the console
          serviceClosed,  \* LoggingService.closed
          kafka,          \* KafkaLogger: "open", "closed" (and cancelled), "drained" (channel closed), "gone"
          logChan, logBatch, topic,
          processor,      \* processLogs: "running" or "returned"
          exited          \* os.Exit was called

logVars == <<entry, fatal, console, serviceClosed, kafka, logChan, logBatch, topic, processor, exited>>

\* The channel, and the goroutine that is started with it.
NewKafkaLogger ==
    /\ kafka = "open"
    /\ logChan = <<>> /\ logBatch = <<>> /\ topic = <<>>
    /\ processor = "running"

\* The console logger writes to the standard output of the process.
NewStructuredLogger == console = {} /\ exited = FALSE

LogInit ==
    /\ entry = [e \in Entries |-> "idle"] /\ fatal = {}
    /\ serviceClosed = FALSE
    /\ NewStructuredLogger /\ NewKafkaLogger

Cancelled == kafka # "open"
ChannelClosed == kafka \in {"drained", "gone"}

-----------------------------------------------------------------------------
(* Logging an entry.                                                       *)

\* StructuredLogger: the entry is written to the console.
WriteToConsole(e) == console' = console \cup {e}

\* A closed service says nothing; else the console first, then Kafka.
Log(e) ==
    /\ entry[e] = "idle"
    /\ IF serviceClosed THEN UNCHANGED console ELSE WriteToConsole(e)
    /\ entry' = [entry EXCEPT ![e] = IF serviceClosed THEN "refused" ELSE "checking"]
    /\ UNCHANGED <<fatal, serviceClosed, kafka, logChan, logBatch, topic, processor, exited>>

Debug(e) == Log(e)
Info(e) == Log(e)
Warn(e) == Log(e)
Error(e) == Log(e)
LogRequest(e) == Log(e)
LogErrorEntry(e) == Log(e)
LogEvent(e) == Log(e)
LogMetric(e) == Log(e)

\* WithFields and WithContext hand out the console logger: what is logged through
\* it bypasses Kafka, and the check for a closed service.
WithFields(e) ==
    /\ entry[e] = "idle"
    /\ WriteToConsole(e)
    /\ entry' = [entry EXCEPT ![e] = "bypassed"]
    /\ UNCHANGED <<fatal, serviceClosed, kafka, logChan, logBatch, topic, processor, exited>>

\* The HTTP middlewares log through the service: one entry per request, and one
\* more for a status of 400 and above, for each error of gin, or for a panic.
RequestLogger(e, f) == LogRequest(e) \/ (entry[e] # "idle" /\ LogErrorEntry(f))
ErrorLogger(e) == LogErrorEntry(e)
PanicRecovery(e) == LogErrorEntry(e)

\* Fatal: Kafka first, the console and os.Exit after a pause.
Fatal(e) ==
    /\ entry[e] = "idle" /\ ~serviceClosed
    /\ fatal' = fatal \cup {e}
    /\ entry' = [entry EXCEPT ![e] = "checking"]
    /\ UNCHANGED <<console, serviceClosed, kafka, logChan, logBatch, topic, processor, exited>>

Exit(e) ==
    /\ e \in fatal /\ entry[e] \in {"sent", "dropped", "refused"}
    /\ WriteToConsole(e)
    /\ exited' = TRUE
    /\ UNCHANGED <<entry, fatal, serviceClosed, kafka, logChan, logBatch, topic, processor>>

\* LogToKafka, first half: closed is read under the lock.
LogToKafka(e) ==
    /\ entry[e] = "checking"
    /\ entry' = [entry EXCEPT ![e] = IF Cancelled THEN "refused" ELSE "sending"]
    /\ UNCHANGED <<fatal, console, serviceClosed, kafka, logChan, logBatch, topic, processor, exited>>

\* Second half, without the lock: a closed channel panics unless the select
\* sees the cancelled context; a full one drops the entry.
SendEntry(e) == \E how \in {"sent", "dropped", "refused", "panicked"} :
    /\ entry[e] = "sending"
    /\ how = "sent" => ~ChannelClosed /\ Len(logChan) < BufferSize
    /\ how = "dropped" => ~Cancelled /\ Len(logChan) = BufferSize
    /\ how = "refused" => Cancelled
    /\ how = "panicked" => ChannelClosed
    /\ entry' = [entry EXCEPT ![e] = how]
    /\ logChan' = IF how = "sent" THEN Append(logChan, e) ELSE logChan
    /\ UNCHANGED <<fatal, console, serviceClosed, kafka, logBatch, topic, processor, exited>>

-----------------------------------------------------------------------------
(* processLogs.                                                            *)

\* sendBatch: the whole batch goes to the writer.
sendBatch(batch) == topic' = topic \o batch

\* Faulty variant: a full batch is sent and not reset.
ReceiveEntryNoReset ==
    LET batch == Append(logBatch, Head(logChan))
    IN /\ processor = "running" /\ logChan # <<>>
       /\ logChan' = Tail(logChan)
       /\ logBatch' = batch
       /\ IF Len(batch) >= LogBatchSize THEN sendBatch(batch) ELSE UNCHANGED topic
       /\ UNCHANGED <<entry, fatal, console, serviceClosed, kafka, processor, exited>>

\* An entry arrives; a full batch is sent and reset.
ReceiveEntry ==
    LET batch == Append(logBatch, Head(logChan))
    IN /\ processor = "running" /\ logChan # <<>>
       /\ logChan' = Tail(logChan)
       /\ IF Len(batch) >= LogBatchSize
          THEN sendBatch(batch) /\ logBatch' = <<>>
          ELSE logBatch' = batch /\ UNCHANGED topic
       /\ UNCHANGED <<entry, fatal, console, serviceClosed, kafka, processor, exited>>

\* Faulty variant: the ticker is not served.
FlushOnTickerMissing == FALSE /\ UNCHANGED logVars

FlushOnTicker ==
    /\ processor = "running" /\ logBatch # <<>>
    /\ sendBatch(logBatch) /\ logBatch' = <<>>
    /\ UNCHANGED <<entry, fatal, console, serviceClosed, kafka, logChan, processor, exited>>

\* The context is done, or the channel is closed and empty: the batch is sent
\* and the goroutine returns.  What is still in the channel stays there.
FlushAndReturn ==
    /\ processor = "running"
    /\ Cancelled
    /\ sendBatch(logBatch) /\ logBatch' = <<>>
    /\ processor' = "returned"
    /\ UNCHANGED <<entry, fatal, console, serviceClosed, kafka, logChan, exited>>

-----------------------------------------------------------------------------
(* Close.                                                                  *)

CloseService ==
    /\ ~serviceClosed
    /\ serviceClosed' = TRUE
    /\ UNCHANGED <<entry, fatal, console, kafka, logChan, logBatch, topic, processor, exited>>

\* KafkaLogger.Close: closed and cancelled, then the channel is closed, then it
\* waits for the goroutine.
CloseKafka ==
    /\ serviceClosed
    /\ \/ kafka = "open" /\ kafka' = "closed"
       \/ kafka = "closed" /\ kafka' = "drained"
       \/ kafka = "drained" /\ processor = "returned" /\ kafka' = "gone"
    /\ UNCHANGED <<entry, fatal, console, serviceClosed, logChan, logBatch, topic, processor, exited>>

Processing == ~exited /\ (ReceiveEntry \/ FlushOnTicker \/ FlushAndReturn)

LogNext ==
    /\ ~exited
    /\ \/ \E e \in Entries :
            \/ Debug(e) \/ Info(e) \/ Warn(e) \/ Error(e) \/ LogRequest(e) \/ LogErrorEntry(e) \/ LogEvent(e) \/ LogMetric(e)
            \/ WithFields(e) \/ Fatal(e) \/ Exit(e) \/ LogToKafka(e) \/ SendEntry(e)
            \/ ErrorLogger(e) \/ PanicRecovery(e) \/ \E f \in Entries : RequestLogger(e, f)
       \/ ReceiveEntry \/ FlushOnTicker \/ FlushAndReturn
       \/ CloseService \/ CloseKafka

LogFairness == WF_logVars(Processing) /\ WF_logVars(~exited /\ CloseKafka)

-----------------------------------------------------------------------------
(* Properties.                                                             *)

Stream == INSTANCE LogStream WITH
    Message <- Entries, accepted <- topic \o logBatch \o logChan, delivered <- topic

\* Refinement: through the channel, the batches, the ticker and Close, the
\* Kafka logger is a stream that delivers in order, once and without gaps.
LogIsStream == Stream!StreamInit /\ [][Stream!StreamNext]_<<topic \o logBatch \o logChan, topic>>

\* Nothing accepted waits for ever: an entry in the channel or in the batch
\* reaches the writer, unless the logger is closed or the process exits.
EntriesDelivered == \A e \in Entries :
    entry[e] = "sent" ~> (Contains(topic, e) \/ Cancelled \/ exited)

=============================================================================
