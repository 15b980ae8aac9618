---------------------------- MODULE LoggingProofs ----------------------------
(***************************************************************************)
(* The Kafka logger implements LogStream, for every set of entries, every  *)
(* size of the channel and every size of a batch.  What is accepted is the *)
(* concatenation of topic, batch and channel, so the proof is about moving *)
(* entries from the head of one part to the end of the one before it.      *)
(***************************************************************************)
EXTENDS Logging, SequenceTheorems, TLAPS

\* The three parts of the stream are sequences of entries.
Parts == topic \in Seq(Entries) /\ logBatch \in Seq(Entries) /\ logChan \in Seq(Entries)

Accepted == topic \o logBatch \o logChan

-----------------------------------------------------------------------------
(* Moving elements between concatenated sequences.                         *)

\* Sending on the channel appends to the stream.
LEMMA AppendToLast ==
    ASSUME NEW S, NEW t \in Seq(S), NEW b \in Seq(S), NEW c \in Seq(S), NEW e \in S
    PROVE  t \o b \o Append(c, e) = Append(t \o b \o c, e)
<1>1. t \o b \in Seq(S)
  BY ConcatProperties
<1>2. t \o b \o c \in Seq(S)
  BY <1>1, ConcatProperties
<1>3. <<e>> \in Seq(S)
  OBVIOUS
<1>4. Append(c, e) = c \o <<e>> /\ Append(t \o b \o c, e) = (t \o b \o c) \o <<e>>
  BY <1>2, AppendIsConcat
<1> QED BY <1>1, <1>3, <1>4, ConcatAssociative

\* A sequence that is not empty is its head before its tail.
LEMMA HeadThenTail ==
    ASSUME NEW S, NEW c \in Seq(S), c # <<>>
    PROVE  c = <<Head(c)>> \o Tail(c)
<1>1. Head(c) \in S /\ Tail(c) \in Seq(S) /\ Len(Tail(c)) = Len(c) - 1
  BY HeadTailProperties
<1>2. \A i \in 1 .. Len(Tail(c)) : Tail(c)[i] = c[i + 1]
  BY HeadTailProperties
<1>3. Len(c) \in Nat /\ Len(c) # 0 /\ c[1] = Head(c)
  BY EmptySeq, LenProperties
<1>4. <<Head(c)>> \in Seq(S) /\ Len(<<Head(c)>>) = 1 /\ <<Head(c)>>[1] = Head(c)
  BY <1>1
<1>5. <<Head(c)>> \o Tail(c) \in Seq(S) /\ Len(<<Head(c)>> \o Tail(c)) = Len(c)
  BY <1>1, <1>3, <1>4, ConcatProperties
<1>6. \A i \in 1 .. Len(c) : (<<Head(c)>> \o Tail(c))[i] = c[i]
  <2> SUFFICES ASSUME NEW i \in 1 .. Len(c)
               PROVE  (<<Head(c)>> \o Tail(c))[i] = c[i]
    OBVIOUS
  <2>1. (<<Head(c)>> \o Tail(c))[i] = IF i <= 1 THEN <<Head(c)>>[i] ELSE Tail(c)[i - 1]
    BY <1>1, <1>3, <1>4, ConcatProperties
  <2>2. CASE i = 1
    BY <1>3, <1>4, <2>1, <2>2
  <2>3. CASE i # 1
    BY <1>1, <1>2, <1>3, <2>1, <2>3
  <2> QED BY <2>2, <2>3
<1> QED BY <1>5, <1>6, SeqEqual

\* Receiving from the channel moves an entry to the batch and leaves the stream as it is.
LEMMA MoveHead ==
    ASSUME NEW S, NEW t \in Seq(S), NEW b \in Seq(S), NEW c \in Seq(S), c # <<>>,
           NEW bh, NEW ct, bh = Append(b, Head(c)), ct = Tail(c)
    PROVE  bh \in Seq(S) /\ ct \in Seq(S) /\ t \o bh \o ct = t \o b \o c
<1>1. Head(c) \in S /\ Tail(c) \in Seq(S)
  BY HeadTailProperties
<1>2. Append(b, Head(c)) \in Seq(S) /\ Append(b, Head(c)) = b \o <<Head(c)>>
  BY <1>1, AppendProperties, AppendIsConcat
<1>3. <<Head(c)>> \in Seq(S)
  BY <1>1
<1>4. t \o (b \o <<Head(c)>>) = (t \o b) \o <<Head(c)>>
  BY <1>3, ConcatAssociative
<1>5. t \o b \in Seq(S)
  BY ConcatProperties
<1>6. ((t \o b) \o <<Head(c)>>) \o Tail(c) = (t \o b) \o (<<Head(c)>> \o Tail(c))
  BY <1>1, <1>3, <1>5, ConcatAssociative
<1>7. <<Head(c)>> \o Tail(c) = c
  BY HeadThenTail
<1> QED BY <1>1, <1>2, <1>4, <1>6, <1>7

\* Handing the batch to the writer leaves the stream as it is.
LEMMA FlushBatch ==
    ASSUME NEW S, NEW t \in Seq(S), NEW b \in Seq(S), NEW c \in Seq(S)
    PROVE  t \o b \in Seq(S) /\ (t \o b) \o <<>> \o c = t \o b \o c
<1>1. t \o b \in Seq(S)
  BY ConcatProperties
<1> QED BY <1>1, ConcatEmptySeq

\* What the topic holds after a batch is a prefix of the stream, longer by the batch.
LEMMA FlushedPrefix ==
    ASSUME NEW S, NEW t \in Seq(S), NEW b \in Seq(S), NEW c \in Seq(S), b # <<>>
    PROVE  LET n == Len(t \o b) IN
           /\ t \o b = SubSeq(t \o b \o c, 1, n)
           /\ n \in Len(t) .. Len(t \o b \o c) /\ n \in 1 .. Len(t \o b \o c)
<1> DEFINE n == Len(t \o b)
<1>1. t \o b \in Seq(S) /\ n = Len(t) + Len(b)
  BY ConcatProperties
<1>2. Len(t) \in Nat /\ Len(b) \in Nat \ {0} /\ Len(c) \in Nat
  BY EmptySeq, LenProperties
<1>3. Len(t \o b \o c) = n + Len(c)
  BY <1>1, ConcatProperties
<1>4. n \in Nat /\ n \in Len(t) .. n + Len(c) /\ n \in 1 .. n + Len(c) /\ n \in 1 .. n /\ 1 \in 1 .. n
  BY <1>1, <1>2
<1>5. SubSeq(t \o b \o c, 1, n) = SubSeq(t \o b, 1, n)
  BY <1>1, <1>4, SubSeqOfConcat1
<1>6. SubSeq(t \o b, 1, n) = t \o b
  BY <1>1, SubSeqFull
<1> QED BY <1>3, <1>4, <1>5, <1>6

-----------------------------------------------------------------------------
(* Steps of the logger and steps of the stream.                            *)

\* The steps that touch no part of the stream: what callers do before and after the
\* send, and both halves of Close.
LEMMA SilentStep ==
    ASSUME UNCHANGED <<logChan, logBatch, topic>>, Parts
    PROVE  Parts' /\ UNCHANGED <<Accepted, topic>>
BY DEF Parts, Accepted

\* LogToKafka's send either accepts the entry or leaves the stream as it is (SendEntry).
LEMMA SendStep ==
    ASSUME Parts, NEW e \in Entries, SendEntry(e)
    PROVE  /\ Parts'
           /\ (Accepted' = Append(Accepted, e) /\ topic' = topic) \/ UNCHANGED <<Accepted, topic>>
<1>1. topic' = topic /\ logBatch' = logBatch
  BY DEF SendEntry
<1>2. CASE logChan' = logChan
  BY <1>1, <1>2 DEF Parts, Accepted
<1>3. CASE logChan' = Append(logChan, e)
  <2>1. Parts'
    BY <1>1, <1>3, AppendProperties DEF Parts
  <2>2. Accepted' = Append(Accepted, e)
    BY <1>1, <1>3, AppendToLast DEF Parts, Accepted
  <2> QED BY <1>1, <2>1, <2>2
<1> QED BY <1>2, <1>3 DEF SendEntry

\* Whether the topic grows by a batch, as the stream's Deliver has it.
Delivers ==
    /\ Accepted' = Accepted
    /\ \E n \in 1 .. Len(Accepted) :
          n \in Len(topic) .. Len(Accepted) /\ topic' = SubSeq(Accepted, 1, n)

\* An entry moves to the batch, which is delivered when it is full (ReceiveEntry).
LEMMA ReceiveStep ==
    ASSUME Parts, ReceiveEntry
    PROVE  Parts' /\ (Delivers \/ UNCHANGED <<Accepted, topic>>)
<1> DEFINE batch == Append(logBatch, Head(logChan))
<1>0. topic \in Seq(Entries) /\ logBatch \in Seq(Entries) /\ logChan \in Seq(Entries)
  BY DEF Parts
<1>1. logChan # <<>> /\ logChan' = Tail(logChan)
  BY DEF ReceiveEntry
<1>2. batch \in Seq(Entries) /\ Tail(logChan) \in Seq(Entries)
      /\ topic \o batch \o Tail(logChan) = topic \o logBatch \o logChan
  <2>1. logChan # <<>> /\ batch = Append(logBatch, Head(logChan))
    BY <1>1
  <2> HIDE DEF batch
  <2> QED BY <1>0, <2>1, MoveHead
<1> HIDE DEF batch
<1>3. CASE logBatch' = batch /\ topic' = topic
  BY <1>1, <1>2, <1>3 DEF Parts, Accepted
<1>4. CASE topic' = topic \o batch /\ logBatch' = <<>>
  <2>1. Parts'
    BY <1>1, <1>2, <1>4, ConcatProperties DEF Parts
  <2>2. Accepted' = Accepted /\ Accepted = topic \o batch \o Tail(logChan)
    <3>1. (topic \o batch) \o <<>> \o Tail(logChan) = topic \o batch \o Tail(logChan)
      BY <1>0, <1>2, FlushBatch
    <3>2. Accepted' = (topic \o batch) \o <<>> \o Tail(logChan)
      BY <1>1, <1>4, Zenon DEF Accepted
    <3> QED BY <1>2, <3>1, <3>2, Zenon DEF Accepted
  <2>3. batch # <<>>
    BY <1>0, <1>1, HeadTailProperties, AppendProperties DEF batch
  <2>4. Delivers
    <3> DEFINE n == Len(topic \o batch)
    <3>1. /\ topic \o batch = SubSeq(topic \o batch \o Tail(logChan), 1, n)
          /\ n \in Len(topic) .. Len(topic \o batch \o Tail(logChan))
          /\ n \in 1 .. Len(topic \o batch \o Tail(logChan))
      BY <1>0, <1>2, <2>3, FlushedPrefix
    <3>2. n \in 1 .. Len(Accepted) /\ n \in Len(topic) .. Len(Accepted)
          /\ topic' = SubSeq(Accepted, 1, n)
      BY <1>4, <2>2, <3>1
    <3> HIDE DEF n
    <3> QED BY <2>2, <3>2 DEF Delivers
  <2> QED BY <2>1, <2>4
<1> QED BY <1>3, <1>4 DEF ReceiveEntry, sendBatch, batch

\* A batch that is flushed by the ticker, or on the way out, is delivered; an empty one
\* changes nothing (FlushOnTicker, FlushAndReturn).
LEMMA FlushStep ==
    ASSUME Parts, FlushOnTicker \/ FlushAndReturn
    PROVE  Parts' /\ (Delivers \/ UNCHANGED <<Accepted, topic>>)
<1>1. topic' = topic \o logBatch /\ logBatch' = <<>> /\ logChan' = logChan
  BY DEF FlushOnTicker, FlushAndReturn, sendBatch
<1>2. Parts'
  BY <1>1, ConcatProperties DEF Parts
<1>3. Accepted' = Accepted
  BY <1>1, FlushBatch DEF Parts, Accepted
<1>4. CASE logBatch = <<>>
  BY <1>1, <1>2, <1>3, <1>4, ConcatEmptySeq DEF Parts
<1>5. CASE logBatch # <<>>
  <2>1. Delivers
    <3> DEFINE n == Len(topic \o logBatch)
    <3>1. n \in 1 .. Len(Accepted) /\ n \in Len(topic) .. Len(Accepted)
          /\ topic' = SubSeq(Accepted, 1, n)
      BY <1>1, <1>5, FlushedPrefix DEF Parts, Accepted
    <3> HIDE DEF n
    <3> QED BY <1>3, <3>1 DEF Delivers
  <2> QED BY <1>2, <2>1
<1> QED BY <1>4, <1>5

\* Every step of the logger is a step of the stream, or leaves it as it is (LogNext).
LEMMA StepOfStream ==
    ASSUME Parts, [LogNext]_logVars
    PROVE  Parts' /\ [Stream!StreamNext]_<<Accepted, topic>>
<1>1. CASE UNCHANGED <<logChan, logBatch, topic>>
  BY <1>1, SilentStep
<1>2. CASE \E e \in Entries : SendEntry(e)
  <2>1. PICK e \in Entries : SendEntry(e)
    BY <1>2
  <2>2. Accepted' = Append(Accepted, e) /\ topic' = topic => Stream!StreamNext
    BY DEF Stream!StreamNext, Stream!Accept, Accepted
  <2> QED BY <2>1, <2>2, SendStep
<1>3. Delivers => Stream!StreamNext
  BY DEF Delivers, Stream!StreamNext, Stream!Deliver, Accepted
<1>4. CASE ReceiveEntry
  BY <1>3, <1>4, ReceiveStep
<1>5. CASE FlushOnTicker \/ FlushAndReturn
  BY <1>3, <1>5, FlushStep
<1>6. \/ UNCHANGED <<logChan, logBatch, topic>>
      \/ \E e \in Entries : SendEntry(e)
      \/ ReceiveEntry \/ FlushOnTicker \/ FlushAndReturn
  BY DEF LogNext, logVars, Log, Debug, Info, Warn, Error, LogRequest, LogErrorEntry, LogEvent,
         LogMetric, WithFields, Fatal, Exit, LogToKafka, ErrorLogger, PanicRecovery,
         RequestLogger, CloseService, CloseKafka
<1> QED BY <1>1, <1>2, <1>4, <1>5, <1>6

(***************************************************************************)
(* LoggerIsStream: the Kafka logger implements the stream of LogStream:    *)
(* entries reach the topic in the order in which the channel accepted      *)
(* them, once and without gaps, whatever the batches, the ticker and Close *)
(* do (KafkaLogger: LogToKafka, processLogs, Close).                       *)
(***************************************************************************)
THEOREM LoggerIsStream == LogInit /\ [][LogNext]_logVars => LogIsStream
<1>1. LogInit => Parts /\ Stream!StreamInit
  <2> SUFFICES ASSUME LogInit PROVE Parts /\ Stream!StreamInit
    OBVIOUS
  <2>1. topic = <<>> /\ logBatch = <<>> /\ logChan = <<>>
    BY DEF LogInit, NewKafkaLogger
  <2>2. <<>> \in Seq(Entries) /\ <<>> \o <<>> \o <<>> = <<>>
    BY EmptySeq, ConcatEmptySeq
  <2> QED BY <2>1, <2>2 DEF Parts, Stream!StreamInit
<1>2. Parts /\ [LogNext]_logVars
         => Parts' /\ [Stream!StreamNext]_<<topic \o logBatch \o logChan, topic>>
  BY StepOfStream DEF Accepted
<1> QED BY <1>1, <1>2, PTL DEF LogIsStream
=============================================================================
