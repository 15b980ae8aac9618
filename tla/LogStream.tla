----------------------------- MODULE LogStream -----------------------------
(***************************************************************************)
(* What the Kafka logger promises to those who log: a stream.  Messages    *)
(* are accepted one after the other and delivered in the order they were   *)
(* accepted, each once and without gaps; a message may be refused, and the *)
(* end of the stream may never be delivered.                               *)
(***************************************************************************)
EXTENDS Naturals, Sequences

CONSTANTS Message

VARIABLES accepted, delivered

StreamInit == accepted = <<>> /\ delivered = <<>>

Accept(m) == accepted' = Append(accepted, m) /\ UNCHANGED delivered

\* A batch: the next messages that were accepted and not delivered.
Deliver(n) ==
    /\ delivered' = SubSeq(accepted, 1, n)
    /\ n \in Len(delivered) .. Len(accepted)
    /\ UNCHANGED accepted

StreamNext == (\E m \in Message : Accept(m)) \/ (\E n \in 1 .. Len(accepted) : Deliver(n))

StreamSpec == StreamInit /\ [][StreamNext]_<<accepted, delivered>>
=============================================================================
