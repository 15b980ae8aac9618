---------------------------- MODULE MCBackground ----------------------------
(***************************************************************************)
(* What must go on by itself: the event producer with Stop and a restart,  *)
(* the Kafka logger, and the blocks of the login limiter.  They share no   *)
(* variables: a behaviour moves one of them.  No fair action of the others *)
(* is enabled in their initial states, so the fairness of all can be       *)
(* assumed at once.                                                        *)
(***************************************************************************)
EXTENDS EventProducer, Logging, Authentication

VARIABLE part

MCInit ==
    /\ part \in {"events", "logging", "login"}
    /\ ProducerInit /\ LogInit /\ Init

Publishing == part = "events" /\ ProducerNext /\ UNCHANGED <<logVars, vars>>
Logs == part = "logging" /\ LogNext /\ UNCHANGED <<producerVars, vars>>
Logins == part = "login" /\ Next /\ UNCHANGED <<producerVars, logVars>>

MCNext == (Publishing \/ Logs \/ Logins) /\ UNCHANGED part

MCSpec ==
    /\ MCInit /\ [][MCNext]_<<part, producerVars, logVars, vars>>
    /\ ProducerFairness /\ LogFairness /\ WF_vars(Tick)
=============================================================================
