-------------------------- MODULE MCInfrastructure --------------------------
(***************************************************************************)
(* What the service stands on: the event producer with its files, the      *)
(* specialized pools, and replicas that start and stop on one database.    *)
(* They share no variables: a behaviour moves one of them, its part, and   *)
(* the others stay as they began.                                          *)
(***************************************************************************)
EXTENDS EventProducer, SpecializedPools, Startup

VARIABLE part

\* Events and replicas are the same model values.
MCSymmetry == Permutations(Events \cup Replicas)

MCInit ==
    /\ part \in {"events", "hashing", "warming", "audit", "process"}
    /\ ProducerInit /\ PoolsInit /\ StartInit

Publishing == part = "events" /\ ProducerNext /\ UNCHANGED <<poolVars, startVars>>

Pooling ==
    /\ ~dead
    /\ \/ part \in {"hashing", "warming", "audit"} /\ PoolStep
       \/ part = "hashing" /\ HashingStep
       \/ part = "warming" /\ WarmingStep
       \/ part = "audit" /\ AuditStep
    /\ UNCHANGED <<producerVars, startVars>>

Process == part = "process" /\ StartNext /\ UNCHANGED <<producerVars, poolVars>>

MCNext == (Publishing \/ Pooling \/ Process) /\ UNCHANGED part

MCSpec == MCInit /\ [][MCNext]_<<part, producerVars, poolVars, startVars>>
=============================================================================
