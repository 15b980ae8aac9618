---------------------------- MODULE MCBulkLive ----------------------------
(***************************************************************************)
(* Progress of goroutines over shared state: those of the bulk evaluator   *)
(* on the worker pool, and those of the cache warmer.  The two share no    *)
(* variables: a behaviour moves one of them, and no fair action of the     *)
(* other is enabled in its initial states.                                 *)
(***************************************************************************)
EXTENDS BulkEvaluator, CacheWarming

VARIABLE part

MCInit == part \in {"calls", "warming"} /\ BulkInit /\ WarmingInit

Calling == part = "calls" /\ BulkNext /\ UNCHANGED warmingVars
Warming == part = "warming" /\ WarmingNext /\ UNCHANGED bulkVars

MCNext == (Calling \/ Warming) /\ UNCHANGED part

MCSpec ==
    /\ MCInit /\ [][MCNext]_<<part, bulkVars, warmingVars>>
    /\ BulkFairness /\ WarmingFairness
=============================================================================
