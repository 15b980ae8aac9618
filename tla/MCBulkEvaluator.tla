-------------------------- MODULE MCBulkEvaluator --------------------------
(***************************************************************************)
(* The worker pool and the bulk evaluator for TLC.  A behaviour of MCSpec  *)
(* is one of the pool, with callers of its API who start, submit and stop  *)
(* as they like, or one of the evaluator, whose calls share the pool.      *)
(***************************************************************************)
EXTENDS BulkEvaluator, TLC

VARIABLE part

\* The calls are interchangeable in the safety properties.
CallSymmetry == Permutations(BulkCalls)

MCInit == part \in {"pool", "evaluator"} /\ BulkInit

PoolPart == part = "pool" /\ Next /\ UNCHANGED callVars

EvaluatorPart == part = "evaluator" /\ BulkNext

MCNext == (PoolPart \/ EvaluatorPart) /\ UNCHANGED part

MCSpec == MCInit /\ [][MCNext]_<<bulkVars, part>>
=============================================================================
