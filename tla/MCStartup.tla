----------------------------- MODULE MCStartup -----------------------------
(* The life of the process alone, under its fairness. *)
EXTENDS Startup

MCSpec == StartInit /\ [][StartNext]_startVars /\ StartFairness
=============================================================================
