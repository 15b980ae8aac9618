------------------------------ MODULE MCRedis ------------------------------
(***************************************************************************)
(* What the service keeps in Redis with a lifetime, and beside it: the     *)
(* counters and blocks of the login limiter with the lock of the account,  *)
(* the two levels of the cache, and the invalidator with its tags.  They   *)
(* share no variables: a behaviour moves one of them, its part, and the    *)
(* others stay as they began.                                              *)
(***************************************************************************)
EXTENDS Authentication, CacheManager, CacheInvalidation, TLC

VARIABLE part

\* Requests, clients of the cache and its keys are the same model values, and so are
\* values and calls of the invalidator.
MCSymmetry == Permutations(Procs \cup Clients \cup CachedKeys) \cup Permutations(Values \cup Work)

MCInit ==
    /\ part \in {"login", "cache", "invalidation"}
    /\ Init /\ CacheInit /\ InvalidationInit
    /\ part # "cache" => mode = "multi"

Logins == part = "login" /\ Next /\ UNCHANGED <<cacheVars, invalidationVars>>
Caching == part = "cache" /\ CacheNext /\ UNCHANGED <<vars, invalidationVars>>
Invalidating == part = "invalidation" /\ InvalidationNext /\ UNCHANGED <<vars, cacheVars>>

MCNext == (Logins \/ Caching \/ Invalidating) /\ UNCHANGED part

MCSpec == MCInit /\ [][MCNext]_<<part, vars, cacheVars, invalidationVars>>
=============================================================================
