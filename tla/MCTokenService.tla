--------------------------- MODULE MCTokenService ---------------------------
(***************************************************************************)
(* TokenService for TLC.  A behaviour of MCSpec is of one of three kinds.  *)
(* Revocation: one pair of tokens is generated, validated, revoked and     *)
(* swept while Redis and the database fail and time passes.  Rotation: two *)
(* pairs, the second by refreshing the first, while the signing key is     *)
(* rotated and the cache fails, at one instant.  Reuse: the same under one *)
(* key, while time passes.  The violation runs take Spec itself.           *)
(***************************************************************************)
EXTENDS TokenService, TLC

CONSTANT PairsRevoked   \* bound on the pairs generated in a revocation

VARIABLE part

\* The requests are interchangeable.
ProcSymmetry == Permutations(Procs)

Revocation == INSTANCE TokenService WITH
    Offered <- {"generate", "validate", "revoke", "revokeAll"}, SweptTypes <- {"access"},
    Failures <- {"redis", "db"}, MaxVersion <- 1

Rotation == INSTANCE TokenService WITH
    Offered <- {"generate", "refresh"}, SweptTypes <- {}, Failures <- {"cache"},
    MaxTime <- 0

Reuse == INSTANCE TokenService WITH
    Offered <- {"generate", "refresh"}, SweptTypes <- {}, Failures <- {"cache"},
    MaxTime <- 1, MaxVersion <- 1

MCInit == part \in {"revocation", "rotation", "reuse"} /\ Init

RevocationPart ==
    /\ part = "revocation"
    /\ Revocation!Next
    /\ nextToken' <= 2 * PairsRevoked + 1

RotationPart == part = "rotation" /\ Rotation!Next

ReusePart == part = "reuse" /\ Reuse!Next

MCNext == (RevocationPart \/ RotationPart \/ ReusePart) /\ UNCHANGED part

MCSpec == MCInit /\ [][MCNext]_<<vars, part>>
=============================================================================
