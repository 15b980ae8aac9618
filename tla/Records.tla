------------------------------- MODULE Records -------------------------------
(***************************************************************************)
(* Records of which a step sets some fields: the struct a handler fills    *)
(* in, the row it changes.                                                 *)
(***************************************************************************)

\* The record r with the given fields set.
With(r, fields) ==
    [f \in DOMAIN r \cup DOMAIN fields |-> IF f \in DOMAIN fields THEN fields[f] ELSE r[f]]

=============================================================================
