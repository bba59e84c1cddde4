----------------------------- MODULE MCHelpers -----------------------------
(* Instances of Helpers for TLC. *)
EXTENDS Helpers

Kinds == [r \in Remote |-> IF r = "r1" THEN 2 ELSE 1]

=============================================================================
