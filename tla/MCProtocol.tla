----------------------------- MODULE MCProtocol -----------------------------
(* Instances of Protocol for TLC. *)
EXTENDS Protocol

\* Two acts and two links for the dialects that keep something from one link to
\* the next, in either of their ways; one for the others.
Keeping == {"charybdis", "inspircd12"}
Twice == [d \in DOMAIN Dialects |-> IF d \in Keeping THEN 2 ELSE 1]
All == DOMAIN Dialects
=============================================================================
