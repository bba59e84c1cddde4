----------------------------- MODULE MCNetsplit -----------------------------
(***************************************************************************)
(* Instances of Netsplit for TLC: five servers are enough for a server two *)
(* hops below one that can be exited, with the node of a third between.    *)
(***************************************************************************)
EXTENDS Netsplit
=============================================================================
