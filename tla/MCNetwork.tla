----------------------------- MODULE MCNetwork -----------------------------
(***************************************************************************)
(* Instances of Network for TLC.  Addresses, nicks and channels are        *)
(* interchangeable; servers are not (Me and Hub are named).                *)
(***************************************************************************)
EXTENDS Network, TLC

MCSymmetry == Permutations(Addr) \cup Permutations(Nick) \cup Permutations(Chan)
=============================================================================
