------------------------------- MODULE Lists --------------------------------
(***************************************************************************)
(* A list of the code (dlink.c) without some of its nodes, in the form the *)
(* proofs can reason about: SelectSeq is defined by recursion.             *)
(***************************************************************************)
EXTENDS Integers, Sequences, FiniteSets

\* The place of i among the numbers I.
RankIn(I, i) == Cardinality({k \in I : k <= i})

\* What stands at the places I of the list, in its order.
Picked(list, I) == [j \in 1..Cardinality(I) |-> list[CHOOSE i \in I : RankIn(I, i) = j]]

=============================================================================
