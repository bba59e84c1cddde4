----------------------------- MODULE ServerTree -----------------------------
(***************************************************************************)
(* The server tree as src/src/links.c keeps it: every Link names the Link  *)
(* that introduced it (uplink), or NULL.  Operators shared by the modules  *)
(* that squit servers; S is the set of servers in servlist and up the      *)
(* uplink of each.                                                         *)
(***************************************************************************)

\* The servers whose uplink is s: the ones the loop of exit_serv calls
\* exit_serv for (links.c:112-119).
Children(s, S, up) == {t \in S : up[t] = s}

\* D is closed when it holds the children of each of its members.
Closed(D, S, up) == \A x \in S : up[x] \in D => x \in D

\* What a complete exit_serv(s) removes: s and, through the recursive call,
\* whatever hangs below it.  It is the least closed set that holds s.
Subtree(s, S, up) ==
    {t \in S : \A D \in SUBSET S : s \in D /\ Closed(D, S, up) => t \in D}

\* The servers that Subtree reaches by more than one hop.
Grandchildren(s, S, up) ==
    {y \in Subtree(s, S, up) : y # s /\ up[y] # s}
=============================================================================
