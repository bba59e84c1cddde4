------------------------------ MODULE NetTree ------------------------------
(***************************************************************************)
(* What servlist and userlist promise of the IRC network: a tree of        *)
(* servers, each user on one of them, and a netsplit that takes a whole    *)
(* subtree with its users in one step.  Network and Netsplit implement it. *)
(***************************************************************************)
EXTENDS ServerTree

CONSTANTS User, Serv, Me, Hub, NoServ

VARIABLES
    servs,  \* the servers known
    up,     \* the uplink of each
    home    \* the server of each user; NoServ when the user is not known

vars == <<servs, up, home>>

Init ==
    /\ servs = {Me}
    /\ up = [s \in Serv |-> NoServ]
    /\ home = [u \in User |-> NoServ]

\* The uplink introduces itself: it becomes our uplink.
Adopt ==
    /\ Me \in servs
    /\ servs' = servs \cup {Hub}
    /\ up' = [up EXCEPT ![Me] = Hub]
    /\ UNCHANGED home

\* A server p introduces the server s behind it.
Introduce(p, s) ==
    /\ p \in servs /\ s \notin servs
    /\ servs' = servs \cup {s}
    /\ up' = [up EXCEPT ![s] = p]
    /\ UNCHANGED home

Enter(u, s) ==
    /\ home[u] = NoServ /\ s \in servs
    /\ home' = [home EXCEPT ![u] = s]
    /\ UNCHANGED <<servs, up>>

Exit(u) ==
    /\ home' = [home EXCEPT ![u] = NoServ]
    /\ UNCHANGED <<servs, up>>

\* A netsplit at s.
Squit(s) ==
    LET gone == Subtree(s, servs, up)
    IN  /\ s \in servs
        /\ servs' = servs \ gone
        /\ up' = [t \in Serv |-> IF t \in gone THEN NoServ ELSE up[t]]
        /\ home' = [u \in User |-> IF home[u] \in gone THEN NoServ ELSE home[u]]

\* The link is lost: we and our users are on our own.
Alone ==
    /\ servs' = {Me}
    /\ up' = [s \in Serv |-> NoServ]
    /\ home' = [u \in User |-> IF home[u] = Me THEN Me ELSE NoServ]

Next ==
    \/ Adopt
    \/ \E p, s \in Serv : Introduce(p, s)
    \/ \E u \in User, s \in Serv : Enter(u, s)
    \/ \E u \in User : Exit(u)
    \/ \E s \in Serv : Squit(s)
    \/ Alone

Spec == Init /\ [][Next]_vars
=============================================================================
