------------------------------ MODULE Netsplit ------------------------------
(***************************************************************************)
(* exit_serv (src/src/links.c) step by step.  The function walks servlist  *)
(* with DLINK_FOREACH_SAFE, which remembers the node after the current one *)
(* before the body runs, and the body calls exit_serv for every child it   *)
(* meets.  Each call in progress is a frame: the server it exits, the node *)
(* its loop is at and the node it has remembered.  A server stands for its *)
(* list node; the node is freed once the server is not in servlist.        *)
(***************************************************************************)
EXTENDS Integers, Sequences, SequencesExt, ServerTree

CONSTANTS User, Serv, Me, Hub, NoServ

ASSUME ServersExist == Me \in Serv /\ Hub \in Serv /\ Me # Hub
ASSUME NoServIsNone == NoServ \notin Serv

VARIABLES
    servlist,  \* the list of servers, in order of introduction
    up,        \* li->uplink
    home,      \* u->serv of the users in userlist, NoServ for the others
    stack,     \* the calls of exit_serv in progress, the innermost last
    before,    \* history: servers, uplinks and homes when the outermost call
               \* began; NoCall when none is in progress
    fault      \* "none", or how the code has left what C defines

vars == <<servlist, up, home, stack, before, fault>>

Servers == ToSet(servlist)

Frame == [s : Serv, cur : Serv \cup {NoServ}, nxt : Serv \cup {NoServ}]

TypeOK ==
    /\ servlist \in Seq(Serv) /\ IsInjective(servlist)
    /\ up \in [Serv -> Serv \cup {NoServ}]
    /\ home \in [User -> Serv \cup {NoServ}]
    /\ stack \in Seq(Frame)
    /\ fault \in {"none", "freed", "null"}

Snapshot == [servs |-> Servers, up |-> up, home |-> home]
NoCall == [servs |-> {}, up |-> [s \in Serv |-> NoServ],
           home |-> [u \in User |-> NoServ]]

Init ==
    /\ servlist = <<Me>>
    /\ up = [s \in Serv |-> NoServ]
    /\ home = [u \in User |-> NoServ]
    /\ stack = <<>>
    /\ before = NoCall
    /\ fault = "none"

Idle == stack = <<>>
Top == Last(stack)

\* pos->next, for a node in the list.
After(s) ==
    LET i == CHOOSE j \in DOMAIN servlist : servlist[j] = s
    IN  IF i = Len(servlist) THEN NoServ ELSE servlist[i + 1]

\* The first step of DLINK_FOREACH_SAFE in the call for s.
Enter(s) ==
    [s |-> s, cur |-> Head(servlist), nxt |-> After(Head(servlist))]

-----------------------------------------------------------------------------
(* Between two calls the network grows *)

\* omega_server without a prefix.
RecvServer ==
    /\ Idle
    /\ Me \in Servers /\ Hub \notin Servers
    /\ servlist' = Append(servlist, Hub)
    /\ up' = [up EXCEPT ![Me] = Hub]
    /\ UNCHANGED <<home, stack, before, fault>>

\* omega_sid: new_serv appends to servlist.
RecvSid(p, s) ==
    /\ Idle
    /\ p \in Servers \ {Me} /\ s \notin Servers \cup {Me, Hub}
    /\ servlist' = Append(servlist, s)
    /\ up' = [up EXCEPT ![s] = p]
    /\ UNCHANGED <<home, stack, before, fault>>

RecvUser(u, s) ==
    /\ Idle
    /\ home[u] = NoServ /\ s \in Servers
    /\ home' = [home EXCEPT ![u] = s]
    /\ UNCHANGED <<servlist, up, stack, before, fault>>

-----------------------------------------------------------------------------
(* exit_serv *)

\* omega_squit calls exit_serv, and find_serv finds s.
RecvSquit(s) ==
    /\ Idle
    /\ s \in Servers /\ Hub \in Servers
    /\ stack' = <<Enter(s)>>
    /\ before' = Snapshot
    /\ UNCHANGED <<servlist, up, home, fault>>

Running == ~Idle /\ fault = "none"

\* A wrong variant of AtChild: the loop never recurses.
AtNoChild == FALSE

\* The loop is at a child of the server that is exited.
AtChild == Top.cur \in Servers /\ up[Top.cur] = Top.s

\* The body calls exit_serv for the child.
Call ==
    /\ Running /\ Top.cur # NoServ
    /\ AtChild
    /\ stack' = Append(stack, Enter(Top.cur))
    /\ UNCHANGED <<servlist, up, home, before, fault>>

\* A wrong variant of Advance: pos->next is read after the body has run, as
\* DLINK_FOREACH does.
AdvanceUnsafe ==
    /\ Running /\ Top.cur # NoServ
    /\ ~AtChild
    /\ \/ /\ Top.cur \in Servers
          /\ stack' = Front(stack) \o <<[Top EXCEPT !.cur = After(Top.cur)]>>
          /\ UNCHANGED fault
       \/ /\ Top.cur \notin Servers
          /\ fault' = "freed"
          /\ UNCHANGED stack
    /\ UNCHANGED <<servlist, up, home, before>>

\* pos = n, n = pos->next: the remembered node is read now.
Advance ==
    /\ Running /\ Top.cur # NoServ
    /\ ~AtChild
    /\ \/ /\ Top.nxt = NoServ
          /\ stack' = Front(stack) \o <<[Top EXCEPT !.cur = NoServ]>>
          /\ UNCHANGED fault
       \/ /\ Top.nxt \in Servers
          /\ stack' = Front(stack) \o
                <<[Top EXCEPT !.cur = Top.nxt, !.nxt = After(Top.nxt)]>>
          /\ UNCHANGED fault
       \/ /\ Top.nxt \notin Servers \cup {NoServ}
          /\ fault' = "freed"
          /\ UNCHANGED stack
    /\ UNCHANGED <<servlist, up, home, before>>

\* Wrong variants of Finish: the users of s stay, or s stays in servlist.
FinishKeepsUsers ==
    /\ Running /\ Top.cur = NoServ
    /\ up[Top.s] # NoServ
    /\ servlist' = RemoveFirst(servlist, Top.s)
    /\ up' = [up EXCEPT ![Top.s] = NoServ]
    /\ stack' = Front(stack)
    /\ before' = IF Len(stack) = 1 THEN NoCall ELSE before
    /\ UNCHANGED <<home, fault>>
FinishKeepsServer ==
    /\ Running /\ Top.cur = NoServ
    /\ up[Top.s] # NoServ
    /\ home' = [u \in User |-> IF home[u] = Top.s THEN NoServ ELSE home[u]]
    /\ stack' = Front(stack)
    /\ before' = IF Len(stack) = 1 THEN NoCall ELSE before
    /\ UNCHANGED <<servlist, up, fault>>

\* After the loop: the log line names the uplink of s, the users on s are
\* exited, s is taken off servlist and freed.
Finish ==
    /\ Running /\ Top.cur = NoServ
    /\ \/ /\ up[Top.s] # NoServ
          /\ servlist' = RemoveFirst(servlist, Top.s)
          /\ up' = [up EXCEPT ![Top.s] = NoServ]
          /\ home' = [u \in User |-> IF home[u] = Top.s THEN NoServ ELSE home[u]]
          /\ stack' = Front(stack)
          /\ before' = IF Len(stack) = 1 THEN NoCall ELSE before
          /\ UNCHANGED fault
       \/ /\ up[Top.s] = NoServ
          /\ fault' = "null"
          /\ UNCHANGED <<servlist, up, home, stack, before>>

Walk == Call \/ Advance \/ Finish

\* A process that has faulted takes no further described step.
Halted == fault # "none" /\ UNCHANGED vars

Next ==
    \/ RecvServer
    \/ \E p, s \in Serv : RecvSid(p, s)
    \/ \E u \in User, s \in Serv : RecvUser(u, s)
    \/ \E s \in Serv : RecvSquit(s)
    \/ Walk
    \/ Halted

\* The call runs on the daemon's only thread: once begun it goes on.
Spec == Init /\ [][Next]_vars /\ WF_vars(Walk)

-----------------------------------------------------------------------------
(* Correctness *)

\* The walk with its recursive calls implements the netsplit of NetTree: when
\* the outermost call returns, the whole subtree is gone, with its users,
\* and nothing else is.  Until then the abstract network is the one there
\* was when the call began; after a fault it stays there.
Tree == INSTANCE NetTree WITH
    servs <- IF Idle THEN Servers ELSE before.servs,
    up    <- IF Idle THEN up ELSE before.up,
    home  <- IF Idle THEN home ELSE before.home
ImplementsTree == Tree!Spec

\* Leaves go first: at no step, in the middle of nested calls, does a server
\* in the list have an uplink that is freed.  Every pass of the loop reads
\* li->uplink->name of every server.  (The types of the variables with it.)
UplinksReadable ==
    /\ TypeOK
    /\ fault = "none" => \A s \in Servers : up[s] \in Servers \cup {NoServ}

\* The loop can only step on a freed node when the exited server has a server
\* two hops below it: a child's own call must have freed more than the child.
StaleNeedsGrandchild ==
    fault = "freed" =>
        Grandchildren(stack[1].s, before.servs, before.up) # {}

\* exit_serv returns, unless it faults: the recursion ends and every loop
\* comes to the end of a list that others shorten under it.
Returns == ~Idle ~> (Idle \/ fault # "none")

=============================================================================
