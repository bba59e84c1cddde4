------------------------------ MODULE Visitors ------------------------------
(***************************************************************************)
(* What the client modules (g_sessions, g_scan, g_watch) see of the        *)
(* network: remote users that come and go, the channels they join, the     *)
(* burst, the loss of the link, and the chain of USERCONN handlers that    *)
(* AddUser runs.  The chain is a sequence of steps, one per handler,       *)
(* because a handler may kill the user that the next ones are called with. *)
(*                                                                         *)
(* fault is set where the code reads freed memory: that step is modelled,  *)
(* what follows is not.                                                    *)
(***************************************************************************)
EXTENDS Naturals, Sequences, SequencesExt, FiniteSetsExt, Functions, Lists

CONSTANTS
    Addr,      \* addresses of User structs
    Guardian,  \* the struct of our own client
    Freed,     \* what is left of a pointer to a freed struct
    Setups     \* the instances: modules loaded, users, channels, configuration

\* The blocks of the configuration and the rows of the database come in an order.
ASSUME VisitorsAssumption ==
    \A s \in Setups : \A list \in {s.exempts, s.exrows, s.watches} : list \in Seq(ToSet(list))

ASSUME GuardianAssumption == Guardian \notin Addr

VARIABLES
    setup,    \* the instance at hand
    loaded,   \* modules in the order of their handlers in the event list
    user,     \* the remote users in userlist: address -> what they are
    members,  \* channel -> users on it
    sync,     \* sync_state: "startup", "bursting" or "running"
    linked,   \* there is an uplink
    chain,    \* USERCONN handlers yet to be called
    guest,    \* the user they are called with
    fault     \* "none", or the freed thing that was read

visitorVars == <<setup, loaded, user, members, sync, linked, chain, guest, fault>>

Live  == DOMAIN user
Chans == setup.chans
Loaded(m) == m \in ToSet(loaded)
Calm  == fault = "none" /\ chain = <<>>
Handling(m) == fault = "none" /\ chain # <<>> /\ Head(chain) = m

InitVisitors ==
    /\ setup \in Setups
    /\ loaded = <<>>
    /\ user = <<>>
    /\ members = [c \in setup.chans |-> {}]
    /\ sync = "startup" /\ linked = FALSE
    /\ chain = <<>> /\ guest = Guardian
    /\ fault = "none"

----------------------------------------------------------------------------
Listening == Picked(loaded, {i \in DOMAIN loaded : loaded[i] \in {"g_scan", "g_watch", "g_sessions"}})

\* AddUser, up to the event.
AddUser(a, what) ==
    /\ Calm /\ linked /\ a \in setup.addr \ Live
    /\ user' = [x \in Live \cup {a} |-> IF x = a THEN what ELSE user[x]]
    /\ chain' = Listening /\ guest' = a
    /\ UNCHANGED <<setup, loaded, members, sync, linked, fault>>

\* The handler at hand returns.
Handled == chain' = Tail(chain)

\* Every handler looks at the user first; an earlier one may have killed it.
ReadFreed ==
    /\ fault = "none" /\ chain # <<>> /\ guest \notin Live
    /\ fault' = "freed user"
    /\ UNCHANGED <<setup, loaded, user, members, sync, linked, chain, guest>>

\* The users S go: exit_user, exit_one_user.
ExitUsers(S) ==
    /\ user' = Restrict(user, Live \ S)
    /\ members' = [c \in Chans |-> members[c] \ S]

\* uplink_cleanup: everybody the uplink told us about goes.  sync_state stays.
LoseLink ==
    /\ Calm /\ linked
    /\ linked' = FALSE
    /\ ExitUsers(Live)
    /\ UNCHANGED <<setup, loaded, sync, chain, guest, fault>>

Connect ==
    /\ Calm /\ ~linked
    /\ linked' = TRUE /\ sync' = "bursting"
    /\ UNCHANGED <<setup, loaded, user, members, chain, guest, fault>>

\* The peer's first PING raises BURST.  burst_local_users is the first handler
\* and stops the chain at the first user that is not ours.
BurstStopped == Live # {}
EndBurst ==
    /\ Calm /\ linked /\ sync = "bursting"
    /\ sync' = "running"
    /\ UNCHANGED <<setup, loaded, user, members, linked, chain, guest, fault>>

\* NewNick, or a user mode: a is from now on as what says, on the same host.
Change(a, what) ==
    /\ Calm /\ a \in Live
    /\ what # user[a] /\ what.host = user[a].host /\ what.service = user[a].service
    /\ user' = [user EXCEPT ![a] = what]
    /\ UNCHANGED <<setup, loaded, members, sync, linked, chain, guest, fault>>

Quit(a) ==
    /\ Calm /\ a \in Live
    /\ ExitUsers({a})
    /\ UNCHANGED <<setup, loaded, sync, linked, chain, guest, fault>>

\* A module is loaded, at start-up or later: its handlers are the last in the list.
LoadModule(m) ==
    /\ Calm /\ m \in setup.modules /\ ~Loaded(m)
    /\ loaded' = Append(loaded, m)

UnloadModule(m) ==
    /\ Calm /\ Loaded(m)
    /\ loaded' = RemoveFirst(loaded, m)

=============================================================================
