------------------------------ MODULE Network ------------------------------
(***************************************************************************)
(* What the daemon believes about the IRC network: userlist (user.c),      *)
(* channels (channel.c) and servlist (links.c), changed by the messages    *)
(* of the uplink (the handlers of modules/protocol), by our own clients    *)
(* and by the loss of the link (uplink_cleanup, socketengine.c).           *)
(*                                                                         *)
(* The daemon is single threaded here: an action is one message handler,   *)
(* with everything it calls.  A User is named by the address of its        *)
(* struct, since lists hold pointers; a Channel and a Link by their name,  *)
(* since new_chan and new_serv return the struct that has the name         *)
(* already.  `fault' becomes TRUE when the code reads or writes memory     *)
(* that is freed, uninitialised or NULL: nothing is said of what it does   *)
(* from then on.                                                           *)
(***************************************************************************)
EXTENDS Integers, FiniteSets, ServerTree

CONSTANTS
    Addr,      \* addresses malloc can give to a User
    Nick,      \* nicknames
    Chan,      \* channel names
    Serv,      \* server names
    Me,        \* CfgSettings.servername
    Hub,       \* the name the uplink introduces itself with
    NoServ,    \* a Link pointer that is NULL (uplink) or was never set (serv)
    NoNick,    \* the nick of an address that is not in use
    MaxGhost   \* bound: how far usercnt may run ahead of the list

ASSUME AddrFinite    == IsFiniteSet(Addr)
ASSUME ServersExist  == Me \in Serv /\ Hub \in Serv /\ Me # Hub
ASSUME NoServIsNone  == NoServ \notin Serv
ASSUME NoNickIsNone  == NoNick \notin Nick
ASSUME MaxGhostIsNat == MaxGhost \in Nat

VARIABLES
    users,     \* userlist
    nick,      \* u->nick
    home,      \* u->serv
    mine,      \* u->myconnect
    chans,     \* u->channels
    channels,  \* the list `channels'
    members,   \* c->users
    usercnt,   \* c->usercnt
    servs,     \* servlist
    up,        \* li->uplink
    linked,    \* servsock->sd # -1
    fault      \* the code has left what C defines

userVars == <<users, nick, home, mine>>
chanVars == <<chans, channels, members, usercnt>>
servVars == <<servs, up>>
vars == <<userVars, chanVars, servVars, linked, fault>>

TypeOK ==
    /\ users \in SUBSET Addr
    /\ nick \in [Addr -> Nick \cup {NoNick}]
    /\ home \in [Addr -> Serv \cup {NoServ}]
    /\ mine \in [Addr -> BOOLEAN]
    /\ chans \in [Addr -> SUBSET Chan]
    /\ channels \in SUBSET Chan
    /\ members \in [Chan -> SUBSET Addr]
    /\ usercnt \in [Chan -> Nat]
    /\ servs \in SUBSET Serv
    /\ up \in [Serv -> Serv \cup {NoServ}]
    /\ linked \in BOOLEAN
    /\ fault \in BOOLEAN

\* main.c Run: our own server is created before any module is loaded.
Init ==
    /\ users = {}
    /\ nick = [a \in Addr |-> NoNick]
    /\ home = [a \in Addr |-> NoServ]
    /\ mine = [a \in Addr |-> FALSE]
    /\ chans = [a \in Addr |-> {}]
    /\ channels = {}
    /\ members = [c \in Chan |-> {}]
    /\ usercnt = [c \in Chan |-> 0]
    /\ servs = {Me}
    /\ up = [s \in Serv |-> NoServ]
    /\ linked = FALSE
    /\ fault = FALSE

-----------------------------------------------------------------------------
(* Helpers *)

\* find_user finds somebody for the nick n.
Known(n) == \E a \in users : nick[a] = n

\* new_user and NewClient leave u->serv as malloc returned it; only the
\* lines after a successful find_serv set it.
Unset(a) == home[a] = NoServ

\* Users the uplink can name: the ones it introduced and the ones we did.
Visible == {a \in users : ~Unset(a)}
Remote == {a \in Visible : ~mine[a]}
Ours == {a \in users : mine[a]}

\* The process stops being described: C does not define what comes next.
Faults == fault' = TRUE /\ UNCHANGED <<userVars, chanVars, servVars, linked>>

\* new_user, with what its caller fills in.
PutUser(a, n, s, m) ==
    /\ users' = users \cup {a}
    /\ nick' = [nick EXCEPT ![a] = n]
    /\ home' = [home EXCEPT ![a] = s]
    /\ mine' = [mine EXCEPT ![a] = m]

\* Wrong variants of Join, for the properties to tell from it: the count goes
\* up for a user in_channel finds there already, or never goes up.
JoinCountsTwice(S, c) ==
    LET old == IF c \in channels THEN members[c] ELSE {}
        cnt == IF c \in channels THEN usercnt[c] ELSE 0
    IN  /\ channels' = channels \cup {c}
        /\ members' = [members EXCEPT ![c] = old \cup S]
        /\ usercnt' = [usercnt EXCEPT ![c] = cnt + Cardinality(S)]
        /\ chans' = [a \in Addr |-> IF a \in S THEN chans[a] \cup {c}
                                               ELSE chans[a]]
JoinUncounted(S, c) ==
    LET old == IF c \in channels THEN members[c] ELSE {}
    IN  /\ channels' = channels \cup {c}
        /\ members' = [members EXCEPT ![c] = old \cup S]
        /\ chans' = [a \in Addr |-> IF a \in S THEN chans[a] \cup {c}
                                               ELSE chans[a]]
        /\ UNCHANGED usercnt

\* AddToChannel for every user of S in turn, after the new_chan that creates
\* the channel or returns the one there is.
Join(S, c) ==
    LET new == {a \in S : c \notin chans[a]}
        old == IF c \in channels THEN members[c] ELSE {}
        cnt == IF c \in channels THEN usercnt[c] ELSE 0
    IN  /\ channels' = channels \cup {c}
        /\ members' = [members EXCEPT ![c] = old \cup new]
        /\ usercnt' = [usercnt EXCEPT ![c] = cnt + Cardinality(new)]
        /\ chans' = [a \in Addr |-> IF a \in new THEN chans[a] \cup {c}
                                                 ELSE chans[a]]

\* A wrong variant of Leave: an empty channel is never freed.
LeaveFreesNone(out) ==
    /\ members' = [c \in Chan |-> members[c] \ out[c]]
    /\ usercnt' = [c \in Chan |-> usercnt[c] - Cardinality(out[c])]
    /\ chans' = [a \in Addr |-> {c \in chans[a] : a \notin out[c]}]
    /\ UNCHANGED channels

\* DelFromChannel(a, c) for every a and c with a \in out[c]: both lists lose
\* the other, the count goes down, and at zero the channel is freed.
Leave(out) ==
    LET left(c) == usercnt[c] - Cardinality(out[c])
        freed == {c \in channels : out[c] # {} /\ left(c) <= 0}
    IN  /\ channels' = channels \ freed
        /\ members' = [c \in Chan |-> members[c] \ out[c]]
        /\ usercnt' = [c \in Chan |-> IF c \in freed THEN 0 ELSE left(c)]
        /\ chans' = [a \in Addr |-> {c \in chans[a] : a \notin out[c]}]

\* What find_chanuser finds for the users of D in their own channel lists.
Found(D) == [c \in Chan |-> {a \in D \cap members[c] : c \in chans[a]}]

\* exit_user, exit_one_user: leave every channel, then leave userlist.
ExitUsers(D) ==
    /\ Leave(Found(D))
    /\ users' = users \ D
    /\ nick' = [a \in Addr |-> IF a \in D THEN NoNick ELSE nick[a]]
    /\ home' = [a \in Addr |-> IF a \in D THEN NoServ ELSE home[a]]
    /\ mine' = [a \in Addr |-> IF a \in D THEN FALSE ELSE mine[a]]

-----------------------------------------------------------------------------
(* The link *)

\* main.c Run, ev_connectuplink: Connect succeeds and ircd_connect runs.
ConnectUplink ==
    /\ ~fault /\ ~linked
    /\ linked' = TRUE
    /\ UNCHANGED <<userVars, chanVars, servVars, fault>>

\* A wrong variant of exit_all_servs: only the uplink's server goes.
FreeHubOnly ==
    /\ servs' = servs \ {Hub}
    /\ up' = [up EXCEPT ![Me] = NoServ, ![Hub] = NoServ]

\* exit_all_servs frees every server but our own.
FreeServers ==
    /\ servs' = servs \cap {Me}
    /\ up' = [s \in Serv |-> NoServ]

\* A wrong variant of LoseUplink: our own clients are exited as well.
LoseEverybody ==
    /\ ~fault /\ linked
    /\ Me \in servs
    /\ ExitUsers(users)
    /\ FreeServers
    /\ linked' = FALSE
    /\ UNCHANGED fault

\* uplink_cleanup(NULL, 0), on an error of the uplink socket.  With our own
\* server gone, Omega->me points to freed memory and is written.
LoseUplink ==
    /\ ~fault /\ linked
    /\ \/ /\ Me \in servs
          /\ ExitUsers(users \ Ours)
          /\ FreeServers
          /\ linked' = FALSE
          /\ UNCHANGED fault
       \/ /\ Me \notin servs
          /\ Faults

-----------------------------------------------------------------------------
(* Servers *)

\* A wrong variant of RecvServer: our own server is not put below the uplink.
RecvServerNoUplink ==
    /\ ~fault /\ linked /\ Me \in servs
    /\ servs' = servs \cup {Hub}
    /\ UNCHANGED <<userVars, chanVars, up, linked, fault>>

\* omega_server without a prefix: the uplink introduces itself.
RecvServer ==
    /\ ~fault /\ linked
    /\ \/ /\ Me \in servs
          /\ servs' = servs \cup {Hub}
          /\ up' = [up EXCEPT ![Me] = Hub]
          /\ UNCHANGED <<userVars, chanVars, linked, fault>>
       \/ /\ Me \notin servs
          /\ Faults

\* omega_sid, omega_server: p introduces s.
RecvSid(p, s) ==
    /\ ~fault /\ linked
    /\ p \in servs \ {Me}
    /\ s \notin servs \cup {Me, Hub}
    /\ servs' = servs \cup {s}
    /\ up' = [up EXCEPT ![s] = p]
    /\ UNCHANGED <<userVars, chanVars, linked, fault>>

\* exit_serv(s) that runs to its end: the subtree goes, with its users.
ExitServ(s) ==
    LET gone == Subtree(s, servs, up)
    IN  /\ up[s] # NoServ
        /\ ExitUsers({a \in users : home[a] \in gone})
        /\ servs' = servs \ gone
        /\ up' = [t \in Serv |-> IF t \in gone THEN NoServ ELSE up[t]]
        /\ UNCHANGED <<linked, fault>>

\* omega_squit.  exit_serv may fault in three ways: s has no uplink whose
\* name the log line could print; the recursive calls free the node its own
\* loop goes on with (which takes a server two hops below s, and the order
\* of servlist, see Netsplit); or a user has no server.
RecvSquit(s) ==
    /\ ~fault /\ linked
    /\ s \in servs /\ Hub \in servs
    /\ \/ ExitServ(s)
       \/ /\ \/ up[s] = NoServ
             \/ Grandchildren(s, servs, up) # {}
             \/ \E a \in users : Unset(a)
          /\ Faults

-----------------------------------------------------------------------------
(* Users *)

\* omega_uid, omega_nick: AddUser for a nick nobody has.  When the server is
\* not known the new user is exited again, and exit_user's log line reads
\* the u->serv that was never set: if that happens to be NULL nothing remains
\* of the user (a stuttering step), else the code faults.
RecvUser(a, n, s) ==
    /\ ~fault /\ linked
    /\ a \notin users /\ ~Known(n)
    /\ \/ /\ s \in servs
          /\ PutUser(a, n, s, FALSE)
          /\ UNCHANGED <<chanVars, servVars, linked, fault>>
       \/ /\ s \notin servs
          /\ Faults

\* omega_unick: NewNick.
RecvNick(a, n) ==
    /\ ~fault /\ linked
    /\ a \in Remote /\ ~Known(n)
    /\ nick' = [nick EXCEPT ![a] = n]
    /\ UNCHANGED <<users, home, mine, chanVars, servVars, linked, fault>>

\* omega_quit of a remote user, omega_kill and omega_skill of any user.
RecvExit(a) ==
    /\ ~fault /\ linked
    /\ a \in Visible
    /\ ExitUsers({a})
    /\ UNCHANGED <<servVars, linked, fault>>

\* NewClient, when a module opens its client.  Without our own server in
\* servlist it gives up, and leaves the half made user in userlist.
NewClient(a, n) ==
    /\ ~fault
    /\ a \notin users /\ ~Known(n)
    /\ \/ /\ Me \in servs
          /\ PutUser(a, n, Me, TRUE)
       \/ /\ Me \notin servs
          /\ PutUser(a, n, NoServ, FALSE)
    /\ UNCHANGED <<chanVars, servVars, linked, fault>>

\* DelClient, when the module closes.
DelClient(a) ==
    /\ ~fault
    /\ a \in Ours
    /\ ExitUsers({a})
    /\ UNCHANGED <<servVars, linked, fault>>

-----------------------------------------------------------------------------
(* Channels *)

\* omega_sjoin: the channel is created when it is new, and of the names the
\* line lists those that find_user knows are added.
RecvSjoin(S, c) ==
    /\ ~fault /\ linked
    /\ Hub \in servs
    /\ Join(S, c)
    /\ UNCHANGED <<userVars, servVars, linked, fault>>

\* omega_join, omega_forcejoin, omega_invite: AddToChannelU, for a channel
\* that is known.
RecvJoin(a, c) ==
    /\ ~fault /\ linked
    /\ a \in Visible /\ c \in channels
    /\ Join({a}, c)
    /\ UNCHANGED <<userVars, servVars, linked, fault>>

\* A module puts its client on a channel: new_chan and AddToChannelU.
OurJoin(a, c) ==
    /\ ~fault
    /\ a \in Ours
    /\ Join({a}, c)
    /\ UNCHANGED <<userVars, servVars, linked, fault>>

\* DelFromChannel for one user of one channel.
LeaveOne(a, c) == Leave([d \in Chan |-> IF d = c THEN {a} ELSE {}])

\* omega_part, and a module's own DelFromChannel.
Part(a, c) ==
    /\ ~fault
    /\ mine[a] \/ linked
    /\ a \in Visible /\ c \in channels
    /\ a \in members[c]
    /\ LeaveOne(a, c)
    /\ UNCHANGED <<userVars, servVars, linked, fault>>

\* omega_forcepart of ratbox3 and plexus, about any user: DelFromChannel comes
\* first, and the PART that is then sent reads the name of the channel, which is
\* freed if this was its last user.
RecvForcepart(a, c) ==
    /\ ~fault /\ linked
    /\ a \in Visible /\ c \in channels
    /\ a \in members[c]
    /\ \/ /\ usercnt[c] > 1
          /\ LeaveOne(a, c)
          /\ UNCHANGED <<userVars, servVars, linked, fault>>
       \/ /\ usercnt[c] <= 1
          /\ Faults

\* omega_join with "0": out of every channel.
RecvPartAll(a) ==
    /\ ~fault /\ linked
    /\ a \in Remote
    /\ Leave(Found({a}))
    /\ UNCHANGED <<userVars, servVars, linked, fault>>

\* A wrong variant of RecvKick: the user's own list keeps the channel.
RecvKickHalf(a, c) ==
    /\ ~fault /\ linked
    /\ a \in Visible /\ c \in channels
    /\ a \in members[c]
    /\ usercnt[c] - Cardinality(members[c]) < MaxGhost
    /\ members' = [members EXCEPT ![c] = @ \ {a}]
    /\ UNCHANGED <<chans, channels, usercnt, userVars, servVars, linked, fault>>

\* omega_kick of the inspircd modules: KickFromChannel takes the user off
\* both lists but leaves usercnt, which it then tests.
RecvKick(a, c) ==
    /\ ~fault /\ linked
    /\ a \in Visible /\ c \in channels
    /\ a \in members[c]
    /\ usercnt[c] - Cardinality(members[c]) < MaxGhost
    /\ members' = [members EXCEPT ![c] = @ \ {a}]
    /\ chans' = [chans EXCEPT ![a] = @ \ {c}]
    /\ channels' = IF usercnt[c] = 0 THEN channels \ {c} ELSE channels
    /\ UNCHANGED <<usercnt, userVars, servVars, linked, fault>>

\* A process that has faulted takes no further described step.
Halted == fault /\ UNCHANGED vars

Next ==
    \/ ConnectUplink
    \/ LoseUplink
    \/ RecvServer
    \/ \E p, s \in Serv : RecvSid(p, s)
    \/ \E s \in Serv : RecvSquit(s)
    \/ \E a \in Addr, n \in Nick, s \in Serv \ {Me} : RecvUser(a, n, s)
    \/ \E a \in Addr, n \in Nick : RecvNick(a, n)
    \/ \E a \in Addr : RecvExit(a)
    \/ \E a \in Addr, n \in Nick : NewClient(a, n)
    \/ \E a \in Addr : DelClient(a)
    \/ \E S \in SUBSET Visible, c \in Chan : RecvSjoin(S, c)
    \/ \E a \in Addr, c \in Chan : RecvJoin(a, c)
    \/ \E a \in Addr, c \in Chan : OurJoin(a, c)
    \/ \E a \in Addr, c \in Chan : Part(a, c)
    \/ \E a \in Addr, c \in Chan : RecvForcepart(a, c)
    \/ \E a \in Addr : RecvPartAll(a)
    \/ \E a \in Addr, c \in Chan : RecvKick(a, c)
    \/ Halted

Spec == Init /\ [][Next]_vars

-----------------------------------------------------------------------------
(* Correctness *)

\* userlist and channels describe one relation: c->users holds a exactly when
\* a's own channel list holds c, and neither list points to a struct that
\* has been freed.  DelFromChannel, KickFromChannel and both exits must keep
\* the two lists in step, through every order of joins, parts, kicks, quits,
\* netsplits and losses of the link.
MembershipAgrees ==
    /\ \A a \in Addr, c \in Chan : a \in members[c] <=> c \in chans[a]
    /\ \A c \in Chan : members[c] \subseteq users
    /\ \A a \in Addr : chans[a] \subseteq channels

\* usercnt is never below the number of users on the channel: DelFromChannel
\* frees the channel on usercnt, and would free it under its members.
CountCovers ==
    \A c \in channels : usercnt[c] >= Cardinality(members[c])

\* usercnt is the number of users on the channel, as channel.h says of it
\* (with the protocol modules that never call KickFromChannel).
CountExact ==
    \A c \in channels : usercnt[c] = Cardinality(members[c])

\* No two users have one nick: find_chanuser looks a user up on a channel by
\* nick, so DelFromChannel would take the wrong one off.
NickUnique ==
    \A a, b \in users : nick[a] = nick[b] => a = b

\* Neither u->serv nor li->uplink points to a freed Link: a netsplit takes
\* the users and the servers behind the server it frees, and the loss of the
\* link takes all but our own.
LinksLive ==
    /\ \A a \in users : home[a] \in servs \cup {NoServ}
    /\ \A s \in servs : up[s] \in servs \cup {NoServ}

\* While there is no link the daemon knows its own clients and its own server
\* and nothing else, so that introduce_users, run on the next connect, meets
\* no remote user (the comment at user.c:388).
OnlyOursUnlinked ==
    ~linked /\ ~fault =>
        /\ users = Ours
        /\ servs = {Me}
        /\ \A c \in Chan : members[c] \subseteq Ours

\* The strengthening of the invariants above that every step preserves: our
\* clients sit on our own server, and a name that is not in servlist has no
\* uplink left from an earlier stay.
NetInv ==
    /\ TypeOK
    /\ MembershipAgrees
    /\ CountCovers
    /\ NickUnique
    /\ LinksLive
    /\ OnlyOursUnlinked
    /\ \A a \in users : mine[a] => home[a] = Me
    /\ \A s \in Serv \ servs : up[s] = NoServ

\* An address that is not in userlist has no server, and the users on our own
\* server are our clients: what the tree of NetTree knows of users.
HomeInv ==
    /\ \A a \in Addr \ users : home[a] = NoServ
    /\ \A a \in users : home[a] = Me => mine[a]

\* A channel that loses its last user is destroyed in the same step: what
\* the usercnt field is for (the comment at src/include/channel.h:53-57).
LastOneOut ==
    [][\A c \in channels :
          members[c] # {} /\ members'[c] = {} => c \notin channels']_vars

\* Losing the uplink leaves our clients connected where they were: each on
\* the channels it was on, none of which has been freed when the remote
\* users left it.
OursSurviveLoss ==
    [][linked /\ ~linked' =>
          /\ users' = Ours
          /\ \A a \in Ours : chans'[a] = chans[a] /\ chans[a] \subseteq channels']_vars

\* servlist, uplinks and users move as the tree of NetTree does: users join
\* known servers and leave, a netsplit takes a subtree and its users at once,
\* and the loss of the link leaves us alone.
Tree == INSTANCE NetTree WITH User <- Addr
ImplementsTree == Tree!Spec

=============================================================================
