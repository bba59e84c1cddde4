------------------------------ MODULE Protocol ------------------------------
(***************************************************************************)
(* A link to the network in the words of one protocol module: how it opens *)
(* (ircd_connect, the event CONNECT), how the burst ends (the event        *)
(* BURST), and what the lines of the ircd do to our records of its users,  *)
(* of our own users and of one channel, beside what the ircd itself holds. *)
(*                                                                         *)
(* The ircd is external: it may do whatever users, opers and other servers *)
(* can make it do, and tells us with one line.  Its lines take any time to *)
(* reach us, in order; ours reach it at once, which loses nothing: of two  *)
(* lines that cross, one may always be taken to arrive at once.            *)
(***************************************************************************)
EXTENDS Naturals, Sequences, SequencesExt, FiniteSets, Lists, Dialects

CONSTANTS
    Spoken,    \* the protocol modules of the instance
    Guardian,  \* s_Guardian
    Bots,      \* our other users
    Users,     \* users of the network
    Peers,     \* the uplinks we may be linked to, each with a SID of its own
    Old,       \* those of them that do not speak TS6
    Most,      \* 3: introduce_attempts of unreal32 is never reset beyond it
    MaxActs,   \* bound: what the ircd and we ourselves do in one behaviour, per module
    MaxLinks   \* bound: links in one behaviour, per module

ASSUME SpokenAssumption == Spoken \subseteq DOMAIN Dialects
ASSUME PeopleAssumption ==
    /\ IsFiniteSet(Users) /\ Guardian \notin Bots /\ Users \cap ({Guardian} \cup Bots) = {}
    /\ {"", "peer"} \cap ({Guardian} \cup Bots \cup Users) = {}
ASSUME LimitsAreNat == Most \in Nat /\ \A d \in Spoken : MaxActs[d] \in Nat /\ MaxLinks[d] \in Nat

VARIABLES
    dialect,   \* the module that is loaded
    ours,      \* our records; uplink: the pointer Uplink, its: the SID in its struct,
               \* sid: the SID kept from a PASS, ts6: IRCd.ts6, sync: sync_state
    net,       \* what the ircd holds
    link,      \* the connection; ids: both sides name people by UID
    inbox,     \* lines under way to us
    attempts,  \* introduce_attempts and last_attempt of unreal32
    fault,     \* how the process ended, or "none"
    past       \* history of the link: events raised, and what excuses a difference

linkVars == <<dialect, ours, net, link, inbox, attempts, fault, past>>

Services == {Guardian} \cup Bots
People == Services \cup Users
Speech == Dialects[dialect]
Says(f) == f \in Speech.says

Knows(w, p) == p \in ToSet(w.ours.list)
Silent == [there |-> {}, joined |-> {}, named |-> {}, opers |-> {}]
Fresh == [raised |-> <<>>, odd |-> {}, acts |-> 0, links |-> 0]

\* unreal32 may have counted kills before: Counts is what a longer life leaves.
Uncounted == [n |-> 0, window |-> "none"]
Counts == {Uncounted} \cup [n : {1, Most + 1}, window : {"open"}]

InitLink ==
    /\ dialect \in Spoken
    /\ ours = [list |-> <<Guardian>>, joined |-> {Guardian}, named |-> {}, opers |-> {},
               chan |-> TRUE, sync |-> "STARTUP", ts6 |-> dialect # "unreal32",
               sid |-> "", uplink |-> "NULL", its |-> ""]
    /\ net = Silent
    /\ link = [up |-> FALSE, open |-> FALSE, peer |-> "", ids |-> FALSE, done |-> FALSE]
    /\ inbox = <<>>
    /\ attempts \in IF dialect = "unreal32" THEN Counts ELSE {Uncounted}
    /\ fault = "none"
    /\ past = Fresh

-----------------------------------------------------------------------------
(* What the functions of IRCd and of user.c and channel.c do to a world w of *)
(* our records, the ircd's, and the way the process ended.                  *)

World == [ours |-> ours, net |-> net, fault |-> fault, raised |-> past.raised]
Faulty(w, why) == [w EXCEPT !.fault = why]
Sent(w, n) == IF link.open THEN [w EXCEPT !.net = n] ELSE w

Without(list, gone) == Picked(list, {i \in DOMAIN list : list[i] \notin gone})
Away(r, p) == [r EXCEPT !.joined = @ \ {p}, !.named = @ \ {p}, !.opers = @ \ {p}]
NetGone(n, p) == [Away(n, p) EXCEPT !.there = @ \ {p}]

\* The introduction of a user of ours reads s_Guardian, if only to name it as
\* the one who reserves the nick.
ReadsGuardian(w) ==
    \/ Speech.resv = "always"
    \/ Speech.resv = "names" /\ ~w.ours.ts6
IrcdAddUser(w, p) ==
    IF link.open /\ ReadsGuardian(w) /\ ~Knows(w, Guardian) THEN Faulty(w, "guardian")
    ELSE Sent(w, [w.net EXCEPT !.there = @ \cup {p}, !.named = @ \cup (w.ours.named \cap {p})])
IrcdJoin(w, p) == IF p \in w.net.there THEN Sent(w, [w.net EXCEPT !.joined = @ \cup {p}]) ELSE w
IrcdPart(w, p) == IF Says("part") THEN Sent(w, [w.net EXCEPT !.joined = @ \ {p}]) ELSE w
IrcdKill(w, p) == IF Says("kill") THEN Sent(w, NetGone(w.net, p)) ELSE w

\* A wrong variant of AddToChannelU: the join is not told to the network.
AddToChannelUSilent(w, p) ==
    IF p \in w.ours.joined THEN w ELSE [w EXCEPT !.ours.joined = @ \cup {p}, !.ours.chan = TRUE]
AddToChannelU(w, p) ==
    IF p \in w.ours.joined THEN w
    ELSE LET w1 == [w EXCEPT !.ours.joined = @ \cup {p}, !.ours.chan = TRUE]
         IN  IF p \in Services /\ w.ours.sync # "BURSTING" THEN IrcdJoin(w1, p) ELSE w1
DelFromChannel(w, p) ==
    IF p \notin w.ours.joined THEN w
    ELSE [w EXCEPT !.ours.joined = @ \ {p}, !.ours.chan = w.ours.joined # {p}]
KickFromChannel(w, p) == [w EXCEPT !.ours.joined = @ \ {p}]  \* usercnt stays as it was

\* exit_user: the QUIT names a user of ours by UID while ts6 is set, which an
\* ircd of names does not understand.
ExitUser(w, p) ==
    LET w1 == DelFromChannel(w, p)
        o == Away(w1.ours, p)
        w2 == [w1 EXCEPT !.ours = [o EXCEPT !.list = Without(o.list, {p})]]
    IN  IF p \in Services /\ (Speech.form # "names" \/ ~w.ours.ts6)
        THEN Sent(w2, NetGone(w.net, p)) ELSE w2

\* burst_local_users: the walk ends at the first user that is not ours.
Walked(list) ==
    LET remote == {i \in DOMAIN list : list[i] \in Users}
    IN  {list[i] : i \in {j \in DOMAIN list : \A k \in remote : j < k}}
BurstLocalUsers(w) ==
    Sent(w, [w.net EXCEPT !.joined =
        @ \cup (Walked(w.ours.list) \cap w.ours.joined \cap w.net.there)])
\* introduce_users finds no user of the network: the last link took them along.
IntroduceUsers(w) ==
    IF w.ours.list # <<>> /\ ReadsGuardian(w) /\ ~Knows(w, Guardian) THEN Faulty(w, "guardian")
    ELSE [w EXCEPT !.net.there = @ \cup ToSet(w.ours.list),
                   !.net.named = w.ours.named \cap ToSet(w.ours.list)]

\* A wrong variant of EndBurst: it forgets that the burst is over.
EndBurstAgain(w) == [BurstLocalUsers(w) EXCEPT !.raised = Append(@, "BURST")]
EndBurst(w) == [BurstLocalUsers(w) EXCEPT !.raised = Append(@, "BURST"), !.ours.sync = "IS_CON"]
Bursts(w) == w.ours.sync = "BURSTING"

-----------------------------------------------------------------------------
(* What each dialect loses: the kinds of events our records, or the ircd,   *)
(* never learn of.  Nothing else may make them differ.                      *)

Always == {"late", "burst part"}
Lost ==
    LET ratbox == Always \cup {"kick", "skick", "join 0", "own part", "own kill"}
    IN  [charybdis |-> ratbox, elemental |-> ratbox, ratbox |-> ratbox,
         directircd |-> ratbox \cup {"oper"},
         hybrid |-> ratbox, kcircd |-> ratbox,
         ratbox3 |-> ratbox \ {"own part", "own kill"}, plexus |-> ratbox \ {"own part"},
         bahamut |-> Always \cup {"enter", "part", "join 0", "quit", "oper", "kill", "skill",
                                  "kick", "skick", "own part", "own kill", "own quit"},
         unreal32 |-> Always \cup {"own part"},
         inspircd12 |-> Always \cup {"skill", "skick", "svsnick"},
         inspircd20 |-> Always \cup {"skill", "skick", "svsnick"}]

-----------------------------------------------------------------------------
(* The way a step leaves the history.  What we change of our own accord, or  *)
(* make the ircd change, may cross lines about the same people.             *)

ChangedThere(w) == {p \in People : \E f \in {"there", "joined"} : (p \in w.net[f]) # (p \in net[f])}
ChangedHere(w) ==
    {p \in People : Knows(w, p) # Knows(World, p) \/ (p \in w.ours.joined) # (p \in ours.joined)}
Crossed(changed, lines) ==
    IF \E i \in DOMAIN lines : \/ {lines[i].who, lines[i].by} \cap changed # {}
                               \/ changed # {} /\ lines[i].cmd = "JOIN"
    THEN {"crossed"} ELSE {}

\* A step that is not one of the bounded acts, and one that is.
Becomes(w, rest, changed) ==
    /\ ours' = w.ours /\ net' = w.net /\ fault' = w.fault
    /\ inbox' = rest
    /\ past' = [past EXCEPT !.raised = w.raised, !.odd = @ \cup Crossed(changed, rest)]
Act(w, kind) ==
    /\ ours' = w.ours /\ net' = w.net /\ fault' = w.fault
    /\ past.acts < MaxActs[dialect]
    /\ past' = [past EXCEPT !.raised = w.raised, !.acts = @ + 1,
                            !.odd = @ \cup ({kind} \cap Lost[dialect])
                                      \cup Crossed(ChangedHere(w) \cup ChangedThere(w), inbox)]
    /\ UNCHANGED <<dialect, link, inbox, attempts>>

Runs == fault = "none"

-----------------------------------------------------------------------------
(* What we do of our own accord *)

Line(src, cmd, who, by) == [src |-> src, cmd |-> cmd, who |-> who, by |-> by, oper |-> FALSE]

Registered == DOMAIN Speech.server
IntroCommand(ids) == IF ids /\ "UID" \in Registered THEN "UID" ELSE "NICK"
FirstJoin == IF "FJOIN" \in Registered THEN "FJOIN" ELSE "SJOIN"

\* ircd_connect with the event CONNECT, and the burst of an uplink that holds
\* the users here, those of on in the channel, opers among them.
IdsTo(peer) ==
    \/ Speech.form = "uid"
    \/ Speech.form \in {"flag", "ts6"} /\ ours.ts6 /\ peer \notin Old
\* We name people by UID to an uplink that knows names only.
Misspoken(peer) == Speech.form \in {"flag", "ts6"} /\ ours.ts6 /\ peer \in Old
Connect(peer, here, on, opers) ==
    /\ Runs /\ ~link.up /\ past.links < MaxLinks[dialect]
    /\ link' = [up |-> TRUE, open |-> TRUE, peer |-> peer, ids |-> IdsTo(peer), done |-> FALSE]
    /\ LET w == [World EXCEPT !.ours.sync = "BURSTING",
                              !.net = [Silent EXCEPT !.there = here, !.joined = on, !.opers = opers]]
           opened == IF Misspoken(peer) THEN w ELSE IntroduceUsers(w)
       IN  ours' = opened.ours /\ net' = opened.net /\ fault' = opened.fault
    /\ inbox' = <<Line("server", "PASS", "", ""), Line("server", "SERVER", "", "")>>
                \o SetToSeq({[Line("server", IntroCommand(IdsTo(peer)), p, "peer")
                               EXCEPT !.oper = p \in opers] : p \in here})
                \o SetToSeq({Line("server", FirstJoin, p, "peer") : p \in on})
    /\ past' = [past EXCEPT !.links = @ + 1, !.raised = <<"CONNECT">>,
                            !.odd = (IF Misspoken(peer) THEN {"misspoken"} ELSE {})
                                    \cup (IF on # {} THEN {"enter"} \cap Lost[dialect] ELSE {})]
    /\ UNCHANGED <<dialect, attempts>>

\* uplink_cleanup
Unlinked == [up |-> FALSE, open |-> FALSE, peer |-> "", ids |-> FALSE, done |-> FALSE]
GoneFrom(r, gone) ==
    [r EXCEPT !.list = Without(@, gone),
              !.joined = @ \ gone, !.named = @ \ gone, !.opers = @ \ gone,
              !.chan = IF gone \cap r.joined = {} THEN @ ELSE r.joined \ gone # {}]
\* A wrong variant of RemoteGone: it takes our own users along.
AllGone(r) == GoneFrom(r, ToSet(r.list))
RemoteGone(r) == GoneFrom(r, Users \cap ToSet(r.list))
LoseLink ==
    /\ Runs /\ link.up
    /\ ours' = [RemoteGone(ours) EXCEPT !.uplink = "NULL", !.its = ""]
    /\ net' = Silent
    /\ link' = Unlinked
    /\ inbox' = <<>>
    /\ past' = [past EXCEPT !.raised = <<>>, !.odd = {}]
    /\ UNCHANGED <<dialect, attempts, fault>>

\* ircd_ping
RaisesBurst == Speech.ping = "burst" /\ Bursts(World)
Pings(w) == IF RaisesBurst THEN EndBurst(w) ELSE w

\* ev_ping of m_ping.c, a timer
EvPing ==
    /\ Runs /\ link.up /\ ours.uplink # "NULL"
    /\ IF ours.uplink = "freed" THEN Becomes(Faulty(World, "uplink"), inbox, {})
       ELSE RaisesBurst /\ Becomes(Pings(World), inbox, ChangedThere(Pings(World)))
    /\ UNCHANGED <<dialect, link, attempts>>
\* The pong it looks at may never have been set, and then the link may look dead.
EvPingCuts ==
    /\ Does(dialect, "server", "SERVER") = "server"
    /\ ours.uplink = "live"
    /\ LoseLink

\* NewClient: while we burst the network is not told.
NewClient(p) ==
    /\ Runs /\ p \in Bots /\ ~Knows(World, p)
    /\ LET w == [World EXCEPT !.ours.list = Append(@, p)]
       IN  IF Bursts(w) THEN Act(w, "late") ELSE Act(IrcdAddUser(w, p), "new")
DelClient(p) == Runs /\ p \in Bots /\ Knows(World, p) /\ Act(ExitUser(World, p), "own quit")
JoinOwn(p) ==
    Runs /\ p \in Services \ ours.joined /\ Knows(World, p) /\ Act(AddToChannelU(World, p), "own join")
\* del_watch: the part is sent only while the link is in sync.
PartOwn(p) ==
    /\ Runs /\ p \in Services \cap ours.joined
    /\ LET w == IF ours.sync = "IS_CON" THEN IrcdPart(World, p) ELSE World
       IN  Act(DelFromChannel(w, p), IF ours.sync = "IS_CON" THEN "own part" ELSE "burst part")
\* take_action of g_watch.c
Kill(p) == Runs /\ p \in Users /\ Knows(World, p) /\ Act(ExitUser(IrcdKill(World, p), p), "own kill")

-----------------------------------------------------------------------------
(* What the ircd does, and says in one line *)

Tells(line, n, kind) ==
    /\ Runs /\ link.open /\ past.acts < MaxActs[dialect]
    /\ net' = n
    /\ inbox' = Append(inbox, line)
    /\ past' = [past EXCEPT !.acts = @ + 1, !.odd = @ \cup ({kind} \cap Lost[dialect])]
    /\ UNCHANGED <<dialect, ours, link, attempts, fault>>
ByUser(cmd, who, u) == Line("user", cmd, who, u)
ByServer(cmd, who) == Line("server", cmd, who, "peer")

\* Users come and go.
Intro(u) == u \notin net.there
    /\ Tells(ByServer(IntroCommand(link.ids), u), [net EXCEPT !.there = @ \cup {u}], "intro")
Enter(u) == u \in net.there \ net.joined
    /\ Tells(IF Speech.form \in {"flag", "ts6"} /\ net.joined # {} THEN ByUser("JOIN", u, u)
             ELSE ByServer(FirstJoin, u), [net EXCEPT !.joined = @ \cup {u}], "enter")
Part(u) == u \in net.joined
    /\ Tells(ByUser("PART", u, u), [net EXCEPT !.joined = @ \ {u}], "part")
JoinZero(u) == u \in net.joined /\ Speech.form # "uid"
    /\ Tells(ByUser("JOIN 0", u, u), [net EXCEPT !.joined = @ \ {u}], "join 0")
Quit(u) == u \in net.there /\ Tells(ByUser("QUIT", u, u), NetGone(net, u), "quit")
Rename(u) == u \in net.there \ net.named
    /\ Tells(ByUser("NICK", u, u), [net EXCEPT !.named = @ \cup {u}], "rename")
Oper(u) == u \in net.there \ net.opers
    /\ Tells(ByUser(IF Speech.form = "uid" THEN "OPERTYPE" ELSE "MODE", u, u),
             [net EXCEPT !.opers = @ \cup {u}], "oper")

\* Opers, channel operators and servers remove a user, perhaps one of ours.
OperKills(u, p) == u \in net.opers /\ p \in net.there \ {u}
    /\ Tells(ByUser("KILL", p, u), NetGone(net, p), "kill")
ServerKills(p) == p \in net.there /\ Tells(ByServer("KILL", p), NetGone(net, p), "skill")
UserKicks(u, p) == u \in net.joined /\ p \in net.joined \ {u}
    /\ Tells(ByUser("KICK", p, u), [net EXCEPT !.joined = @ \ {p}], "kick")
ServerKicks(p) == p \in net.joined
    /\ Tells(ByServer("KICK", p), [net EXCEPT !.joined = @ \ {p}], "skick")

\* Orders to one of ours, of those the dialect knows; we are to carry them out.
Orders == {"force join", "force part", "invite", "invite quietly", "enter quietly"}
Order(cmd, u, p) == Does(dialect, "user", cmd) \in Orders /\ u \in net.there /\ p \in net.there
    /\ Tells(ByUser(cmd, p, u), net, "order")
SvsNick(p) == "SVSNICK" \in Registered /\ p \in net.there
    /\ Tells(ByServer("SVSNICK", p), net, "svsnick")
Rehash(u) == u \in net.opers /\ "REHASH" \in DOMAIN Speech.user
    /\ Tells(ByUser("REHASH", u, u), net, "rehash")

\* The end of its burst, and of the link: an ERROR, after which it hears nothing.
EndCommand ==
    IF "ENDBURST" \in Registered THEN ByServer("ENDBURST", "")
    ELSE IF "EOS" \in Registered THEN ByServer("EOS", "") ELSE Line("server", "PING", "", "")
UplinkSynced ==
    /\ Runs /\ link.open /\ ~link.done
    /\ link' = [link EXCEPT !.done = TRUE]
    /\ inbox' = Append(inbox, EndCommand)
    /\ UNCHANGED <<dialect, ours, net, attempts, fault, past>>
ErrorOut ==
    /\ Runs /\ link.open /\ past.acts < MaxActs[dialect]
    /\ link' = [link EXCEPT !.open = FALSE]
    /\ net' = Silent
    /\ inbox' = Append(inbox, Line("server", "ERROR", "", ""))
    /\ past' = [past EXCEPT !.acts = @ + 1]
    /\ UNCHANGED <<dialect, ours, attempts, fault>>

Ircd ==
    \/ \E u \in Users :
          Intro(u) \/ Enter(u) \/ Part(u) \/ JoinZero(u) \/ Quit(u) \/ Rename(u) \/ Oper(u) \/ Rehash(u)
    \/ \E u \in Users, p \in People : OperKills(u, p) \/ UserKicks(u, p)
    \/ \E p \in People : ServerKills(p) \/ ServerKicks(p)
    \/ \E u \in Users, p \in Services, cmd \in DOMAIN Speech.user : Order(cmd, u, p)
    \/ \E p \in Services : SvsNick(p)
    \/ ErrorOut

-----------------------------------------------------------------------------
(* What its lines do to us.  parse() drops a line whose prefix it does not  *)
(* know: the SID of an uplink is that of the first PASS that gave one.      *)

Head1 == Head(inbox)
Unhearable == link.ids /\ ours.its # link.peer
PrefixKnown ==
    CASE Head1.by \in Users -> Knows(World, Head1.by)
      [] Head1.by = "peer"  -> ~Unhearable
      [] OTHER              -> TRUE
Effect == IF PrefixKnown THEN Does(dialect, Head1.src, Head1.cmd) ELSE "none"
Hears(effects) == Runs /\ link.up /\ inbox # <<>> /\ Effect \in effects

Heard(w) ==
    /\ Becomes(w, Tail(inbox), ChangedThere(w))
    /\ UNCHANGED <<dialect, link, attempts>>
\* What we carry out may cross lines about the same people on our side alone.
Obeyed(w) ==
    /\ Becomes(w, Tail(inbox), ChangedHere(w) \cup ChangedThere(w))
    /\ UNCHANGED <<dialect, link, attempts>>

HearNothing == Hears({"none"}) /\ Heard(World)
HearUser ==
    /\ Hears({"add", "rename", "mode", "exit"})
    /\ LET p == Head1.who
       IN  Heard(CASE Effect = "add" /\ ~Knows(World, p) ->
                         [World EXCEPT !.ours.list = Append(@, p),
                                       !.ours.opers = @ \cup {q \in {p} : Head1.oper}]
                   [] Effect = "rename" -> [World EXCEPT !.ours.named = @ \cup {p}]
                   [] Effect = "mode" -> [World EXCEPT !.ours.opers = @ \cup {p}]
                   [] Effect = "exit" /\ Knows(World, p) -> ExitUser(World, p)
                   [] OTHER -> World)
\* SJOIN makes the channel and adds the users we know; JOIN needs the channel.
HearMember ==
    /\ Hears({"chan", "sjoin", "enter", "part", "kick"})
    /\ LET p == Head1.who
           w == [World EXCEPT !.ours.chan = TRUE]
       IN  Heard(CASE Effect = "chan" -> w
                   [] Effect = "sjoin" -> IF Knows(w, p) THEN [w EXCEPT !.ours.joined = @ \cup {p}] ELSE w
                   [] Effect = "enter" /\ ours.chan -> AddToChannelU(World, p)
                   [] Effect = "part" -> DelFromChannel(World, p)
                   [] Effect = "kick" -> KickFromChannel(World, p)
                   [] OTHER -> World)
\* An order is carried out, or is denied to one we do not know for an oper.
HearOrder ==
    /\ Hears(Orders \cup {"set nick"})
    /\ LET p == Head1.who
           w == AddToChannelU(World, p)
           allowed == Knows(World, p) /\ (Effect # "enter quietly" => ours.chan)
                      /\ (Effect \in {"invite", "invite quietly"} => Head1.by \in ours.opers)
       IN  Obeyed(CASE Effect = "set nick" /\ Knows(World, p) -> [World EXCEPT !.ours.named = @ \cup {p}]
                    [] Effect \in {"force join", "invite"} /\ allowed -> IrcdJoin(w, p)
                    [] Effect \in {"invite quietly", "enter quietly"} /\ allowed -> w
                    [] Effect = "force part" /\ allowed ->
                          LET left == DelFromChannel(World, p)
                          IN  Sent(left, [net EXCEPT !.joined = @ \ {p}])
                    [] OTHER -> World)
HearRehash ==
    /\ Hears({"rehash"})
    /\ Heard(IF Knows(World, Guardian) THEN World ELSE Faulty(World, "guardian"))
\* strcasecmp of a parameter that is NULL
HearJoinZero == Hears({"null"}) /\ Heard(Faulty(World, "argv"))

\* PASS: without a SID ts6 is given up for good, or a NULL is copied.
HearPass ==
    /\ Hears({"pass", "pass ts6"})
    /\ Heard(IF link.peer \notin Old
             THEN [World EXCEPT !.ours.sid = IF @ = "" THEN link.peer ELSE @]
             ELSE IF Effect = "pass ts6" THEN Faulty(World, "argv")
             ELSE [World EXCEPT !.ours.ts6 = FALSE])
\* SERVER: the inspircd modules set Uplink only when it is NULL, and write to it.
HearServer ==
    /\ Hears({"server", "server pong", "server first"})
    /\ Heard(IF Effect = "server first" /\ ours.uplink = "freed" THEN Faulty(World, "uplink")
             ELSE [World EXCEPT !.ours.uplink = "live",
                               !.ours.its = IF Effect = "server first" THEN link.peer ELSE ours.sid])
HearEnd ==
    /\ Hears({"ircd_ping", "end", "pong"})
    /\ Heard(CASE Effect = "ircd_ping" -> Pings(World)
               [] Effect = "end" /\ Bursts(World) -> EndBurst(World)
               [] OTHER -> World)
\* omega_error of the inspircd modules: the servers are freed, Uplink is not reset.
HearError ==
    /\ Hears({"error"})
    /\ ours' = [RemoteGone(ours) EXCEPT !.joined = {}, !.chan = FALSE, !.its = "",
                                             !.uplink = IF @ = "live" THEN "freed" ELSE @]
    /\ net' = Silent /\ link' = Unlinked /\ inbox' = <<>>
    /\ past' = [past EXCEPT !.raised = <<>>, !.odd = {}]
    /\ UNCHANGED <<dialect, attempts, fault>>

\* The kills of unreal32: a user of ours comes back, and its channels with it.
\* Those of servers are counted: past Most they end the process, and past the
\* time of last_attempt the count starts anew only while it is below Most.

BringBack(w, p) ==
    IF p \in Services /\ Knows(w, p)
    THEN LET back == IrcdAddUser(w, p) IN IF p \in ours.joined THEN IrcdJoin(back, p) ELSE back
    ELSE IF Knows(w, p) THEN ExitUser(w, p) ELSE w
Counted ==
    IF attempts.window = "past" /\ attempts.n < Most THEN [n |-> 1, window |-> "open"]
    ELSE [n |-> attempts.n + 1, window |-> IF attempts.window = "none" THEN "open" ELSE attempts.window]
HearKill == Hears({"bring back"}) /\ Heard(BringBack(World, Head1.who))
HearCounted ==
    /\ Hears({"count and bring back"})
    /\ IF attempts.n <= Most
       THEN /\ Becomes(BringBack(World, Head1.who), Tail(inbox), ChangedThere(BringBack(World, Head1.who)))
            /\ attempts' = Counted
       ELSE /\ Becomes(Faulty(World, "exit"), Tail(inbox), {})
            /\ UNCHANGED attempts
    /\ UNCHANGED <<dialect, link>>
Later == Runs /\ attempts.window = "open" /\ attempts' = [attempts EXCEPT !.window = "past"]
    /\ UNCHANGED <<dialect, ours, net, link, inbox, fault, past>>

Hear ==
    \/ HearNothing \/ HearUser \/ HearMember \/ HearOrder \/ HearRehash \/ HearJoinZero
    \/ HearPass \/ HearServer \/ HearEnd \/ HearError \/ HearKill \/ HearCounted

NextLink ==
    \/ \E peer \in Peers, here \in SUBSET Users : \E on, opers \in SUBSET here : Connect(peer, here, on, opers)
    \/ LoseLink \/ EvPing \/ EvPingCuts \/ Later
    \/ \E p \in Services : NewClient(p) \/ DelClient(p) \/ JoinOwn(p) \/ PartOwn(p)
    \/ \E u \in Users : Kill(u)
    \/ Ircd \/ UplinkSynced
    \/ Hear

LinkSpec == InitLink /\ [][NextLink]_linkVars /\ WF_linkVars(Hear) /\ WF_linkVars(UplinkSynced)

-----------------------------------------------------------------------------
(* Correctness *)

\* The types of the variables.
LinkTypeOK ==
    /\ dialect \in Spoken
    /\ ToSet(ours.list) \subseteq People /\ ours.joined \subseteq ToSet(ours.list)
    /\ ours.sync \in {"STARTUP", "BURSTING", "IS_CON"}
    /\ ours.uplink \in {"NULL", "live", "freed"} /\ {ours.sid, ours.its, link.peer} \subseteq Peers \cup {""}
    /\ net.joined \cup net.named \cup net.opers \subseteq net.there
    /\ past.acts \in 0..MaxActs[dialect] /\ past.links \in 0..MaxLinks[dialect] /\ attempts.n \in 0..Most + 1

InSync ==
    /\ Runs /\ link.open /\ inbox = <<>> /\ ours.sync = "IS_CON"
    /\ past.odd = {} /\ ~Unhearable

\* In sync, our records of who is on the network, of opers and of new nicks are
\* those of the ircd, in every dialect, whatever users, opers, servers and we
\* ourselves did since the link was made (user.c, the handlers of protocol/).
PeopleAgree ==
    InSync => /\ net.there = ToSet(ours.list)
              /\ net.opers = ours.opers /\ net.named = ours.named

\* In sync, so are those of who is in the channel: what was joined before the
\* link, in the burst and after it (burst_local_users, AddToChannelU).
ChannelAgrees == InSync => net.joined = ours.joined

\* A link raises CONNECT and then BURST, each once, though the end of a burst
\* may show in lines, in a timer, and again after it has been seen.
BurstOnce ==
    link.up => past.raised = IF Bursts(World) THEN <<"CONNECT">> ELSE <<"CONNECT", "BURST">>

\* What can end the process: the Guardian that was killed and is used all the
\* same, a parameter that is not there, the Uplink an ERROR left behind, and
\* the count of unreal32.  No other line can, and none of these elsewhere.
Ends ==
    LET ratbox == {"guardian"}
    IN  [charybdis |-> ratbox, elemental |-> ratbox, ratbox |-> ratbox, directircd |-> ratbox,
         hybrid |-> {"guardian", "argv"}, kcircd |-> {"guardian", "argv"},
         ratbox3 |-> {"guardian", "argv"}, plexus |-> {"guardian", "argv"},
         bahamut |-> {}, unreal32 |-> {"exit"}, inspircd12 |-> {"uplink"}, inspircd20 |-> {"uplink"}]
EndsOnlySo == fault \in {"none"} \cup Ends[dialect]

\* unreal32 brings back whoever is killed, and bahamut hears of no kill: there
\* s_Guardian never dangles.
GuardianKept == dialect \in {"unreal32", "bahamut"} => Knows(World, Guardian)

\* Our users keep their channels when a link is lost, to join them again on the
\* next; only the ERROR of the inspircd modules empties them.
ChannelsKept ==
    [][link.up /\ ~link'.up /\ Speech.form # "uid"
       => ours'.joined = ours.joined \cap Services]_linkVars

\* A burst that the uplink ends is over for us too, unless the link is lost or
\* we end, whatever else arrives before (omega_ping, omega_eos, omega_endburst).
BurstEnds == link.open /\ Bursts(World) ~> ~link.open \/ ~Bursts(World) \/ ~Runs

\* The two sides agree: people, opers, new nicks and the channel.
Agreement == LinkTypeOK /\ PeopleAgree /\ ChannelAgrees

\* A link raises its events once, and no line ends us but the listed ones.
LinkRight == BurstOnce /\ EndsOnlySo /\ GuardianKept
=============================================================================
