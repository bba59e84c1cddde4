------------------------------ MODULE Clients -------------------------------
(***************************************************************************)
(* Guardian's modules together on the events of one network: each action   *)
(* joins what the network does (Visitors) with what every module that      *)
(* listens does about it.  A setup says which modules there are; they are  *)
(* loaded and unloaded in any order and at any time.                       *)
(***************************************************************************)
EXTENDS Sessions, Scan, Watch, JoinFlood

CONSTANT MaxQueue  \* bound: entries in a queue when a user comes

vars == <<visitorVars, sessionVars, scanVars, watchVars, floodVars>>

Init == InitVisitors /\ InitSessions /\ InitScan /\ InitWatch /\ InitFlood

\* Users that go for whatever reason: g_sessions hears of it, g_scan does not.
Leavers == Live \ DOMAIN user'
Exits == UserExits(Leavers) /\ ScanLoses(Leavers)

\* The network.
Arrival(a, what) ==
    /\ Quiet /\ Len(versionq) < MaxQueue /\ Len(watchq) < MaxQueue
    /\ AddUser(a, what)
    /\ UNCHANGED <<sessionVars, scanVars, watchVars, floodVars>>
Departure ==
    /\ Quiet
    /\ LoseLink \/ \E a \in Live : Quit(a)
    /\ Exits /\ WatchFollows /\ UNCHANGED floodVars
Linking ==
    /\ Quiet
    /\ \/ Connect /\ UNCHANGED scanVars
       \/ EndBurst /\ InitEvents
    /\ UNCHANGED <<sessionVars, watchVars, floodVars>>
Moves ==
    /\ \/ Len(watchq) < MaxQueue /\ \E a \in Live, c \in Chans : Join(a, c)
       \/ \E a \in Live, c \in Chans : Part(a, c)
       \/ \E c \in Chans : KickGuardian(c)
       \/ \E a \in Live, what \in setup.users : UserChanges(a, what)
    /\ Exits /\ UNCHANGED floodVars

\* The USERCONN chain.
Handlers ==
    \/ EventUsercon /\ UNCHANGED <<setup, loaded, user, members, sync, linked, guest, fault,
                                   scanVars, watchVars, floodVars>>
    \/ ScanNick /\ UNCHANGED <<setup, loaded, user, members, sync, linked, guest, fault,
                               sessionVars, watchVars, floodVars>>
    \/ EvhUser /\ Exits /\ UNCHANGED floodVars
    \/ ReadFreed /\ UNCHANGED <<sessionVars, scanVars, watchVars, floodVars>>

\* The modules' timers.
Timers ==
    \/ /\ Quiet /\ (VersionQue \/ ScanQue)
       /\ UNCHANGED <<sessionVars, watchVars, floodVars>>
    \/ EvhWatchqueue /\ Exits /\ UNCHANGED floodVars

\* Operators, and the configuration read again.
Commands ==
    \/ /\ Quiet
       /\ \/ \E p \in setup.patterns : ExemptDel(p) \/ \E n \in Limits : ExemptAdd(p, n)
          \/ setup.patterns # {} /\ ExemptLoad
       /\ UNCHANGED <<scanVars, watchVars, floodVars>>
    \/ Quiet /\ (\E a \in Live : CmdScan(a)) /\ UNCHANGED <<sessionVars, watchVars, floodVars>>
    \/ /\ \/ \E want \in setup.wants : WatchAdd(want)
          \/ \E name \in Chans \cup Nicks :
                WatchRemove(name) \/ \E action \in setup.actions : WatchSet(name, action)
          \/ SaveWatchdb
          \/ WatchRehash
       /\ Exits /\ UNCHANGED floodVars
    \/ setup.patterns # {} /\ SessionRehash /\ Quiet /\ UNCHANGED <<scanVars, watchVars, floodVars>>

\* Modules come and go.
Reloads ==
    \/ /\ Quiet /\ (LoadSessions \/ UnloadSessions)
       /\ UNCHANGED <<scanVars, watchVars, floodVars>>
    \/ /\ Quiet /\ (LoadScan \/ UnloadScan)
       /\ UNCHANGED <<sessionVars, watchVars, floodVars>>
    \/ (LoadWatch \/ UnloadWatch) /\ Exits /\ UNCHANGED floodVars
    \/ /\ \/ LoadModule("g_joinflood") /\ JoinfloodLoad
          \/ UnloadModule("g_joinflood") /\ JoinfloodClose
       /\ UNCHANGED <<setup, user, members, sync, linked, chain, guest, fault>>
       /\ UNCHANGED <<sessionVars, scanVars, watchVars>>

\* SJOINs are counted once the burst is over; for what malloc leaves in a new
\* entry, see JoinFlood.
Floods ==
    /\ Quiet /\ Loaded("g_joinflood")
    /\ \/ linked /\ sync = "running" /\ \E c \in FloodChans \cap setup.names, junk \in {Past, Never} : MSjoin(c, junk)
       \/ Second
    /\ UNCHANGED <<visitorVars, sessionVars, scanVars, watchVars>>
ReleaseFloods ==
    /\ Quiet /\ Loaded("g_joinflood") /\ ChkFloods(linked)
    /\ UNCHANGED <<visitorVars, sessionVars, scanVars, watchVars>>

Next ==
    \/ \E a \in Addr, what \in setup.users : Arrival(a, what)
    \/ Departure \/ Linking \/ Moves \/ Handlers \/ Timers \/ Commands \/ Reloads
    \/ Floods \/ ReleaseFloods

\* RunTimedEvents comes back to the timers for ever, and time passes.
Fairness ==
    /\ WF_vars(ReleaseFloods)
    /\ WF_vars(Second /\ Quiet /\ Loaded("g_joinflood") /\ UNCHANGED <<visitorVars, sessionVars, scanVars, watchVars>>)

Spec == Init /\ [][Next]_vars /\ Fairness

----------------------------------------------------------------------------
(* Correctness *)

\* The types of the variables; the queues point to users that are there.
TypeOK ==
    /\ setup \in Setups /\ loaded \in Seq(setup.modules)
    /\ Live \subseteq Addr /\ Range(user) \subseteq setup.users
    /\ members \in [Chans -> SUBSET (Live \cup {Guardian})]
    /\ sync \in {"startup", "bursting", "running"} /\ linked \in BOOLEAN
    /\ fault \in {"none", "freed user", "freed rule", "freed host", "freed channel"}
    /\ DOMAIN sessions \subseteq Hosts /\ \A h \in DOMAIN sessions : sessions[h] \in Nat
    /\ ToSet(versionq) \subseteq Live \cup {Freed} /\ asked \subseteq Live
    /\ vtimers \in 0..MaxTimers /\ stimers \in 0..MaxTimers
    /\ \A q \in ToSet(watchq) :
          /\ q.user \in Live \cup {Freed}
          /\ q.rule = Freed \/ \E r \in ToSet(rules) : r.id = q.rule
    /\ taken \in 0..Batch /\ wtimer \in BOOLEAN

\* The count of every host is that of its users on the network, for hosts whose
\* users were all counted, and never above it for the others.
SessionsRight == TypeOK /\ SessionsNeverOver /\ SessionsExact

\* The exemptions in force, the list that a reload would make and the rows of
\* the database are one, over ADD, DEL, LOAD, rehashes and reloads.
ExemptsRight == ExemptsSaved /\ RowsAreList

\* The version scan comes to everyone: nobody is forgotten, and the queue that
\* holds those of the burst is worked off.
ScanReaches == EveryoneAsked /\ QueueTimed

\* The watch holds: Guardian is where its rules are, nobody they are about
\* escapes, and they are what the database has.
WatchHolds == GuardianStays /\ NoneEscapes /\ RulesKept

\* A flood is seen, and what was done about it is known until it is undone.
FloodsRight == FloodsSeen /\ LocksKnown

\* A lock-down ends, whatever entries chk_floods removes on the way, unless the
\* module is closed first or the link is down when its time is over.  (A channel
\* whose name is too long is never found, so never locked.)
LocksEnd ==
    \A c \in Short : (c \in held /\ c \notin orphans) ~> (c \notin held \/ c \in orphans)

=============================================================================
