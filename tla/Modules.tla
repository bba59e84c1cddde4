------------------------------ MODULE Modules ------------------------------
(***************************************************************************)
(* The module loader (module.c) with the events its modules register: the  *)
(* start-up queue and its three passes, loading and unloading by operators *)
(* while the daemon runs, and the walks of the event list that meet what   *)
(* handlers do to it, up to the purge of all modules at exit.              *)
(*                                                                         *)
(* A handler is known by the module that holds it.  When a module is       *)
(* closed, the handlers it leaves in the list belong to Gone: to call one  *)
(* is to jump to unmapped memory.                                          *)
(*                                                                         *)
(* The queue only ever holds loads: nothing in the code queues an unload   *)
(* or a reload.                                                            *)
(***************************************************************************)
EXTENDS Events

CONSTANT Setups  \* what an instance looks at, see below

VARIABLES
    setup,   \* the member of Setups of this behaviour
    loaded,  \* the list modules, as names
    que,     \* the list moduleque
    pass,    \* the pass of run_mod_que at start-up
    at,      \* the entry it is at
    link,    \* "down", "burst" until the BURST event, then "up"
    phase,   \* "start", "run", "exit", "end" or "crash"
    asked,   \* until start-up ends: the modules it is to load before the last pass
    bad      \* modules that once failed for a reason of their own

loadVars == <<loaded, que, pass, at, asked, bad>>
vars == <<eventVars, loadVars, link, phase, setup>>

Files == setup.files    \* names of modules an operator or the configuration may load
Core == setup.core      \* the modules of the core directory, in the order read
Names == setup.names    \* event names and timers of interest, the others are left out
MaxEvents == setup.room \* bound: events in the list when a module or a burst adds some

On(name, fn)    == [name |-> name, fn |-> fn, timed |-> FALSE]
Every(name, fn) == [name |-> name, fn |-> fn, timed |-> TRUE]

\* What each module adds when it is opened, what it deletes when it is
\* closed (fn by handler, name by name) and whether it asks for g_core.
GCore == [adds |-> <<>>, fns |-> {}, names |-> {}, needs |-> "nothing"]
GUpdate == [adds |-> <<>>, fns |-> {}, names |-> {}, needs |-> "dependency"]
GSessions == [adds |-> <<On("USERCONN", "event_usercon"), On("USEREXIT", "event_userexit"),
                         On("REHASH", "evh_session_rehash")>>,
              fns |-> {"event_usercon", "event_userexit"},
              names |-> {}, needs |-> "nothing"]
GScan == [adds |-> <<On("USERCONN", "scan_nick"), On("BURST", "init_events")>>,
          fns |-> {"scan_nick"}, names |-> {"VersionQueue", "SCANQ"},
          needs |-> "nothing"]
\* A wrong variant of GWatch: the REHASH handler is not deleted.
GWatchForgets == [adds |-> <<Every("WatchQueue", "evh_watchqueue"), On("REHASH", "load_watch"),
                             On("CHANJOIN", "evh_chan_join"), On("USERCONN", "evh_user"),
                             On("SAVEDB", "save_watchdb")>>,
                  fns |-> {"evh_chan_join", "evh_user", "save_watchdb"},
                  names |-> {"WatchQueue"}, needs |-> "guardian"]
GWatch == [adds |-> <<Every("WatchQueue", "evh_watchqueue"), On("REHASH", "load_watch"),
                      On("CHANJOIN", "evh_chan_join"), On("USERCONN", "evh_user"),
                      On("SAVEDB", "save_watchdb")>>,
           fns |-> {"evh_chan_join", "evh_user", "save_watchdb", "load_watch"},
           names |-> {"WatchQueue"}, needs |-> "guardian"]
MOmegastats == [adds |-> <<Every("Omega Stats First Run", "evh_first_run")>>,
                fns |-> {}, names |-> {"Omega Statistical Post"}, needs |-> "nothing"]
MFantasy == [adds |-> <<On("REHASH", "evh_rehash")>>, fns |-> {}, names |-> {},
             needs |-> "nothing"]

Info == [g_core |-> GCore, g_update |-> GUpdate, g_sessions |-> GSessions,
         g_scan |-> GScan, g_watch |-> GWatch, m_omegastats |-> MOmegastats,
         m_fantasy |-> MFantasy]

\* Only modules of the client directory, which the configuration names, ask for g_core.  An
\* instance that looks at SHUTDOWN also looks at REHASH, whose hook stands behind its own.
ASSUME SetupsAssumption ==
    \A s \in Setups :
        /\ "SHUTDOWN" \in s.names => "REHASH" \in s.names
        /\ s.files \subseteq DOMAIN Info /\ s.queues \subseteq Seq([name : s.files, load : {"pre", "std", "post"}])
        /\ s.core \in Seq({m \in DOMAIN Info : Info[m].needs = "nothing"}) /\ IsInjective(s.core)

ASSUME GoneAssumption == Gone \notin DOMAIN Info \cup {"core"}

----------------------------------------------------------------------------
(* Opening and closing a module. *)

\* Handlers and timers are added, but for those outside the names of interest.
AddAll(list, owner, ons) ==
    LET mine == Picked(ons, {i \in DOMAIN ons : ons[i].name \in Names})
    IN  list \o [i \in DOMAIN mine |-> AddEventEx(mine[i].name, owner, mine[i].fn, mine[i].timed)]

\* mod_unregister: the places of the nodes the module deletes.
Unregistered(list, m) ==
    {DelEvent(list, m, fn) : fn \in Info[m].fns}
        \cup {DelTimedEvent(list, name) : name \in Info[m].names}

\* Modules are closed: each unregisters, and dlclose unmaps it, so that what
\* it left behind points to nothing.
Closed(list, ms) ==
    LET rest == Without(list, UNION {Unregistered(list, m) : m \in ms})
    IN  [i \in DOMAIN rest |-> IF rest[i].owner \in ms THEN [rest[i] EXCEPT !.owner = Gone]
                                                      ELSE rest[i]]

\* A wrong variant of Opens: a missing dependency is told like any other failure.
OpensRefused(m, list, mods) ==
    LET met == Info[m].needs = "nothing" \/ "g_core" \in ToSet(mods)
    IN  IF m \in ToSet(mods) THEN {[result |-> "exists", list |-> list]}
        ELSE {IF met THEN [result |-> "ok", list |-> AddAll(list, m, Info[m].adds)]
                     ELSE [result |-> "refused", list |-> Closed(list, {m})]}

\* module_open with the modules mods loaded: the file may be bad, and the
\* module may refuse, after which its unregister function runs all the same.
Opens(m, list, mods) ==
    LET met == Info[m].needs = "nothing" \/ "g_core" \in ToSet(mods)
        no  == IF Info[m].needs = "dependency" THEN "dependency" ELSE "refused"
    IN  IF m \in ToSet(mods) THEN {[result |-> "exists", list |-> list]}
        ELSE {[result |-> "bad", list |-> list],
              IF met THEN [result |-> "ok", list |-> AddAll(list, m, Info[m].adds)]
                     ELSE [result |-> no, list |-> Closed(list, {m})]}

Opened(m, o, mods) ==
    /\ events' = o.list
    /\ loaded' = IF o.result = "ok" THEN Append(mods, m) ELSE mods
    /\ bad' = IF o.result = "bad" THEN bad \cup {m} ELSE bad

\* A wrong variant of CanClose: a module without an unregister function goes.
CanCloseAny(m) == m \in ToSet(loaded)

\* module_close; g_core has no unregister function and stays.
CanClose(m) == m \in ToSet(loaded) /\ m # "g_core"

----------------------------------------------------------------------------
(* Start-up: the queue is worked off in three passes. *)

Load == {"pre", "std", "post"}
Later(load) == IF load = "pre" THEN "std" ELSE "post"

Boot == <<Every("House Keeping", "ev_housekeeping"), On("BURST", "burst_local_users"),
          On("BURST", "burst_local_servers"), On("CONNECT", "introduce_users"),
          On("REHASH", "evh_access_rehash")>>

\* Run and init_modules up to the first pass.
Init ==
    /\ setup \in Setups
    /\ walk = Idle /\ halted = FALSE
    /\ events = FoldLeft(LAMBDA l, m : AddAll(l, m, Info[m].adds),
                         AddAll(<<>>, "core", Boot), Core)
    /\ loaded = Core
    /\ que \in setup.queues   \* what the configuration asks for
    /\ pass = "pre" /\ at = 1
    /\ link = "down" /\ phase = "start" /\ bad = {}
    /\ asked = {e.name : e \in {q \in ToSet(que) : q.load # "post"}}

Dequeue == que' = RemoveAt(que, at) /\ UNCHANGED <<at, pass>>

\* One entry of the queue in the present pass of run_mod_que.
RunModQue ==
    /\ phase = "start" /\ at \in DOMAIN que
    /\ LET mq == que[at]
       IN  IF mq.load # pass
           THEN at' = at + 1 /\ UNCHANGED <<que, pass, events, loaded, bad>>
           ELSE IF mq.name \in ToSet(loaded)
           THEN Dequeue /\ UNCHANGED <<events, loaded, bad>>
           ELSE \E o \in Opens(mq.name, events, loaded) :
                   /\ Opened(mq.name, o, loaded)
                   /\ IF o.result = "dependency" /\ mq.load # "post"
                      THEN /\ que' = [que EXCEPT ![at].load = Later(mq.load)]
                           /\ at' = at + 1
                           /\ UNCHANGED pass
                      ELSE Dequeue
    /\ UNCHANGED <<walk, halted, asked, link, phase>>

\* The end of a pass; init_modules calls the next one.
NextPass ==
    /\ phase = "start" /\ at = Len(que) + 1 /\ pass # "post"
    /\ pass' = Later(pass) /\ at' = 1
    /\ UNCHANGED <<eventVars, loaded, que, asked, bad, link, phase>>

\* The link is lost: the timer that connects again is added.
WithRetry(list) == AddAll(list, "core", <<Every("Connect Uplink", "ev_connectuplink")>>)

\* A wrong variant of Hooks: SHUTDOWN is registered last.
HooksSwapped == <<On("REHASH", "mod_event_rehash"), On("SHUTDOWN", "mod_event_shutdown")>>
Hooks == <<On("SHUTDOWN", "mod_event_shutdown"), On("REHASH", "mod_event_rehash")>>

\* The rest of init_modules and of Run; the link is made, or lost at once.
Started ==
    /\ phase = "start" /\ at = Len(que) + 1 /\ pass = "post"
    /\ phase' = "run" /\ pass' = "done"
    /\ LET list == AddAll(events, "core", Hooks)
       IN  \/ link' = "burst" /\ events' = list
           \/ link' = "down" /\ events' = WithRetry(list)
    /\ asked' = {}
    /\ UNCHANGED <<walk, halted, loaded, que, at, bad>>

----------------------------------------------------------------------------
(* What an operator does. *)

Commands == phase = "run" /\ walk = Idle

ModLoad(m) ==
    /\ Commands /\ Len(events) <= MaxEvents
    /\ \E o \in Opens(m, events, loaded) : Opened(m, o, loaded)
    /\ UNCHANGED <<walk, halted, que, pass, at, asked, link, phase>>

ModUnload(m) ==
    /\ Commands /\ CanClose(m)
    /\ events' = Closed(events, {m})
    /\ loaded' = RemoveFirst(loaded, m)
    /\ UNCHANGED <<walk, halted, que, pass, at, asked, bad, link, phase>>

\* The module is closed and, whatever becomes of it, opened again.
ModReload(m) ==
    /\ Commands /\ CanClose(m) /\ Len(events) <= MaxEvents
    /\ \E o \in Opens(m, Closed(events, {m}), RemoveFirst(loaded, m)) :
          Opened(m, o, RemoveFirst(loaded, m))
    /\ UNCHANGED <<walk, halted, que, pass, at, asked, link, phase>>

----------------------------------------------------------------------------
(* What handlers do to the list: the lists they may leave behind. *)

\* Handlers that write to the uplink, and so may find it broken.
Sends(fn) == fn \in {"burst_local_users", "burst_local_servers", "introduce_users",
                     "evh_watchqueue", "load_watch", "evh_user", "version_que", "scan_que"}

\* Handlers that may return EVENT_STOP: two do when they meet a remote user,
\* the others leave their function without a value.
MayStop(fn) == fn \in {"burst_local_users", "introduce_users",
                       "burst_local_servers", "load_watch", "scan_nick", "event_userexit"}

Calling(fns) ==
    /\ phase \in {"run", "exit"}
    /\ walk # Idle /\ Marked("cur") # {}
    /\ Calls(walk, Current) /\ Current.owner # Gone /\ Current.fn \in fns
    /\ UNCHANGED <<loadVars, phase>>

\* The handler returns; if it sent something, the link may be lost by now.
Returns(list) ==
    /\ \E stop \in {FALSE, MayStop(Current.fn)} :
          \/ Called(list, stop) /\ UNCHANGED link
          \/ /\ Sends(Current.fn) /\ link # "down"
             /\ link' = "down" /\ Called(WithRetry(list), stop)

Deleted(list, name) == Without(list, {DelTimedEvent(list, name)})

\* Timers that delete themselves once their queue is empty.
QueueTimers == {"evh_watchqueue", "scan_que", "version_que"}
WorkOff ==
    /\ Calling(QueueTimers)
    /\ \/ Returns(Armed)
       \/ Returns(Deleted(Armed, Current.name))

\* g_scan: the end of a burst starts its two timers.
InitEvents ==
    /\ Calling({"init_events"})
    /\ Returns(AddAll(Armed, Current.owner, <<Every("SCANQ", "scan_que"),
                                              Every("VersionQueue", "version_que")>>))

\* m_omegastats: the first run is replaced by a slower timer.
FirstRun ==
    /\ Calling({"evh_first_run"})
    /\ Returns(AddAll(Deleted(Armed, "Omega Stats First Run"), Current.owner,
                      <<Every("Omega Statistical Post", "evh_omegastats")>>))

\* ev_connectuplink: a connection, lost again while greeting or not, or none;
\* a Connect that fails counts as success.
ConnectUplink ==
    /\ Calling({"ev_connectuplink"})
    /\ LET rest == Deleted(Armed, "Connect Uplink")
       IN  IF link # "down" THEN Called(Armed, FALSE) /\ UNCHANGED link
           ELSE \/ Called(rest, FALSE) /\ link' \in {"down", "burst"}
                \/ Called(WithRetry(rest), FALSE) /\ UNCHANGED link

\* mod_event_shutdown: purge_modules closes all modules.  Each deletes nodes of
\* its own, so that the order in which they go does not matter to the list.
Purge ==
    /\ phase = "exit"
    /\ walk # Idle /\ Marked("cur") # {}
    /\ Calls(walk, Current) /\ Current.fn = "mod_event_shutdown"
    /\ loaded' = <<>>
    /\ Called(Closed(Armed, ToSet(loaded)), FALSE)
    /\ UNCHANGED <<que, pass, at, asked, bad, link, phase>>

\* All other handlers leave the list alone; mod_event_rehash runs the queue,
\* which is empty by then (QueueDrained).
Special == QueueTimers \cup {"init_events", "evh_first_run", "ev_connectuplink",
                             "mod_event_shutdown"}
Plain ==
    /\ Calling({Current.fn} \ Special)
    /\ Returns(Armed)

\* A handler of an unmapped module is called.
Crash ==
    /\ walk # Idle /\ Marked("cur") # {}
    /\ Calls(walk, Current) /\ Current.owner = Gone
    /\ phase' = "crash"
    /\ UNCHANGED <<eventVars, loadVars, link>>

----------------------------------------------------------------------------
(* The main loop. *)

\* RunTimedEvents, when a timer is due.
Timers ==
    /\ Commands
    /\ \E n \in ToSet(events) : n.timed /\ n.due
    /\ RunTimedEvents
    /\ UNCHANGED <<loadVars, link, phase>>

\* Users come, go and speak, and the configuration is read again.
Emitted == {"USERCONN", "USEREXIT", "USERNICK", "CHANJOIN", "CHANPART", "CHANKICK",
            "SAVEDB", "REHASH"}
Emit(name) ==
    /\ Commands /\ name \in Emitted
    /\ EventEx(name)
    /\ UNCHANGED <<loadVars, link, phase>>

\* The peer's first PING ends the burst.
Burst ==
    /\ Commands /\ link = "burst" /\ Len(events) <= MaxEvents
    /\ link' = "up"
    /\ EventEx("BURST")
    /\ UNCHANGED <<loadVars, phase>>

\* The uplink is found broken outside of a handler.
LinkLost ==
    /\ Commands /\ link # "down"
    /\ link' = "down" /\ events' = WithRetry(events)
    /\ UNCHANGED <<walk, halted, loadVars, phase>>

\* Exit (AtExit) and do_restart.
Exit ==
    /\ Commands
    /\ phase' = "exit"
    /\ EventEx("SHUTDOWN")
    /\ UNCHANGED <<loadVars, link>>

Ended ==
    /\ phase = "exit" /\ walk = Idle
    /\ phase' = "end"
    /\ UNCHANGED <<eventVars, loadVars, link>>

Handler ==
    /\ phase # "crash"
    /\ WorkOff \/ InitEvents \/ FirstRun \/ ConnectUplink \/ Purge \/ Plain \/ Crash

Step == \/ Handler
        \/ phase # "crash" /\ Skip /\ UNCHANGED <<loadVars, link, phase>>

Startup == RunModQue \/ NextPass \/ Started

Changes ==
    \/ Startup \/ Step
    \/ \E m \in Files : ModLoad(m) \/ ModUnload(m) \/ ModReload(m)
    \/ \E name \in Names : Emit(name)
    \/ Timers \/ Burst \/ LinkLost \/ Exit \/ Ended
    \/ phase = "run" /\ Tick /\ UNCHANGED <<loadVars, link, phase>>

Next == Changes /\ UNCHANGED setup

Spec == Init /\ [][Next]_vars

----------------------------------------------------------------------------
(* Correctness *)

TypeOK ==
    /\ loaded \in Seq(Files \cup ToSet(Core)) /\ bad \subseteq Files
    /\ que \in Seq([name : Files, load : Load])
    /\ pass \in Load \cup {"done"} /\ at \in 1..(Len(que) + 1)
    /\ link \in {"down", "burst", "up"}
    /\ phase \in {"start", "run", "exit", "end", "crash"}

Handlers ==
    {"ev_housekeeping", "burst_local_users", "burst_local_servers", "introduce_users", "evh_access_rehash",
     "mod_event_shutdown", "mod_event_rehash", "ev_connectuplink", "event_usercon", "event_userexit",
     "evh_session_rehash", "scan_nick", "init_events", "scan_que", "version_que", "evh_watchqueue",
     "load_watch", "evh_chan_join", "evh_user", "save_watchdb", "evh_first_run", "evh_omegastats", "evh_rehash"}

\* The types of the list; only a walk points into it.
EventsTypeOK ==
    /\ \A n \in ToSet(events) :
          /\ n.name \in Names /\ n.fn \in Handlers
          /\ n.owner \in Files \cup ToSet(Core) \cup {"core", Gone}
          /\ n.timed \in BOOLEAN /\ n.due \in BOOLEAN /\ (n.due => n.timed)
          /\ n.marks \subseteq {"cur", "next", "todo"}
    /\ walk.kind \in {"none", "freed", "recall", "timed", "emit"} /\ walk.more \in BOOLEAN
    /\ halted \in BOOLEAN
    /\ walk = Idle => Marked("cur") = {} /\ Marked("next") = {}

\* Whatever a handler deletes, the node that RunTimedEvents or EventEx has
\* read as the next one is still in the list when it gets there: also the
\* purge of all modules in the SHUTDOWN walk (module.c) spares it.
NextLives == EventsTypeOK /\ walk # Lost

\* A module is in the list once, though the configuration may name it twice
\* and operators may load it again (module_find in module_open).
LoadedOnce == IsInjective(loaded)

\* init_modules leaves nothing in the queue: what its passes put off for a
\* missing dependency is tried again and dropped by the last one.
QueueDrained == phase # "start" => que = <<>>

\* "We have an unmet dependency, try to load it next time around": if g_core
\* is asked for before the last pass and its file is good, then every module
\* asked for before the last pass is loaded when start-up ends, but for those
\* whose file is bad and g_watch, which fails for good instead of saying what
\* it misses; and this however the queue was ordered.
DependentsLoaded ==
    [][phase = "start" /\ phase' = "run" /\ "g_core" \in asked /\ "g_core" \notin bad
         => {m \in asked \ bad : Info[m].needs # "guardian"} \subseteq ToSet(loaded)]_vars

\* g_core has no unregister function and cannot be unloaded, so the modules
\* that asked for it keep it until the purge.
CoreKept == \A m \in ToSet(loaded) : Info[m].needs # "nothing" => "g_core" \in ToSet(loaded)

\* What is in memory is what it should be, through every order of loads,
\* unloads and reloads: each module once, none waiting, none without g_core.
LoaderRight == TypeOK /\ LoadedOnce /\ QueueDrained /\ CoreKept

\* The handlers that modules leave behind in the event list when they are
\* closed are these and no other; in particular every g_watch handler
\* is gone with its module, whichever modules share its events.
\* (evh_omegastats is left when m_omegastats is reloaded before its first run:
\* the second of the two timers then deletes the first, runs again and starts a
\* second post timer, of which Module_Close deletes one.)
Forgotten == {"evh_session_rehash", "init_events", "evh_rehash", "evh_first_run",
              "evh_omegastats", "scan_que", "version_que"}
OnlyForgotten == \A n \in ToSet(events) : n.owner = Gone => n.fn \in Forgotten

\* A walk that is not stopped has called every handler that was due when it
\* began and is still registered.
NoneSkipped == walk = Idle /\ ~halted => Marked("todo") = {}

=============================================================================
