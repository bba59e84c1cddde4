------------------------------- MODULE Daemon -------------------------------
(***************************************************************************)
(* The life of the process (main.c, sig.c, g_die.c, g_update.c): it starts *)
(* from the configuration and the database, is rehashed, saves on a timer, *)
(* on command and when it exits, and may be restarted or killed at any     *)
(* moment.  Composed of the configuration, the database, the access list   *)
(* and the split list, which REHASH and SAVEDB reach through their events. *)
(***************************************************************************)
EXTENDS Access, Splits

CONSTANT Scopes     \* what an instance looks at: [moves, disks, masks], the steps of the environment
                    \* that are taken, the files the administrator writes, the masks given

ASSUME ScopesAssumption == \A s \in Scopes : s.disks \subseteq Disks /\ s.masks \subseteq Masks

VARIABLES
    proc,           \* "up" or "down"
    sync,           \* sync_state: "STARTUP", "BURSTING", "RUNNING"
    scope,          \* the member of Scopes of this behaviour
    past            \* history: what was last written, see NoPast

vars == <<disk, conf, db, file, accessVars, splitVars, proc, sync, scope, past>>

Up == proc = "up"
Moves(what) == Up /\ what \in scope.moves
OnLine(what) == Moves(what) /\ sync # "STARTUP"

\* `saved': the entries and splits at the last write.  `whole': it was not cut short.
\* `early': a rehash before the burst ended dropped entries that have rows.
NoPast == [saved |-> [entries |-> {}, splits |-> <<>>, tracked |-> FALSE], whole |-> TRUE, early |-> FALSE]

\* The entries that should have rows.
Ours == {a.name : a \in {b \in ToSet(access) : b.nonConfig}}

----------------------------------------------------------------------------
Init ==
    /\ scope \in Scopes
    /\ disk \in scope.disks /\ conf = NoConf
    /\ db = <<>> /\ file = <<>>
    /\ access = <<>> /\ users = [u \in Users |-> Gone] /\ operonly = TRUE /\ unnoticed = {}
    /\ splits = <<>> /\ linked = {} /\ splitsave = FALSE /\ tracking = FALSE
    /\ proc = "down" /\ sync = "STARTUP" /\ past = NoPast

\* Run: the configuration, the database, the access list, then the modules.
Boot ==
    LET tree == Fresh(disk).tree
        save == Bool(tree, "splitserv", FALSE)
        rows == LoadRows(file)
        st   == LoadDb(rows, save, {})
    IN  /\ proc' = "up" /\ sync' = "STARTUP"
        /\ conf' = Fresh(disk)
        /\ operonly' = Bool(tree, "settings", TRUE)
        /\ access' = LoadAccess(BuildAccessList(<<>>, tree), Rows(rows, "AC"))
        /\ users' = [u \in Users |-> Gone] /\ unnoticed' = {}
        /\ splits' = st.list /\ db' = st.db
        /\ tracking' = TRUE /\ splitsave' = save
        /\ linked' = {}
        /\ past' = [past EXCEPT !.early = FALSE]
        /\ UNCHANGED <<disk, file, scope>>

Start == ~Up /\ Boot

\* The process is gone; what it had in memory is not looked at again.
Halt ==
    /\ proc' = "down" /\ sync' = "STARTUP" /\ conf' = NoConf
    /\ db' = <<>> /\ access' = <<>> /\ users' = [u \in Users |-> Gone] /\ unnoticed' = {}
    /\ splits' = <<>> /\ linked' = {} /\ tracking' = FALSE
    /\ UNCHANGED <<disk, operonly, splitsave, scope>>

----------------------------------------------------------------------------
(* Saving. *)

\* SAVEDB, as far as the modules here hear of it.
SaveDbEvent == IF tracking THEN SaveDb(db) ELSE db

Saved == [entries |-> Ours, splits |-> IF splitsave THEN splits ELSE <<>>, tracked |-> tracking]

\* A wrong variant of DbUpdate: the file is written before the modules save.
DbUpdateFirst ==
    /\ Moves("save")
    /\ db' = SaveDbEvent /\ file' = Lines(db)
    /\ past' = [past EXCEPT !.saved = Saved, !.whole = TRUE]
    /\ UNCHANGED <<disk, conf, accessVars, splitVars, proc, sync, scope>>

\* evh_db_update, on the timer or by UPDATE.
DbUpdate ==
    /\ Moves("save")
    /\ db' = SaveDbEvent /\ file' = Lines(db')
    /\ past' = [past EXCEPT !.saved = Saved, !.whole = TRUE]
    /\ UNCHANGED <<disk, conf, accessVars, splitVars, proc, sync, scope>>

\* dbi_save has unlinked the file and cannot open it again.
DbUpdateFails ==
    /\ Moves("save")
    /\ db' = SaveDbEvent /\ file' = <<>>
    /\ past' = [past EXCEPT !.whole = FALSE]
    /\ UNCHANGED <<disk, conf, accessVars, splitVars, proc, sync, scope>>

\* AtExit, after SHUTDOWN, SIGINT or SIGTERM.  The purge of the modules closes the database
\* first, and m_splitserv then saves to what unregister_db has freed: whether the process ends
\* in that or goes on, the file is written.
AtExit ==
    /\ Moves("save")
    /\ file' = Lines(SaveDbEvent)
    /\ past' = [past EXCEPT !.saved = Saved, !.whole = TRUE]
    /\ Halt

\* do_restart saves nothing.
DoRestart == Up /\ Boot

\* The same purge, in which the freed database ends the process instead.
RestartFaults == Up /\ tracking /\ Halt /\ UNCHANGED <<file, past>>

\* The process is killed, maybe in a write.
Crash ==
    /\ Moves("save")
    /\ \/ UNCHANGED <<file, past>>
       \/ file' \in Cut(Lines(SaveDbEvent)) /\ past' = [past EXCEPT !.whole = FALSE]
    /\ Halt

----------------------------------------------------------------------------
(* The configuration. *)

\* An administrator writes other files.
Edit ==
    /\ disk' \in scope.disks
    /\ UNCHANGED <<conf, db, file, accessVars, splitVars, proc, sync, scope, past>>

\* Rehash, then REHASH: evh_access_rehash, splitserv_rehash.  What config_load
\* answers is not looked at.
Rehash ==
    LET tree == Reloaded.tree
        save == Bool(tree, "splitserv", FALSE)
    IN  /\ Up
        /\ conf' = Reloaded
        /\ access' = BuildAccessList(DestAccList(access, sync = "RUNNING"), tree)
        /\ RefreshAccess(access')
        /\ IF tracking THEN splitsave' = save /\ db' = IF save THEN db ELSE DelRows(db, "SPLIT")
           ELSE UNCHANGED <<splitsave, db>>
        /\ past' = [past EXCEPT !.early = @ \/ (sync # "RUNNING" /\ Ours # {})]
        /\ UNCHANGED <<disk, file, operonly, splits, linked, tracking, proc, sync, scope>>

----------------------------------------------------------------------------
(* The network. *)

\* The uplink answers, and has sent its burst.
Sync ==
    /\ Up
    /\ sync' = CASE sync = "STARTUP" -> "BURSTING" [] sync = "BURSTING" -> "RUNNING" [] OTHER -> "BURSTING"
    /\ sync = "RUNNING" => linked = {} /\ \A u \in Users : ~users[u].here
    /\ UNCHANGED <<disk, conf, db, file, accessVars, splitVars, proc, scope, past>>

\* The link is lost: users and servers go, no SERVEREXIT is raised.
LoseUplink ==
    /\ Up /\ sync # "STARTUP"
    /\ linked' = {} /\ users' = [u \in Users |-> Gone] /\ unnoticed' = {}
    /\ UNCHANGED <<disk, conf, db, file, access, operonly, splits, splitsave, tracking, proc, sync, scope, past>>

\* One user or operator does something.
UserStep ==
    /\ OnLine("users")
    /\ \E u \in Users :
          \/ UserQuits(u) \/ OperMode(u) \/ ServiceMode(u)
          \/ \E n \in Nicks, i \in Idents, oper, service, ahead \in BOOLEAN :
                UserConnects(u, n, i, oper, service, ahead)
          \/ \E n \in Nicks : NewNick(u, n)
          \/ \E i \in Idents : Fident(u, i)
    /\ UNCHANGED <<disk, conf, db, file, splitVars, proc, sync, scope, past>>

AccessStep ==
    /\ OnLine("access")
    /\ \E n \in Names : AccessDel(n) \/ \E f \in Flags, m \in scope.masks : AccessAdd(n, f, m)
    /\ UNCHANGED <<disk, conf, splitVars, proc, sync, scope, past>>

\* EXEMPT ADD of g_sessions: a row of one word.
Exempt ==
    /\ OnLine("exempts")
    /\ db' = AddRow(db, "EX", "host", <<>>)
    /\ UNCHANGED <<disk, conf, file, accessVars, splitVars, proc, sync, scope, past>>

SplitStep ==
    /\ OnLine("splits")
    /\ \/ \E s \in Servers : ServConnect(s) \/ ServExit(s) \/ SplitAdd(s) \/ SplitForget(s)
       \/ \E S \in SUBSET Servers : ExpireSplits(S)
       \/ LoadSplitserv(Bool(conf.tree, "splitserv", FALSE))
       \/ UnloadSplitserv
    /\ UNCHANGED <<disk, conf, accessVars, proc, sync, scope, past>>

Next ==
    \/ Start \/ AtExit \/ DoRestart \/ RestartFaults \/ Crash
    \/ DbUpdate \/ DbUpdateFails
    \/ Edit \/ Rehash
    \/ Sync \/ LoseUplink
    \/ UserStep \/ AccessStep \/ Exempt \/ SplitStep

Spec == Init /\ [][Next]_vars

----------------------------------------------------------------------------
(* Correctness *)

\* The types of the variables.
TypeOK == ConfTypeOK /\ DbTypeOK /\ AccessTypeOK /\ SplitsTypeOK

\* An entry of the list counts as the database's own exactly when it has a row: ADD
\* over a name of the configuration, DEL, rehashes and restarts keep the two in
\* step.  A rehash before the burst has ended is the exception (access.c:333).
RowsAgree ==
    Up /\ ~past.early => {r.key : r \in ToSet(Rows(db, "AC"))} = Ours

\* A start from a file that was written to its end brings back every entry of that
\* time, with the flags and the mask last given to it, and every split that was
\* tracked, however the process ended; a row of one word ends the reading.
SavedIsRestored ==
    [][ ((Start \/ DoRestart) /\ past.whole /\ Readable(file) = file) =>
          /\ \A name \in past.saved.entries : \E l \in ToSet(file), a \in ToSet(access') :
                /\ l.table = "AC" /\ l.key = name /\ a.name = name /\ a.nonConfig
                /\ a.flags = l.value[1] /\ l.value[2] \in a.masks
          /\ splitsave' /\ past.saved.tracked => splits' = past.saved.splits ]_vars

\* As long as the include limit is not reached, a rehash reads every directive a fresh
\* start would read: no file is taken for one that is included already.
ConfCurrent == [][Rehash /\ conf'.cnt <= MaxInclude => ToSet(conf'.tree) = ToSet(Fresh(disk).tree)]_vars

\* The access list and its table go together, in every state of the right form.
RowsRight == TypeOK /\ RowsAgree

\* What is in the files comes back: the database at a start, the configuration at a
\* rehash.
FilesRestored == SavedIsRestored /\ ConfCurrent

\* "Reload all configuration files" (g_die.c:339): after a rehash the daemon has the
\* directives of the files.
RehashReloads == [][Rehash => ToSet(conf'.tree) = ToSet(Fresh(disk).tree)]_vars

=============================================================================
