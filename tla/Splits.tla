------------------------------- MODULE Splits -------------------------------
(***************************************************************************)
(* m_splitserv.c: the servers that have split, kept from SERVEREXIT until  *)
(* SERVERCONN, by command, and over restarts in the table "SPLIT".         *)
(***************************************************************************)
EXTENDS Database

CONSTANT Servers

VARIABLES
    splits,      \* splits: the names of the servers in the order of their arrival
    linked,      \* the names in servlist, without our own
    splitsave,   \* SplitConfig.splitsave
    tracking     \* the module is loaded

When == <<"since">> \* the uplink and the time of a split, which decide nothing here

splitVars == <<splits, linked, splitsave, tracking>>

FindSplit(list, s) == SelectInSeq(list, LAMBDA p : p = s)

\* A wrong variant of AddSplit: that the server is linked is not noticed.
AddSplitLinked(st, s, here) ==
    IF FindSplit(st.list, s) # 0 THEN st
    ELSE [list |-> Append(st.list, s), db |-> AddRow(st.db, "SPLIT", s, When)]

\* splitserv_addsplit.
AddSplit(st, s, here) ==
    IF FindSplit(st.list, s) # 0 \/ s \in here THEN st
    ELSE [list |-> Append(st.list, s), db |-> AddRow(st.db, "SPLIT", s, When)]

\* splitserv_loaddb.
LoadDb(d, save, here) ==
    IF ~save THEN [list |-> <<>>, db |-> d]
    ELSE FoldLeft(LAMBDA st, r : AddSplit(st, r.key, here), [list |-> <<>>, db |-> d], Rows(d, "SPLIT"))

\* splitserv_savedb.
SaveDb(d) ==
    FoldLeft(LAMBDA e, p : AddRow(e, "SPLIT", p, When), DelRows(d, "SPLIT"),
             IF splitsave THEN splits ELSE <<>>)

----------------------------------------------------------------------------
\* new_serv and splitserv_servconnect.
ServConnect(s) ==
    /\ s \notin linked /\ linked' = linked \cup {s}
    /\ splits' = RemoveFirst(splits, s)
    /\ UNCHANGED <<splitsave, tracking, db, file>>

\* exit_serv and splitserv_servexit, which does not look whether it knows.
ServExit(s) ==
    /\ s \in linked /\ linked' = linked \ {s}
    /\ splits' = IF tracking THEN Append(splits, s) ELSE splits
    /\ UNCHANGED <<splitsave, tracking, db, file>>

\* splitserv_expiresplits: some of the splits have become too old.
ExpireSplits(S) ==
    /\ tracking /\ S # {} /\ S \subseteq ToSet(splits)
    /\ splits' = Picked(splits, {i \in DOMAIN splits : splits[i] \notin S})
    /\ db' = FoldLeft(LAMBDA d, p : DelRow(d, "SPLIT", p), db, Picked(splits, {i \in DOMAIN splits : splits[i] \in S}))
    /\ UNCHANGED <<linked, splitsave, tracking, file>>

SplitAdd(s) ==
    /\ tracking
    /\ LET st == AddSplit([list |-> splits, db |-> db], s, linked)
       IN  splits' = st.list /\ db' = st.db
    /\ UNCHANGED <<linked, splitsave, tracking, file>>

SplitForget(s) ==
    /\ tracking /\ FindSplit(splits, s) # 0
    /\ splits' = RemoveFirst(splits, s)
    /\ db' = DelRow(db, "SPLIT", s)
    /\ UNCHANGED <<linked, splitsave, tracking, file>>

\* splitserv_init, with the configuration that is loaded.
LoadSplitserv(save) ==
    /\ ~tracking /\ tracking' = TRUE /\ splitsave' = save
    /\ LET st == LoadDb(db, save, linked)
       IN  splits' = st.list /\ db' = st.db
    /\ UNCHANGED <<linked, file>>

\* splitserv_deinit.
UnloadSplitserv ==
    /\ tracking /\ tracking' = FALSE
    /\ splits' = <<>> /\ db' = SaveDb(db)
    /\ UNCHANGED <<linked, splitsave, file>>

----------------------------------------------------------------------------
SplitsTypeOK == splitsave \in BOOLEAN /\ linked \subseteq Servers /\ ToSet(splits) \subseteq Servers

\* No server is on the list twice and none that is linked is on it: not when the
\* list was loaded late, nor when the uplink took all servers along in silence.
SplitsApart ==
    /\ IsInjective(splits)
    /\ ToSet(splits) \cap linked = {}

=============================================================================
