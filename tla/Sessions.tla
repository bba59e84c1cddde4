------------------------------ MODULE Sessions ------------------------------
(***************************************************************************)
(* g_sessions.c: how many sessions each host has, counted up by USERCONN   *)
(* and down by USEREXIT, and the exempted hosts, kept in a list and as     *)
(* rows of the database.  Exempt hosts are patterns.                       *)
(***************************************************************************)
EXTENDS Visitors

CONSTANTS
    Wild,      \* pairs <<p, h>>: p is a wildcard that matches the host or pattern h
    Limits,    \* the numbers an exemption may give
    Full       \* bound: rows of the database

VARIABLES
    sessions,  \* SessionsList: host -> count, for the hosts that have an entry
    exempts,   \* exemptlist
    exrows,    \* the rows "EX" of the database, in their order
    blind,     \* history: hosts of users that were never counted
    wild       \* history: an exemption went with another one's DEL

sessionVars == <<sessions, exempts, exrows, blind, wild>>

Hosts == {what.host : what \in setup.users}
On(h) == {a \in Live : user[a].host = h}
\* The user that is yet to be counted.
Waiting == IF "g_sessions" \in ToSet(chain) THEN {guest} ELSE {}

MatchWild(p, h) == p = h \/ <<p, h>> \in Wild

----------------------------------------------------------------------------
\* A wrong variant of AddSession: only the first session is counted.
AddSessionFirst(h) ==
    sessions' = [x \in DOMAIN sessions \cup {h} |-> IF x = h THEN 1 ELSE sessions[x]]

AddSession(h) ==
    sessions' = [x \in DOMAIN sessions \cup {h} |->
                    IF x # h THEN sessions[x] ELSE IF h \in DOMAIN sessions THEN sessions[h] + 1 ELSE 1]

\* del_session for each user of S.  An entry goes down to zero and stays; the
\* exit after that frees it, and those after find none.
DelSession(S) ==
    LET gone(h) == Cardinality({a \in S : user[a].host = h})
        kept    == {h \in DOMAIN sessions : gone(h) <= sessions[h]}
    IN  sessions' = [h \in kept |-> sessions[h] - gone(h)]

\* event_userexit, if the module is there to hear of it.  A user may be killed in
\* the chain, before the module has counted it.
UserExits(S) ==
    /\ IF Loaded("g_sessions") THEN DelSession(S) ELSE UNCHANGED sessions
    /\ blind' = blind \cup {user[a].host : a \in S \cap Waiting}
    /\ UNCHANGED <<exempts, exrows, wild>>

\* event_usercon: services are not counted, though their exits will be.
EventUsercon ==
    /\ Handling("g_sessions") /\ guest \in Live
    /\ Handled
    /\ LET h == user[guest].host
       IN  IF user[guest].service
           THEN blind' = blind \cup {h} /\ UNCHANGED sessions
           ELSE AddSession(h) /\ UNCHANGED blind
    /\ UNCHANGED <<exempts, exrows, wild>>

----------------------------------------------------------------------------
(* Exemptions. *)

FindExempt(list, h) == SelectInSeq(list, LAMBDA e : MatchWild(e.host, h))

\* addto_db_entry: a row that is there is replaced in its place.
Row(rows, e) ==
    LET i == SelectInSeq(rows, LAMBDA r : r.host = e.host)
    IN  IF i = 0 THEN Append(rows, e) ELSE [rows EXCEPT ![i] = e]

\* The list and the rows after add_exempt.
AddExempt(st, e) ==
    IF FindExempt(st.list, e.host) # 0 THEN st
    ELSE [list |-> Append(st.list, e), rows |-> Row(st.rows, e)]

\* del_exempt: whatever matches either way.
DelExempt(list, p) ==
    Picked(list, {i \in DOMAIN list : ~MatchWild(list[i].host, p) /\ ~MatchWild(p, list[i].host)})

\* del_db_entry: the row of that name goes; here of the list, too.
DelRow(list, p) == Picked(list, {i \in DOMAIN list : list[i].host # p})

\* evh_session_rehash: the exemptions of the configuration.
Configured(st) == FoldLeft(AddExempt, st, setup.exempts)

\* load_exemptdb: all the rows.
LoadExemptdb == exrows

InitSessions ==
    /\ sessions = <<>>
    /\ exempts = <<>> /\ exrows = setup.exrows
    /\ blind = {} /\ wild = FALSE

ExemptAdd(p, n) ==
    /\ Calm /\ Loaded("g_sessions") /\ Len(exrows) < Full
    /\ LET st == AddExempt([list |-> exempts, rows |-> exrows], [host |-> p, count |-> n])
       IN  exempts' = st.list /\ exrows' = st.rows
    /\ UNCHANGED <<visitorVars, sessions, blind, wild>>

\* A wrong variant of ExemptDel: the row stays.
ExemptDelRow(p) ==
    /\ Calm /\ Loaded("g_sessions")
    /\ exempts' = DelExempt(exempts, p)
    /\ wild' = (wild \/ exempts' # DelRow(exempts, p))
    /\ UNCHANGED <<visitorVars, sessions, blind, exrows>>

\* EXEMPT DEL: the exemptions that match go, but only the row of that name.
ExemptDel(p) ==
    /\ Calm /\ Loaded("g_sessions")
    /\ exempts' = DelExempt(exempts, p)
    /\ exrows' = DelRow(exrows, p)
    /\ wild' = (wild \/ exempts' # DelRow(exempts, p))
    /\ UNCHANGED <<visitorVars, sessions, blind>>

ExemptLoad ==
    /\ Calm /\ Loaded("g_sessions")
    /\ exempts' = LoadExemptdb
    /\ wild' = FALSE
    /\ UNCHANGED <<visitorVars, sessions, exrows, blind>>

\* REHASH
SessionRehash ==
    /\ Calm /\ Loaded("g_sessions")
    /\ LET st == Configured([list |-> exempts, rows |-> exrows])
       IN  exempts' = st.list /\ exrows' = st.rows
    /\ UNCHANGED <<visitorVars, sessions, blind, wild>>

----------------------------------------------------------------------------
\* Module_Init and Module_Close.  A new instance knows nothing of the users
\* that are there.
LoadSessions ==
    /\ LoadModule("g_sessions")
    /\ sessions' = <<>>
    /\ LET st == Configured([list |-> LoadExemptdb, rows |-> exrows])
       IN  exempts' = st.list /\ exrows' = st.rows
    /\ blind' = {user[a].host : a \in Live}
    /\ wild' = FALSE
    /\ UNCHANGED <<setup, user, members, sync, linked, chain, guest, fault>>

UnloadSessions ==
    /\ UnloadModule("g_sessions")
    /\ sessions' = <<>>
    /\ exempts' = <<>>
    /\ blind' = {}
    /\ UNCHANGED <<setup, user, members, sync, linked, chain, guest, fault, exrows, wild>>

----------------------------------------------------------------------------
(* Correctness *)

\* No host is said to have more sessions than it has: whatever goes uncounted
\* on the way in (services, users there before the module, users killed before
\* the handler was called), no host is alerted for users that are gone.
SessionsNeverOver ==
    fault = "none" => \A h \in DOMAIN sessions : sessions[h] <= Cardinality(On(h))

\* A host none of whose users went uncounted has exactly the sessions it has,
\* over quits, netsplits, losses of the link and kills.
SessionsExact ==
    fault = "none" /\ Loaded("g_sessions") =>
        \A h \in Hosts \ blind :
            (IF h \in DOMAIN sessions THEN sessions[h] ELSE 0) = Cardinality(On(h) \ Waiting)

\* Every exemption in force is in the database, as it is.
ExemptsSaved == ToSet(exempts) \subseteq ToSet(exrows)

\* A LOAD or a reload of the module changes no exemption and not their order,
\* in which the first match counts, unless a DEL took other exemptions along,
\* whose rows it leaves.
RowsAreList == Loaded("g_sessions") /\ ~wild => exempts = exrows

=============================================================================
