---------------------------- MODULE DaemonProofs ----------------------------
(***************************************************************************)
(* Proofs about Daemon, for any users, nicks, masks, servers, files on the *)
(* disk and access lists.  That every user has the rights of the first     *)
(* entry that matches rests on who is refreshed when the list, the user or *)
(* its modes change, and never on what the list is made of.  That lists    *)
(* and tables go together, and that no server is on the list of splits     *)
(* while it is linked, needs all of that: what a row, a line of the file   *)
(* and a directive may be, and what each loading of a list makes of them.  *)
(* That a save is read back, and that a rehash reads what a start would    *)
(* read, needs what each loop of a save and of a load does, step by step.  *)
(***************************************************************************)
EXTENDS Daemon, ListProofs

\* The fields of a user.
Fields(x) == x = [here |-> x.here, oper |-> x.oper, service |-> x.service, nick |-> x.nick,
                  ident |-> x.ident, ip |-> x.ip, rights |-> x.rights]

\* RightsFollowList, with what is needed to set one field of a user.
RightsInv ==
    /\ DOMAIN users = Users
    /\ users = [u \in Users |-> users[u]]
    /\ \A u \in Users : Fields(users[u])
    /\ RightsFollowList

Unrefreshed(u) == ~users[u].here \/ users[u].service \/ (operonly /\ ~users[u].oper)

\* The rights that are given depend on what find_access looks at and on being an oper only.
LEMMA RightsOfSame ==
    ASSUME NEW list, NEW u, NEW x, NEW y, NEW opers,
           x.nick = y.nick, x.ident = y.ident, x.ip = y.ip, x.oper = y.oper
    PROVE  RightsOf(list, u, x, opers) = RightsOf(list, u, y, opers)
BY DEF RightsOf, FindAccess

\* One field of a user is set.
LEMMA SetRights ==
    ASSUME NEW x, Fields(x), NEW r
    PROVE  LET y == [x EXCEPT !.rights = r]
           IN  /\ Fields(y) /\ y.nick = x.nick /\ y.ident = x.ident /\ y.ip = x.ip /\ y.oper = x.oper
               /\ y.here = x.here /\ y.service = x.service /\ y.rights = r
BY DEF Fields

LEMMA SetOper ==
    ASSUME NEW x, Fields(x), NEW r
    PROVE  LET y == [x EXCEPT !.oper = r] IN Fields(y) /\ y.here = x.here /\ y.service = x.service
BY DEF Fields

LEMMA SetNick ==
    ASSUME NEW x, Fields(x), NEW r
    PROVE  LET y == [x EXCEPT !.nick = r] IN Fields(y) /\ y.here = x.here
BY DEF Fields

LEMMA SetIdent ==
    ASSUME NEW x, Fields(x), NEW r
    PROVE  LET y == [x EXCEPT !.ident = r] IN Fields(y) /\ y.here = x.here
BY DEF Fields

LEMMA SetService ==
    ASSUME NEW x, Fields(x), NEW r
    PROVE  LET y == [x EXCEPT !.service = r] IN Fields(y) /\ y.here = x.here
BY DEF Fields

\* Whose rights are set has those of the list, unless he is a service.
LEMMA Looked ==
    ASSUME NEW list, NEW u, NEW x, NEW opers, Fields(x)
    PROVE  LET y == [x EXCEPT !.rights = SetAccess(list, u, x, opers)]
           IN  /\ Fields(y) /\ y.here = x.here /\ y.service = x.service
               /\ ~y.service => y.rights = RightsOf(list, u, y, opers)
<1> DEFINE r == SetAccess(list, u, x, opers)
           y == [x EXCEPT !.rights = r]
<1>1. ~x.service => r = RightsOf(list, u, x, opers)
  BY DEF SetAccess
<1> HIDE DEF r
<1>2. /\ Fields(y) /\ y.nick = x.nick /\ y.ident = x.ident /\ y.ip = x.ip /\ y.oper = x.oper
      /\ y.here = x.here /\ y.service = x.service /\ y.rights = r
  BY SetRights
<1> HIDE DEF y
<1>3. RightsOf(list, u, x, opers) = RightsOf(list, u, y, opers)
  BY <1>2, RightsOfSame
<1>4. Fields(y) /\ y.here = x.here /\ y.service = x.service /\ (~y.service => y.rights = RightsOf(list, u, y, opers))
  BY <1>1, <1>2, <1>3
<1>5. QED
  BY <1>4 DEF y, r

\* The list may be changed at will if refresh_access follows: those it skips
\* while only opers have rights have none, under either list.
LEMMA Refreshed ==
    ASSUME RightsInv, RefreshAccess(access'), UNCHANGED operonly
    PROVE  RightsInv'
<1>1. /\ users' = [u \in Users |->
                     IF Unrefreshed(u) THEN users[u]
                     ELSE [users[u] EXCEPT !.rights = SetAccess(access', u, users[u], operonly)]]
      /\ unnoticed' = {u \in unnoticed : Unrefreshed(u)}
  BY Zenon DEF RefreshAccess, Unrefreshed
<1>2. ASSUME NEW u \in Users
      PROVE  /\ Fields(users'[u])
             /\ users'[u].here /\ ~users'[u].service /\ u \notin unnoticed' =>
                   users'[u].rights = RightsOf(access', u, users'[u], operonly')
  <2>1. CASE Unrefreshed(u)
    <3>1. users'[u] = users[u] /\ (u \in unnoticed => u \in unnoticed')
      BY <1>1, <2>1
    <3>2. users[u].here /\ ~users[u].service => operonly /\ ~users[u].oper
      BY <2>1 DEF Unrefreshed
    <3>3. users[u].here /\ ~users[u].service =>
             /\ RightsOf(access, u, users[u], operonly) = NoFlags
             /\ RightsOf(access', u, users[u], operonly) = NoFlags
      BY <3>2 DEF RightsOf
    <3>4. QED
      BY <3>1, <3>3 DEF RightsInv, RightsFollowList
  <2>2. CASE ~Unrefreshed(u)
    <3> DEFINE x == users[u]
               y == [x EXCEPT !.rights = SetAccess(access', u, x, operonly)]
    <3>1. users'[u] = y
      BY <1>1, <2>2
    <3>2. Fields(x)
      BY DEF RightsInv
    <3> HIDE DEF x
    <3>3. Fields(y) /\ (~y.service => y.rights = RightsOf(access', u, y, operonly))
      BY <3>2, Looked
    <3> HIDE DEF y
    <3>4. QED
      BY <3>1, <3>3
  <2>3. QED
    BY <2>1, <2>2
<1>3. QED
  BY <1>1, <1>2 DEF RightsInv, RightsFollowList

\* Nobody is here: at a start, when the process ends and when the link is lost.
LEMMA NobodyHere ==
    ASSUME users' = [u \in Users |-> Gone]
    PROVE  RightsInv'
BY DEF RightsInv, RightsFollowList, Gone, Fields

\* One user changes, and has its rights set, or goes unnoticed.
LEMMA OneUser ==
    ASSUME RightsInv, NEW v \in Users, NEW x, users' = [users EXCEPT ![v] = x], Fields(x),
           UNCHANGED <<access, operonly>>,
           unnoticed \ {v} \subseteq unnoticed',
           x.here /\ ~x.service /\ v \notin unnoticed' => x.rights = RightsOf(access, v, x, operonly)
    PROVE  RightsInv'
<1>1. users'[v] = x /\ \A u \in Users \ {v} : users'[u] = users[u]
  BY DEF RightsInv
<1>2. QED
  BY <1>1 DEF RightsInv, RightsFollowList

-----------------------------------------------------------------------------

\* Whom a step of the users is about, and what he is after it.
LEMMA UserStepIs ==
    ASSUME RightsInv, UserStep
    PROVE  \E v \in Users : \E x :
              /\ users' = [users EXCEPT ![v] = x] /\ Fields(x)
              /\ UNCHANGED <<access, operonly>>
              /\ unnoticed \ {v} \subseteq unnoticed' /\ unnoticed' \subseteq unnoticed \cup {v}
              /\ x.here /\ ~x.service /\ v \notin unnoticed' => x.rights = RightsOf(access, v, x, operonly)
              /\ v \in unnoticed' => x.here \/ (~users[v].here /\ v \in unnoticed)
<1>1. PICK v \in Users :
          \/ UserQuits(v) \/ OperMode(v) \/ ServiceMode(v)
          \/ \E n \in Nicks, i \in Idents, oper, service, ahead \in BOOLEAN :
                UserConnects(v, n, i, oper, service, ahead)
          \/ \E n \in Nicks : NewNick(v, n)
          \/ \E i \in Idents : Fident(v, i)
  BY DEF UserStep
<1> DEFINE Is(x) ==
              /\ users' = [users EXCEPT ![v] = x] /\ Fields(x)
              /\ UNCHANGED <<access, operonly>>
              /\ unnoticed \ {v} \subseteq unnoticed' /\ unnoticed' \subseteq unnoticed \cup {v}
              /\ x.here /\ ~x.service /\ v \notin unnoticed' => x.rights = RightsOf(access, v, x, operonly)
              /\ v \in unnoticed' => x.here \/ (~users[v].here /\ v \in unnoticed)
<1>0. Fields(users[v])
  BY DEF RightsInv
<1>2. ASSUME UserQuits(v) PROVE \E x : Is(x)
  <2>1. Fields(Gone) /\ ~Gone.here
    BY DEF Gone, Fields
  <2>2. Is(Gone)
    BY <1>2, <2>1 DEF UserQuits
  <2>3. QED
    BY <2>2
<1>3. ASSUME OperMode(v) PROVE \E x : Is(x)
  <2> DEFINE w == users[v]
             o == ~w.oper
             x == [w EXCEPT !.oper = o]
             y == [x EXCEPT !.rights = SetAccess(access, v, x, operonly)]
  <2>1. /\ users' = [users EXCEPT ![v] = y] /\ UNCHANGED <<access, operonly>> /\ w.here
        /\ unnoticed' = IF w.service THEN unnoticed ELSE unnoticed \ {v}
    BY <1>3 DEF OperMode
  <2>2. Fields(w)
    BY <1>0
  <2> HIDE DEF w, o
  <2>3. Fields(x) /\ x.here = w.here /\ x.service = w.service
    BY <2>2, SetOper
  <2> HIDE DEF x
  <2>4. /\ Fields(y) /\ y.here = x.here /\ y.service = x.service
        /\ ~y.service => y.rights = RightsOf(access, v, y, operonly)
    BY <2>3, Looked
  <2> HIDE DEF y
  <2>5. Is(y)
    BY <2>1, <2>3, <2>4
  <2>6. QED
    BY <2>5
<1>4. ASSUME NEW n \in Nicks, NEW i \in Idents, NEW oper \in BOOLEAN, NEW service \in BOOLEAN,
             NEW ahead \in BOOLEAN, UserConnects(v, n, i, oper, service, ahead)
      PROVE  \E x : Is(x)
  <2> DEFINE a(s, p, r) == [here |-> TRUE, oper |-> oper, service |-> s, nick |-> n,
                            ident |-> i, ip |-> p, rights |-> r]
             modes == IF oper THEN SetAccess(access, v, a(service /\ ahead, FALSE, Unset), operonly) ELSE Unset
             z == a(service, TRUE, modes)
             r == SetAccess(access, v, z, operonly)
             y == a(service, TRUE, r)
  <2>1. /\ users' = [users EXCEPT ![v] = y] /\ unnoticed' = unnoticed /\ UNCHANGED <<access, operonly>>
        /\ ~users[v].here
    BY <1>4 DEF UserConnects
  <2> HIDE DEF modes
  <2>2. ~service => r = RightsOf(access, v, z, operonly)
    BY DEF SetAccess
  <2> HIDE DEF r
  <2>3. RightsOf(access, v, z, operonly) = RightsOf(access, v, y, operonly)
    BY RightsOfSame
  <2>4. Fields(y) /\ y.service = service /\ y.rights = r /\ y.here
    BY DEF Fields
  <2> HIDE DEF y, z
  <2>5. Is(y)
    BY <2>1, <2>2, <2>3, <2>4
  <2>6. QED
    BY <2>5
<1>5. ASSUME NEW x, Changes(v, x), Fields(x), x.here
      PROVE  \E y : Is(y)
  <2>1. Is(x)
    BY <1>5 DEF Changes
  <2>2. QED
    BY <2>1
<1> DEFINE w == users[v]
<1>6. Fields(w)
  BY <1>0
<1>7. ASSUME ServiceMode(v) PROVE \E x : Is(x)
  <2> DEFINE f == ~w.service
             x == [w EXCEPT !.service = f]
  <2>1. Changes(v, x) /\ w.here
    BY <1>7 DEF ServiceMode, Changes
  <2> HIDE DEF w, f
  <2>2. Fields(x) /\ x.here
    BY <1>6, <2>1, SetService
  <2> HIDE DEF x, Is
  <2>3. QED
    BY <1>5, <2>1, <2>2
<1>8. ASSUME NEW n \in Nicks, NewNick(v, n) PROVE \E x : Is(x)
  <2> DEFINE x == [w EXCEPT !.nick = n]
  <2>1. Changes(v, x) /\ w.here
    BY <1>8 DEF NewNick, Changes
  <2> HIDE DEF w
  <2>2. Fields(x) /\ x.here
    BY <1>6, <2>1, SetNick
  <2> HIDE DEF x, Is
  <2>3. QED
    BY <1>5, <2>1, <2>2
<1>9. ASSUME NEW i \in Idents, Fident(v, i) PROVE \E x : Is(x)
  <2> DEFINE x == [w EXCEPT !.ident = i]
  <2>1. Changes(v, x) /\ w.here
    BY <1>9 DEF Fident, Changes
  <2> HIDE DEF w
  <2>2. Fields(x) /\ x.here
    BY <1>6, <2>1, SetIdent
  <2> HIDE DEF x, Is
  <2>3. QED
    BY <1>5, <2>1, <2>2
<1>10. \E x : Is(x)
  <2> HIDE DEF Is
  <2>1. QED
    BY <1>1, <1>2, <1>3, <1>4, <1>7, <1>8, <1>9
<1>11. QED
  BY <1>10

LEMMA UserStepRights ==
    ASSUME RightsInv, UserStep
    PROVE  RightsInv'
<1>0. PICK v \in Users : \E x :
              /\ users' = [users EXCEPT ![v] = x] /\ Fields(x)
              /\ UNCHANGED <<access, operonly>>
              /\ unnoticed \ {v} \subseteq unnoticed'
              /\ x.here /\ ~x.service /\ v \notin unnoticed' => x.rights = RightsOf(access, v, x, operonly)
  BY UserStepIs
<1>1. PICK x :
              /\ users' = [users EXCEPT ![v] = x] /\ Fields(x)
              /\ UNCHANGED <<access, operonly>>
              /\ unnoticed \ {v} \subseteq unnoticed'
              /\ x.here /\ ~x.service /\ v \notin unnoticed' => x.rights = RightsOf(access, v, x, operonly)
  BY <1>0
<1>2. QED
  BY <1>1, OneUser

LEMMA RightsInit == Init => RightsInv
<1> SUFFICES ASSUME Init PROVE RightsInv
  OBVIOUS
<1>1. users = [u \in Users |-> Gone]
  BY DEF Init
<1>2. Fields(Gone) /\ ~Gone.here
  BY DEF Gone, Fields
<1>3. QED
  BY <1>1, <1>2 DEF RightsInv, RightsFollowList

LEMMA RightsNext == RightsInv /\ [Next]_vars => RightsInv'
<1> SUFFICES ASSUME RightsInv, [Next]_vars PROVE RightsInv'
  OBVIOUS
<1>1. CASE Start \/ DoRestart
  BY <1>1, NobodyHere DEF Start, DoRestart, Boot
<1>2. CASE AtExit \/ RestartFaults \/ Crash
  BY <1>2, NobodyHere DEF AtExit, RestartFaults, Crash, Halt
<1>3. CASE LoseUplink
  BY <1>3, NobodyHere DEF LoseUplink
<1>4. CASE Rehash
  BY <1>4, Refreshed DEF Rehash
<1>5. CASE AccessStep
  BY <1>5, Refreshed DEF AccessStep, AccessAdd, AccessDel
<1>6. CASE UserStep
  BY <1>6, UserStepRights
<1>7. CASE \/ DbUpdate \/ DbUpdateFails \/ Edit \/ Sync \/ Exempt \/ SplitStep \/ UNCHANGED vars
  <2>1. UNCHANGED accessVars
    BY <1>7, Zenon DEF DbUpdate, DbUpdateFails, Edit, Sync, Exempt, SplitStep, vars
  <2>2. access' = access /\ users' = users /\ operonly' = operonly /\ unnoticed' = unnoticed
    BY <2>1 DEF accessVars
  <2>3. ASSUME NEW u \in Users
        PROVE  RightsOf(access', u, users'[u], operonly') = RightsOf(access, u, users[u], operonly)
    BY <2>2
  <2>4. QED
    BY <2>2, <2>3 DEF RightsInv, RightsFollowList
<1>8. QED
  BY <1>1, <1>2, <1>3, <1>4, <1>5, <1>6, <1>7, Zenon DEF Next

\* Every user but the services that has not changed its nick or ident and has not been a
\* service since its rights were set has the rights of the first entry that matches it now, whatever ADD, DEL, rehash, start or loss of the
\* link came in between.
THEOREM RightsFollowListHolds == Spec => []RightsFollowList
<1>1. RightsInv => RightsFollowList
  BY DEF RightsInv
<1>2. QED
  BY <1>1, RightsInit, RightsNext, PTL DEF Spec

-----------------------------------------------------------------------------
(* The tables of the database *)

Tables == {"AC", "SPLIT", "EX"}

\* What a row of a table may be.
RowsOf(t) ==
    IF t = "AC" THEN [key : Names, value : Flags \X Masks]
    ELSE IF t = "SPLIT" THEN [key : Servers, value : {When}]
    ELSE [key : {"host"}, value : {<<>>}]

Container == UNION {[name : {t}, rows : Seq(RowsOf(t))] : t \in Tables}

Keyed(rows) == \A j, k \in DOMAIN rows : rows[j].key = rows[k].key => j = k

DBs == {d \in Seq(Container) :
           /\ \A i, j \in 1..Len(d) : d[i].name = d[j].name => i = j
           /\ \A i \in 1..Len(d) : Keyed(d[i].rows)}

Keys(rows) == {r.key : r \in ToSet(rows)}

LEMMA ContainerIs ==
    ASSUME NEW c
    PROVE  c \in Container <=> /\ c = [name |-> c.name, rows |-> c.rows]
                               /\ c.name \in Tables /\ c.rows \in Seq(RowsOf(c.name))
<1> HIDE DEF Tables, RowsOf
<1>1. ASSUME c \in Container
      PROVE  c = [name |-> c.name, rows |-> c.rows] /\ c.name \in Tables /\ c.rows \in Seq(RowsOf(c.name))
  <2>1. PICK t \in Tables : c \in [name : {t}, rows : Seq(RowsOf(t))]
    BY <1>1 DEF Container
  <2>2. QED
    BY <2>1
<1>2. ASSUME c = [name |-> c.name, rows |-> c.rows], c.name \in Tables, c.rows \in Seq(RowsOf(c.name))
      PROVE  c \in Container
  <2>1. c \in [name : {c.name}, rows : Seq(RowsOf(c.name))]
    BY <1>2
  <2>2. QED
    BY <1>2, <2>1 DEF Container
<1>3. QED
  BY <1>1, <1>2

\* Where a table is in the database.
At(d, t) == SelectInSeq(d, LAMBDA c : c.name = t)

Located(d, t, i) ==
    /\ d \in Seq(Container) /\ Len(d) \in Nat /\ i \in 0..Len(d)
    /\ i = 0 => Rows(d, t) = <<>> /\ \A k \in 1..Len(d) : d[k].name # t
    /\ i # 0 => /\ d[i].name = t /\ Rows(d, t) = d[i].rows
                /\ \A k \in 1..Len(d) : d[k].name = t => k = i

LEMMA TableAt ==
    ASSUME NEW d \in DBs, NEW t
    PROVE  Located(d, t, At(d, t))
<1> DEFINE I == {k \in 1..Len(d) : d[k].name = t}
           i == At(d, t)
<1>1. d \in Seq(Container) /\ Len(d) \in Nat /\ DOMAIN d = 1..Len(d)
  BY DEF DBs
<1>2. i = IF I # {} THEN Min(I) ELSE 0
  BY DEF At, SelectInSeq
<1>3. i \in 0..Len(d) /\ (i # 0 => i \in I) /\ (i = 0 => I = {})
  <2> HIDE DEF i
  <2>1. I \in SUBSET (1..Len(d))
    OBVIOUS
  <2> HIDE DEF I
  <2>2. QED
    BY <1>1, <1>2, <2>1, FoundIn
<1>4. Rows(d, t) = IF i = 0 THEN <<>> ELSE d[i].rows
  BY DEF At, Rows
<1> HIDE DEF i
<1>5. \A j, k \in 1..Len(d) : d[j].name = d[k].name => j = k
  BY DEF DBs
<1>6. QED
  BY <1>1, <1>3, <1>4, <1>5 DEF i, Located

\* Its rows are of its kind, and no two have a key.
LEMMA RowsAre ==
    ASSUME NEW d \in DBs, NEW t
    PROVE  Rows(d, t) \in Seq(RowsOf(t)) /\ Keyed(Rows(d, t))
<1> DEFINE i == At(d, t)
<1>1. /\ d \in Seq(Container) /\ i \in 0..Len(d) /\ Len(d) \in Nat
      /\ i = 0 => Rows(d, t) = <<>>
      /\ i # 0 => d[i].name = t /\ Rows(d, t) = d[i].rows
  BY TableAt DEF Located
<1> HIDE DEF i
<1>2. CASE i = 0
  BY <1>1, <1>2, <<>> \in Seq(RowsOf(t)) DEF Keyed
<1>3. CASE i # 0
  <2>1. i \in 1..Len(d) /\ d[i] \in Container
    BY <1>1, <1>3
  <2>2. d[i].rows \in Seq(RowsOf(t))
    BY <1>1, <1>3, <2>1, ContainerIs
  <2>3. Keyed(d[i].rows)
    BY <2>1 DEF DBs
  <2>4. QED
    BY <1>1, <1>3, <2>2, <2>3
<1>4. QED
  BY <1>2, <1>3

\* The rows of one table are replaced.
WithRows(d, i, rows) == [d EXCEPT ![i].rows = rows]

LEMMA RowsSet ==
    ASSUME NEW d \in DBs, NEW i \in 1..Len(d), NEW t, d[i].name = t, NEW rows \in Seq(RowsOf(t)), Keyed(rows)
    PROVE  LET e == WithRows(d, i, rows)
           IN  e \in DBs /\ Rows(e, t) = rows /\ \A u : u # t => Rows(e, u) = Rows(d, u)
<1> DEFINE e == WithRows(d, i, rows)
<1>0. e = [d EXCEPT ![i].rows = rows]
  BY DEF WithRows
<1> HIDE DEF e
<1>1. d \in Seq(Container) /\ Len(d) \in Nat /\ d[i] \in Container
  BY DEF DBs
<1>2. d[i] = [name |-> d[i].name, rows |-> d[i].rows] /\ d[i].name \in Tables
  BY <1>1, ContainerIs
<1> DEFINE c == [name |-> d[i].name, rows |-> rows]
<1>3. c \in Container /\ c.name = d[i].name /\ c.rows = rows
  BY <1>2, ContainerIs
<1>4. e = [d EXCEPT ![i] = c]
  <2>1. [d[i] EXCEPT !.rows = rows] = c
    BY <1>2
  <2>2. e = [d EXCEPT ![i] = [d[i] EXCEPT !.rows = rows]]
    BY <1>0
  <2> HIDE DEF c
  <2>3. QED
    BY <2>1, <2>2
<1> HIDE DEF c
<1>5. /\ e \in Seq(Container) /\ Len(e) = Len(d) /\ e[i] = c
      /\ \A k \in 1..Len(d) : k # i => e[k] = d[k]
  <2> DEFINE m == [d EXCEPT ![i] = c]
  <2>1. c \in Container /\ d \in Seq(Container)
    BY <1>1, <1>3
  <2>2. m \in Seq(Container) /\ Len(m) = Len(d) /\ m[i] = c /\ \A k \in 1..Len(d) : k # i => m[k] = d[k]
    BY <2>1, ReplacedAt
  <2> HIDE DEF m
  <2>3. e = m
    BY <1>4 DEF m
  <2>4. QED
    BY <2>2, <2>3
<1>6. \A k \in 1..Len(d) : e[k].name = d[k].name /\ Keyed(e[k].rows)
  BY <1>3, <1>5 DEF DBs
<1>7. e \in DBs
  BY <1>5, <1>6 DEF DBs
<1>8. ASSUME NEW u PROVE Rows(e, u) = IF u = d[i].name THEN rows ELSE Rows(d, u)
  <2> DEFINE a == At(e, u)
             b == At(d, u)
  <2>1. /\ a \in 0..Len(e) /\ (a = 0 => Rows(e, u) = <<>> /\ \A k \in 1..Len(e) : e[k].name # u)
        /\ a # 0 => e[a].name = u /\ Rows(e, u) = e[a].rows
    <3>1. Located(e, u, At(e, u))
      BY <1>7, TableAt
    <3>2. QED
      BY <3>1 DEF Located
  <2>2. /\ b \in 0..Len(d) /\ (b = 0 => Rows(d, u) = <<>> /\ \A k \in 1..Len(d) : d[k].name # u)
        /\ b # 0 => /\ d[b].name = u /\ Rows(d, u) = d[b].rows
                    /\ \A k \in 1..Len(d) : d[k].name = u => k = b
    BY TableAt DEF Located
  <2> HIDE DEF a, b
  <2>3. a = b
    BY <1>1, <1>5, <1>6, <2>1, <2>2
  <2>4. QED
    BY <1>1, <1>3, <1>5, <2>1, <2>2, <2>3
<1>9. QED
  BY <1>7, <1>8 DEF e

\* A table is made.
WithTable(d, t, rows) == Append(d, [name |-> t, rows |-> rows])

LEMMA TableMade ==
    ASSUME NEW d \in DBs, NEW t \in Tables, Located(d, t, 0), NEW rows \in Seq(RowsOf(t)), Keyed(rows)
    PROVE  LET e == WithTable(d, t, rows)
           IN  e \in DBs /\ Rows(e, t) = rows /\ \A u : u # t => Rows(e, u) = Rows(d, u)
<1> DEFINE e == WithTable(d, t, rows)
<1>0. e = Append(d, [name |-> t, rows |-> rows])
  BY DEF WithTable
<1> HIDE DEF e
<1> DEFINE c == [name |-> t, rows |-> rows]
<1>1. d \in Seq(Container) /\ Len(d) \in Nat
  BY DEF DBs
<1>2. c \in Container /\ c.name = t /\ c.rows = rows
  BY ContainerIs
<1> HIDE DEF c
<1>3. e = Append(d, c)
  BY <1>0 DEF c
<1>a. \A k \in 1..Len(d) : d[k].name # t
  BY DEF Located
<1>4. /\ e \in Seq(Container) /\ Len(e) = Len(d) + 1 /\ e[Len(d) + 1] = c
      /\ \A k \in 1..Len(d) : e[k] = d[k]
  BY <1>1, <1>2, <1>3
<1>5. \A k \in 1..Len(e) : k \in 1..Len(d) \/ k = Len(d) + 1
  BY <1>1, <1>4
<1>6. e \in DBs
  <2>1. ASSUME NEW j \in 1..Len(e), NEW k \in 1..Len(e), e[j].name = e[k].name PROVE j = k
    BY <1>2, <1>4, <1>5, <1>a, <2>1 DEF DBs
  <2>2. ASSUME NEW k \in 1..Len(e) PROVE Keyed(e[k].rows)
    BY <1>2, <1>4, <1>5 DEF DBs
  <2>3. QED
    BY <1>4, <2>1, <2>2 DEF DBs
<1>7. ASSUME NEW u PROVE Rows(e, u) = IF u = t THEN rows ELSE Rows(d, u)
  <2> DEFINE a == At(e, u)
             b == At(d, u)
  <2>1. /\ a \in 0..Len(e) /\ (a = 0 => Rows(e, u) = <<>> /\ \A k \in 1..Len(e) : e[k].name # u)
        /\ a # 0 => /\ e[a].name = u /\ Rows(e, u) = e[a].rows
                    /\ \A k \in 1..Len(e) : e[k].name = u => k = a
    <3>1. Located(e, u, At(e, u))
      BY <1>6, TableAt
    <3>2. QED
      BY <3>1 DEF Located
  <2>2. /\ b \in 0..Len(d) /\ (b = 0 => Rows(d, u) = <<>> /\ \A k \in 1..Len(d) : d[k].name # u)
        /\ b # 0 => d[b].name = u /\ Rows(d, u) = d[b].rows
    BY TableAt DEF Located
  <2> HIDE DEF a, b
  <2>3. CASE u = t
    <3>1. a = Len(d) + 1
      BY <1>1, <1>2, <1>4, <1>a, <2>1, <2>3
    <3>2. QED
      BY <1>1, <1>2, <1>4, <2>1, <2>3, <3>1
  <2>4. CASE u # t
    <3>1. a = b
      BY <1>1, <1>2, <1>4, <1>5, <2>1, <2>2, <2>4
    <3>2. QED
      BY <1>1, <1>4, <2>1, <2>2, <2>4, <3>1
  <2>5. QED
    BY <2>3, <2>4
<1>8. QED
  BY <1>6, <1>7 DEF e

\* addto_db_entry: the key has a row now, other tables stay.
LEMMA RowAdded ==
    ASSUME NEW d \in DBs, NEW t \in Tables, NEW key, NEW value,
           [key |-> key, value |-> value] \in RowsOf(t)
    PROVE  /\ AddRow(d, t, key, value) \in DBs
           /\ Keys(Rows(AddRow(d, t, key, value), t)) = Keys(Rows(d, t)) \cup {key}
           /\ \A u : u # t => Rows(AddRow(d, t, key, value), u) = Rows(d, u)
<1> DEFINE i == At(d, t)
           row == [key |-> key, value |-> value]
           e == AddRow(d, t, key, value)
           rows == d[i].rows
           J == {k \in 1..Len(rows) : rows[k].key = key}
           j == SelectInSeq(rows, LAMBDA r : r.key = key)
           new == IF j = 0 THEN Append(rows, row) ELSE [rows EXCEPT ![j] = row]
<1>1. Located(d, t, i)
  BY TableAt
<1>2. row.key = key /\ row \in RowsOf(t)
  OBVIOUS
<1>3. e = IF i = 0 THEN WithTable(d, t, <<row>>)
          ELSE WithRows(d, i, new)
  BY DEF AddRow, At, WithRows, WithTable
<1>4. j = IF J # {} THEN Min(J) ELSE 0
  BY DEF SelectInSeq
<1> HIDE DEF i, row, e, j, new
<1>5. CASE i = 0
  <2> DEFINE one == <<row>>
  <2>1. one \in Seq(RowsOf(t)) /\ DOMAIN one = {1} /\ one[1] = row
    BY <1>2
  <2> HIDE DEF one
  <2>2. Keyed(one) /\ Keys(one) = {key}
    BY <1>2, <2>1 DEF Keyed, Keys, ToSet
  <2>3. e = WithTable(d, t, one) /\ Rows(d, t) = <<>> /\ Located(d, t, 0)
    BY <1>1, <1>3, <1>5 DEF Located, one
  <2>4. e \in DBs /\ Rows(e, t) = one /\ \A u : u # t => Rows(e, u) = Rows(d, u)
    BY <2>1, <2>2, <2>3, TableMade
  <2>5. Keys(<<>>) = {}
    BY DEF Keys, ToSet
  <2>6. QED
    BY <2>2, <2>3, <2>4, <2>5 DEF e
<1>6. CASE i # 0
  <2>1. /\ i \in 1..Len(d) /\ d[i].name = t /\ Rows(d, t) = rows
        /\ rows \in Seq(RowsOf(t)) /\ Keyed(rows) /\ e = WithRows(d, i, new)
    BY <1>1, <1>3, <1>6, RowsAre DEF Located
  <2>2. j \in 0..Len(rows) /\ (j # 0 => j \in J) /\ (j = 0 => J = {})
    <3>1. Len(rows) \in Nat /\ DOMAIN rows = 1..Len(rows) /\ J \in SUBSET (1..Len(rows))
      BY <2>1
    <3> HIDE DEF rows, J
    <3>2. QED
      BY <1>4, <3>1, FoundIn
  <2> HIDE DEF rows
  <2>3. new \in Seq(RowsOf(t)) /\ Keyed(new) /\ Keys(new) = Keys(rows) \cup {key}
    <3>0. Len(rows) \in Nat /\ DOMAIN rows = 1..Len(rows)
      BY <2>1
    <3>1. CASE j = 0
      <4>1. /\ new \in Seq(RowsOf(t)) /\ DOMAIN new = 1..(Len(rows) + 1) /\ new[Len(rows) + 1] = row
            /\ \A k \in 1..Len(rows) : new[k] = rows[k]
        BY <1>2, <2>1, <3>1 DEF new
      <4>2. \A k \in 1..Len(rows) : rows[k].key # key
        BY <2>2, <3>1 DEF J
      <4>3. \A k \in DOMAIN new : k \in 1..Len(rows) \/ k = Len(rows) + 1
        BY <3>0, <4>1
      <4>4. Keyed(new)
        BY <1>2, <2>1, <3>0, <4>1, <4>2, <4>3 DEF Keyed
      <4>5. Keys(new) = Keys(rows) \cup {key}
        BY <1>2, <3>0, <4>1, <4>3 DEF Keys, ToSet
      <4>6. QED
        BY <4>1, <4>4, <4>5
    <3>2. CASE j # 0
      <4>1. j \in 1..Len(rows) /\ rows[j].key = key
        BY <2>2, <3>2 DEF J
      <4> DEFINE m == [rows EXCEPT ![j] = row]
      <4>2. /\ m \in Seq(RowsOf(t)) /\ Len(m) = Len(rows) /\ m[j] = row
            /\ \A k \in 1..Len(rows) : k # j => m[k] = rows[k]
        BY <1>2, <2>1, <4>1, ReplacedAt
      <4>3. new = m
        BY <3>2 DEF new
      <4> HIDE DEF m
      <4>4. DOMAIN new = DOMAIN rows /\ \A k \in DOMAIN rows : new[k].key = rows[k].key
        BY <1>2, <3>0, <4>1, <4>2, <4>3
      <4>5. Keyed(new)
        BY <2>1, <4>4 DEF Keyed
      <4>6. Keys(new) = Keys(rows)
        BY <4>4 DEF Keys, ToSet
      <4>7. key \in Keys(rows)
        BY <3>0, <4>1 DEF Keys, ToSet
      <4>8. QED
        BY <4>2, <4>3, <4>5, <4>6, <4>7
    <3>3. QED
      BY <3>1, <3>2
  <2>4. e \in DBs /\ Rows(e, t) = new /\ \A u : u # t => Rows(e, u) = Rows(d, u)
    BY <2>1, <2>3, RowsSet
  <2>5. QED
    BY <2>1, <2>3, <2>4 DEF e
<1>7. QED
  BY <1>5, <1>6

\* del_db_entry: the key has no row any more, other tables stay.
LEMMA RowDeleted ==
    ASSUME NEW d \in DBs, NEW t, NEW key
    PROVE  /\ DelRow(d, t, key) \in DBs
           /\ Keys(Rows(DelRow(d, t, key), t)) = Keys(Rows(d, t)) \ {key}
           /\ \A u : u # t => Rows(DelRow(d, t, key), u) = Rows(d, u)
<1> DEFINE i == At(d, t)
           e == DelRow(d, t, key)
           rows == d[i].rows
           K == {j \in DOMAIN rows : rows[j].key # key}
           new == Picked(rows, K)
<1>1. Located(d, t, i)
  BY TableAt
<1>2. e = IF i = 0 THEN d ELSE WithRows(d, i, new)
  BY DEF DelRow, At, WithRows
<1> HIDE DEF i, e
<1>3. CASE i = 0
  <2>1. e = d /\ Rows(d, t) = <<>>
    BY <1>1, <1>2, <1>3 DEF Located
  <2>2. Keys(<<>>) = {}
    BY DEF Keys, ToSet
  <2>3. QED
    BY <2>1, <2>2 DEF e
<1>4. CASE i # 0
  <2>1. /\ i \in 1..Len(d) /\ d[i].name = t /\ Rows(d, t) = rows
        /\ rows \in Seq(RowsOf(t)) /\ Keyed(rows) /\ e = WithRows(d, i, new)
    BY <1>1, <1>2, <1>4, RowsAre DEF Located
  <2>0. K \in SUBSET (1..Len(rows)) /\ DOMAIN rows = 1..Len(rows)
    BY <2>1
  <2> HIDE DEF rows
  <2> DEFINE C == 1..Cardinality(K)
  <2>2. /\ new \in Seq(RowsOf(t)) /\ DOMAIN new = C /\ Cardinality(K) \in Nat
        /\ \E at \in [C -> K] : /\ \A j, k \in C : j < k => at[j] < at[k]
                                /\ \A n \in K : \E k \in C : at[k] = n
                                /\ \A k \in C : new[k] = rows[at[k]]
    <3> HIDE DEF K
    <3>1. /\ Picked(rows, K) \in Seq(RowsOf(t)) /\ Len(Picked(rows, K)) = Cardinality(K) /\ Cardinality(K) \in Nat
          /\ \E at \in [1..Cardinality(K) -> K] :
                /\ \A j, k \in 1..Cardinality(K) : j < k => at[j] < at[k]
                /\ \A n \in K : \E k \in 1..Cardinality(K) : at[k] = n
                /\ \A k \in 1..Cardinality(K) : Picked(rows, K)[k] = rows[at[k]]
      <4>1. K \in SUBSET (1..Len(rows)) /\ rows \in Seq(RowsOf(t))
        BY <2>0, <2>1
      <4>2. QED
        BY <4>1, PickedKeeps
    <3>2. QED
      BY <3>1
  <2>3. PICK at \in [C -> K] : /\ \A j, k \in C : j < k => at[j] < at[k]
                               /\ \A n \in K : \E k \in C : at[k] = n
                               /\ \A k \in C : new[k] = rows[at[k]]
    BY <2>2
  <2> HIDE DEF new
  <2>4. Keyed(new)
    <3>1. ASSUME NEW j \in C, NEW k \in C, new[j].key = new[k].key PROVE j = k
      <4>1. at[j] = at[k]
        BY <2>0, <2>1, <2>3, <3>1 DEF Keyed
      <4>2. ~(at[j] < at[k]) /\ ~(at[k] < at[j])
        BY <2>0, <4>1
      <4>3. ~(j < k) /\ ~(k < j)
        BY <2>3, <4>2
      <4>4. QED
        BY <2>2, <4>3
    <3>2. QED
      BY <2>2, <3>1 DEF Keyed
  <2>5. Keys(new) = Keys(rows) \ {key}
    <3>1. ASSUME NEW x \in Keys(new) PROVE x \in Keys(rows) \ {key}
      BY <2>2, <2>3, <3>1 DEF Keys, ToSet
    <3>2. ASSUME NEW x \in Keys(rows) \ {key} PROVE x \in Keys(new)
      <4>1. PICK n \in DOMAIN rows : rows[n].key = x
        BY <3>2 DEF Keys, ToSet
      <4>2. n \in K
        BY <3>2, <4>1
      <4>3. PICK k \in C : at[k] = n
        BY <2>3, <4>2
      <4>4. new[k].key = x /\ k \in DOMAIN new
        BY <2>2, <2>3, <4>1, <4>3
      <4>5. QED
        BY <4>4 DEF Keys, ToSet
    <3>3. QED
      BY <3>1, <3>2
  <2>6. e \in DBs /\ Rows(e, t) = new /\ \A u : u # t => Rows(e, u) = Rows(d, u)
    <3>1. new \in Seq(RowsOf(t))
      BY <2>2
    <3>2. i \in 1..Len(d) /\ d[i].name = t /\ e = WithRows(d, i, new)
      BY <2>1
    <3>3. QED
      BY <2>4, <3>1, <3>2, RowsSet
  <2>7. QED
    BY <2>1, <2>5, <2>6 DEF e
<1>5. QED
  BY <1>3, <1>4

-----------------------------------------------------------------------------
(* What the modules do to the tables *)

\* Databases in which the table of accesses is that one.
DBsWith(rows) == {e \in DBs : Rows(e, "AC") = rows}

LEMMA OthersKeep ==
    ASSUME NEW rows, NEW d \in DBsWith(rows)
    PROVE  /\ \A key : DelRow(d, "SPLIT", key) \in DBsWith(rows)
           /\ \A s \in Servers : AddRow(d, "SPLIT", s, When) \in DBsWith(rows)
           /\ AddRow(d, "EX", "host", <<>>) \in DBsWith(rows)
<1>1. d \in DBs /\ Rows(d, "AC") = rows
  BY DEF DBsWith
<1>2. ASSUME NEW key PROVE DelRow(d, "SPLIT", key) \in DBsWith(rows)
  BY <1>1, RowDeleted DEF DBsWith
<1>3. ASSUME NEW s \in Servers PROVE AddRow(d, "SPLIT", s, When) \in DBsWith(rows)
  <2>1. "SPLIT" \in Tables /\ [key |-> s, value |-> When] \in RowsOf("SPLIT")
    BY DEF Tables, RowsOf
  <2>2. QED
    BY <1>1, <2>1, RowAdded DEF DBsWith
<1>4. AddRow(d, "EX", "host", <<>>) \in DBsWith(rows)
  <2>1. "EX" \in Tables /\ [key |-> "host", value |-> <<>>] \in RowsOf("EX")
    BY DEF Tables, RowsOf
  <2>2. QED
    BY <1>1, <2>1, RowAdded DEF DBsWith
<1>5. QED
  BY <1>2, <1>3, <1>4

\* splitserv_savedb and a rehash delete the rows of the splits, one after the other,
LEMMA RowsDeletedStaged ==
    ASSUME NEW rows, NEW d \in DBsWith(rows)
    PROVE  \E at : /\ at \in [0..Len(Rows(d, "SPLIT")) -> DBsWith(rows)] /\ at[0] = d
                   /\ at[Len(Rows(d, "SPLIT"))] = DelRows(d, "SPLIT")
                   /\ \A k \in 0..(Len(Rows(d, "SPLIT")) - 1) : at[k + 1] = DelRow(at[k], "SPLIT", Rows(d, "SPLIT")[k + 1].key)
<1> DEFINE A == DBsWith(rows)
           l == Rows(d, "SPLIT")
           N == Len(l)
           base == d
           Op(x, k) == DelRow(x, "SPLIT", l[k].key)
           F == [y \in (1..N) \X A |-> Op(y[2], y[1])]
           Is(h) == h = [s \in SUBSET (1..N) |-> IF s = {} THEN base ELSE Op(h[s \ {Max(s)}], Max(s))]
           f == CHOOSE h : Is(h)
<1>1. N \in Nat /\ DOMAIN l = 1..N /\ base \in A
  <2>1. d \in DBs
    BY DEF DBsWith
  <2>2. l \in Seq(RowsOf("SPLIT"))
    BY <2>1, RowsAre
  <2>3. QED
    BY <2>2
<1>2. ASSUME NEW x \in A, NEW k \in 1..N PROVE Op(x, k) \in A
  BY OthersKeep
<1>3. DelRows(d, "SPLIT") = f[1..N]
  BY <1>1 DEF DelRows, FoldLeft, MapThenFoldSet
<1> HIDE DEF A, l, N, Op, base
<1>4. F \in [(1..N) \X A -> A] /\ \A k \in 1..N, x \in A : F[<<k, x>>] = Op(x, k)
  BY <1>2
<1> HIDE DEF F
<1>5. PICK g : Folds(g, A, base, N, F)
  BY <1>1, <1>4, FoldExists
<1>6. Is(g)
  <2>0. Steps(g, A, base, N, F)
    BY <1>1, <1>5, FoldSteps
  <2>1. g = [s \in SUBSET (1..N) |-> g[s]]
    BY <2>0 DEF Steps
  <2>2. ASSUME NEW s \in SUBSET (1..N)
        PROVE  g[s] = IF s = {} THEN base ELSE Op(g[s \ {Max(s)}], Max(s))
    BY <1>4, <2>0 DEF Steps
  <2>3. [s \in SUBSET (1..N) |-> g[s]] = [s \in SUBSET (1..N) |-> IF s = {} THEN base ELSE Op(g[s \ {Max(s)}], Max(s))]
    BY <2>2, Zenon
  <2>4. QED
    BY <2>1, <2>3
<1>7. f = [s \in SUBSET (1..N) |-> IF s = {} THEN base ELSE Op(f[s \ {Max(s)}], Max(s))]
  <2> HIDE DEF Is
  <2>1. Is(f)
    BY <1>6
  <2> HIDE DEF f
  <2>2. QED
    BY <2>1 DEF Is
<1> HIDE DEF f
<1>8. GoesAs(f, A, base, N, F)
  <2>1. \A s \in SUBSET (1..N) : s # {} => Max(s) \in 1..N
    BY <1>1, <1>5, FoldSteps DEF Steps
  <2>2. QED
    BY <1>4, <1>7, <2>1 DEF GoesAs
<1>9. \E at : Staged(at, A, base, N, F, f[1..N])
  BY <1>1, <1>4, <1>8, GoesStages
<1>10. PICK at : Staged(at, A, base, N, F, f[1..N])
  BY <1>9
<1>11. at \in [0..N -> A] /\ at[0] = base /\ at[N] = f[1..N]
  BY <1>10 DEF Staged
<1>12. ASSUME NEW k \in 0..(N - 1) PROVE at[k + 1] = Op(at[k], k + 1)
  <2>1. at[k + 1] = F[<<k + 1, at[k]>>] /\ at[k] \in A /\ k + 1 \in 1..N
    BY <1>1, <1>10 DEF Staged
  <2>2. QED
    BY <1>4, <2>1
<1>13. \A k \in 0..(N - 1) : at[k + 1] = DelRow(at[k], "SPLIT", l[k + 1].key)
  BY <1>12 DEF Op
<1>14. QED
  BY <1>3, <1>11, <1>13 DEF A, N, base, l

LEMMA RowsDeleted ==
    ASSUME NEW rows, NEW d \in DBsWith(rows)
    PROVE  DelRows(d, "SPLIT") \in DBsWith(rows)
<1> DEFINE N == Len(Rows(d, "SPLIT"))
<1>1. \E at : at \in [0..N -> DBsWith(rows)] /\ at[N] = DelRows(d, "SPLIT")
  BY RowsDeletedStaged
<1>2. N \in Nat
  BY RowsAre DEF DBsWith
<1> HIDE DEF N
<1>3. QED
  BY <1>1, <1>2

\* those of the splits that have expired,
LEMMA RowsExpired ==
    ASSUME NEW rows, NEW d \in DBsWith(rows), NEW list \in Seq(Servers)
    PROVE  FoldLeft(LAMBDA e, p : DelRow(e, "SPLIT", p), d, list) \in DBsWith(rows)
<1> DEFINE A == DBsWith(rows)
           l == list
           N == Len(l)
           base == d
           Op(x, k) == DelRow(x, "SPLIT", l[k])
           F == [y \in (1..N) \X A |-> Op(y[2], y[1])]
           Is(h) == h = [s \in SUBSET (1..N) |-> IF s = {} THEN base ELSE Op(h[s \ {Max(s)}], Max(s))]
           f == CHOOSE h : Is(h)
<1>1. N \in Nat /\ DOMAIN l = 1..N /\ base \in A
  OBVIOUS
<1>2. ASSUME NEW x \in A, NEW k \in 1..N PROVE Op(x, k) \in A
  BY OthersKeep
<1>3. FoldLeft(LAMBDA e, p : DelRow(e, "SPLIT", p), d, list) = f[1..N]
  BY <1>1 DEF FoldLeft, MapThenFoldSet
<1> HIDE DEF A, l, N, Op, base
<1>4. F \in [(1..N) \X A -> A] /\ \A k \in 1..N, x \in A : F[<<k, x>>] = Op(x, k)
  BY <1>2
<1> HIDE DEF F
<1>5. PICK g : Folds(g, A, base, N, F)
  BY <1>1, <1>4, FoldExists
<1>6. Is(g)
  <2>0. Steps(g, A, base, N, F)
    BY <1>1, <1>5, FoldSteps
  <2>1. g = [s \in SUBSET (1..N) |-> g[s]]
    BY <2>0 DEF Steps
  <2>2. ASSUME NEW s \in SUBSET (1..N)
        PROVE  g[s] = IF s = {} THEN base ELSE Op(g[s \ {Max(s)}], Max(s))
    BY <1>4, <2>0 DEF Steps
  <2>3. [s \in SUBSET (1..N) |-> g[s]] = [s \in SUBSET (1..N) |-> IF s = {} THEN base ELSE Op(g[s \ {Max(s)}], Max(s))]
    BY <2>2, Zenon
  <2>4. QED
    BY <2>1, <2>3
<1>7. f = [s \in SUBSET (1..N) |-> IF s = {} THEN base ELSE Op(f[s \ {Max(s)}], Max(s))]
  <2> HIDE DEF Is
  <2>1. Is(f)
    BY <1>6
  <2> HIDE DEF f
  <2>2. QED
    BY <2>1 DEF Is
<1> HIDE DEF f
<1>8. GoesAs(f, A, base, N, F)
  <2>1. \A s \in SUBSET (1..N) : s # {} => Max(s) \in 1..N
    BY <1>1, <1>5, FoldSteps DEF Steps
  <2>2. QED
    BY <1>4, <1>7, <2>1 DEF GoesAs
<1>9. f[1..N] \in A
  BY <1>1, <1>4, <1>8, GoesStages
<1>10. QED
  BY <1>3, <1>9 DEF A

\* The database with the rows of a list of splits.
Written(d, list) == FoldLeft(LAMBDA e, p : AddRow(e, "SPLIT", p, When), d, list)

\* and write those of the splits they know.
LEMMA RowsWrittenStaged ==
    ASSUME NEW rows, NEW d \in DBsWith(rows), NEW list \in Seq(Servers)
    PROVE  \E at : /\ at \in [0..Len(list) -> DBsWith(rows)] /\ at[0] = d
                   /\ at[Len(list)] = Written(d, list)
                   /\ \A k \in 0..(Len(list) - 1) : at[k + 1] = AddRow(at[k], "SPLIT", list[k + 1], When)
<1> DEFINE A == DBsWith(rows)
           l == list
           N == Len(l)
           base == d
           Op(x, k) == AddRow(x, "SPLIT", l[k], When)
           F == [y \in (1..N) \X A |-> Op(y[2], y[1])]
           Is(h) == h = [s \in SUBSET (1..N) |-> IF s = {} THEN base ELSE Op(h[s \ {Max(s)}], Max(s))]
           f == CHOOSE h : Is(h)
<1>1. N \in Nat /\ DOMAIN l = 1..N /\ base \in A
  OBVIOUS
<1>2. ASSUME NEW x \in A, NEW k \in 1..N PROVE Op(x, k) \in A
  <2>1. l[k] \in Servers
    OBVIOUS
  <2>2. QED
    BY <2>1, OthersKeep
<1>3. Written(d, list) = f[1..N]
  BY <1>1 DEF Written, FoldLeft, MapThenFoldSet
<1> HIDE DEF A, l, N, Op, base
<1>4. F \in [(1..N) \X A -> A] /\ \A k \in 1..N, x \in A : F[<<k, x>>] = Op(x, k)
  BY <1>2
<1> HIDE DEF F
<1>5. PICK g : Folds(g, A, base, N, F)
  BY <1>1, <1>4, FoldExists
<1>6. Is(g)
  <2>0. Steps(g, A, base, N, F)
    BY <1>1, <1>5, FoldSteps
  <2>1. g = [s \in SUBSET (1..N) |-> g[s]]
    BY <2>0 DEF Steps
  <2>2. ASSUME NEW s \in SUBSET (1..N)
        PROVE  g[s] = IF s = {} THEN base ELSE Op(g[s \ {Max(s)}], Max(s))
    BY <1>4, <2>0 DEF Steps
  <2>3. [s \in SUBSET (1..N) |-> g[s]] = [s \in SUBSET (1..N) |-> IF s = {} THEN base ELSE Op(g[s \ {Max(s)}], Max(s))]
    BY <2>2, Zenon
  <2>4. QED
    BY <2>1, <2>3
<1>7. f = [s \in SUBSET (1..N) |-> IF s = {} THEN base ELSE Op(f[s \ {Max(s)}], Max(s))]
  <2> HIDE DEF Is
  <2>1. Is(f)
    BY <1>6
  <2> HIDE DEF f
  <2>2. QED
    BY <2>1 DEF Is
<1> HIDE DEF f
<1>8. GoesAs(f, A, base, N, F)
  <2>1. \A s \in SUBSET (1..N) : s # {} => Max(s) \in 1..N
    BY <1>1, <1>5, FoldSteps DEF Steps
  <2>2. QED
    BY <1>4, <1>7, <2>1 DEF GoesAs
<1>9. \E at : Staged(at, A, base, N, F, f[1..N])
  BY <1>1, <1>4, <1>8, GoesStages
<1>10. PICK at : Staged(at, A, base, N, F, f[1..N])
  BY <1>9
<1>11. at \in [0..N -> A] /\ at[0] = base /\ at[N] = f[1..N]
  BY <1>10 DEF Staged
<1>12. ASSUME NEW k \in 0..(N - 1) PROVE at[k + 1] = Op(at[k], k + 1)
  <2>1. at[k + 1] = F[<<k + 1, at[k]>>] /\ at[k] \in A /\ k + 1 \in 1..N
    BY <1>1, <1>10 DEF Staged
  <2>2. QED
    BY <1>4, <2>1
<1>13. \A k \in 0..(N - 1) : at[k + 1] = AddRow(at[k], "SPLIT", l[k + 1], When)
  BY <1>12 DEF Op
<1>14. QED
  BY <1>3, <1>11, <1>13 DEF A, N, base, l

LEMMA RowsWritten ==
    ASSUME NEW rows, NEW d \in DBsWith(rows), NEW list \in Seq(Servers)
    PROVE  Written(d, list) \in DBsWith(rows)
<1> DEFINE N == Len(list)
<1>1. \E at : at \in [0..N -> DBsWith(rows)] /\ at[N] = Written(d, list)
  BY RowsWrittenStaged
<1>2. N \in Nat
  OBVIOUS
<1> HIDE DEF N
<1>3. QED
  BY <1>1, <1>2

LEMMA RowIs ==
    ASSUME NEW t \in Tables, NEW r \in RowsOf(t)
    PROVE  r = [key |-> r.key, value |-> r.value]
BY DEF RowsOf

\* The lines of a file.
FileLines == UNION {{Line(t, r) : r \in RowsOf(t)} : t \in Tables}

LEMMA LinesAre ==
    ASSUME NEW d \in DBs
    PROVE  Lines(d) \in Seq(FileLines)
<1> DEFINE Of(i) == [j \in DOMAIN d[i].rows |-> Line(d[i].name, d[i].rows[j])]
           s == [i \in DOMAIN d |-> Of(i)]
<1>1. d \in Seq(Container) /\ Len(d) \in Nat /\ DOMAIN d = 1..Len(d)
  BY DEF DBs
<1>2. ASSUME NEW i \in 1..Len(d) PROVE Of(i) \in Seq(FileLines)
  <2>1. d[i] \in Container
    BY <1>1
  <2>2. d[i].name \in Tables /\ d[i].rows \in Seq(RowsOf(d[i].name))
    BY <2>1, ContainerIs
  <2> DEFINE rows == d[i].rows
  <2>3. DOMAIN rows = 1..Len(rows) /\ Len(rows) \in Nat /\ \A j \in 1..Len(rows) : rows[j] \in RowsOf(d[i].name)
    BY <2>2
  <2>4. \A j \in 1..Len(rows) : Line(d[i].name, rows[j]) \in FileLines
    BY <2>2, <2>3 DEF FileLines
  <2> HIDE DEF rows
  <2>5. [j \in DOMAIN rows |-> Line(d[i].name, rows[j])] \in Seq(FileLines)
    BY <2>3, <2>4
  <2>6. QED
    BY <2>5 DEF rows
<1>3. s \in Seq(Seq(FileLines))
  <2> HIDE DEF Of
  <2>1. QED
    BY <1>1, <1>2
<1> HIDE DEF s
<1>4. PICK f : Joins(f, FileLines, s)
  BY <1>3, JoinsExist
<1>5. FlattenSeq(s) \in Seq(FileLines)
  BY <1>3, <1>4, FlattenIsLast
<1>6. QED
  BY <1>5 DEF Lines, s

\* What db_load reads of a file.
LEMMA ReadableIs ==
    ASSUME NEW lines \in Seq(FileLines)
    PROVE  Readable(lines) \in Seq(FileLines)
<1> DEFINE I == {k \in 1..Len(lines) : lines[k].table \in Short}
           i == SelectInSeq(lines, LAMBDA l : l.table \in Short)
<1>1. Len(lines) \in Nat /\ DOMAIN lines = 1..Len(lines) /\ I \in SUBSET (1..Len(lines))
  OBVIOUS
<1>2. i = IF I # {} THEN Min(I) ELSE 0
  BY DEF SelectInSeq
<1>3. Readable(lines) = IF i = 0 THEN lines ELSE SubSeq(lines, 1, i - 1)
  BY DEF Readable
<1> HIDE DEF i, I
<1>4. i \in 0..Len(lines)
  BY <1>1, <1>2, FoundIn
<1>5. i # 0 => SubSeq(lines, 1, i - 1) \in Seq(FileLines)
  BY <1>4
<1>6. QED
  BY <1>3, <1>5

\* db_load adds the row of one line after the other.
LEMMA RowsLoadedStaged ==
    ASSUME NEW lines \in Seq(FileLines)
    PROVE  \E at : /\ at \in [0..Len(Readable(lines)) -> DBs] /\ at[0] = <<>>
                   /\ at[Len(Readable(lines))] = LoadRows(lines)
                   /\ \A k \in 0..(Len(Readable(lines)) - 1) : at[k + 1] = AddRow(at[k], Readable(lines)[k + 1].table, Readable(lines)[k + 1].key, Readable(lines)[k + 1].value)
<1> DEFINE A == DBs
           l == Readable(lines)
           N == Len(l)
           base == <<>>
           Op(x, k) == AddRow(x, l[k].table, l[k].key, l[k].value)
           F == [y \in (1..N) \X A |-> Op(y[2], y[1])]
           Is(h) == h = [s \in SUBSET (1..N) |-> IF s = {} THEN base ELSE Op(h[s \ {Max(s)}], Max(s))]
           f == CHOOSE h : Is(h)
<1>0. l \in Seq(FileLines)
  BY ReadableIs
<1>1. N \in Nat /\ DOMAIN l = 1..N /\ base \in A
  <2>1. <<>> \in Seq(Container) /\ Len(<<>>) = 0
    OBVIOUS
  <2>2. base \in A
    BY <2>1 DEF DBs
  <2>3. QED
    BY <1>0, <2>2
<1>2. ASSUME NEW x \in A, NEW k \in 1..N PROVE Op(x, k) \in A
  <2>1. l[k] \in FileLines
    BY <1>0
  <2>a. PICK t \in Tables : l[k] \in {Line(t, r) : r \in RowsOf(t)}
    BY <2>1 DEF FileLines
  <2>2. PICK r \in RowsOf(t) : l[k] = Line(t, r)
    BY <2>a
  <2>3. l[k].table = t /\ l[k].key = r.key /\ l[k].value = r.value
    BY <2>2 DEF Line
  <2>4. [key |-> r.key, value |-> r.value] \in RowsOf(t)
    BY RowIs
  <2>5. AddRow(x, t, r.key, r.value) \in DBs
    BY <2>4, RowAdded
  <2>6. QED
    BY <2>3, <2>5
<1>3. LoadRows(lines) = f[1..N]
  BY <1>1 DEF LoadRows, FoldLeft, MapThenFoldSet
<1> HIDE DEF A, l, N, Op, base
<1>4. F \in [(1..N) \X A -> A] /\ \A k \in 1..N, x \in A : F[<<k, x>>] = Op(x, k)
  BY <1>2
<1> HIDE DEF F
<1>5. PICK g : Folds(g, A, base, N, F)
  BY <1>1, <1>4, FoldExists
<1>6. Is(g)
  <2>0. Steps(g, A, base, N, F)
    BY <1>1, <1>5, FoldSteps
  <2>1. g = [s \in SUBSET (1..N) |-> g[s]]
    BY <2>0 DEF Steps
  <2>2. ASSUME NEW s \in SUBSET (1..N)
        PROVE  g[s] = IF s = {} THEN base ELSE Op(g[s \ {Max(s)}], Max(s))
    BY <1>4, <2>0 DEF Steps
  <2>3. [s \in SUBSET (1..N) |-> g[s]] = [s \in SUBSET (1..N) |-> IF s = {} THEN base ELSE Op(g[s \ {Max(s)}], Max(s))]
    BY <2>2, Zenon
  <2>4. QED
    BY <2>1, <2>3
<1>7. f = [s \in SUBSET (1..N) |-> IF s = {} THEN base ELSE Op(f[s \ {Max(s)}], Max(s))]
  <2> HIDE DEF Is
  <2>1. Is(f)
    BY <1>6
  <2> HIDE DEF f
  <2>2. QED
    BY <2>1 DEF Is
<1> HIDE DEF f
<1>8. GoesAs(f, A, base, N, F)
  <2>1. \A s \in SUBSET (1..N) : s # {} => Max(s) \in 1..N
    BY <1>1, <1>5, FoldSteps DEF Steps
  <2>2. QED
    BY <1>4, <1>7, <2>1 DEF GoesAs
<1>9. \E at : Staged(at, A, base, N, F, f[1..N])
  BY <1>1, <1>4, <1>8, GoesStages
<1>10. PICK at : Staged(at, A, base, N, F, f[1..N])
  BY <1>9
<1>11. at \in [0..N -> A] /\ at[0] = base /\ at[N] = f[1..N]
  BY <1>10 DEF Staged
<1>12. ASSUME NEW k \in 0..(N - 1) PROVE at[k + 1] = Op(at[k], k + 1)
  <2>1. at[k + 1] = F[<<k + 1, at[k]>>] /\ at[k] \in A /\ k + 1 \in 1..N
    BY <1>1, <1>10 DEF Staged
  <2>2. QED
    BY <1>4, <2>1
<1>13. \A k \in 0..(N - 1) : at[k + 1] = AddRow(at[k], l[k + 1].table, l[k + 1].key, l[k + 1].value)
  BY <1>12 DEF Op
<1>14. QED
  BY <1>3, <1>11, <1>13 DEF A, N, base, l

LEMMA RowsLoaded ==
    ASSUME NEW lines \in Seq(FileLines)
    PROVE  LoadRows(lines) \in DBs
<1> DEFINE N == Len(Readable(lines))
<1>1. \E at : at \in [0..N -> DBs] /\ at[N] = LoadRows(lines)
  BY RowsLoadedStaged
<1>2. N \in Nat
  BY ReadableIs
<1> HIDE DEF N
<1>3. QED
  BY <1>1, <1>2

-----------------------------------------------------------------------------
(* The rows of the splits *)

\* A row of a new key goes to the end of its table.
LEMMA RowAppended ==
    ASSUME NEW d \in DBs, NEW t \in Tables, NEW key, NEW value,
           [key |-> key, value |-> value] \in RowsOf(t), key \notin Keys(Rows(d, t))
    PROVE  Rows(AddRow(d, t, key, value), t) = Append(Rows(d, t), [key |-> key, value |-> value])
<1> DEFINE i == At(d, t)
           row == [key |-> key, value |-> value]
           e == AddRow(d, t, key, value)
           rows == d[i].rows
           J == {k \in 1..Len(rows) : rows[k].key = key}
           j == SelectInSeq(rows, LAMBDA r : r.key = key)
           new == IF j = 0 THEN Append(rows, row) ELSE [rows EXCEPT ![j] = row]
<1>1. Located(d, t, i)
  BY TableAt
<1>2. row.key = key /\ row \in RowsOf(t)
  OBVIOUS
<1>3. e = IF i = 0 THEN WithTable(d, t, <<row>>)
          ELSE WithRows(d, i, new)
  BY DEF AddRow, At, WithRows, WithTable
<1>4. j = IF J # {} THEN Min(J) ELSE 0
  BY DEF SelectInSeq
<1> HIDE DEF i, row, e, j, new
<1>5. CASE i = 0
  <2> DEFINE one == <<row>>
  <2>1. one \in Seq(RowsOf(t)) /\ DOMAIN one = {1} /\ one[1] = row /\ one = Append(<<>>, row)
    BY <1>2
  <2> HIDE DEF one
  <2>2. Keyed(one)
    BY <1>2, <2>1 DEF Keyed
  <2>3. e = WithTable(d, t, one) /\ Rows(d, t) = <<>> /\ Located(d, t, 0)
    BY <1>1, <1>3, <1>5 DEF Located, one
  <2>4. Rows(e, t) = one
    BY <2>1, <2>2, <2>3, TableMade
  <2>5. QED
    BY <2>1, <2>3, <2>4 DEF e, row
<1>6. CASE i # 0
  <2>1. /\ i \in 1..Len(d) /\ d[i].name = t /\ Rows(d, t) = rows
        /\ rows \in Seq(RowsOf(t)) /\ Keyed(rows) /\ e = WithRows(d, i, new)
    BY <1>1, <1>3, <1>6, RowsAre DEF Located
  <2>2. j = 0
    <3>0. \A k \in 1..Len(rows) : rows[k].key \in Keys(rows)
      <4>1. DOMAIN rows = 1..Len(rows)
        BY <2>1
      <4> HIDE DEF rows
      <4>2. QED
        BY <4>1 DEF Keys, ToSet
    <3>1. J = {}
      BY <2>1, <3>0
    <3>2. QED
      BY <1>4, <3>1
  <2> HIDE DEF rows
  <2>3. new = Append(rows, row)
    BY <2>2 DEF new
  <2>4. new \in Seq(RowsOf(t)) /\ Keyed(new)
    <3>0. Len(rows) \in Nat /\ DOMAIN rows = 1..Len(rows)
      BY <2>1
    <3>1. /\ new \in Seq(RowsOf(t)) /\ DOMAIN new = 1..(Len(rows) + 1) /\ new[Len(rows) + 1] = row
          /\ \A k \in 1..Len(rows) : new[k] = rows[k]
      BY <1>2, <2>1, <2>3
    <3>2. \A k \in 1..Len(rows) : rows[k].key # key
      BY <2>1, <3>0 DEF Keys, ToSet
    <3>3. \A k \in DOMAIN new : k \in 1..Len(rows) \/ k = Len(rows) + 1
      BY <3>0, <3>1
    <3>4. Keyed(new)
      BY <1>2, <2>1, <3>0, <3>1, <3>2, <3>3 DEF Keyed
    <3>5. QED
      BY <3>1, <3>4
  <2>5. Rows(e, t) = new
    BY <2>1, <2>4, RowsSet
  <2>6. QED
    BY <2>1, <2>3, <2>5 DEF e, row
<1>7. QED
  BY <1>5, <1>6

LEMMA NoKeys ==
    ASSUME NEW S, NEW rows \in Seq(S), Keys(rows) = {}
    PROVE  rows = <<>>
<1>1. Len(rows) \in Nat /\ DOMAIN rows = 1..Len(rows)
  OBVIOUS
<1>2. \A k \in 1..Len(rows) : rows[k].key \in Keys(rows)
  BY <1>1 DEF Keys, ToSet
<1>3. Len(rows) = 0
  BY <1>1, <1>2
<1>4. QED
  BY <1>3

\* The table is empty after it.
LEMMA SplitRowsGone ==
    ASSUME NEW rows, NEW d \in DBsWith(rows)
    PROVE  Rows(DelRows(d, "SPLIT"), "SPLIT") = <<>>
<1> DEFINE l == Rows(d, "SPLIT")
           N == Len(l)
           e == DelRows(d, "SPLIT")
<1>1. d \in DBs /\ l \in Seq(RowsOf("SPLIT")) /\ e \in DBs
  <2>1. d \in DBs
    BY DEF DBsWith
  <2>2. l \in Seq(RowsOf("SPLIT"))
    BY <2>1, RowsAre
  <2>3. e \in DBsWith(rows)
    BY RowsDeleted
  <2>4. QED
    BY <2>1, <2>2, <2>3 DEF DBsWith
<1>2. PICK at : /\ at \in [0..N -> DBsWith(rows)] /\ at[0] = d /\ at[N] = e
                /\ \A k \in 0..(N - 1) : at[k + 1] = DelRow(at[k], "SPLIT", l[k + 1].key)
  BY RowsDeletedStaged
<1>3. N \in Nat /\ DOMAIN l = 1..N
  BY <1>1
<1> HIDE DEF l, e, N
<1> DEFINE G == {k \in 0..N : \A x \in Keys(Rows(at[k], "SPLIT")) : \E j \in (k + 1)..N : l[j].key = x}
<1>4. 0 \in G
  <2>1. 0 + 1 = 1 /\ 0 \in 0..N
    BY <1>3
  <2>2. \A x \in Keys(l) : \E j \in 1..N : l[j].key = x
    BY <1>3 DEF Keys, ToSet
  <2>3. QED
    BY <1>2, <2>1, <2>2 DEF l
<1>5. ASSUME NEW k \in 0..(N - 1), k \in G PROVE k + 1 \in G
  <2>1. k + 1 \in 1..N /\ k \in 0..N /\ k + 1 \in 0..N
    BY <1>3
  <2>2. at[k] \in DBs
    BY <1>2, <2>1 DEF DBsWith
  <2>3. Keys(Rows(at[k + 1], "SPLIT")) = Keys(Rows(at[k], "SPLIT")) \ {l[k + 1].key}
    BY <1>2, <2>2, RowDeleted
  <2>4. ASSUME NEW x \in Keys(Rows(at[k + 1], "SPLIT")) PROVE \E j \in (k + 1 + 1)..N : l[j].key = x
    <3>1. PICK j \in (k + 1)..N : l[j].key = x
      BY <1>5, <2>3
    <3>2. j # k + 1
      BY <2>3, <3>1
    <3>3. j \in (k + 1 + 1)..N
      BY <1>3, <3>2
    <3>4. QED
      BY <3>1, <3>3
  <2>5. QED
    BY <2>1, <2>4
<1>6. N \in G
  <2>1. \A k \in 0..N : k \in G
    <3> HIDE DEF G
    <3>1. QED
      BY <1>3, <1>4, <1>5, CountedUp
  <2>2. QED
    BY <1>3, <2>1
<1>7. Keys(Rows(e, "SPLIT")) = {}
  <2>1. (N + 1)..N = {}
    BY <1>3
  <2>2. QED
    BY <1>2, <1>6, <2>1
<1>8. Rows(e, "SPLIT") \in Seq(RowsOf("SPLIT"))
  BY <1>1, RowsAre
<1>9. QED
  BY <1>7, <1>8, NoKeys DEF e

\* The rows of a list of splits.
SplitRows(list) == [i \in 1..Len(list) |-> [key |-> list[i], value |-> When]]

LEMMA SplitRowsAre ==
    ASSUME NEW list \in Seq(Servers), IsInjective(list)
    PROVE  /\ SplitRows(list) \in Seq(RowsOf("SPLIT")) /\ Len(SplitRows(list)) = Len(list)
           /\ \A i \in 1..Len(list) : SplitRows(list)[i] = [key |-> list[i], value |-> When]
           /\ Keyed(SplitRows(list))
<1>1. Len(list) \in Nat /\ DOMAIN list = 1..Len(list) /\ \A i \in 1..Len(list) : list[i] \in Servers
  OBVIOUS
<1>2. \A i \in 1..Len(list) : [key |-> list[i], value |-> When] \in RowsOf("SPLIT")
  BY <1>1 DEF RowsOf
<1>3. /\ SplitRows(list) \in Seq(RowsOf("SPLIT")) /\ Len(SplitRows(list)) = Len(list)
      /\ DOMAIN SplitRows(list) = 1..Len(list)
      /\ \A i \in 1..Len(list) : SplitRows(list)[i] = [key |-> list[i], value |-> When]
  BY <1>1, <1>2 DEF SplitRows
<1>4. Keyed(SplitRows(list))
  BY <1>1, <1>3 DEF Keyed, IsInjective
<1>5. QED
  BY <1>3, <1>4

\* Written to an empty table, the list stands there in its order.
LEMMA SplitRowsWritten ==
    ASSUME NEW rows, NEW d \in DBsWith(rows), Rows(d, "SPLIT") = <<>>, NEW list \in Seq(Servers), IsInjective(list)
    PROVE  Rows(Written(d, list), "SPLIT") = SplitRows(list)
<1> DEFINE N == Len(list)
           last == Written(d, list)
           Part(k) == [i \in 1..k |-> [key |-> list[i], value |-> When]]
<1>1. PICK at : /\ at \in [0..N -> DBsWith(rows)] /\ at[0] = d /\ at[N] = last
                /\ \A k \in 0..(N - 1) : at[k + 1] = AddRow(at[k], "SPLIT", list[k + 1], When)
  BY RowsWrittenStaged
<1>2. N \in Nat /\ \A i, j \in 1..N : list[i] = list[j] => i = j
  BY DEF IsInjective
<1> HIDE DEF last
<1> DEFINE G == {k \in 0..N : Rows(at[k], "SPLIT") = Part(k)}
<1>3. 0 \in G
  <2>1. Part(0) = <<>> /\ 0 \in 0..N
    BY <1>2
  <2>2. QED
    BY <1>1, <2>1
<1>4. ASSUME NEW k \in 0..(N - 1), k \in G PROVE k + 1 \in G
  <2> DEFINE s == list[k + 1]
             row == [key |-> s, value |-> When]
             p == Part(k)
  <2>1. k + 1 \in 1..N /\ k \in 0..N /\ k + 1 \in 0..N /\ s \in Servers /\ k \in Nat
    BY <1>2
  <2>2. at[k] \in DBs /\ Rows(at[k], "SPLIT") = p /\ at[k + 1] = AddRow(at[k], "SPLIT", s, When)
    BY <1>1, <1>4, <2>1 DEF DBsWith
  <2>3. DOMAIN p = 1..k /\ Len(p) = k /\ \A i \in 1..k : p[i].key = list[i] /\ p[i] = [key |-> list[i], value |-> When]
    BY <2>1
  <2>4. s \notin Keys(p)
    <3>1. \A i \in 1..k : i \in 1..N /\ i # k + 1
      BY <1>2
    <3>2. \A i \in 1..k : list[i] # s
      BY <1>2, <2>1, <3>1
    <3> HIDE DEF p, s
    <3>3. QED
      BY <2>3, <3>2 DEF Keys, ToSet
  <2>5. "SPLIT" \in Tables /\ row \in RowsOf("SPLIT")
    BY <2>1 DEF Tables, RowsOf
  <2> HIDE DEF s
  <2>6. Rows(at[k + 1], "SPLIT") = Append(Rows(at[k], "SPLIT"), row)
    <3> HIDE DEF p
    <3>1. s \notin Keys(Rows(at[k], "SPLIT"))
      BY <2>2, <2>4
    <3>2. QED
      BY <2>2, <2>5, <3>1, RowAppended
  <2>7. Append(p, row) = Part(k + 1)
    <3>0. \A i \in 1..k : [key |-> list[i], value |-> When] \in RowsOf("SPLIT")
      <4>1. \A i \in 1..k : list[i] \in Servers
        BY <1>2
      <4>2. QED
        BY <4>1 DEF RowsOf
    <3>1. p \in Seq(RowsOf("SPLIT"))
      <4> HIDE DEF When
      <4>1. QED
        BY <2>1, <3>0
    <3> HIDE DEF p, row
    <3>2. /\ DOMAIN Append(p, row) = 1..(k + 1) /\ Append(p, row)[k + 1] = row
          /\ \A i \in 1..k : Append(p, row)[i] = p[i]
      BY <2>1, <2>3, <3>1
    <3> DEFINE q == Append(p, row)
    <3>3. q = [i \in 1..(k + 1) |-> q[i]]
      <4>1. q \in Seq(RowsOf("SPLIT")) /\ DOMAIN q = 1..(k + 1)
        BY <2>5, <3>1, <3>2 DEF row
      <4> HIDE DEF q
      <4>2. QED
        BY <4>1
    <3>4. ASSUME NEW i \in 1..(k + 1) PROVE q[i] = [key |-> list[i], value |-> When]
      <4>1. i \in 1..k \/ i = k + 1
        BY <2>1
      <4>2. QED
        BY <2>3, <3>2, <4>1 DEF row, s
    <3> HIDE DEF q
    <3>5. q = [i \in 1..(k + 1) |-> [key |-> list[i], value |-> When]]
      BY <3>3, <3>4
    <3>6. QED
      BY <3>5 DEF q
  <2> HIDE DEF p, row
  <2>8. Rows(at[k + 1], "SPLIT") = Part(k + 1)
    BY <2>2, <2>6, <2>7
  <2>9. QED
    BY <2>1, <2>8
<1>5. N \in G
  <2>1. \A k \in 0..N : k \in G
    <3> HIDE DEF G
    <3>1. QED
      BY <1>2, <1>3, <1>4, CountedUp
  <2>2. QED
    BY <1>2, <2>1
<1>6. QED
  BY <1>1, <1>5 DEF last, SplitRows

-----------------------------------------------------------------------------
(* What the file is written from and read into *)

LEMMA SeqIn ==
    ASSUME NEW U, NEW T, NEW s \in Seq(U), \A k \in 1..Len(s) : s[k] \in T
    PROVE  s \in Seq(T)
OBVIOUS

LEMMA SeqOfMore ==
    ASSUME NEW T, NEW U, T \subseteq U
    PROVE  Seq(T) \subseteq Seq(U)
OBVIOUS

LEMMA JoinedAt ==
    ASSUME NEW U, NEW a \in Seq(U), NEW b \in Seq(U)
    PROVE  /\ Len(a \o b) = Len(a) + Len(b) /\ Len(a) \in Nat /\ Len(b) \in Nat
           /\ \A k \in 1..Len(a) : (a \o b)[k] = a[k]
           /\ \A k \in 1..Len(b) : (a \o b)[Len(a) + k] = b[k]
OBVIOUS

LEMMA SplitAround ==
    ASSUME NEW U, NEW s \in Seq(U), NEW i \in 1..Len(s)
    PROVE  s = (SubSeq(s, 1, i - 1) \o <<s[i]>>) \o SubSeq(s, i + 1, Len(s))
<1> DEFINE n == Len(s)
           a == SubSeq(s, 1, i - 1)
           x == <<s[i]>>
           b == SubSeq(s, i + 1, n)
           y == a \o x
           z == y \o b
<1>1. n \in Nat /\ s = [k \in 1..n |-> s[k]]
  OBVIOUS
<1>2. a \in Seq(U) /\ Len(a) = i - 1 /\ \A k \in 1..(i - 1) : a[k] = s[k]
  OBVIOUS
<1>3. x \in Seq(U) /\ Len(x) = 1 /\ x[1] = s[i]
  OBVIOUS
<1>4. b \in Seq(U) /\ Len(b) = n - i /\ \A k \in 1..(n - i) : b[k] = s[i + k]
  OBVIOUS
<1> HIDE DEF a, x, b
<1>5. /\ y \in Seq(U) /\ Len(y) = i /\ y[i] = s[i]
      /\ \A k \in 1..(i - 1) : y[k] = s[k]
  <2>1. y \in Seq(U)
    BY <1>2, <1>3
  <2>2. /\ Len(y) = Len(a) + Len(x) /\ \A k \in 1..Len(a) : y[k] = a[k]
        /\ \A k \in 1..Len(x) : y[Len(a) + k] = x[k]
    <3>0. y = a \o x
      OBVIOUS
    <3>a. a \in Seq(U) /\ x \in Seq(U)
      BY <1>2, <1>3
    <3> HIDE DEF y
    <3>1. QED
      BY <3>0, <3>a, JoinedAt
  <2>3. Len(a) + 1 = i
    BY <1>1, <1>2
  <2> HIDE DEF y
  <2>4. QED
    BY <1>2, <1>3, <2>1, <2>2, <2>3
<1> HIDE DEF y
<1>6. /\ z \in Seq(U) /\ Len(z) = n
      /\ \A k \in 1..i : z[k] = y[k]
      /\ \A k \in 1..(n - i) : z[i + k] = b[k]
  <2>1. z \in Seq(U)
    BY <1>4, <1>5
  <2>2. /\ Len(z) = Len(y) + Len(b) /\ \A k \in 1..Len(y) : z[k] = y[k]
        /\ \A k \in 1..Len(b) : z[Len(y) + k] = b[k]
    <3>0. z = y \o b
      OBVIOUS
    <3>a. y \in Seq(U) /\ b \in Seq(U)
      BY <1>4, <1>5
    <3> HIDE DEF z
    <3>1. QED
      BY <3>0, <3>a, JoinedAt
  <2> HIDE DEF z
  <2>3. QED
    BY <1>1, <1>4, <1>5, <2>1, <2>2
<1> HIDE DEF z
<1>7. ASSUME NEW k \in 1..n PROVE z[k] = s[k]
  <2>1. CASE k \in 1..i
    BY <1>1, <1>5, <1>6, <2>1
  <2>2. CASE k \notin 1..i
    <3>1. k - i \in 1..(n - i) /\ i + (k - i) = k
      BY <1>1, <2>2
    <3>2. z[i + (k - i)] = b[k - i] /\ b[k - i] = s[i + (k - i)]
      BY <1>4, <1>6, <3>1
    <3>3. QED
      BY <3>1, <3>2
  <2>3. QED
    BY <2>1, <2>2
<1>8. z = [k \in 1..n |-> z[k]]
  BY <1>6
<1>9. z = s
  BY <1>1, <1>7, <1>8
<1>10. QED
  BY <1>9 DEF a, x, b, y, z

LEMMA BackIs ==
    ASSUME NEW U, NEW s \in Seq(U), NEW i \in 1..Len(s)
    PROVE  /\ Len(SubSeq(s, i + 1, Len(s))) = Len(s) - i
           /\ \A k \in 1..(Len(s) - i) : SubSeq(s, i + 1, Len(s))[k] = s[i + k]
OBVIOUS

LEMMA FrontIs ==
    ASSUME NEW U, NEW s \in Seq(U), NEW j \in 1..Len(s)
    PROVE  /\ Len(SubSeq(s, 1, j - 1)) = j - 1 /\ DOMAIN SubSeq(s, 1, j - 1) = 1..(j - 1)
           /\ \A i \in 1..(j - 1) : SubSeq(s, 1, j - 1)[i] = s[i]
           /\ Append(SubSeq(s, 1, j - 1), s[j]) = SubSeq(s, 1, j)
<1> DEFINE n == Len(s)
           a == SubSeq(s, 1, j - 1)
           b == SubSeq(s, 1, j)
           y == Append(a, s[j])
<1>1. n \in Nat /\ s[j] \in U
  OBVIOUS
<1>2. a \in Seq(U) /\ Len(a) = j - 1 /\ DOMAIN a = 1..(j - 1) /\ \A k \in 1..(j - 1) : a[k] = s[k]
  OBVIOUS
<1>3. b \in Seq(U) /\ Len(b) = j /\ \A k \in 1..j : b[k] = s[k]
  OBVIOUS
<1> HIDE DEF a, b
<1>4. /\ y \in Seq(U) /\ Len(y) = j /\ y[j] = s[j]
      /\ \A k \in 1..(j - 1) : y[k] = a[k]
  BY <1>1, <1>2
<1> HIDE DEF y
<1>5. ASSUME NEW k \in 1..j PROVE y[k] = b[k]
  BY <1>2, <1>3, <1>4
<1>6. y = [k \in 1..j |-> y[k]] /\ b = [k \in 1..j |-> b[k]]
  BY <1>3, <1>4
<1>7. y = b
  BY <1>5, <1>6
<1>8. QED
  BY <1>2, <1>7 DEF a, b, y

\* The lines of a table stand one behind the other.
StandAt(lines, t, rows, n) ==
    /\ n \in Nat /\ n + Len(rows) <= Len(lines)
    /\ \A i \in 1..Len(lines) : lines[i].table = t <=> i \in (n + 1)..(n + Len(rows))
    /\ \A j \in 1..Len(rows) : lines[n + j] = Line(t, rows[j])

LinesOf(c) == [j \in DOMAIN c.rows |-> Line(c.name, c.rows[j])]

LEMMA LinesOfAre ==
    ASSUME NEW c \in Container
    PROVE  /\ LinesOf(c) \in Seq({l \in FileLines : l.table = c.name})
           /\ Len(LinesOf(c)) = Len(c.rows) /\ Len(c.rows) \in Nat
           /\ \A j \in 1..Len(c.rows) : LinesOf(c)[j] = Line(c.name, c.rows[j])
<1> DEFINE t == c.name
           rows == c.rows
<1>1. t \in Tables /\ rows \in Seq(RowsOf(t))
  BY ContainerIs
<1> HIDE DEF t, rows
<1>2. DOMAIN rows = 1..Len(rows) /\ Len(rows) \in Nat /\ \A j \in 1..Len(rows) : rows[j] \in RowsOf(t)
  BY <1>1
<1>3. \A j \in 1..Len(rows) : Line(t, rows[j]) \in {l \in FileLines : l.table = t}
  <2>1. \A j \in 1..Len(rows) : Line(t, rows[j]) \in FileLines
    BY <1>1, <1>2 DEF FileLines
  <2>2. \A j \in 1..Len(rows) : Line(t, rows[j]).table = t
    BY DEF Line
  <2>3. QED
    BY <2>1, <2>2
<1> DEFINE S == {l \in FileLines : l.table = t}
           m == [j \in DOMAIN rows |-> Line(t, rows[j])]
<1>4. m \in Seq(S) /\ Len(m) = Len(rows) /\ \A j \in 1..Len(rows) : m[j] = Line(t, rows[j])
  <2> HIDE DEF S
  <2>1. \A j \in 1..Len(rows) : Line(t, rows[j]) \in S
    BY <1>3 DEF S
  <2>2. QED
    BY <1>2, <2>1
<1>5. LinesOf(c) = m
  BY DEF LinesOf, t, rows
<1> HIDE DEF m
<1>6. QED
  BY <1>2, <1>4, <1>5 DEF t, rows

\* Lists of lines, none of which is of that table.
LEMMA FlattenOthers ==
    ASSUME NEW t, NEW s \in Seq(Seq({l \in FileLines : l.table # t}))
    PROVE  /\ s \in Seq(Seq(FileLines)) /\ FlattenSeq(s) \in Seq(FileLines)
           /\ \A i \in 1..Len(FlattenSeq(s)) : FlattenSeq(s)[i].table # t
<1> DEFINE S == {l \in FileLines : l.table # t}
           m == FlattenSeq(s)
<1>1. \A x \in S : x \in FileLines /\ x.table # t
  OBVIOUS
<1>2. s \in Seq(Seq(S))
  OBVIOUS
<1> HIDE DEF S
<1>3. m \in Seq(S)
  <2>1. PICK f : Joins(f, S, s)
    BY <1>2, JoinsExist
  <2>2. QED
    BY <1>2, <2>1, FlattenIsLast
<1> HIDE DEF m
<1>4. m \in Seq(FileLines) /\ \A i \in 1..Len(m) : m[i].table # t
  BY <1>1, <1>3
<1>5. s \in Seq(Seq(FileLines))
  <2>1. Seq(S) \subseteq Seq(FileLines)
    BY <1>1
  <2>2. QED
    BY <1>2, <2>1
<1>6. QED
  BY <1>4, <1>5 DEF m

LEMMA LinesStand ==
    ASSUME NEW d \in DBs, NEW t \in Tables
    PROVE  \E n : StandAt(Lines(d), t, Rows(d, t), n)
<1> DEFINE s == [i \in DOMAIN d |-> LinesOf(d[i])]
           S == {l \in FileLines : l.table # t}
           i == At(d, t)
           lines == Lines(d)
           rows == Rows(d, t)
<1>1. d \in Seq(Container) /\ Len(d) \in Nat /\ DOMAIN d = 1..Len(d)
  BY DEF DBs
<1>2. lines = FlattenSeq(s)
  BY DEF Lines, LinesOf
<1>3. Located(d, t, i)
  BY TableAt
<1>4. /\ i \in 0..Len(d)
      /\ i = 0 => rows = <<>> /\ \A k \in 1..Len(d) : d[k].name # t
      /\ i # 0 => /\ d[i].name = t /\ rows = d[i].rows
                  /\ \A k \in 1..Len(d) : d[k].name = t => k = i
  BY <1>3 DEF Located
<1> HIDE DEF i, rows
<1>5. \A k \in 1..Len(d) : d[k] \in Container /\ LinesOf(d[k]) \in Seq({l \in FileLines : l.table = d[k].name})
  BY <1>1, LinesOfAre
<1>6. \A k \in 1..Len(d) : k # i => LinesOf(d[k]) \in Seq(S)
  <2>1. ASSUME NEW k \in 1..Len(d), k # i PROVE LinesOf(d[k]) \in Seq(S)
    <3>1. d[k].name # t
      BY <1>4, <2>1
    <3>2. {l \in FileLines : l.table = d[k].name} \subseteq S
      BY <3>1
    <3>3. QED
      BY <1>5, <3>2, SeqOfMore
  <2>2. QED
    BY <2>1
<1>7. \A k \in 1..Len(d) : LinesOf(d[k]) \in Seq(FileLines)
  <2>1. \A k \in 1..Len(d) : {l \in FileLines : l.table = d[k].name} \subseteq FileLines
    OBVIOUS
  <2>2. QED
    BY <1>5, <2>1, SeqOfMore
<1>8. s \in Seq(Seq(FileLines)) /\ Len(s) = Len(d) /\ \A k \in 1..Len(d) : s[k] = LinesOf(d[k])
  BY <1>1, <1>7
<1> HIDE DEF s, S, lines
<1>9. CASE i = 0
  <2>1. s \in Seq(Seq(S))
    <3>1. \A k \in 1..Len(s) : s[k] \in Seq(S)
      BY <1>1, <1>6, <1>8, <1>9
    <3>2. QED
      BY <1>8, <3>1, SeqIn
  <2>2. lines \in Seq(FileLines) /\ \A k \in 1..Len(lines) : lines[k].table # t
    BY <1>2, <2>1, FlattenOthers DEF S
  <2>3. Len(rows) = 0
    BY <1>4, <1>9
  <2>4. StandAt(lines, t, rows, 0)
    BY <2>2, <2>3 DEF StandAt
  <2>5. QED
    BY <2>4 DEF lines, rows
<1>10. CASE i # 0
  <2> DEFINE a == SubSeq(s, 1, i - 1)
             x == LinesOf(d[i])
             b == SubSeq(s, i + 1, Len(s))
             A == FlattenSeq(a)
             B == FlattenSeq(b)
  <2>1. i \in 1..Len(d) /\ s[i] = x /\ x \in Seq(FileLines) /\ Len(s) = Len(d)
    BY <1>4, <1>7, <1>8, <1>10
  <2>2. a \in Seq(Seq(S)) /\ b \in Seq(Seq(S))
    <3>1. \A k \in 1..Len(s) : k # i => s[k] \in Seq(S)
      BY <1>6, <1>8
    <3>2. Len(a) = i - 1 /\ \A k \in 1..(i - 1) : a[k] = s[k] /\ k \in 1..Len(s) /\ k # i
      BY <1>8, <2>1
    <3>3. Len(b) = Len(s) - i /\ \A k \in 1..(Len(s) - i) : b[k] = s[i + k] /\ i + k \in 1..Len(s) /\ i + k # i
      <4>1. i \in 1..Len(s)
        BY <2>1
      <4>2. Len(b) = Len(s) - i /\ \A k \in 1..(Len(s) - i) : b[k] = s[i + k]
        BY <1>8, <4>1, BackIs
      <4>3. \A k \in 1..(Len(s) - i) : i + k \in 1..Len(s) /\ i + k # i
        <5>1. Len(s) \in Nat
          BY <1>8
        <5>2. QED
          BY <4>1, <5>1
      <4>4. QED
        BY <4>2, <4>3
    <3>4. a \in Seq(Seq(FileLines)) /\ b \in Seq(Seq(FileLines))
      BY <1>8, <2>1
    <3> HIDE DEF a, b
    <3>5. \A k \in 1..Len(a) : a[k] \in Seq(S)
      BY <3>1, <3>2
    <3>6. \A k \in 1..Len(b) : b[k] \in Seq(S)
      BY <3>1, <3>3
    <3>7. QED
      BY <3>4, <3>5, <3>6, SeqIn
  <2>3. s = (a \o <<x>>) \o b
    BY <1>8, <2>1, SplitAround
  <2>4. /\ a \in Seq(Seq(FileLines)) /\ A \in Seq(FileLines) /\ \A k \in 1..Len(A) : A[k].table # t
        /\ b \in Seq(Seq(FileLines)) /\ B \in Seq(FileLines) /\ \A k \in 1..Len(B) : B[k].table # t
    <3> HIDE DEF a, b
    <3>1. QED
      BY <2>2, FlattenOthers DEF S
  <2>5. lines = (A \o x) \o B
    <3> HIDE DEF a, b, x
    <3>1. <<x>> \in Seq(Seq(FileLines)) /\ FlattenSeq(<<x>>) = x
      BY <2>1, FlattenOne
    <3>2. a \o <<x>> \in Seq(Seq(FileLines)) /\ FlattenSeq(a \o <<x>>) = A \o x
      BY <2>4, <3>1, FlattenJoin
    <3>3. FlattenSeq((a \o <<x>>) \o b) = FlattenSeq(a \o <<x>>) \o B
      BY <2>4, <3>2, FlattenJoin
    <3>4. QED
      BY <1>2, <2>3, <3>2, <3>3
  <2> HIDE DEF a, b, A, B
  <2>6. /\ x \in Seq({l \in FileLines : l.table = d[i].name}) /\ Len(x) = Len(d[i].rows) /\ Len(d[i].rows) \in Nat
        /\ \A j \in 1..Len(d[i].rows) : x[j] = Line(d[i].name, d[i].rows[j])
    BY <1>5, <2>1, LinesOfAre
  <2>7. d[i].name = t /\ rows = d[i].rows
    BY <1>4, <1>10
  <2>8. \A j \in 1..Len(x) : x[j].table = t
    BY <2>6, <2>7
  <2>9. Len(x) = Len(rows) /\ Len(rows) \in Nat /\ \A j \in 1..Len(rows) : x[j] = Line(t, rows[j])
    BY <2>6, <2>7
  <2> HIDE DEF x
  <2>10. Len(A) \in Nat /\ Len(B) \in Nat /\ Len(x) \in Nat
    BY <2>1, <2>4
  <2>11. /\ Len(lines) = Len(A) + Len(x) + Len(B)
         /\ \A k \in 1..Len(A) : lines[k] = A[k]
         /\ \A k \in 1..Len(x) : lines[Len(A) + k] = x[k]
         /\ \A k \in 1..Len(B) : lines[Len(A) + Len(x) + k] = B[k]
    <3>0. x \in Seq(FileLines) /\ A \in Seq(FileLines) /\ B \in Seq(FileLines)
      BY <2>1, <2>4
    <3> DEFINE y == A \o x
    <3>1. y \in Seq(FileLines) /\ Len(y) = Len(A) + Len(x)
      BY <3>0
    <3>2. \A k \in 1..Len(A) : y[k] = A[k]
      BY <3>0
    <3>3. \A k \in 1..Len(x) : y[Len(A) + k] = x[k]
      BY <3>0
    <3> HIDE DEF y
    <3>4. lines = y \o B
      BY <2>5 DEF y
    <3>5. Len(lines) = Len(y) + Len(B)
      BY <3>0, <3>1, <3>4, JoinedAt
    <3>6. \A k \in 1..Len(y) : lines[k] = y[k]
      BY <3>0, <3>1, <3>4, JoinedAt
    <3>7. \A k \in 1..Len(B) : lines[Len(y) + k] = B[k]
      BY <3>0, <3>1, <3>4, JoinedAt
    <3>8. \A k \in 1..Len(A) : k \in 1..Len(y)
      BY <2>10, <3>1
    <3>9. \A k \in 1..Len(x) : Len(A) + k \in 1..Len(y)
      BY <2>10, <3>1
    <3>10. QED
      BY <2>10, <3>1, <3>2, <3>3, <3>5, <3>6, <3>7, <3>8, <3>9
  <2>12. ASSUME NEW k \in 1..Len(lines)
         PROVE  lines[k].table = t <=> k \in (Len(A) + 1)..(Len(A) + Len(rows))
    <3>1. CASE k \in 1..Len(A)
      <4>1. lines[k] = A[k] /\ A[k].table # t
        BY <2>4, <2>11, <3>1
      <4>2. k \notin (Len(A) + 1)..(Len(A) + Len(rows))
        BY <2>10, <3>1
      <4>3. QED
        BY <4>1, <4>2
    <3>2. CASE k \in (Len(A) + 1)..(Len(A) + Len(x))
      <4>1. k - Len(A) \in 1..Len(x) /\ Len(A) + (k - Len(A)) = k
        BY <2>10, <3>2
      <4>2. lines[k] = x[k - Len(A)]
        BY <2>11, <4>1
      <4>3. QED
        BY <2>8, <2>9, <3>2, <4>1, <4>2
    <3>3. CASE k \in (Len(A) + Len(x) + 1)..Len(lines)
      <4>1. k - (Len(A) + Len(x)) \in 1..Len(B) /\ Len(A) + Len(x) + (k - (Len(A) + Len(x))) = k
        BY <2>10, <2>11, <3>3
      <4>2. lines[k] = B[k - (Len(A) + Len(x))]
        BY <2>11, <4>1
      <4>3. k \notin (Len(A) + 1)..(Len(A) + Len(rows))
        BY <2>9, <2>10, <3>3
      <4>4. QED
        BY <2>4, <4>1, <4>2, <4>3
    <3>4. QED
      BY <2>10, <2>11, <3>1, <3>2, <3>3
  <2>13. StandAt(lines, t, rows, Len(A))
    <3>1. Len(A) + Len(rows) <= Len(lines)
      BY <2>9, <2>10, <2>11
    <3>2. \A j \in 1..Len(rows) : lines[Len(A) + j] = Line(t, rows[j])
      BY <2>9, <2>11
    <3>3. QED
      BY <2>10, <2>12, <3>1, <3>2 DEF StandAt
  <2>14. QED
    BY <2>13 DEF lines, rows
<1>11. QED
  BY <1>9, <1>10

\* What was written comes back: table by table, with its rows in their order.
LEMMA RowsComeBack ==
    ASSUME NEW d \in DBs, Readable(Lines(d)) = Lines(d), NEW t \in Tables
    PROVE  Rows(LoadRows(Lines(d)), t) = Rows(d, t)
<1> DEFINE lines == Lines(d)
           N == Len(lines)
           rows == Rows(d, t)
           M == Len(rows)
           new == LoadRows(lines)
<1>1. lines \in Seq(FileLines)
  BY LinesAre
<1>2. rows \in Seq(RowsOf(t)) /\ Keyed(rows)
  BY RowsAre
<1>3. PICK n : StandAt(lines, t, rows, n)
  BY LinesStand
<1>4. PICK at : /\ at \in [0..N -> DBs] /\ at[0] = <<>> /\ at[N] = new
                /\ \A k \in 0..(N - 1) : at[k + 1] = AddRow(at[k], lines[k + 1].table, lines[k + 1].key, lines[k + 1].value)
  BY <1>1, RowsLoadedStaged
<1>5. N \in Nat /\ M \in Nat /\ DOMAIN rows = 1..M
  BY <1>1, <1>2
<1> HIDE DEF lines, rows, new
<1>6. /\ n \in Nat /\ n + M <= N
      /\ \A i \in 1..N : lines[i].table = t <=> i \in (n + 1)..(n + M)
      /\ \A j \in 1..M : lines[n + j] = Line(t, rows[j])
  BY <1>3 DEF StandAt
<1> HIDE DEF N, M
\* How many of them are there after k lines.
<1> DEFINE Done(k) == IF k <= n THEN 0 ELSE IF k >= n + M THEN M ELSE k - n
           Part(k) == SubSeq(rows, 1, Done(k))
           G == {k \in 0..N : Rows(at[k], t) = Part(k)}
<1>7. \A k \in 0..N : Done(k) \in 0..M
  BY <1>5, <1>6
<1>8. SubSeq(rows, 1, 0) = <<>> /\ SubSeq(rows, 1, M) = rows
  BY <1>2, <1>5 DEF M
<1>9. 0 \in G
  <2>1. 0 \in 0..N /\ Done(0) = 0
    BY <1>5, <1>6
  <2>2. Rows(<<>>, t) = <<>>
    BY DEF Rows, SelectInSeq
  <2>3. QED
    BY <1>4, <1>8, <2>1, <2>2
<1>10. ASSUME NEW k \in 0..(N - 1), k \in G PROVE k + 1 \in G
  <2> DEFINE l == lines[k + 1]
             p == Part(k)
             e == at[k]
  <2>1. k \in 0..N /\ k + 1 \in 1..N /\ k + 1 \in 0..N /\ e \in DBs /\ Rows(e, t) = p
    BY <1>4, <1>5, <1>10
  <2>2. at[k + 1] = AddRow(e, l.table, l.key, l.value)
    BY <1>4
  <2>a. l \in FileLines
    BY <1>1, <2>1 DEF N
  <2>3. PICK u \in Tables : l \in {Line(u, r) : r \in RowsOf(u)}
    BY <2>a DEF FileLines
  <2>4. PICK r \in RowsOf(u) : l = Line(u, r)
    BY <2>3
  <2>5. l.table = u /\ l.key = r.key /\ l.value = r.value /\ r = [key |-> r.key, value |-> r.value]
    BY <2>4, RowIs DEF Line
  <2>6. at[k + 1] = AddRow(e, u, r.key, r.value) /\ [key |-> r.key, value |-> r.value] \in RowsOf(u)
    BY <2>2, <2>5
  <2>7. CASE u # t
    <3>1. Rows(at[k + 1], t) = Rows(e, t)
      BY <2>1, <2>6, <2>7, RowAdded
    <3>2. k + 1 \notin (n + 1)..(n + M)
      BY <1>6, <2>1, <2>5, <2>7
    <3>3. Done(k + 1) = Done(k)
      BY <1>5, <1>6, <2>1, <3>2
    <3>4. QED
      BY <2>1, <3>1, <3>3
  <2>8. CASE u = t
    <3> DEFINE j == k + 1 - n
    <3>1. k + 1 \in (n + 1)..(n + M)
      BY <1>6, <2>1, <2>5, <2>8
    <3>2. j \in 1..M /\ n + j = k + 1 /\ Done(k) = j - 1 /\ Done(k + 1) = j
      BY <1>5, <1>6, <2>1, <3>1
    <3>3. l = Line(t, rows[j])
      BY <1>6, <3>2
    <3>4. rows[j] \in RowsOf(t)
      BY <1>2, <3>2 DEF M
    <3> HIDE DEF j
    <3>5. r = rows[j]
      <4>1. l.key = rows[j].key /\ l.value = rows[j].value
        BY <3>3 DEF Line
      <4>2. rows[j] = [key |-> rows[j].key, value |-> rows[j].value]
        BY <3>4, RowIs
      <4> HIDE DEF l
      <4>3. QED
        BY <2>5, <4>1, <4>2
    <3>6. p = SubSeq(rows, 1, j - 1) /\ Part(k + 1) = SubSeq(rows, 1, j)
      BY <3>2
    <3>7. /\ Len(p) = j - 1 /\ DOMAIN p = 1..(j - 1)
          /\ \A i \in 1..(j - 1) : p[i] = rows[i] /\ i \in 1..M /\ i # j
      <4>1. j \in 1..Len(rows)
        BY <3>2 DEF M
      <4>2. \A i \in 1..(j - 1) : i \in 1..M /\ i # j
        BY <1>5, <3>2
      <4> HIDE DEF p
      <4>3. QED
        BY <1>2, <3>6, <4>1, <4>2, FrontIs
    <3> HIDE DEF p, l
    <3>8. r.key \notin Keys(p)
      <4>1. ASSUME NEW i \in 1..(j - 1) PROVE p[i].key # r.key
        BY <1>2, <1>5, <3>2, <3>5, <3>7 DEF Keyed
      <4>2. QED
        BY <3>7, <4>1 DEF Keys, ToSet
    <3>9. Rows(at[k + 1], t) = Append(p, r)
      <4>1. r.key \notin Keys(Rows(e, t))
        BY <2>1, <3>8
      <4>2. Rows(AddRow(e, t, r.key, r.value), t) = Append(Rows(e, t), [key |-> r.key, value |-> r.value])
        <5> HIDE DEF e
        <5>1. QED
          BY <2>1, <2>6, <2>8, <4>1, RowAppended
      <4>3. QED
        BY <2>1, <2>5, <2>6, <2>8, <4>2
    <3>10. Append(p, r) = SubSeq(rows, 1, j)
      <4>1. j \in 1..Len(rows)
        BY <3>2 DEF M
      <4>2. QED
        BY <1>2, <3>5, <3>6, <4>1, FrontIs
    <3>11. QED
      BY <2>1, <3>6, <3>9, <3>10
  <2>9. QED
    BY <2>7, <2>8
<1>11. N \in G
  <2>1. \A k \in 0..N : k \in G
    <3> HIDE DEF G
    <3>1. QED
      BY <1>5, <1>9, <1>10, CountedUp
  <2>2. QED
    BY <1>5, <2>1
<1>12. Done(N) = M
  BY <1>5, <1>6
<1>13. QED
  BY <1>4, <1>8, <1>11, <1>12 DEF new, lines, rows

-----------------------------------------------------------------------------
(* The list of splits *)

\* A list and a database as splitserv_loaddb builds them.
SplitStates(here, rows) ==
    {st \in [list : Seq(Servers), db : DBsWith(rows)] :
        IsInjective(st.list) /\ ToSet(st.list) \cap here = {}}

LEMMA SplitFound ==
    ASSUME NEW list \in Seq(Servers), NEW s
    PROVE  FindSplit(list, s) # 0 <=> s \in ToSet(list)
<1> DEFINE I == {k \in 1..Len(list) : list[k] = s}
           i == FindSplit(list, s)
<1>1. Len(list) \in Nat /\ DOMAIN list = 1..Len(list) /\ I \in SUBSET (1..Len(list))
  OBVIOUS
<1>2. i = IF I # {} THEN Min(I) ELSE 0
  BY DEF FindSplit, SelectInSeq
<1>3. I # {} <=> s \in ToSet(list)
  BY InList
<1> HIDE DEF i, I
<1>4. (i # 0 => i \in I) /\ (i = 0 => I = {})
  BY <1>1, <1>2, FoundIn
<1>5. QED
  BY <1>3, <1>4 DEF i

LEMMA SplitAdded ==
    ASSUME NEW here, NEW rows, NEW st \in SplitStates(here, rows), NEW s \in Servers
    PROVE  AddSplit(st, s, here) \in SplitStates(here, rows)
<1>1. /\ st.list \in Seq(Servers) /\ st.db \in DBsWith(rows)
      /\ IsInjective(st.list) /\ ToSet(st.list) \cap here = {}
  BY DEF SplitStates
<1>2. CASE FindSplit(st.list, s) # 0 \/ s \in here
  BY <1>2 DEF AddSplit
<1>3. CASE FindSplit(st.list, s) = 0 /\ s \notin here
  <2> DEFINE list == Append(st.list, s)
             d == AddRow(st.db, "SPLIT", s, When)
  <2>1. s \notin ToSet(st.list)
    BY <1>1, <1>3, SplitFound
  <2>2. list \in Seq(Servers) /\ IsInjective(list) /\ ToSet(list) = ToSet(st.list) \cup {s}
    BY <1>1, <2>1, AppendKeeps
  <2>3. d \in DBsWith(rows)
    BY <1>1, OthersKeep
  <2>4. AddSplit(st, s, here) = [list |-> list, db |-> d]
    BY <1>3 DEF AddSplit
  <2> HIDE DEF list, d
  <2>5. ToSet(list) \cap here = {}
    BY <1>1, <1>3, <2>2
  <2>6. QED
    BY <2>2, <2>3, <2>4, <2>5 DEF SplitStates
<1>4. QED
  BY <1>2, <1>3

\* The stages of splitserv_loaddb.
SplitsGo(at, here, rows, d, l) ==
    /\ at \in [0..Len(l) -> SplitStates(here, rows)] /\ at[0].list = <<>>
    /\ at[Len(l)] = LoadDb(d, TRUE, here)
    /\ \A k \in 0..(Len(l) - 1) : at[k + 1] = AddSplit(at[k], l[k + 1].key, here)

\* splitserv_loaddb leaves out who is linked and who is there already.
LEMMA SplitsLoadedStaged ==
    ASSUME NEW here, NEW rows, NEW d \in DBsWith(rows)
    PROVE  \E at : SplitsGo(at, here, rows, d, Rows(d, "SPLIT"))
<1> DEFINE A == SplitStates(here, rows)
           l == Rows(d, "SPLIT")
           N == Len(l)
           base == [list |-> <<>>, db |-> d]
           Op(x, k) == AddSplit(x, l[k].key, here)
           F == [y \in (1..N) \X A |-> Op(y[2], y[1])]
           Is(h) == h = [s \in SUBSET (1..N) |-> IF s = {} THEN base ELSE Op(h[s \ {Max(s)}], Max(s))]
           f == CHOOSE h : Is(h)
<1>0. l \in Seq(RowsOf("SPLIT"))
  BY RowsAre DEF DBsWith
<1>1. N \in Nat /\ DOMAIN l = 1..N /\ base \in A
  <2>1. <<>> \in Seq(Servers) /\ ToSet(<<>>) = {} /\ IsInjective(<<>>)
    BY DEF ToSet, IsInjective
  <2>2. base \in A
    BY <2>1 DEF SplitStates
  <2>3. QED
    BY <1>0, <2>2
<1>2. ASSUME NEW x \in A, NEW k \in 1..N PROVE Op(x, k) \in A
  <2>0. l[k] \in RowsOf("SPLIT")
    BY <1>0
  <2>1. l[k].key \in Servers
    BY <2>0 DEF RowsOf
  <2>2. QED
    BY <2>1, SplitAdded
<1>3. LoadDb(d, TRUE, here) = f[1..N]
  BY <1>1 DEF LoadDb, FoldLeft, MapThenFoldSet
<1> HIDE DEF A, l, N, Op, base
<1>4. F \in [(1..N) \X A -> A] /\ \A k \in 1..N, x \in A : F[<<k, x>>] = Op(x, k)
  BY <1>2
<1> HIDE DEF F
<1>5. PICK g : Folds(g, A, base, N, F)
  BY <1>1, <1>4, FoldExists
<1>6. Is(g)
  <2>0. Steps(g, A, base, N, F)
    BY <1>1, <1>5, FoldSteps
  <2>1. g = [s \in SUBSET (1..N) |-> g[s]]
    BY <2>0 DEF Steps
  <2>2. ASSUME NEW s \in SUBSET (1..N)
        PROVE  g[s] = IF s = {} THEN base ELSE Op(g[s \ {Max(s)}], Max(s))
    BY <1>4, <2>0 DEF Steps
  <2>3. [s \in SUBSET (1..N) |-> g[s]] = [s \in SUBSET (1..N) |-> IF s = {} THEN base ELSE Op(g[s \ {Max(s)}], Max(s))]
    BY <2>2, Zenon
  <2>4. QED
    BY <2>1, <2>3
<1>7. f = [s \in SUBSET (1..N) |-> IF s = {} THEN base ELSE Op(f[s \ {Max(s)}], Max(s))]
  <2> HIDE DEF Is
  <2>1. Is(f)
    BY <1>6
  <2> HIDE DEF f
  <2>2. QED
    BY <2>1 DEF Is
<1> HIDE DEF f
<1>8. GoesAs(f, A, base, N, F)
  <2>1. \A s \in SUBSET (1..N) : s # {} => Max(s) \in 1..N
    BY <1>1, <1>5, FoldSteps DEF Steps
  <2>2. QED
    BY <1>4, <1>7, <2>1 DEF GoesAs
<1>9. \E at : Staged(at, A, base, N, F, f[1..N])
  BY <1>1, <1>4, <1>8, GoesStages
<1>10. PICK at : Staged(at, A, base, N, F, f[1..N])
  BY <1>9
<1>11. at \in [0..N -> A] /\ at[0] = base /\ at[N] = f[1..N]
  BY <1>10 DEF Staged
<1>12. ASSUME NEW k \in 0..(N - 1) PROVE at[k + 1] = Op(at[k], k + 1)
  <2>1. at[k + 1] = F[<<k + 1, at[k]>>] /\ at[k] \in A /\ k + 1 \in 1..N
    BY <1>1, <1>10 DEF Staged
  <2>2. QED
    BY <1>4, <2>1
<1>13. \A k \in 0..(N - 1) : at[k + 1] = AddSplit(at[k], l[k + 1].key, here)
  BY <1>12 DEF Op
<1>14. at[0].list = <<>>
  BY <1>11 DEF base
<1>15. SplitsGo(at, here, rows, d, l)
  BY <1>3, <1>11, <1>13, <1>14 DEF SplitsGo, A, N
<1>16. QED
  BY <1>15 DEF l

LEMMA SplitsLoaded ==
    ASSUME NEW here, NEW rows, NEW d \in DBsWith(rows), NEW save
    PROVE  LoadDb(d, save, here) \in SplitStates(here, rows)
<1>1. CASE save
  <2> DEFINE l == Rows(d, "SPLIT")
             N == Len(l)
  <2>1. PICK at : SplitsGo(at, here, rows, d, l)
    BY SplitsLoadedStaged
  <2>2. N \in Nat
    BY RowsAre DEF DBsWith
  <2>3. LoadDb(d, TRUE, here) \in SplitStates(here, rows)
    <3>1. at \in [0..N -> SplitStates(here, rows)] /\ at[N] = LoadDb(d, TRUE, here)
      BY <2>1 DEF SplitsGo
    <3> HIDE DEF N
    <3>2. N \in 0..N
      BY <2>2
    <3>3. at[N] \in SplitStates(here, rows)
      BY <3>1, <3>2
    <3>4. QED
      BY <3>1, <3>3
  <2>4. LoadDb(d, save, here) = LoadDb(d, TRUE, here)
    BY <1>1 DEF LoadDb
  <2>5. QED
    BY <2>3, <2>4
<1>2. CASE ~save
  <2>1. <<>> \in Seq(Servers) /\ ToSet(<<>>) = {} /\ IsInjective(<<>>)
    BY DEF ToSet, IsInjective
  <2>2. QED
    BY <1>2, <2>1 DEF SplitStates, LoadDb
<1>3. QED
  BY <1>1, <1>2

\* A list that was written is read in the same order.
LEMMA SplitsInOrder ==
    ASSUME NEW rows, NEW d \in DBsWith(rows), NEW list \in Seq(Servers), IsInjective(list),
           Rows(d, "SPLIT") = SplitRows(list)
    PROVE  LoadDb(d, TRUE, {}).list = list
<1> DEFINE none == {}
           l == Rows(d, "SPLIT")
           N == Len(list)
           new == LoadDb(d, TRUE, none)
<1>1. N \in Nat /\ Len(l) = N /\ \A k \in 1..N : list[k] \in Servers /\ l[k].key = list[k]
  <2>1. /\ Len(SplitRows(list)) = Len(list)
        /\ \A k \in 1..Len(list) : SplitRows(list)[k] = [key |-> list[k], value |-> When]
    BY SplitRowsAre
  <2>2. l = SplitRows(list)
    OBVIOUS
  <2> HIDE DEF l
  <2>3. \A k \in 1..Len(list) : l[k].key = list[k]
    <3>1. ASSUME NEW k \in 1..Len(list) PROVE l[k].key = list[k]
      <4>1. l[k] = [key |-> list[k], value |-> When]
        BY <2>1, <2>2
      <4>2. QED
        BY <4>1
    <3>2. QED
      BY <3>1
  <2>4. QED
    BY <2>1, <2>2, <2>3
<1>2. \A i, j \in 1..N : list[i] = list[j] => i = j
  BY DEF IsInjective
<1> HIDE DEF none
<1>3. \E at : SplitsGo(at, none, rows, d, l)
  <2> HIDE DEF l
  <2>1. l = Rows(d, "SPLIT")
    BY DEF l
  <2>2. QED
    BY <2>1, SplitsLoadedStaged
<1> HIDE DEF new, l
<1>6. PICK at : /\ at \in [0..N -> SplitStates(none, rows)] /\ at[0].list = <<>> /\ at[N] = new
                /\ \A k \in 0..(N - 1) : at[k + 1] = AddSplit(at[k], l[k + 1].key, none)
  <2>1. PICK at : SplitsGo(at, none, rows, d, l)
    BY <1>3
  <2>2. QED
    BY <1>1, <2>1 DEF SplitsGo, new
<1> DEFINE G == {k \in 0..N : at[k].list = SubSeq(list, 1, k)}
<1>7. 0 \in G
  <2>1. SubSeq(list, 1, 0) = <<>> /\ 0 \in 0..N
    BY <1>1
  <2>2. QED
    BY <1>6, <2>1
<1>8. ASSUME NEW k \in 0..(N - 1), k \in G PROVE k + 1 \in G
  <2> DEFINE s == list[k + 1]
             st == at[k]
             p == SubSeq(list, 1, k)
  <2>1. k + 1 \in 1..N /\ k \in 0..N /\ k + 1 \in 0..N /\ s \in Servers /\ (k + 1) - 1 = k
    BY <1>1
  <2>2. st \in SplitStates(none, rows) /\ st.list = p
    BY <1>6, <1>8, <2>1
  <2>3. at[k + 1] = AddSplit(st, s, none)
    BY <1>1, <1>6, <2>1
  <2>4. DOMAIN p = 1..k /\ (\A i \in 1..k : p[i] = list[i]) /\ Append(p, s) = SubSeq(list, 1, k + 1)
    <3>1. k + 1 \in 1..Len(list)
      BY <2>1
    <3>2. /\ DOMAIN SubSeq(list, 1, k + 1 - 1) = 1..(k + 1 - 1)
          /\ \A i \in 1..(k + 1 - 1) : SubSeq(list, 1, k + 1 - 1)[i] = list[i]
          /\ Append(SubSeq(list, 1, k + 1 - 1), list[k + 1]) = SubSeq(list, 1, k + 1)
      BY <3>1, FrontIs
    <3>3. QED
      BY <2>1, <3>2
  <2>5. s \notin ToSet(p)
    <3>1. \A i \in 1..k : i \in 1..N /\ i # k + 1
      BY <1>1
    <3>2. \A i \in 1..k : list[i] # s
      BY <1>2, <2>1, <3>1
    <3> HIDE DEF p, s
    <3>3. QED
      BY <2>4, <3>2 DEF ToSet
  <2> HIDE DEF st, p, s
  <2>6. FindSplit(st.list, s) = 0
    <3>1. st.list \in Seq(Servers)
      BY <2>2 DEF SplitStates
    <3>2. QED
      BY <2>2, <2>5, <3>1, SplitFound
  <2>7. at[k + 1].list = Append(p, s)
    BY <2>2, <2>3, <2>6 DEF AddSplit, none
  <2>8. QED
    BY <2>1, <2>4, <2>7
<1>9. N \in G
  <2>1. \A k \in 0..N : k \in G
    <3> HIDE DEF G
    <3>1. QED
      BY <1>1, <1>7, <1>8, CountedUp
  <2>2. QED
    BY <1>1, <2>1
<1>10. SubSeq(list, 1, N) = list
  OBVIOUS
<1>11. QED
  BY <1>6, <1>9, <1>10 DEF new, none

-----------------------------------------------------------------------------
(* The access list *)

\* What the files may say.
Items == UNION {UNION {ToSet(files[f]) : f \in DOMAIN files} : files \in Disks}

AllNames == Names \cup {d.name : d \in Items}
AllFlags == Flags \cup {d.flags : d \in Items} \cup {NoFlags}

Accesses == [name : AllNames, flags : AllFlags, masks : SUBSET Masks, nonConfig : BOOLEAN]

AccessLists == {l \in Seq(Accesses) : \A i, j \in 1..Len(l) : l[i].name = l[j].name => i = j}

OursIn(list) == {a.name : a \in {b \in ToSet(list) : b.nonConfig}}

LEMMA AccessAt ==
    ASSUME NEW list \in AccessLists, NEW name
    PROVE  LET i == AccessExists(list, name)
           IN  /\ list \in Seq(Accesses) /\ Len(list) \in Nat /\ i \in 0..Len(list)
               /\ i # 0 => list[i].name = name
               /\ i = 0 => \A k \in 1..Len(list) : list[k].name # name
<1> DEFINE I == {k \in 1..Len(list) : list[k].name = name}
           i == AccessExists(list, name)
<1>1. list \in Seq(Accesses) /\ Len(list) \in Nat /\ DOMAIN list = 1..Len(list) /\ I \in SUBSET (1..Len(list))
  BY DEF AccessLists
<1>2. i = IF I # {} THEN Min(I) ELSE 0
  BY DEF AccessExists, SelectInSeq
<1> HIDE DEF i, I
<1>3. i \in 0..Len(list) /\ (i # 0 => i \in I) /\ (i = 0 => I = {})
  BY <1>1, <1>2, FoundIn
<1>4. QED
  BY <1>1, <1>3 DEF i, I

LEMMA OursAre ==
    ASSUME NEW list \in Seq(Accesses), NEW x
    PROVE  x \in OursIn(list) <=> \E k \in 1..Len(list) : list[k].nonConfig /\ list[k].name = x
<1>1. DOMAIN list = 1..Len(list)
  OBVIOUS
<1>2. QED
  BY <1>1 DEF OursIn, ToSet

LEMMA NewAccessKeeps ==
    ASSUME NEW list \in AccessLists, NEW name \in AllNames
    PROVE  LET l == NewAccess(list, name)
           IN  l \in AccessLists /\ OursIn(l) = OursIn(list) /\ AccessExists(l, name) \in 1..Len(l)
<1> DEFINE l == NewAccess(list, name)
           x == [name |-> name, flags |-> NoFlags, masks |-> {}, nonConfig |-> FALSE]
<1>1. CASE AccessExists(list, name) # 0
  <2>1. l = list
    BY <1>1 DEF NewAccess
  <2>2. AccessExists(list, name) \in 1..Len(list)
    BY <1>1, AccessAt
  <2>3. QED
    BY <2>1, <2>2
<1>2. CASE AccessExists(list, name) = 0
  <2>1. list \in Seq(Accesses) /\ Len(list) \in Nat /\ \A k \in 1..Len(list) : list[k].name # name
    BY <1>2, AccessAt
  <2>2. x \in Accesses /\ x.name = name /\ ~x.nonConfig
    BY DEF Accesses, AllFlags
  <2>3. l = Append(list, x)
    BY <1>2 DEF NewAccess
  <2> HIDE DEF x, l
  <2>4. /\ l \in Seq(Accesses) /\ Len(l) = Len(list) + 1 /\ l[Len(list) + 1] = x
        /\ \A k \in 1..Len(list) : l[k] = list[k]
    BY <2>1, <2>2, <2>3
  <2>5. \A k \in 1..Len(l) : k \in 1..Len(list) \/ k = Len(list) + 1
    BY <2>1, <2>4
  <2>6. l \in AccessLists
    <3>1. ASSUME NEW j \in 1..Len(l), NEW k \in 1..Len(l), l[j].name = l[k].name PROVE j = k
      BY <2>1, <2>2, <2>4, <2>5, <3>1 DEF AccessLists
    <3>2. QED
      BY <2>4, <3>1 DEF AccessLists
  <2>7. ASSUME NEW y PROVE y \in OursIn(l) <=> y \in OursIn(list)
    BY <2>1, <2>2, <2>4, <2>5, OursAre
  <2>8. AccessExists(l, name) # 0
    <3>1. Len(list) + 1 \in 1..Len(l) /\ l[Len(list) + 1].name = name
      BY <2>1, <2>2, <2>4
    <3>2. QED
      BY <2>6, <3>1, AccessAt
  <2>9. AccessExists(l, name) \in 1..Len(l)
    BY <2>6, <2>8, AccessAt
  <2>10. QED
    BY <2>6, <2>7, <2>9 DEF l
<1>3. QED
  BY <1>1, <1>2

\* An entry of one name is put there or extended; no other name becomes ours.
PutGiven(name, flags, mask) == name \in AllNames /\ flags \in AllFlags /\ mask \in Masks

PutRight(list, name, flags, mask, ours) ==
    LET new == Put(list, name, flags, mask, ours)
    IN  new \in AccessLists /\ OursIn(new) = OursIn(list) \cup (IF ours THEN {name} ELSE {})

LEMMA PutKeeps ==
    ASSUME NEW list \in AccessLists, NEW name, NEW flags, NEW mask, NEW ours \in BOOLEAN, PutGiven(name, flags, mask)
    PROVE  PutRight(list, name, flags, mask, ours)
<1> DEFINE l == NewAccess(list, name)
           i == AccessExists(l, name)
           e == [l[i] EXCEPT !.flags = flags, !.masks = @ \cup {mask}, !.nonConfig = @ \/ ours]
           new == Put(list, name, flags, mask, ours)
<1>0. name \in AllNames /\ flags \in AllFlags /\ mask \in Masks
  BY DEF PutGiven
<1>1. l \in AccessLists /\ OursIn(l) = OursIn(list) /\ i \in 1..Len(l)
  BY <1>0, NewAccessKeeps
<1>2. new = [l EXCEPT ![i] = e]
  BY DEF Put
<1> HIDE DEF l, new, i
<1>3. l \in Seq(Accesses) /\ Len(l) \in Nat /\ l[i].name = name /\ l[i] \in Accesses
  <2>1. i # 0 /\ l \in Seq(Accesses) /\ Len(l) \in Nat
    BY <1>1, AccessAt
  <2>2. QED
    BY <1>1, <2>1, AccessAt DEF i
<1>4. /\ e \in Accesses /\ e.name = name
      /\ e.nonConfig = (l[i].nonConfig \/ ours)
  BY <1>0, <1>3 DEF Accesses
<1> HIDE DEF e
<1> DEFINE m == [l EXCEPT ![i] = e]
<1>5. /\ m \in Seq(Accesses) /\ Len(m) = Len(l) /\ m[i] = e
      /\ \A k \in 1..Len(l) : k # i => m[k] = l[k]
  BY <1>1, <1>3, <1>4, ReplacedAt
<1>6. new = m
  BY <1>2
<1> HIDE DEF m
<1>7. \A k \in 1..Len(l) : m[k].name = l[k].name
  BY <1>3, <1>4, <1>5
<1>8. m \in AccessLists
  BY <1>1, <1>5, <1>7 DEF AccessLists
<1>9. ASSUME NEW x PROVE x \in OursIn(m) <=> x \in OursIn(l) \/ (ours /\ x = name)
  <2>1. ASSUME x \in OursIn(m) PROVE x \in OursIn(l) \/ (ours /\ x = name)
    <3>1. PICK k \in 1..Len(l) : m[k].nonConfig /\ m[k].name = x
      BY <1>5, <2>1, OursAre
    <3>2. CASE k = i
      BY <1>1, <1>3, <1>4, <1>5, <3>1, <3>2, OursAre
    <3>3. CASE k # i
      BY <1>3, <1>5, <3>1, <3>3, OursAre
    <3>4. QED
      BY <3>2, <3>3
  <2>2. ASSUME x \in OursIn(l) PROVE x \in OursIn(m)
    <3>1. PICK k \in 1..Len(l) : l[k].nonConfig /\ l[k].name = x
      BY <1>3, <2>2, OursAre
    <3>2. m[k].nonConfig /\ m[k].name = x
      BY <1>4, <1>5, <1>7, <3>1
    <3>3. QED
      BY <1>5, <3>2, OursAre
  <2>3. ASSUME ours, x = name PROVE x \in OursIn(m)
    <3>1. m[i].nonConfig /\ m[i].name = x
      BY <1>4, <1>5, <2>3
    <3>2. QED
      BY <1>1, <1>5, <3>1, OursAre
  <2>4. QED
    BY <2>1, <2>2, <2>3
<1>10. QED
  BY <1>1, <1>6, <1>8, <1>9 DEF new, PutRight

\* Some of the entries, in their order.
LEMMA ListPicked ==
    ASSUME NEW list \in AccessLists, NEW I \in SUBSET (1..Len(list))
    PROVE  /\ Picked(list, I) \in AccessLists
           /\ \A x : x \in OursIn(Picked(list, I)) <=> \E i \in I : list[i].nonConfig /\ list[i].name = x
<1> DEFINE n == Cardinality(I)
           p == Picked(list, I)
<1>1. list \in Seq(Accesses) /\ Len(list) \in Nat
  BY DEF AccessLists
<1>2. /\ p \in Seq(Accesses) /\ Len(p) = n /\ n \in Nat
      /\ \E at \in [1..n -> I] : /\ \A j, k \in 1..n : j < k => at[j] < at[k]
                                 /\ \A i \in I : \E k \in 1..n : at[k] = i
                                 /\ \A k \in 1..n : p[k] = list[at[k]]
  BY <1>1, PickedKeeps
<1> HIDE DEF p
<1>3. PICK at \in [1..n -> I] : /\ \A j, k \in 1..n : j < k => at[j] < at[k]
                                /\ \A i \in I : \E k \in 1..n : at[k] = i
                                /\ \A k \in 1..n : p[k] = list[at[k]]
  BY <1>2
<1> HIDE DEF n
<1>a. \A k \in 1..n : at[k] \in I /\ at[k] \in 1..Len(list) /\ at[k] \in Nat
  <2>1. ASSUME NEW k \in 1..n PROVE at[k] \in I
    BY <1>3
  <2>2. \A i \in I : i \in 1..Len(list) /\ i \in Nat
    BY <1>1
  <2>3. QED
    BY <2>1, <2>2
<1>4. ASSUME NEW j \in 1..n, NEW k \in 1..n, p[j].name = p[k].name PROVE j = k
  <2>0. list[at[j]].name = list[at[k]].name
    BY <1>3, <1>4
  <2>1. at[j] = at[k]
    BY <1>a, <2>0 DEF AccessLists
  <2>2. ~(at[j] < at[k]) /\ ~(at[k] < at[j])
    BY <1>a, <2>1
  <2>3. ~(j < k) /\ ~(k < j)
    BY <1>3, <2>2
  <2>4. QED
    BY <1>2, <2>3
<1>5. p \in AccessLists
  BY <1>2, <1>4 DEF AccessLists
<1>6. ASSUME NEW x PROVE x \in OursIn(p) <=> \E i \in I : list[i].nonConfig /\ list[i].name = x
  <2>1. x \in OursIn(p) <=> \E k \in 1..n : p[k].nonConfig /\ p[k].name = x
    BY <1>2, OursAre
  <2>2. ASSUME NEW i \in I, list[i].nonConfig, list[i].name = x
        PROVE  \E k \in 1..n : p[k].nonConfig /\ p[k].name = x
    <3>1. PICK k \in 1..n : at[k] = i
      BY <1>3
    <3>2. p[k] = list[i]
      BY <1>3, <3>1
    <3>3. QED
      BY <2>2, <3>2
  <2>3. ASSUME NEW k \in 1..n, p[k].nonConfig, p[k].name = x
        PROVE  \E i \in I : list[i].nonConfig /\ list[i].name = x
    <3>1. at[k] \in I /\ p[k] = list[at[k]]
      BY <1>3, <1>a
    <3>2. QED
      BY <2>3, <3>1
  <2>4. QED
    BY <2>1, <2>2, <2>3
<1>7. QED
  BY <1>5, <1>6 DEF p

\* What the files say of accesses.
AccessItems == {d \in Items : d.kind = "access"}

LEMMA ItemIs ==
    ASSUME NEW d \in AccessItems
    PROVE  d.name \in AllNames /\ d.flags \in AllFlags /\ d.mask \in Masks
<1>1. d \in Items /\ d.kind = "access"
  BY DEF AccessItems
<1>2. PICK files \in Disks : d \in UNION {ToSet(files[f]) : f \in DOMAIN files}
  BY <1>1 DEF Items
<1>3. PICK f \in DOMAIN files : d \in ToSet(files[f])
  BY <1>2
<1>4. d.mask \in Masks
  BY <1>1, <1>3, DisksAssumption
<1>5. QED
  BY <1>1, <1>4 DEF AllNames, AllFlags

LEMMA BaseIs ==
    ASSUME NEW tree \in Seq(Items)
    PROVE  Base(tree, "access") \in Seq(AccessItems)
<1> DEFINE I == {i \in DOMAIN tree : tree[i].kind = "access"}
           p == Picked(tree, I)
<1>1. I \in SUBSET (1..Len(tree)) /\ \A i \in I : tree[i] \in AccessItems
  BY DEF AccessItems
<1>2. Base(tree, "access") = p
  BY DEF Base
<1> HIDE DEF I
<1>3. p \in Seq(Items) /\ \A x : x \in ToSet(p) <=> \E i \in I : x = tree[i]
  BY <1>1, PickedKeeps, PickedElements
<1> HIDE DEF p
<1>4. DOMAIN p = 1..Len(p) /\ Len(p) \in Nat /\ \A k \in 1..Len(p) : p[k] \in ToSet(p)
  BY <1>3 DEF ToSet
<1>5. \A k \in 1..Len(p) : p[k] \in AccessItems
  BY <1>1, <1>3, <1>4
<1>6. p \in Seq(AccessItems)
  BY <1>3, <1>4, <1>5
<1>7. QED
  BY <1>2, <1>6

\* The configuration makes no entry the database's own.
LEMMA ListBuilt ==
    ASSUME NEW ours, NEW list \in AccessLists, OursIn(list) = ours, NEW tree \in Seq(Items)
    PROVE  BuildAccessList(list, tree) \in {x \in AccessLists : OursIn(x) = ours}
<1> DEFINE A == {x \in AccessLists : OursIn(x) = ours}
           l == Base(tree, "access")
           N == Len(l)
           base == list
           Op(x, k) == Put(x, l[k].name, l[k].flags, l[k].mask, FALSE)
           F == [y \in (1..N) \X A |-> Op(y[2], y[1])]
           Is(h) == h = [s \in SUBSET (1..N) |-> IF s = {} THEN base ELSE Op(h[s \ {Max(s)}], Max(s))]
           f == CHOOSE h : Is(h)
<1>0. l \in Seq(AccessItems)
  BY BaseIs
<1>1. N \in Nat /\ DOMAIN l = 1..N /\ base \in A
  BY <1>0
<1>2. ASSUME NEW x \in A, NEW k \in 1..N PROVE Op(x, k) \in A
  <2>1. l[k] \in AccessItems
    BY <1>0
  <2>2. l[k].name \in AllNames /\ l[k].flags \in AllFlags /\ l[k].mask \in Masks
    BY <2>1, ItemIs
  <2> HIDE DEF l
  <2>3. x \in AccessLists /\ FALSE \in BOOLEAN
    OBVIOUS
  <2>4. PutGiven(l[k].name, l[k].flags, l[k].mask)
    BY <2>2 DEF PutGiven
  <2>5. PutRight(x, l[k].name, l[k].flags, l[k].mask, FALSE)
    BY <2>3, <2>4, PutKeeps
  <2>6. QED
    BY <2>5 DEF PutRight
<1>3. BuildAccessList(list, tree) = f[1..N]
  BY <1>1 DEF BuildAccessList, FoldLeft, MapThenFoldSet
<1> HIDE DEF A, l, N, Op, base
<1>4. F \in [(1..N) \X A -> A] /\ \A k \in 1..N, x \in A : F[<<k, x>>] = Op(x, k)
  BY <1>2
<1> HIDE DEF F
<1>5. PICK g : Folds(g, A, base, N, F)
  BY <1>1, <1>4, FoldExists
<1>6. Is(g)
  <2>0. Steps(g, A, base, N, F)
    BY <1>1, <1>5, FoldSteps
  <2>1. g = [s \in SUBSET (1..N) |-> g[s]]
    BY <2>0 DEF Steps
  <2>2. ASSUME NEW s \in SUBSET (1..N)
        PROVE  g[s] = IF s = {} THEN base ELSE Op(g[s \ {Max(s)}], Max(s))
    BY <1>4, <2>0 DEF Steps
  <2>3. [s \in SUBSET (1..N) |-> g[s]] = [s \in SUBSET (1..N) |-> IF s = {} THEN base ELSE Op(g[s \ {Max(s)}], Max(s))]
    BY <2>2, Zenon
  <2>4. QED
    BY <2>1, <2>3
<1>7. f = [s \in SUBSET (1..N) |-> IF s = {} THEN base ELSE Op(f[s \ {Max(s)}], Max(s))]
  <2> HIDE DEF Is
  <2>1. Is(f)
    BY <1>6
  <2> HIDE DEF f
  <2>2. QED
    BY <2>1 DEF Is
<1> HIDE DEF f
<1>8. GoesAs(f, A, base, N, F)
  <2>1. \A s \in SUBSET (1..N) : s # {} => Max(s) \in 1..N
    BY <1>1, <1>5, FoldSteps DEF Steps
  <2>2. QED
    BY <1>4, <1>7, <2>1 DEF GoesAs
<1>9. f[1..N] \in A
  BY <1>1, <1>4, <1>8, GoesStages
<1>10. QED
  BY <1>3, <1>9 DEF A

\* load_access puts one row after the other.
LEMMA ListLoadedStaged ==
    ASSUME NEW list \in AccessLists, NEW rows \in Seq(RowsOf("AC"))
    PROVE  \E at : /\ at \in [0..Len(rows) -> AccessLists] /\ at[0] = list
                   /\ at[Len(rows)] = LoadAccess(list, rows)
                   /\ \A k \in 0..(Len(rows) - 1) : at[k + 1] = Put(at[k], rows[k + 1].key, rows[k + 1].value[1], rows[k + 1].value[2], TRUE)
<1> DEFINE A == AccessLists
           l == rows
           N == Len(l)
           base == list
           Op(x, k) == Put(x, l[k].key, l[k].value[1], l[k].value[2], TRUE)
           F == [y \in (1..N) \X A |-> Op(y[2], y[1])]
           Is(h) == h = [s \in SUBSET (1..N) |-> IF s = {} THEN base ELSE Op(h[s \ {Max(s)}], Max(s))]
           f == CHOOSE h : Is(h)
<1>1. N \in Nat /\ DOMAIN l = 1..N /\ base \in A
  OBVIOUS
<1>2. ASSUME NEW x \in A, NEW k \in 1..N PROVE Op(x, k) \in A
  <2>1. l[k] \in RowsOf("AC")
    OBVIOUS
  <2>2. l[k].key \in Names /\ l[k].value \in Flags \X Masks
    BY <2>1 DEF RowsOf
  <2>3. l[k].key \in AllNames /\ l[k].value[1] \in AllFlags /\ l[k].value[2] \in Masks
    BY <2>2 DEF AllNames, AllFlags
  <2> HIDE DEF l
  <2>4. PutGiven(l[k].key, l[k].value[1], l[k].value[2])
    BY <2>3 DEF PutGiven
  <2>5. PutRight(x, l[k].key, l[k].value[1], l[k].value[2], TRUE)
    BY <2>4, PutKeeps
  <2>6. QED
    BY <2>5 DEF PutRight
<1>3. LoadAccess(list, rows) = f[1..N]
  BY <1>1 DEF LoadAccess, FoldLeft, MapThenFoldSet
<1> HIDE DEF A, l, N, Op, base
<1>4. F \in [(1..N) \X A -> A] /\ \A k \in 1..N, x \in A : F[<<k, x>>] = Op(x, k)
  BY <1>2
<1> HIDE DEF F
<1>5. PICK g : Folds(g, A, base, N, F)
  BY <1>1, <1>4, FoldExists
<1>6. Is(g)
  <2>0. Steps(g, A, base, N, F)
    BY <1>1, <1>5, FoldSteps
  <2>1. g = [s \in SUBSET (1..N) |-> g[s]]
    BY <2>0 DEF Steps
  <2>2. ASSUME NEW s \in SUBSET (1..N)
        PROVE  g[s] = IF s = {} THEN base ELSE Op(g[s \ {Max(s)}], Max(s))
    BY <1>4, <2>0 DEF Steps
  <2>3. [s \in SUBSET (1..N) |-> g[s]] = [s \in SUBSET (1..N) |-> IF s = {} THEN base ELSE Op(g[s \ {Max(s)}], Max(s))]
    BY <2>2, Zenon
  <2>4. QED
    BY <2>1, <2>3
<1>7. f = [s \in SUBSET (1..N) |-> IF s = {} THEN base ELSE Op(f[s \ {Max(s)}], Max(s))]
  <2> HIDE DEF Is
  <2>1. Is(f)
    BY <1>6
  <2> HIDE DEF f
  <2>2. QED
    BY <2>1 DEF Is
<1> HIDE DEF f
<1>8. GoesAs(f, A, base, N, F)
  <2>1. \A s \in SUBSET (1..N) : s # {} => Max(s) \in 1..N
    BY <1>1, <1>5, FoldSteps DEF Steps
  <2>2. QED
    BY <1>4, <1>7, <2>1 DEF GoesAs
<1>9. \E at : Staged(at, A, base, N, F, f[1..N])
  BY <1>1, <1>4, <1>8, GoesStages
<1>10. PICK at : Staged(at, A, base, N, F, f[1..N])
  BY <1>9
<1>11. at \in [0..N -> A] /\ at[0] = base /\ at[N] = f[1..N]
  BY <1>10 DEF Staged
<1>12. ASSUME NEW k \in 0..(N - 1) PROVE at[k + 1] = Op(at[k], k + 1)
  <2>1. at[k + 1] = F[<<k + 1, at[k]>>] /\ at[k] \in A /\ k + 1 \in 1..N
    BY <1>1, <1>10 DEF Staged
  <2>2. QED
    BY <1>4, <2>1
<1>13. \A k \in 0..(N - 1) : at[k + 1] = Put(at[k], l[k + 1].key, l[k + 1].value[1], l[k + 1].value[2], TRUE)
  BY <1>12 DEF Op
<1>14. QED
  BY <1>3, <1>11, <1>13 DEF A, N, base, l

\* The rows of the table make an entry each.
LEMMA ListLoaded ==
    ASSUME NEW list \in AccessLists, NEW rows \in Seq(RowsOf("AC"))
    PROVE  LoadAccess(list, rows) \in AccessLists /\ OursIn(LoadAccess(list, rows)) = OursIn(list) \cup Keys(rows)
<1> DEFINE N == Len(rows)
           new == LoadAccess(list, rows)
<1>1. N \in Nat /\ DOMAIN rows = 1..N
  OBVIOUS
<1>2. \E at : /\ at \in [0..Len(rows) -> AccessLists] /\ at[0] = list
              /\ at[Len(rows)] = LoadAccess(list, rows)
              /\ \A k \in 0..(Len(rows) - 1) :
                    at[k + 1] = Put(at[k], rows[k + 1].key, rows[k + 1].value[1], rows[k + 1].value[2], TRUE)
  BY ListLoadedStaged, Zenon
<1>3. PICK at : /\ at \in [0..N -> AccessLists] /\ at[0] = list /\ at[N] = new
                /\ \A k \in 0..(N - 1) : at[k + 1] = Put(at[k], rows[k + 1].key, rows[k + 1].value[1], rows[k + 1].value[2], TRUE)
  BY <1>2, Zenon
<1> HIDE DEF new, N
<1>4. ASSUME NEW k \in 0..(N - 1) PROVE OursIn(at[k + 1]) = OursIn(at[k]) \cup {rows[k + 1].key}
  <2> DEFINE r == rows[k + 1]
             x == at[k]
  <2>1. k + 1 \in 1..N /\ x \in AccessLists
    BY <1>1, <1>3
  <2>2. r \in RowsOf("AC")
    BY <2>1 DEF N
  <2>3. r.key \in Names /\ r.value \in Flags \X Masks
    BY <2>2 DEF RowsOf
  <2>4. PutGiven(r.key, r.value[1], r.value[2])
    BY <2>3 DEF PutGiven, AllNames, AllFlags
  <2>5. at[k + 1] = Put(x, r.key, r.value[1], r.value[2], TRUE)
    BY <1>3
  <2> HIDE DEF r, x
  <2>6. PutRight(x, r.key, r.value[1], r.value[2], TRUE)
    BY <2>1, <2>4, PutKeeps
  <2>7. QED
    BY <2>5, <2>6 DEF PutRight, r, x
<1> DEFINE G == {k \in 0..N : OursIn(at[k]) = OursIn(list) \cup {rows[j].key : j \in 1..k}}
<1>5. 0 \in G
  <2>1. {rows[j].key : j \in 1..0} = {} /\ 0 \in 0..N
    BY <1>1
  <2>2. QED
    BY <1>3, <2>1
<1>6. ASSUME NEW k \in 0..(N - 1), k \in G PROVE k + 1 \in G
  <2>1. k + 1 \in 0..N /\ k \in Nat
    BY <1>1
  <2>2. OursIn(at[k + 1]) = OursIn(list) \cup {rows[j].key : j \in 1..k} \cup {rows[k + 1].key}
    BY <1>4, <1>6
  <2>3. \A j : j \in 1..(k + 1) <=> j \in 1..k \/ j = k + 1
    BY <2>1
  <2>4. {rows[j].key : j \in 1..(k + 1)} = {rows[j].key : j \in 1..k} \cup {rows[k + 1].key}
    BY <2>3
  <2>5. QED
    BY <2>1, <2>2, <2>4
<1>7. N \in G
  <2>1. \A k \in 0..N : k \in G
    <3> HIDE DEF G
    <3>1. QED
      BY <1>1, <1>5, <1>6, CountedUp
  <2>2. QED
    BY <1>1, <2>1
<1>8. {rows[j].key : j \in 1..N} = Keys(rows)
  BY <1>1 DEF Keys, ToSet
<1>9. new \in AccessLists
  BY <1>1, <1>3
<1>10. QED
  BY <1>3, <1>7, <1>8, <1>9 DEF new

-----------------------------------------------------------------------------
(* An entry of the access list that a row has made *)

Given(list, key, value) ==
    \E i \in 1..Len(list) : /\ list[i].name = key /\ list[i].nonConfig
                            /\ list[i].flags = value[1] /\ value[2] \in list[i].masks

LEMMA NewAccessGiven ==
    ASSUME NEW list \in AccessLists, NEW name, NEW key, NEW value, Given(list, key, value)
    PROVE  Given(NewAccess(list, name), key, value)
<1> DEFINE x == [name |-> name, flags |-> NoFlags, masks |-> {}, nonConfig |-> FALSE]
           l == Append(list, x)
<1>1. NewAccess(list, name) = list \/ NewAccess(list, name) = l
  BY DEF NewAccess
<1> HIDE DEF x
<1>2. list \in Seq(Accesses) /\ Len(list) \in Nat
  BY DEF AccessLists
<1>3. Len(l) = Len(list) + 1 /\ \A k \in 1..Len(list) : l[k] = list[k] /\ k \in 1..Len(l)
  BY <1>2
<1> HIDE DEF l
<1>4. Given(l, key, value)
  BY <1>3 DEF Given
<1>5. QED
  BY <1>1, <1>4

\* Put gives the entry what it is told, and takes nothing from the others.
LEMMA PutGives ==
    ASSUME NEW list \in AccessLists, NEW name, NEW value, PutGiven(name, value[1], value[2])
    PROVE  /\ Given(Put(list, name, value[1], value[2], TRUE), name, value)
           /\ \A k, v : k # name /\ Given(list, k, v) => Given(Put(list, name, value[1], value[2], TRUE), k, v)
<1> DEFINE l == NewAccess(list, name)
           i == AccessExists(l, name)
           flags == value[1]
           mask == value[2]
           e == [l[i] EXCEPT !.flags = flags, !.masks = @ \cup {mask}, !.nonConfig = @ \/ TRUE]
           new == Put(list, name, flags, mask, TRUE)
<1>0. name \in AllNames /\ flags \in AllFlags /\ mask \in Masks
  BY DEF PutGiven
<1>1. l \in AccessLists /\ i \in 1..Len(l)
  BY <1>0, NewAccessKeeps
<1>2. new = [l EXCEPT ![i] = e]
  BY DEF Put
<1> HIDE DEF l, new, i, flags, mask
<1>3. l \in Seq(Accesses) /\ Len(l) \in Nat /\ l[i].name = name /\ l[i] \in Accesses
  <2>1. i # 0 /\ l \in Seq(Accesses) /\ Len(l) \in Nat
    BY <1>1, AccessAt
  <2>2. QED
    BY <1>1, <2>1, AccessAt DEF i
<1>4. e \in Accesses /\ e.name = name /\ e.nonConfig /\ e.flags = flags /\ mask \in e.masks
  BY <1>0, <1>3 DEF Accesses
<1> HIDE DEF e
<1> DEFINE m == [l EXCEPT ![i] = e]
<1>5. /\ m \in Seq(Accesses) /\ Len(m) = Len(l) /\ m[i] = e
      /\ \A k \in 1..Len(l) : k # i => m[k] = l[k]
  BY <1>1, <1>3, <1>4, ReplacedAt
<1> HIDE DEF m
<1>6. new = m
  BY <1>2 DEF m
<1>7. Given(m, name, value)
  <2>1. m[i].name = name /\ m[i].nonConfig /\ m[i].flags = value[1] /\ value[2] \in m[i].masks /\ i \in 1..Len(m)
    BY <1>1, <1>4, <1>5 DEF flags, mask
  <2>2. QED
    BY <2>1 DEF Given
<1>8. ASSUME NEW k, NEW v, k # name, Given(list, k, v) PROVE Given(m, k, v)
  <2>1. Given(l, k, v)
    BY <1>8, NewAccessGiven DEF l
  <2>2. PICK j \in 1..Len(l) : l[j].name = k /\ l[j].nonConfig /\ l[j].flags = v[1] /\ v[2] \in l[j].masks
    BY <2>1 DEF Given
  <2>3. j # i
    BY <1>3, <1>8, <2>2
  <2>4. m[j] = l[j] /\ j \in 1..Len(m)
    BY <1>5, <2>3
  <2>5. QED
    BY <2>2, <2>4 DEF Given
<1>9. QED
  BY <1>6, <1>7, <1>8 DEF new, flags, mask

\* Every row is on the list as it was written.
LEMMA RowsGiven ==
    ASSUME NEW list \in AccessLists, NEW rows \in Seq(RowsOf("AC")), Keyed(rows), NEW j \in 1..Len(rows)
    PROVE  Given(LoadAccess(list, rows), rows[j].key, rows[j].value)
<1> DEFINE N == Len(rows)
           new == LoadAccess(list, rows)
<1>1. N \in Nat /\ DOMAIN rows = 1..N
  OBVIOUS
<1>a. \E at : /\ at \in [0..Len(rows) -> AccessLists] /\ at[0] = list
              /\ at[Len(rows)] = LoadAccess(list, rows)
              /\ \A k \in 0..(Len(rows) - 1) :
                    at[k + 1] = Put(at[k], rows[k + 1].key, rows[k + 1].value[1], rows[k + 1].value[2], TRUE)
  BY ListLoadedStaged, Zenon
<1>2. PICK at : /\ at \in [0..N -> AccessLists] /\ at[0] = list /\ at[N] = new
                /\ \A k \in 0..(N - 1) : at[k + 1] = Put(at[k], rows[k + 1].key, rows[k + 1].value[1], rows[k + 1].value[2], TRUE)
  BY <1>a, Zenon
<1> HIDE DEF new, N
<1> DEFINE G == {k \in 0..N : j <= k => Given(at[k], rows[j].key, rows[j].value)}
<1>3. 0 \in G
  BY <1>1 DEF N
<1>4. ASSUME NEW k \in 0..(N - 1), k \in G PROVE k + 1 \in G
  <2> DEFINE r == rows[k + 1]
             l == at[k]
  <2>1. k + 1 \in 1..N /\ k + 1 \in 0..N /\ l \in AccessLists /\ j \in 1..N
    BY <1>1, <1>2 DEF N
  <2>2. r \in RowsOf("AC")
    BY <2>1 DEF N
  <2>3. r.key \in Names /\ r.value \in Flags \X Masks
    BY <2>2 DEF RowsOf
  <2>4. PutGiven(r.key, r.value[1], r.value[2])
    BY <2>3 DEF PutGiven, AllNames, AllFlags
  <2>5. at[k + 1] = Put(l, r.key, r.value[1], r.value[2], TRUE)
    BY <1>2
  <2>6. /\ Given(at[k + 1], r.key, r.value)
        /\ \A x, v : x # r.key /\ Given(l, x, v) => Given(at[k + 1], x, v)
    <3> HIDE DEF r, l
    <3>1. QED
      BY <2>1, <2>4, <2>5, PutGives
  <2>7. CASE j = k + 1
    BY <2>1, <2>6, <2>7
  <2>8. CASE j <= k
    <3>1. Given(l, rows[j].key, rows[j].value)
      BY <1>4, <2>8
    <3>2. j # k + 1
      BY <1>1, <2>8
    <3>3. rows[j].key # r.key
      BY <1>1, <2>1, <3>2 DEF Keyed
    <3>4. Given(at[k + 1], rows[j].key, rows[j].value)
      <4> HIDE DEF r, l
      <4>1. QED
        BY <2>6, <3>1, <3>3
    <3>5. QED
      BY <2>1, <3>4
  <2>9. CASE j > k + 1
    <3>1. ~(j <= k + 1)
      BY <1>1, <2>1, <2>9
    <3>2. QED
      BY <2>1, <3>1
  <2>10. QED
    BY <1>1, <2>1, <2>7, <2>8, <2>9
<1>5. N \in G
  <2>1. \A k \in 0..N : k \in G
    <3> HIDE DEF G
    <3>1. QED
      BY <1>1, <1>3, <1>4, CountedUp
  <2>2. QED
    BY <1>1, <2>1
<1>6. j <= N
  BY <1>1 DEF N
<1>7. QED
  BY <1>2, <1>5, <1>6 DEF new

-----------------------------------------------------------------------------
(* The configuration *)

ItemsOf(files) == UNION {ToSet(files[f]) : f \in DOMAIN files}

Confs(files) ==
    [tree : Seq(ItemsOf(files)), cnt : Nat, over : BOOLEAN,
     stack : [1..MaxInclude -> DOMAIN files \cup {NoFile}]]

\* What may be there once n files have been entered.
After(files, n) == {c \in Confs(files) : c.cnt \in n..(MaxInclude + 1)}

\* One item of a file, with h for what an include leads to.
Follow(h, d, item) == IF item.kind = "include" THEN h[<<d, item.file>>] ELSE [d EXCEPT !.tree = Append(d.tree, item)]

\* All of them.
ReadOn(files, h, c, f) ==
    FoldLeft(LAMBDA d, item : Follow(h, d, item), Entered(c, f), files[f])

Reads(files, h, c, f) ==
    IF c.cnt > MaxInclude \/ f \in Scanned(c) \/ files[f] = <<>> THEN c ELSE ReadOn(files, h, c, f)

\* Includes do not take back what has been counted.
Below(files, h, n) == \A d \in After(files, n + 1), f \in DOMAIN files : h[<<d, f>>] \in After(files, d.cnt)

Follows(files, h, n, f) ==
    [y \in (1..Len(files[f])) \X After(files, n + 1) |-> Follow(h, y[2], files[f][y[1]])]

LEMMA FileItems ==
    ASSUME NEW files \in Disks, NEW f \in DOMAIN files
    PROVE  /\ files[f] \in Seq(ItemsOf(files))
           /\ \A k \in 1..Len(files[f]) : files[f][k].kind = "include" => files[f][k].file \in DOMAIN files
<1>1. /\ files[f] \in Seq(ToSet(files[f]))
      /\ \A d \in ToSet(files[f]) : d.kind = "include" => d.file \in DOMAIN files
  BY DisksAssumption
<1> DEFINE l == files[f]
<1>2. ToSet(l) \subseteq ItemsOf(files)
  BY DEF ItemsOf
<1> HIDE DEF l
<1>3. l \in Seq(ToSet(l))
  BY <1>1 DEF l
<1>4. DOMAIN l = 1..Len(l) /\ Len(l) \in Nat /\ \A k \in 1..Len(l) : l[k] \in ToSet(l)
  BY <1>3
<1>5. l \in Seq(ItemsOf(files))
  BY <1>2, <1>3, <1>4
<1>6. QED
  BY <1>1, <1>4, <1>5 DEF l

LEMMA EnteredAfter ==
    ASSUME NEW files, NEW c \in Confs(files), c.cnt <= MaxInclude, NEW f \in DOMAIN files
    PROVE  Entered(c, f) \in After(files, c.cnt + 1)
<1> USE DisksAssumption
<1>1. c = [tree |-> c.tree, cnt |-> c.cnt, over |-> c.over, stack |-> c.stack] /\ c.cnt \in Nat
  BY DEF Confs
<1>2. c.stack \in [1..MaxInclude -> DOMAIN files \cup {NoFile}]
  BY DEF Confs
<1> DEFINE s == IF c.cnt < MaxInclude THEN [c.stack EXCEPT ![c.cnt + 1] = f] ELSE c.stack
<1>3. s \in [1..MaxInclude -> DOMAIN files \cup {NoFile}]
  BY <1>1, <1>2
<1>4. Entered(c, f) = [c EXCEPT !.cnt = c.cnt + 1, !.stack = s, !.over = c.over \/ c.cnt = MaxInclude]
  BY DEF Entered
<1> HIDE DEF s
<1>5. Entered(c, f) = [tree |-> c.tree, cnt |-> c.cnt + 1, over |-> (c.over \/ c.cnt = MaxInclude), stack |-> s]
  BY <1>1, <1>4
<1>6. c.tree \in Seq(ItemsOf(files)) /\ c.cnt + 1 \in Nat /\ (c.over \/ c.cnt = MaxInclude) \in BOOLEAN
  BY <1>1 DEF Confs
<1>7. Entered(c, f) \in Confs(files) /\ Entered(c, f).cnt = c.cnt + 1
  BY <1>3, <1>5, <1>6 DEF Confs
<1>8. QED
  BY <1>1, <1>7 DEF After

LEMMA ItemFollowed ==
    ASSUME NEW files \in Disks, NEW h, NEW n \in Nat, Below(files, h, n), NEW f \in DOMAIN files,
           NEW d \in After(files, n + 1), NEW k \in 1..Len(files[f])
    PROVE  Follow(h, d, files[f][k]) \in After(files, n + 1)
<1> DEFINE item == files[f][k]
<1>1. item \in ItemsOf(files) /\ (item.kind = "include" => item.file \in DOMAIN files)
  BY FileItems
<1>0. d \in Confs(files) /\ d.cnt \in (n + 1)..(MaxInclude + 1) /\ MaxInclude \in Nat
  BY DisksAssumption DEF After
<1> HIDE DEF item
<1>2. CASE item.kind = "include"
  <2>1. h[<<d, item.file>>] \in After(files, d.cnt)
    BY <1>1, <1>2 DEF Below
  <2>2. After(files, d.cnt) \subseteq After(files, n + 1)
    BY <1>0 DEF After
  <2>3. QED
    BY <1>2, <2>1, <2>2 DEF Follow, item
<1>3. CASE item.kind # "include"
  <2> DEFINE e == [d EXCEPT !.tree = Append(d.tree, item)]
  <2>1. Append(d.tree, item) \in Seq(ItemsOf(files))
    BY <1>0, <1>1 DEF Confs
  <2>2. e \in Confs(files) /\ e.cnt = d.cnt
    BY <1>0, <2>1 DEF Confs
  <2>3. Follow(h, d, item) = e
    BY <1>3 DEF Follow
  <2> HIDE DEF e
  <2>4. QED
    BY <1>0, <2>2, <2>3 DEF After, item
<1>4. QED
  BY <1>2, <1>3

\* How a file is read, item by item.
LEMMA ReadStaged ==
    ASSUME NEW files \in Disks, NEW load, NEW n \in Nat, Below(files, load, n), NEW p \in DOMAIN files,
           NEW c \in Confs(files), c.cnt = n, n <= MaxInclude
    PROVE  \E at : Staged(at, After(files, n + 1), Entered(c, p), Len(files[p]),
                          Follows(files, load, n, p), ReadOn(files, load, c, p))
<1> DEFINE A == After(files, n + 1)
           l == files[p]
           N == Len(l)
           base == Entered(c, p)
           Op(x, k) == Follow(load, x, l[k])
           F == [y \in (1..N) \X A |-> Op(y[2], y[1])]
           Is(h) == h = [s \in SUBSET (1..N) |-> IF s = {} THEN base ELSE Op(h[s \ {Max(s)}], Max(s))]
           f == CHOOSE h : Is(h)
<1>1. N \in Nat /\ DOMAIN l = 1..N /\ base \in A
  <2>1. l \in Seq(ItemsOf(files))
    BY FileItems
  <2>2. base \in A
    BY EnteredAfter
  <2>3. QED
    BY <2>1, <2>2
<1>2. ASSUME NEW x \in A, NEW k \in 1..N PROVE Op(x, k) \in A
  BY ItemFollowed
<1>3. ReadOn(files, load, c, p) = f[1..N]
  BY <1>1 DEF ReadOn, FoldLeft, MapThenFoldSet
<1> HIDE DEF A, l, N, Op, base
<1>4. F \in [(1..N) \X A -> A] /\ \A k \in 1..N, x \in A : F[<<k, x>>] = Op(x, k)
  BY <1>2
<1> HIDE DEF F
<1>5. PICK g : Folds(g, A, base, N, F)
  BY <1>1, <1>4, FoldExists
<1>6. Is(g)
  <2>0. Steps(g, A, base, N, F)
    BY <1>1, <1>5, FoldSteps
  <2>1. g = [s \in SUBSET (1..N) |-> g[s]]
    BY <2>0 DEF Steps
  <2>2. ASSUME NEW s \in SUBSET (1..N)
        PROVE  g[s] = IF s = {} THEN base ELSE Op(g[s \ {Max(s)}], Max(s))
    BY <1>4, <2>0 DEF Steps
  <2>3. [s \in SUBSET (1..N) |-> g[s]] = [s \in SUBSET (1..N) |-> IF s = {} THEN base ELSE Op(g[s \ {Max(s)}], Max(s))]
    BY <2>2, Zenon
  <2>4. QED
    BY <2>1, <2>3
<1>7. f = [s \in SUBSET (1..N) |-> IF s = {} THEN base ELSE Op(f[s \ {Max(s)}], Max(s))]
  <2> HIDE DEF Is
  <2>1. Is(f)
    BY <1>6
  <2> HIDE DEF f
  <2>2. QED
    BY <2>1 DEF Is
<1> HIDE DEF f
<1>8. GoesAs(f, A, base, N, F)
  <2>1. \A s \in SUBSET (1..N) : s # {} => Max(s) \in 1..N
    BY <1>1, <1>5, FoldSteps DEF Steps
  <2>2. QED
    BY <1>4, <1>7, <2>1 DEF GoesAs
<1>9. f[1..N] \in A /\ \E at : Staged(at, A, base, N, F, f[1..N])
  BY <1>1, <1>4, <1>8, GoesStages
<1>10. F = Follows(files, load, n, p)
  BY Zenon DEF F, Follows, Op, l, N, A
<1>11. QED
  BY <1>3, <1>9, <1>10 DEF A, base, l, N

LEMMA ReadAfter ==
    ASSUME NEW files \in Disks, NEW h, NEW c \in After(files, 0), Below(files, h, c.cnt), NEW f \in DOMAIN files
    PROVE  Reads(files, h, c, f) \in After(files, c.cnt)
<1> DEFINE n == c.cnt
<1>0. c \in Confs(files) /\ n \in Nat /\ n <= MaxInclude + 1 /\ MaxInclude \in Nat /\ c.cnt = n
  BY DisksAssumption DEF After
<1> DEFINE stops == n > MaxInclude \/ f \in Scanned(c) \/ files[f] = <<>>
<1>1. Reads(files, h, c, f) = IF stops THEN c ELSE ReadOn(files, h, c, f)
  BY DEF Reads
<1>2. c \in After(files, n)
  BY <1>0 DEF After
<1>b. Below(files, h, n)
  OBVIOUS
<1>3. ASSUME ~stops PROVE ReadOn(files, h, c, f) \in After(files, n)
  <2>1. n <= MaxInclude
    BY <1>0, <1>3
  <2> HIDE DEF n, stops
  <2>2. PICK at : Staged(at, After(files, n + 1), Entered(c, f), Len(files[f]), Follows(files, h, n, f), ReadOn(files, h, c, f))
    BY <1>0, <1>b, <2>1, ReadStaged
  <2>3. Len(files[f]) \in 0..Len(files[f])
    BY FileItems
  <2>4. ReadOn(files, h, c, f) \in After(files, n + 1)
    BY <2>2, <2>3 DEF Staged
  <2>5. QED
    BY <1>0, <2>4 DEF After
<1>4. QED
  BY <1>1, <1>2, <1>3

LEMMA ReadsAgree ==
    ASSUME NEW files \in Disks, NEW h, NEW g, NEW c \in After(files, 0), Below(files, h, c.cnt), Below(files, g, c.cnt),
           NEW f \in DOMAIN files,
           \A d \in After(files, c.cnt + 1), e \in DOMAIN files : h[<<d, e>>] = g[<<d, e>>]
    PROVE  Reads(files, h, c, f) = Reads(files, g, c, f)
<1> DEFINE n == c.cnt
<1>0. c \in Confs(files) /\ n \in Nat /\ n <= MaxInclude + 1 /\ MaxInclude \in Nat /\ c.cnt = n
  BY DisksAssumption DEF After
<1>b. Below(files, h, n) /\ Below(files, g, n)
  OBVIOUS
<1>a. \A d \in After(files, n + 1), e \in DOMAIN files : h[<<d, e>>] = g[<<d, e>>]
  OBVIOUS
<1> HIDE DEF n
<1>1. CASE n <= MaxInclude
  <2> DEFINE N == Len(files[f])
             A == After(files, n + 1)
             b == Entered(c, f)
             H == Follows(files, h, n, f)
             G == Follows(files, g, n, f)
  <2>1. PICK at : Staged(at, A, b, N, H, ReadOn(files, h, c, f))
    BY <1>0, <1>b, <1>1, ReadStaged
  <2>2. PICK to : Staged(to, A, b, N, G, ReadOn(files, g, c, f))
    BY <1>0, <1>b, <1>1, ReadStaged
  <2>3. H = G
    <3>1. ASSUME NEW y \in (1..N) \X A
          PROVE  Follow(h, y[2], files[f][y[1]]) = Follow(g, y[2], files[f][y[1]])
      <4>1. y[2] \in A /\ y[1] \in 1..N
        OBVIOUS
      <4>2. files[f][y[1]].kind = "include" => files[f][y[1]].file \in DOMAIN files
        BY <4>1, FileItems
      <4>3. QED
        BY <1>a, <4>1, <4>2 DEF Follow
    <3>2. QED
      BY <3>1, Zenon DEF Follows
  <2>4. N \in Nat
    BY FileItems
  <2> HIDE DEF N, A, b, H, G
  <2> DEFINE x == ReadOn(files, h, c, f)
             y == ReadOn(files, g, c, f)
  <2> HIDE DEF x, y
  <2>5. Staged(at, A, b, N, H, x) /\ Staged(to, A, b, N, H, y)
    BY <2>1, <2>2, <2>3 DEF x, y
  <2>6. x = y
    BY <2>4, <2>5, StagesAgree
  <2>7. QED
    BY <2>6 DEF Reads, x, y
<1>2. CASE ~(n <= MaxInclude)
  BY <1>0, <1>2 DEF Reads
<1>3. QED
  BY <1>1, <1>2

\* h reads as config_load does wherever n files or more have been entered.
Loads(files, h, n) ==
    \A c \in After(files, n), f \in DOMAIN files :
        h[<<c, f>>] = Reads(files, h, c, f) /\ h[<<c, f>>] \in After(files, c.cnt)

LEMMA AfterIs ==
    ASSUME NEW files, NEW n \in Nat, NEW c
    PROVE  /\ MaxInclude \in Nat
           /\ c \in After(files, n) <=> /\ c \in Confs(files) /\ c.cnt \in Nat
                                        /\ n <= c.cnt /\ c.cnt <= MaxInclude + 1
BY DisksAssumption DEF After, Confs

LEMMA LoadsBelow ==
    ASSUME NEW files, NEW h, NEW n \in Nat, NEW m \in Nat, n <= m + 1, Loads(files, h, n)
    PROVE  Below(files, h, m)
<1>1. ASSUME NEW d \in After(files, m + 1) PROVE d \in After(files, n)
  <2>1. m + 1 \in Nat
    OBVIOUS
  <2>2. d \in Confs(files) /\ d.cnt \in Nat /\ m + 1 <= d.cnt /\ d.cnt <= MaxInclude + 1
    BY <2>1, AfterIs
  <2>3. n <= d.cnt
    BY <2>2
  <2>4. QED
    BY <2>2, <2>3, AfterIs
<1>2. QED
  BY <1>1 DEF Below, Loads

\* From one count to the one before it.
LEMMA LoadsOneMore ==
    ASSUME NEW files \in Disks, NEW h, NEW n \in Nat, Loads(files, h, n + 1)
    PROVE  \E g : Loads(files, g, n)
<1> DEFINE g == [y \in After(files, n) \X DOMAIN files |->
                   IF y[1].cnt = n THEN Reads(files, h, y[1], y[2]) ELSE h[y]]
<1>1. ASSUME NEW c \in After(files, n), NEW f \in DOMAIN files
      PROVE  g[<<c, f>>] = IF c.cnt = n THEN Reads(files, h, c, f) ELSE h[<<c, f>>]
  OBVIOUS
<1> HIDE DEF g
<1>2. ASSUME NEW c \in After(files, n)
      PROVE  /\ c \in After(files, 0) /\ c.cnt \in Nat /\ n <= c.cnt
             /\ c.cnt # n => c \in After(files, n + 1)
  <2>1. c \in Confs(files) /\ c.cnt \in Nat /\ n <= c.cnt /\ c.cnt <= MaxInclude + 1
    BY AfterIs
  <2>2. c.cnt # n => n + 1 <= c.cnt
    BY <2>1
  <2>3. n + 1 \in Nat /\ 0 \in Nat /\ 0 <= c.cnt
    BY <2>1
  <2>4. QED
    BY <2>1, <2>2, <2>3, AfterIs
<1>3. ASSUME NEW c \in After(files, n), NEW f \in DOMAIN files
      PROVE  g[<<c, f>>] = Reads(files, h, c, f) /\ g[<<c, f>>] \in After(files, c.cnt)
  <2>1. Below(files, h, c.cnt)
    <3>1. n + 1 \in Nat /\ c.cnt \in Nat /\ n + 1 <= c.cnt + 1
      BY <1>2
    <3>2. QED
      BY <3>1, LoadsBelow
  <2>2. Reads(files, h, c, f) \in After(files, c.cnt)
    BY <1>2, <2>1, ReadAfter
  <2>3. CASE c.cnt = n
    BY <1>1, <2>2, <2>3
  <2>4. CASE c.cnt # n
    <3>1. c \in After(files, n + 1)
      BY <1>2, <2>4
    <3>2. h[<<c, f>>] = Reads(files, h, c, f)
      BY <3>1 DEF Loads
    <3>3. g[<<c, f>>] = h[<<c, f>>]
      BY <1>1, <2>4
    <3>4. QED
      BY <2>2, <3>2, <3>3
  <2>5. QED
    BY <2>3, <2>4
<1>4. ASSUME NEW c \in After(files, n), NEW f \in DOMAIN files
      PROVE  Reads(files, g, c, f) = Reads(files, h, c, f)
  <2>0. c \in After(files, 0) /\ c.cnt \in Nat /\ n <= c.cnt
    BY <1>2
  <2>a. ASSUME NEW d \in After(files, c.cnt + 1) PROVE d \in After(files, n) /\ d.cnt # n /\ d \in After(files, n + 1)
    <3>1. c.cnt + 1 \in Nat
      BY <2>0
    <3>2. d \in Confs(files) /\ d.cnt \in Nat /\ c.cnt + 1 <= d.cnt /\ d.cnt <= MaxInclude + 1
      BY <3>1, AfterIs
    <3>3. n <= d.cnt /\ n + 1 <= d.cnt /\ d.cnt # n /\ n + 1 \in Nat
      BY <2>0, <3>2
    <3>4. QED
      BY <3>2, <3>3, AfterIs
  <2>1. \A d \in After(files, c.cnt + 1), e \in DOMAIN files : g[<<d, e>>] = h[<<d, e>>]
    BY <1>1, <2>a
  <2>2. Below(files, h, c.cnt)
    <3>1. n + 1 \in Nat /\ c.cnt \in Nat /\ n + 1 <= c.cnt + 1
      BY <2>0
    <3>2. QED
      BY <3>1, LoadsBelow
  <2>3. Below(files, g, c.cnt)
    BY <2>1, <2>2 DEF Below
  <2>4. QED
    BY <2>0, <2>1, <2>2, <2>3, ReadsAgree
<1>5. QED
  BY <1>3, <1>4 DEF Loads

\* The function that config_load is exists,
LEMMA LoadExists ==
    ASSUME NEW files \in Disks
    PROVE  \E h : h = [x \in Confs(files) \X DOMAIN files |-> Reads(files, h, x[1], x[2])]
<1> DEFINE N == MaxInclude + 1
           G == {k \in 0..N : \E h : Loads(files, h, N - k)}
<1>0. MaxInclude \in Nat /\ N \in Nat
  BY DisksAssumption
<1>1. 0 \in G
  <2> DEFINE h == [y \in After(files, N) \X DOMAIN files |-> y[1]]
  <2>1. ASSUME NEW c \in After(files, N), NEW f \in DOMAIN files
        PROVE  h[<<c, f>>] = Reads(files, h, c, f) /\ h[<<c, f>>] \in After(files, c.cnt)
    <3>1. c \in Confs(files) /\ c.cnt = N /\ N > MaxInclude
      BY <1>0, AfterIs
    <3>2. Reads(files, h, c, f) = c
      BY <3>1 DEF Reads
    <3>3. QED
      BY <3>1, <3>2
  <2> HIDE DEF h
  <2>2. Loads(files, h, N)
    BY <2>1 DEF Loads
  <2>3. N - 0 = N /\ 0 \in 0..N
    BY <1>0
  <2>4. QED
    BY <2>2, <2>3
<1>2. ASSUME NEW k \in 0..(N - 1), k \in G PROVE k + 1 \in G
  <2>1. PICK h : Loads(files, h, N - k)
    BY <1>2
  <2>2. N - (k + 1) \in Nat /\ (N - (k + 1)) + 1 = N - k /\ k + 1 \in 0..N
    BY <1>0
  <2>3. \E g : Loads(files, g, N - (k + 1))
    <3> DEFINE n == N - (k + 1)
    <3>1. n \in Nat /\ Loads(files, h, n + 1)
      BY <2>1, <2>2
    <3> HIDE DEF n
    <3>2. \E g : Loads(files, g, n)
      BY <3>1, LoadsOneMore
    <3>3. QED
      BY <3>2 DEF n
  <2>4. QED
    BY <2>2, <2>3
<1>3. N \in G
  <2> HIDE DEF N, G
  <2>1. \A k \in 0..N : k \in G
    BY <1>0, <1>1, <1>2, CountedUp
  <2>2. QED
    BY <1>0, <2>1
<1>4. PICK h : Loads(files, h, 0)
  BY <1>0, <1>3
<1> DEFINE g == [x \in Confs(files) \X DOMAIN files |-> IF x[1].cnt <= N THEN h[x] ELSE x[1]]
<1>5. ASSUME NEW c \in Confs(files), NEW f \in DOMAIN files
      PROVE  g[<<c, f>>] = Reads(files, g, c, f)
  <2>0. g[<<c, f>>] = (IF c.cnt <= N THEN h[<<c, f>>] ELSE c) /\ c.cnt \in Nat
    BY DEF Confs
  <2>a. \A d \in Confs(files), e \in DOMAIN files : d.cnt <= N => g[<<d, e>>] = h[<<d, e>>]
    OBVIOUS
  <2> HIDE DEF g
  <2>1. CASE c.cnt <= N
    <3>1. c \in After(files, 0)
      BY <2>0, <2>1, AfterIs
    <3>2. h[<<c, f>>] = Reads(files, h, c, f)
      BY <1>4, <3>1 DEF Loads
    <3>3. Below(files, h, c.cnt)
      <4>1. 0 <= c.cnt + 1 /\ 0 \in Nat
        BY <2>0
      <4>2. QED
        BY <1>4, <2>0, <4>1, LoadsBelow
    <3>4. \A d \in After(files, c.cnt + 1), e \in DOMAIN files : g[<<d, e>>] = h[<<d, e>>]
      <4>1. ASSUME NEW d \in After(files, c.cnt + 1) PROVE d \in Confs(files) /\ d.cnt <= N
        BY <2>0, AfterIs, c.cnt + 1 \in Nat
      <4>2. QED
        BY <2>a, <4>1
    <3>5. Below(files, g, c.cnt)
      BY <3>3, <3>4 DEF Below
    <3>6. Reads(files, g, c, f) = Reads(files, h, c, f)
      BY <3>1, <3>3, <3>4, <3>5, ReadsAgree
    <3>7. QED
      BY <2>0, <2>1, <3>2, <3>6
  <2>2. CASE ~(c.cnt <= N)
    <3>1. c.cnt > MaxInclude
      BY <1>0, <2>0, <2>2
    <3>2. QED
      BY <2>0, <2>2, <3>1 DEF Reads
  <2>3. QED
    BY <2>1, <2>2
<1>6. g = [x \in Confs(files) \X DOMAIN files |-> Reads(files, g, x[1], x[2])]
  <2>1. g = [x \in Confs(files) \X DOMAIN files |-> g[x]]
    OBVIOUS
  <2> HIDE DEF g
  <2>2. ASSUME NEW x \in Confs(files) \X DOMAIN files PROVE g[x] = Reads(files, g, x[1], x[2])
    <3>1. x = <<x[1], x[2]>> /\ x[1] \in Confs(files) /\ x[2] \in DOMAIN files
      OBVIOUS
    <3>2. g[<<x[1], x[2]>>] = Reads(files, g, x[1], x[2])
      BY <1>5, <3>1
    <3>3. QED
      BY <3>1, <3>2
  <2>3. [x \in Confs(files) \X DOMAIN files |-> g[x]] = [x \in Confs(files) \X DOMAIN files |-> Reads(files, g, x[1], x[2])]
    BY <2>2, Zenon
  <2>4. QED
    BY <2>1, <2>3
<1> HIDE DEF g
<1>7. QED
  BY <1>6

\* and, being one, takes back nothing that has been counted.
LEMMA LoadCounts ==
    ASSUME NEW files \in Disks, NEW h, h = [x \in Confs(files) \X DOMAIN files |-> Reads(files, h, x[1], x[2])]
    PROVE  Loads(files, h, 0) /\ \A c \in After(files, 0), f \in DOMAIN files : h[<<c, f>>] \in After(files, 0)
<1> DEFINE N == MaxInclude + 1
           G == {k \in 0..N : Loads(files, h, N - k)}
<1>0. MaxInclude \in Nat /\ N \in Nat
  BY DisksAssumption
<1>a. ASSUME NEW c \in Confs(files), NEW f \in DOMAIN files PROVE h[<<c, f>>] = Reads(files, h, c, f)
  <2> DEFINE x == <<c, f>>
  <2>1. x \in Confs(files) \X DOMAIN files /\ x[1] = c /\ x[2] = f
    OBVIOUS
  <2> HIDE DEF x
  <2>2. h[x] = Reads(files, h, x[1], x[2])
    BY <2>1, Zenon
  <2>3. QED
    BY <2>1, <2>2 DEF x
<1>1. 0 \in G
  <2>1. ASSUME NEW c \in After(files, N), NEW f \in DOMAIN files
        PROVE  h[<<c, f>>] = Reads(files, h, c, f) /\ h[<<c, f>>] \in After(files, c.cnt)
    <3>1. c \in Confs(files) /\ c.cnt = N /\ N > MaxInclude
      BY <1>0, AfterIs
    <3>2. Reads(files, h, c, f) = c
      BY <3>1 DEF Reads
    <3>3. QED
      BY <1>a, <3>1, <3>2
  <2>2. Loads(files, h, N)
    BY <2>1 DEF Loads
  <2>3. N - 0 = N /\ 0 \in 0..N
    BY <1>0
  <2>4. QED
    BY <2>2, <2>3
<1>2. ASSUME NEW k \in 0..(N - 1), k \in G PROVE k + 1 \in G
  <2> DEFINE n == N - (k + 1)
  <2>1. n \in Nat /\ n + 1 = N - k /\ k + 1 \in 0..N
    BY <1>0
  <2>2. Loads(files, h, n + 1)
    BY <1>2, <2>1
  <2> HIDE DEF n
  <2>3. ASSUME NEW c \in After(files, n), NEW f \in DOMAIN files
        PROVE  h[<<c, f>>] = Reads(files, h, c, f) /\ h[<<c, f>>] \in After(files, c.cnt)
    <3>1. c \in Confs(files) /\ c.cnt \in Nat /\ n <= c.cnt /\ c.cnt <= MaxInclude + 1
      BY <2>1, AfterIs
    <3>2. c \in After(files, 0)
      BY <3>1, AfterIs
    <3>3. n + 1 \in Nat /\ n + 1 <= c.cnt + 1
      BY <2>1, <3>1
    <3>4. Below(files, h, c.cnt)
      BY <2>2, <3>1, <3>3, LoadsBelow
    <3>5. Reads(files, h, c, f) \in After(files, c.cnt)
      BY <3>2, <3>4, ReadAfter
    <3>6. QED
      BY <1>a, <3>1, <3>5
  <2>4. Loads(files, h, n)
    BY <2>3 DEF Loads
  <2>5. QED
    BY <2>1, <2>4 DEF n
<1>3. N \in G
  <2> HIDE DEF N, G
  <2>1. \A k \in 0..N : k \in G
    BY <1>0, <1>1, <1>2, CountedUp
  <2>2. QED
    BY <1>0, <2>1
<1>4. Loads(files, h, 0)
  BY <1>0, <1>3
<1>5. ASSUME NEW c \in After(files, 0), NEW f \in DOMAIN files PROVE h[<<c, f>>] \in After(files, 0)
  <2>1. h[<<c, f>>] \in After(files, c.cnt) /\ c.cnt \in Nat
    BY <1>4, AfterIs, 0 \in Nat DEF Loads
  <2>2. \A d \in After(files, c.cnt) : d \in After(files, 0)
    BY <2>1, AfterIs
  <2>3. QED
    BY <2>1, <2>2
<1>6. QED
  BY <1>4, <1>5

\* What the configuration files are read into.
LEMMA ConfLoaded ==
    ASSUME NEW files \in Disks, NEW start \in After(files, 0), NEW main \in DOMAIN files
    PROVE  ConfigLoad(files, start, main) \in After(files, 0)
<1> DEFINE Is(h) == h = [x \in Confs(files) \X DOMAIN files |-> Reads(files, h, x[1], x[2])]
           load == CHOOSE h : Is(h)
<1>1. ConfigLoad(files, start, main) = load[<<start, main>>]
  BY DEF ConfigLoad, Reads, ReadOn, Follow, Confs, ItemsOf, FoldLeft, MapThenFoldSet
<1> HIDE DEF Is
<1>2. \E h : Is(h)
  BY LoadExists DEF Is
<1>3. Is(load)
  BY <1>2
<1> HIDE DEF load
<1>4. load = [x \in Confs(files) \X DOMAIN files |-> Reads(files, load, x[1], x[2])]
  BY <1>3 DEF Is
<1>5. \A c \in After(files, 0), f \in DOMAIN files : load[<<c, f>>] \in After(files, 0)
  BY <1>4, LoadCounts
<1>6. QED
  BY <1>1, <1>5

\* Every state the configuration can be in.
ConfStates == UNION {After(files, 0) : files \in Disks}

LEMMA NoConfIs ==
    ASSUME NEW files \in Disks
    PROVE  NoConf \in After(files, 0)
<1>1. MaxInclude \in Nat
  BY DisksAssumption
<1>2. <<>> \in Seq(ItemsOf(files)) /\ 0 \in Nat /\ FALSE \in BOOLEAN
  OBVIOUS
<1>3. [i \in 1..MaxInclude |-> NoFile] \in [1..MaxInclude -> DOMAIN files \cup {NoFile}]
  OBVIOUS
<1>4. NoConf \in Confs(files)
  BY <1>2, <1>3 DEF NoConf, Confs
<1>5. NoConf.cnt = 0
  BY DEF NoConf
<1>6. QED
  BY <1>1, <1>4, <1>5 DEF After

LEMMA ConfFresh ==
    ASSUME NEW files \in Disks
    PROVE  Fresh(files) \in ConfStates
<1>1. MaxInclude \in Nat /\ MainFile \in DOMAIN files
  BY DisksAssumption
<1>2. NoConf \in After(files, 0)
  BY NoConfIs
<1>3. Fresh(files) \in After(files, 0)
  BY <1>1, <1>2, ConfLoaded DEF Fresh
<1>4. QED
  BY <1>3 DEF ConfStates

\* Nothing has been read.
Unread(files, c) == c \in After(files, 0) /\ c.tree = <<>> /\ \A i \in 1..MaxInclude : c.stack[i] = NoFile

LEMMA DestroyUnread ==
    ASSUME disk \in Disks, conf \in ConfStates
    PROVE  Unread(disk, Destroy(conf))
<1>2. PICK files \in Disks : conf \in After(files, 0)
  BY DEF ConfStates
<1>3. conf \in Confs(files) /\ conf.cnt \in Nat /\ 0 <= conf.cnt /\ conf.cnt <= MaxInclude + 1
  BY <1>2, AfterIs, 0 \in Nat
<1> DEFINE empty == [i \in 1..MaxInclude |-> NoFile]
           c == [tree |-> <<>>, cnt |-> conf.cnt, over |-> conf.over, stack |-> empty]
<1>4. Destroy(conf) = c
  <2>1. conf = [tree |-> conf.tree, cnt |-> conf.cnt, over |-> conf.over, stack |-> conf.stack]
    BY <1>3 DEF Confs
  <2>2. Destroy(conf) = [conf EXCEPT !.tree = <<>>, !.stack = empty]
    BY DEF Destroy
  <2> HIDE DEF empty
  <2>3. QED
    BY <2>1, <2>2
<1>5. c \in Confs(disk) /\ c.cnt = conf.cnt /\ c.tree = <<>> /\ c.stack = empty
  <2>1. empty \in [1..MaxInclude -> DOMAIN disk \cup {NoFile}]
    OBVIOUS
  <2>2. conf.over \in BOOLEAN /\ <<>> \in Seq(ItemsOf(disk))
    BY <1>3 DEF Confs
  <2> HIDE DEF empty
  <2>3. QED
    BY <1>3, <2>1, <2>2 DEF Confs
<1>6. \A i \in 1..MaxInclude : empty[i] = NoFile
  OBVIOUS
<1> HIDE DEF c, empty
<1>7. c \in After(disk, 0)
  BY <1>3, <1>5, AfterIs, 0 \in Nat
<1>8. QED
  BY <1>4, <1>5, <1>6, <1>7 DEF Unread

LEMMA ConfReloaded ==
    ASSUME disk \in Disks, conf \in ConfStates
    PROVE  Reloaded \in ConfStates
<1>1. MainFile \in DOMAIN disk
  BY DisksAssumption
<1>2. Destroy(conf) \in After(disk, 0)
  BY DestroyUnread DEF Unread
<1>3. Reloaded \in After(disk, 0)
  BY <1>1, <1>2, ConfLoaded DEF Reloaded
<1>4. QED
  BY <1>3 DEF ConfStates

LEMMA ConfIs ==
    ASSUME NEW c \in ConfStates
    PROVE  /\ c.tree \in Seq(Items)
           /\ c.cnt \in 0..(MaxInclude + 1) /\ c.over \in BOOLEAN /\ DOMAIN c.stack = 1..MaxInclude
<1>1. PICK files \in Disks : c \in After(files, 0)
  BY DEF ConfStates
<1>2. c \in Confs(files) /\ c.cnt \in 0..(MaxInclude + 1)
  BY <1>1 DEF After
<1>3. c.tree \in Seq(ItemsOf(files)) /\ c.over \in BOOLEAN /\ DOMAIN c.stack = 1..MaxInclude
  BY <1>2 DEF Confs
<1>4. ItemsOf(files) \subseteq Items
  BY DEF ItemsOf, Items
<1>5. c.tree \in Seq(Items)
  BY <1>3, <1>4
<1>6. QED
  BY <1>2, <1>3, <1>5

LEMMA BoolIs ==
    ASSUME NEW tree, NEW kind, NEW default \in BOOLEAN
    PROVE  Bool(tree, kind, default) \in BOOLEAN
<1> DEFINE i == SelectInSeq(Base(tree, kind), LAMBDA d : d.value # "no")
<1>1. Bool(tree, kind, default) = IF i = 0 THEN FALSE ELSE IF Base(tree, kind)[i].value = "yes" THEN TRUE ELSE default
  BY DEF Bool
<1> HIDE DEF i
<1>2. QED
  BY <1>1

-----------------------------------------------------------------------------
(* What is included *)

Slots(c) == {c.stack[i] : i \in 1..MaxInclude} \ {NoFile}

\* Beyond the count every slot is free.
Level(c) == \A i \in 1..MaxInclude : i > c.cnt => c.stack[i] = NoFile

Includes(item) == item.kind = "include"

\* The item is in the tree, or the file it names has been entered.
Done(files, item, c) ==
    IF Includes(item) THEN files[item.file] = <<>> \/ item.file \in Slots(c) ELSE item \in ToSet(c.tree)

AllDone(files, f, c) == \A k \in 1..Len(files[f]) : Done(files, files[f][k], c)

\* From c to e nothing is lost, and what was entered is complete, if the limit was
\* not reached.
Grown(files, c, e) ==
    /\ Slots(c) \subseteq Slots(e) /\ ToSet(c.tree) \subseteq ToSet(e.tree)
    /\ \A f \in Slots(e) \ Slots(c) : f \in DOMAIN files => AllDone(files, f, e)

Grows(files, c, e) ==
    /\ Level(e) /\ c.cnt <= e.cnt
    /\ e.cnt <= MaxInclude => Grown(files, c, e)

\* A set of files that includes no others, and that there is room for.
Closed(files, W) ==
    /\ W \subseteq DOMAIN files /\ IsFiniteSet(W) /\ Cardinality(W) <= MaxInclude
    /\ \A f \in W : \A k \in 1..Len(files[f]) :
          Includes(files[f][k]) => files[files[f][k].file] = <<>> \/ files[f][k].file \in W

\* The directives in it.
Says(files, W, item) == ~Includes(item) /\ \E f \in W : \E k \in 1..Len(files[f]) : item = files[f][k]

Inside(files, W, c) == Slots(c) \subseteq W /\ \A item \in ToSet(c.tree) : Says(files, W, item)

\* The slots hold different files, without a gap.
Packed(W, c) ==
    /\ c.cnt <= MaxInclude
    /\ \A i \in 1..c.cnt : c.stack[i] \in W /\ \A j \in 1..c.cnt : c.stack[i] = c.stack[j] => i = j

Keeps(files, W, c, e) ==
    Inside(files, W, c) => Inside(files, W, e) /\ (Packed(W, c) => Packed(W, e))

LEMMA DoneStays ==
    ASSUME NEW files, NEW item, NEW c, NEW e, Slots(c) \subseteq Slots(e), ToSet(c.tree) \subseteq ToSet(e.tree),
           Done(files, item, c)
    PROVE  Done(files, item, e)
BY DEF Done

LEMMA GrowsOn ==
    ASSUME NEW files, NEW a, NEW b, NEW c, a.cnt \in Nat, b.cnt \in Nat, c.cnt \in Nat,
           Grows(files, a, b), Grows(files, b, c)
    PROVE  Grows(files, a, c)
<1>0. MaxInclude \in Nat
  BY DisksAssumption
<1>1. Level(c) /\ a.cnt <= c.cnt
  BY DEF Grows
<1>2. ASSUME c.cnt <= MaxInclude PROVE Grown(files, a, c)
  <2>1. Grown(files, a, b) /\ Grown(files, b, c)
    BY <1>0, <1>2 DEF Grows
  <2>2. Slots(a) \subseteq Slots(c) /\ ToSet(a.tree) \subseteq ToSet(c.tree)
    BY <2>1 DEF Grown
  <2>3. ASSUME NEW f \in Slots(c) \ Slots(a), f \in DOMAIN files PROVE AllDone(files, f, c)
    <3>1. CASE f \in Slots(b)
      <4>1. AllDone(files, f, b)
        BY <2>1, <2>3, <3>1 DEF Grown
      <4>2. Slots(b) \subseteq Slots(c) /\ ToSet(b.tree) \subseteq ToSet(c.tree)
        BY <2>1 DEF Grown
      <4>3. QED
        BY <4>1, <4>2, DoneStays DEF AllDone
    <3>2. CASE f \notin Slots(b)
      BY <2>1, <2>3, <3>2 DEF Grown
    <3>3. QED
      BY <3>1, <3>2
  <2>4. QED
    BY <2>2, <2>3 DEF Grown
<1>3. QED
  BY <1>1, <1>2 DEF Grows

LEMMA KeepsOn ==
    ASSUME NEW files, NEW W, NEW a, NEW b, NEW c, Keeps(files, W, a, b), Keeps(files, W, b, c)
    PROVE  Keeps(files, W, a, c)
BY DEF Keeps

LEMMA StaysSo ==
    ASSUME NEW files, NEW W, NEW c, c.cnt \in Nat, Level(c)
    PROVE  Grows(files, c, c) /\ Keeps(files, W, c, c)
<1>1. Grown(files, c, c)
  BY DEF Grown
<1>2. QED
  BY <1>1 DEF Grows, Keeps

\* What the loop check sees is in the stack.
LEMMA ScannedSlots ==
    ASSUME NEW c, NEW f \in Scanned(c)
    PROVE  f \in Slots(c)
<1>1. PICK i \in 1..MaxInclude : f = c.stack[i] /\ \A k \in 1..i : c.stack[k] # NoFile
  BY DEF Scanned
<1>2. i \in 1..i
  BY DisksAssumption
<1>3. QED
  BY <1>1, <1>2 DEF Slots

\* A directive is appended to the tree.
LEMMA DirectiveAdded ==
    ASSUME NEW files \in Disks, NEW W, NEW d \in Confs(files), Level(d), NEW item \in ItemsOf(files), ~Includes(item),
           NEW e, e = [d EXCEPT !.tree = Append(d.tree, item)]
    PROVE  /\ Grows(files, d, e) /\ Done(files, item, e)
           /\ Says(files, W, item) => Keeps(files, W, d, e)
<1>1. d.tree \in Seq(ItemsOf(files)) /\ d.cnt \in Nat
  BY DEF Confs
<1> DEFINE t == Append(d.tree, item)
<1>2. ToSet(t) = ToSet(d.tree) \cup {item}
  <2> DEFINE l == d.tree
  <2>1. l \in Seq(ItemsOf(files))
    BY <1>1
  <2> HIDE DEF l
  <2>2. /\ Len(Append(l, item)) = Len(l) + 1 /\ Len(l) \in Nat /\ DOMAIN l = 1..Len(l)
        /\ DOMAIN Append(l, item) = 1..(Len(l) + 1)
        /\ \A k \in 1..Len(l) : Append(l, item)[k] = l[k]
        /\ Append(l, item)[Len(l) + 1] = item
    BY <2>1
  <2>3. ASSUME NEW x \in ToSet(Append(l, item)) PROVE x \in ToSet(l) \cup {item}
    <3>1. PICK k \in 1..(Len(l) + 1) : Append(l, item)[k] = x
      BY <2>2, <2>3 DEF ToSet
    <3>2. CASE k = Len(l) + 1
      BY <2>2, <3>1, <3>2
    <3>3. CASE k # Len(l) + 1
      <4>1. k \in 1..Len(l)
        BY <2>2, <3>3
      <4>2. QED
        BY <2>2, <3>1, <4>1 DEF ToSet
    <3>4. QED
      BY <3>2, <3>3
  <2>4. ASSUME NEW x \in ToSet(l) \cup {item} PROVE x \in ToSet(Append(l, item))
    <3>1. CASE x = item
      <4>1. Len(l) + 1 \in 1..(Len(l) + 1)
        BY <2>2
      <4>2. QED
        BY <2>2, <3>1, <4>1 DEF ToSet
    <3>2. CASE x \in ToSet(l)
      <4>1. PICK k \in 1..Len(l) : l[k] = x
        BY <2>2, <3>2 DEF ToSet
      <4>2. k \in 1..(Len(l) + 1)
        BY <2>2
      <4>3. QED
        BY <2>2, <4>1, <4>2 DEF ToSet
    <3>3. QED
      BY <2>4, <3>1, <3>2
  <2>5. QED
    BY <2>3, <2>4 DEF l, t
<1> HIDE DEF t
<1>3. e.tree = t /\ e.cnt = d.cnt /\ e.stack = d.stack
  BY DEF Confs, t
<1>4. Slots(e) = Slots(d) /\ Level(e)
  BY <1>3 DEF Slots, Level
<1>5. Done(files, item, e)
  BY <1>2, <1>3 DEF Done
<1>6. Grows(files, d, e)
  <2>1. Grown(files, d, e)
    BY <1>2, <1>3, <1>4 DEF Grown
  <2>2. QED
    BY <1>1, <1>3, <1>4, <2>1 DEF Grows
<1>7. ASSUME Says(files, W, item) PROVE Keeps(files, W, d, e)
  <2>1. ASSUME Inside(files, W, d) PROVE Inside(files, W, e)
    BY <1>2, <1>3, <1>4, <1>7, <2>1 DEF Inside
  <2>2. Packed(W, d) => Packed(W, e)
    BY <1>3 DEF Packed
  <2>3. QED
    BY <2>1, <2>2 DEF Keeps
<1>8. QED
  BY <1>5, <1>6, <1>7

\* A file of a closed set that is not in the stack finds a slot.
LEMMA RoomLeft ==
    ASSUME NEW files \in Disks, NEW W, Closed(files, W), NEW c \in Confs(files), Packed(W, c), NEW f \in W, f \notin Scanned(c)
    PROVE  c.cnt < MaxInclude /\ \A i \in 1..c.cnt : c.stack[i] # f
<1> DEFINE n == c.cnt
           M == MaxInclude
<1>1. M \in Nat /\ n \in Nat /\ n <= M
  BY DisksAssumption DEF Confs, Packed
<1>2. /\ \A i \in 1..n : c.stack[i] \in W
      /\ \A i, j \in 1..n : c.stack[i] = c.stack[j] => i = j
  BY DEF Packed
<1>3. IsFiniteSet(W) /\ Cardinality(W) <= M /\ W \subseteq DOMAIN files
  BY DEF Closed
<1>4. \A i \in 1..n : c.stack[i] # NoFile
  BY <1>2, <1>3, DisksAssumption
<1>5. \A i \in 1..n : c.stack[i] # f
  <2> SUFFICES ASSUME NEW i \in 1..n, c.stack[i] = f PROVE FALSE
    OBVIOUS
  <2>1. i \in 1..M /\ \A k \in 1..i : k \in 1..n
    BY <1>1
  <2>2. f \in Scanned(c)
    BY <1>4, <2>1 DEF Scanned
  <2>3. QED
    BY <2>2
<1>6. n < M
  <2> SUFFICES ASSUME n = M PROVE FALSE
    BY <1>1
  <2> HIDE DEF n, M
  <2> DEFINE g == [i \in 1..(M + 1) |-> IF i \in 1..n THEN c.stack[i] ELSE f]
             S == 1..(M + 1)
  <2>1. g \in [S -> W]
    BY <1>2
  <2>2. IsFiniteSet(S) /\ Cardinality(S) = M + 1
    <3>1. 1 \in Int /\ M + 1 \in Int /\ ~(1 > M + 1) /\ (M + 1) - 1 + 1 = M + 1
      BY <1>1
    <3>2. QED
      BY <3>1, FS_Interval
  <2>3. Cardinality(W) < Cardinality(S)
    <3>1. Cardinality(W) \in Nat
      BY <1>3, FS_CardinalityType
    <3>2. QED
      BY <1>1, <1>3, <2>2, <3>1
  <2>a. \A i \in S : g[i] = IF i \in 1..n THEN c.stack[i] ELSE f
    OBVIOUS
  <2>b. \A i, j \in S : i \notin 1..n /\ j \notin 1..n => i = j
    BY <1>1
  <2> HIDE DEF g, S
  <2>4. PICK x, y \in S : x # y /\ g[x] = g[y]
    BY <1>3, <2>1, <2>2, <2>3, FS_PigeonHole
  <2>5. CASE x \in 1..n /\ y \in 1..n
    BY <1>2, <2>a, <2>4, <2>5
  <2>6. CASE x \in 1..n /\ y \notin 1..n
    BY <1>5, <2>a, <2>4, <2>6
  <2>7. CASE x \notin 1..n /\ y \in 1..n
    BY <1>5, <2>a, <2>4, <2>7
  <2>8. CASE x \notin 1..n /\ y \notin 1..n
    BY <2>b, <2>4, <2>8
  <2>9. QED
    BY <2>5, <2>6, <2>7, <2>8
<1>7. QED
  BY <1>5, <1>6

\* A file is entered.
LEMMA FileEntered ==
    ASSUME NEW files \in Disks, NEW W, NEW c \in Confs(files), Level(c), c.cnt <= MaxInclude, NEW f \in DOMAIN files
    PROVE  /\ Level(Entered(c, f)) /\ Entered(c, f).cnt = c.cnt + 1 /\ Entered(c, f).tree = c.tree
           /\ c.cnt < MaxInclude => Slots(Entered(c, f)) = Slots(c) \cup {f}
           /\ Closed(files, W) /\ f \in W /\ f \notin Scanned(c) => Keeps(files, W, c, Entered(c, f))
<1> DEFINE e == Entered(c, f)
           n == c.cnt
           s == IF n < MaxInclude THEN [c.stack EXCEPT ![n + 1] = f] ELSE c.stack
<1>1. n \in Nat /\ MaxInclude \in Nat /\ NoFile \notin DOMAIN files
  BY DisksAssumption DEF Confs
<1>2. c.stack \in [1..MaxInclude -> DOMAIN files \cup {NoFile}]
  BY DEF Confs
<1>3. c = [tree |-> c.tree, cnt |-> c.cnt, over |-> c.over, stack |-> c.stack]
  BY DEF Confs
<1>4. e = [c EXCEPT !.cnt = c.cnt + 1, !.stack = s, !.over = c.over \/ c.cnt = MaxInclude]
  BY DEF Entered
<1>5. \A i \in 1..MaxInclude : s[i] = IF n < MaxInclude /\ i = n + 1 THEN f ELSE c.stack[i]
  BY <1>1, <1>2
<1> HIDE DEF s
<1>6. e.tree = c.tree /\ e.cnt = n + 1 /\ e.stack = s
  BY <1>3, <1>4
<1> HIDE DEF e
<1>7. Level(e)
  <2>1. ASSUME NEW i \in 1..MaxInclude, i > n + 1 PROVE s[i] = NoFile
    <3>1. i > n /\ i # n + 1
      BY <1>1, <2>1
    <3>2. QED
      BY <1>5, <3>1 DEF Level
  <2>2. QED
    BY <1>6, <2>1 DEF Level
<1>8. ASSUME n < MaxInclude PROVE Slots(e) = Slots(c) \cup {f}
  <2>1. n + 1 \in 1..MaxInclude /\ c.stack[n + 1] = NoFile
    BY <1>1, <1>8 DEF Level
  <2>2. ASSUME NEW x \in Slots(e) PROVE x \in Slots(c) \cup {f}
    BY <1>5, <1>6, <2>2 DEF Slots
  <2>3. ASSUME NEW x \in Slots(c) PROVE x \in Slots(e)
    <3>1. PICK i \in 1..MaxInclude : c.stack[i] = x /\ x # NoFile
      BY <2>3 DEF Slots
    <3>2. i # n + 1
      BY <2>1, <3>1
    <3>3. s[i] = x
      BY <1>5, <3>1, <3>2
    <3>4. QED
      BY <1>6, <3>1, <3>3 DEF Slots
  <2>4. f \in Slots(e)
    <3>1. s[n + 1] = f
      BY <1>5, <1>8, <2>1
    <3>2. QED
      BY <1>1, <1>6, <2>1, <3>1 DEF Slots
  <2>5. QED
    BY <2>2, <2>3, <2>4
<1>9. ASSUME Closed(files, W), f \in W, f \notin Scanned(c) PROVE Keeps(files, W, c, e)
  <2>1. ASSUME Inside(files, W, c) PROVE Inside(files, W, e)
    <3>1. Slots(e) \subseteq Slots(c) \cup {f}
      BY <1>5, <1>6 DEF Slots
    <3>2. QED
      BY <1>6, <1>9, <2>1, <3>1 DEF Inside
  <2>2. ASSUME Packed(W, c) PROVE Packed(W, e)
    <3>1. n < MaxInclude /\ \A i \in 1..n : c.stack[i] # f
      BY <1>9, <2>2, RoomLeft
    <3>2. \A i \in 1..(n + 1) : i \in 1..MaxInclude /\ s[i] = IF i = n + 1 THEN f ELSE c.stack[i]
      BY <1>1, <1>5, <3>1
    <3>3. \A i \in 1..(n + 1) : i # n + 1 => i \in 1..n
      BY <1>1
    <3>4. \A i \in 1..n : c.stack[i] \in W /\ \A j \in 1..n : c.stack[i] = c.stack[j] => i = j
      BY <2>2 DEF Packed
    <3>5. ASSUME NEW i \in 1..(n + 1), NEW j \in 1..(n + 1), s[i] = s[j] PROVE i = j /\ s[i] \in W
      <4>1. CASE i = n + 1
        BY <1>9, <3>1, <3>2, <3>3, <3>5, <4>1
      <4>2. CASE j = n + 1
        BY <1>9, <3>1, <3>2, <3>3, <3>5, <4>2
      <4>3. CASE i # n + 1 /\ j # n + 1
        <5>1. i \in 1..n /\ j \in 1..n /\ s[i] = c.stack[i] /\ s[j] = c.stack[j]
          BY <3>2, <3>3, <4>3
        <5>2. QED
          BY <3>4, <3>5, <5>1
      <4>4. QED
        BY <4>1, <4>2, <4>3
    <3>6. n + 1 <= MaxInclude
      BY <1>1, <3>1
    <3>7. QED
      BY <1>6, <3>5, <3>6 DEF Packed
  <2>3. QED
    BY <2>1, <2>2 DEF Keeps
<1>10. QED
  BY <1>6, <1>7, <1>8, <1>9 DEF e

\* What reading the file f makes of c.
Right(files, W, c, f, e) ==
    /\ Grows(files, c, e)
    /\ e.cnt <= MaxInclude => files[f] = <<>> \/ f \in Slots(e)
    /\ Closed(files, W) /\ (files[f] = <<>> \/ f \in W) => Keeps(files, W, c, e)

\* h reads rightly wherever n files or more have been entered.
ReadsRight(files, W, h, n) ==
    \A c \in After(files, n), f \in DOMAIN files : Level(c) => Right(files, W, c, f, h[<<c, f>>])

\* One item of a file is followed.
LEMMA ItemRight ==
    ASSUME NEW files \in Disks, NEW W, NEW h, NEW n \in Nat, ReadsRight(files, W, h, n), NEW f \in DOMAIN files,
           NEW d \in After(files, n), Level(d), NEW k \in 1..Len(files[f]),
           NEW e, e = Follow(h, d, files[f][k])
    PROVE  /\ Grows(files, d, e)
           /\ e.cnt <= MaxInclude => Done(files, files[f][k], e)
           /\ Closed(files, W) /\ f \in W => Keeps(files, W, d, e)
<1> DEFINE item == files[f][k]
<1>1. item \in ItemsOf(files) /\ (Includes(item) => item.file \in DOMAIN files)
  BY FileItems DEF Includes
<1>2. d \in Confs(files)
  BY AfterIs
<1>3. e = IF Includes(item) THEN h[<<d, item.file>>] ELSE [d EXCEPT !.tree = Append(d.tree, item)]
  BY DEF Follow, Includes
<1>4. ASSUME Closed(files, W), f \in W PROVE Includes(item) => files[item.file] = <<>> \/ item.file \in W
  BY <1>4 DEF Closed
<1>5. ASSUME f \in W, ~Includes(item) PROVE Says(files, W, item)
  BY <1>5 DEF Says
<1> HIDE DEF item
<1>6. CASE Includes(item)
  <2>1. Right(files, W, d, item.file, e)
    BY <1>1, <1>3, <1>6 DEF ReadsRight
  <2>2. e.cnt <= MaxInclude => Done(files, item, e)
    BY <1>6, <2>1 DEF Right, Done
  <2>3. QED
    BY <1>4, <1>6, <2>1, <2>2 DEF Right, item
<1>7. CASE ~Includes(item)
  <2>1. e = [d EXCEPT !.tree = Append(d.tree, item)]
    BY <1>3, <1>7
  <2>2. Grows(files, d, e) /\ Done(files, item, e) /\ (Says(files, W, item) => Keeps(files, W, d, e))
    BY <1>1, <1>2, <1>7, <2>1, DirectiveAdded
  <2>3. QED
    BY <1>5, <1>7, <2>2 DEF item
<1>8. QED
  BY <1>6, <1>7

\* A file that is entered is read to its end.
LEMMA FileRead ==
    ASSUME NEW files \in Disks, NEW W, NEW h, NEW n \in Nat, ReadsRight(files, W, h, n + 1), Below(files, h, n),
           NEW c \in Confs(files), c.cnt = n, n <= MaxInclude, Level(c),
           NEW f \in DOMAIN files, f \notin Scanned(c), files[f] # <<>>
    PROVE  Right(files, W, c, f, ReadOn(files, h, c, f))
<1> DEFINE A == After(files, n + 1)
           b == Entered(c, f)
           l == files[f]
           N == Len(l)
           e == ReadOn(files, h, c, f)
<1>0. MaxInclude \in Nat /\ N \in Nat /\ n + 1 \in Nat
  BY DisksAssumption, FileItems
<1>1. PICK at : Staged(at, A, b, N, Follows(files, h, n, f), e)
  BY ReadStaged
<1>2. /\ Level(b) /\ b.cnt = c.cnt + 1 /\ b.tree = c.tree
      /\ c.cnt < MaxInclude => Slots(b) = Slots(c) \cup {f}
      /\ Closed(files, W) /\ f \in W => Keeps(files, W, c, b)
  BY FileEntered
<1> HIDE DEF b, e
<1>3. at \in [0..N -> A] /\ at[0] = b /\ at[N] = e
  BY <1>1 DEF Staged
<1>4. ASSUME NEW k \in 0..(N - 1) PROVE at[k + 1] = Follow(h, at[k], l[k + 1]) /\ k + 1 \in 1..N
  <2>1. k + 1 \in 1..N /\ k \in 0..N
    BY <1>0
  <2>2. at[k] \in A
    BY <1>3, <2>1
  <2>3. at[k + 1] = Follows(files, h, n, f)[<<k + 1, at[k]>>]
    BY <1>1 DEF Staged
  <2>4. Follows(files, h, n, f)[<<k + 1, at[k]>>] = Follow(h, at[k], l[k + 1])
    BY <2>1, <2>2 DEF Follows
  <2>5. QED
    BY <2>1, <2>3, <2>4
<1>5. \A k \in 0..N : at[k] \in A /\ at[k].cnt \in Nat
  BY <1>0, <1>3, AfterIs
<1> HIDE DEF A
<1> DEFINE sofar(k) == /\ Grows(files, b, at[k])
                       /\ at[k].cnt <= MaxInclude => \A j \in 1..k : Done(files, l[j], at[k])
                       /\ Closed(files, W) /\ f \in W => Keeps(files, W, b, at[k])
           G == {k \in 0..N : sofar(k)}
<1>6. b.cnt \in Nat
  BY <1>2
<1>7. 0 \in G
  <2>1. Grows(files, b, b) /\ Keeps(files, W, b, b)
    BY <1>2, <1>6, StaysSo
  <2>2. 0 \in 0..N /\ \A j \in 1..0 : FALSE
    BY <1>0
  <2>3. QED
    BY <1>3, <2>1, <2>2
<1>8. ASSUME NEW k \in 0..(N - 1), k \in G PROVE k + 1 \in G
  <2> DEFINE d == at[k]
             g == at[k + 1]
  <2>0. sofar(k)
    BY <1>8
  <2>1. k \in 0..N /\ k + 1 \in 0..N /\ k + 1 \in 1..N
    BY <1>0
  <2>2. d \in A /\ d.cnt \in Nat /\ g.cnt \in Nat
    BY <1>5, <2>1
  <2>3. Grows(files, b, d)
    BY <2>0
  <2>4. Level(d)
    BY <2>3 DEF Grows
  <2>5. g = Follow(h, d, files[f][k + 1])
    BY <1>4
  <2> HIDE DEF d, g
  <2>6. /\ Grows(files, d, g)
        /\ g.cnt <= MaxInclude => Done(files, files[f][k + 1], g)
        /\ Closed(files, W) /\ f \in W => Keeps(files, W, d, g)
    BY <1>0, <2>1, <2>2, <2>4, <2>5, ItemRight DEF A
  <2>7. Grows(files, b, g)
    BY <1>6, <2>2, <2>3, <2>6, GrowsOn
  <2>8. ASSUME g.cnt <= MaxInclude, NEW j \in 1..(k + 1) PROVE Done(files, l[j], g)
    <3>1. d.cnt <= g.cnt /\ Grown(files, d, g)
      BY <2>6, <2>8 DEF Grows
    <3>2. d.cnt <= MaxInclude
      BY <1>0, <2>2, <2>8, <3>1
    <3>3. CASE j = k + 1
      BY <2>6, <2>8, <3>3
    <3>4. CASE j # k + 1
      <4>1. j \in 1..k
        BY <2>1, <3>4
      <4>2. Done(files, l[j], d)
        BY <2>0, <3>2, <4>1 DEF d
      <4>3. Slots(d) \subseteq Slots(g) /\ ToSet(d.tree) \subseteq ToSet(g.tree)
        BY <3>1 DEF Grown
      <4> DEFINE item == l[j]
      <4> HIDE DEF item
      <4>4. Done(files, item, g)
        BY <4>2, <4>3, DoneStays DEF item
      <4>5. QED
        BY <4>4 DEF item
    <3>5. QED
      BY <3>3, <3>4
  <2>9. ASSUME Closed(files, W), f \in W PROVE Keeps(files, W, b, g)
    <3>1. Keeps(files, W, b, d)
      BY <2>0, <2>9 DEF d
    <3>2. Keeps(files, W, d, g)
      BY <2>6, <2>9
    <3>3. QED
      BY <3>1, <3>2, KeepsOn
  <2>10. QED
    BY <2>1, <2>7, <2>8, <2>9 DEF g
<1>9. N \in G
  <2>1. \A k \in 0..N : k \in G
    <3> HIDE DEF G
    <3>1. QED
      BY <1>0, <1>7, <1>8, CountedUp
  <2>2. N \in 0..N
    BY <1>0
  <2>3. QED
    BY <2>1, <2>2
<1>10. /\ Grows(files, b, e)
       /\ e.cnt <= MaxInclude => \A j \in 1..N : Done(files, l[j], e)
       /\ Closed(files, W) /\ f \in W => Keeps(files, W, b, e)
  BY <1>3, <1>9
<1>11. e.cnt \in Nat
  <2>1. N \in 0..N
    BY <1>0
  <2>2. QED
    BY <1>3, <1>5, <2>1
<1> HIDE DEF G
<1>12. Level(e) /\ b.cnt <= e.cnt
  BY <1>10 DEF Grows
<1>13. ASSUME e.cnt <= MaxInclude PROVE Grown(files, c, e) /\ f \in Slots(e)
  <2>1. c.cnt < MaxInclude
    BY <1>0, <1>2, <1>11, <1>12, <1>13
  <2>2. Slots(b) = Slots(c) \cup {f}
    BY <1>2, <2>1
  <2>3. Grown(files, b, e)
    BY <1>10, <1>13 DEF Grows
  <2>4. Slots(b) \subseteq Slots(e) /\ ToSet(b.tree) \subseteq ToSet(e.tree)
    BY <2>3 DEF Grown
  <2>5. AllDone(files, f, e)
    BY <1>10, <1>13 DEF AllDone
  <2>6. ASSUME NEW x \in Slots(e) \ Slots(c), x \in DOMAIN files PROVE AllDone(files, x, e)
    <3>1. CASE x = f
      BY <2>5, <3>1
    <3>2. CASE x # f
      <4>1. x \in Slots(e) \ Slots(b)
        BY <2>2, <2>6, <3>2
      <4>2. QED
        BY <2>3, <2>6, <4>1 DEF Grown
    <3>3. QED
      BY <3>1, <3>2
  <2>7. QED
    BY <1>2, <2>2, <2>4, <2>6 DEF Grown
<1>14. Grows(files, c, e)
  <2>1. c.cnt <= e.cnt
    BY <1>0, <1>2, <1>11, <1>12
  <2>2. QED
    BY <1>12, <1>13, <2>1 DEF Grows
<1>15. ASSUME Closed(files, W), f \in W PROVE Keeps(files, W, c, e)
  BY <1>2, <1>10, <1>15, KeepsOn
<1>16. Right(files, W, c, f, e)
  BY <1>13, <1>14, <1>15 DEF Right
<1>17. QED
  BY <1>16 DEF e

\* From one count to the one before it.
LEMMA ReadsRightOneMore ==
    ASSUME NEW files \in Disks, NEW W, NEW h, NEW n \in Nat, ReadsRight(files, W, h, n + 1), Below(files, h, n),
           \A c \in Confs(files), f \in DOMAIN files : h[<<c, f>>] = Reads(files, h, c, f)
    PROVE  ReadsRight(files, W, h, n)
<1>0. MaxInclude \in Nat /\ n + 1 \in Nat
  BY DisksAssumption
<1>1. ASSUME NEW c \in After(files, n), NEW f \in DOMAIN files, Level(c)
      PROVE  Right(files, W, c, f, h[<<c, f>>])
  <2>1. c \in Confs(files) /\ c.cnt \in Nat /\ n <= c.cnt /\ c.cnt <= MaxInclude + 1
    BY AfterIs
  <2>2. CASE c.cnt # n
    <3>1. n + 1 <= c.cnt
      BY <2>1, <2>2
    <3>2. c \in After(files, n + 1)
      BY <1>0, <2>1, <3>1, AfterIs
    <3>3. QED
      BY <1>1, <3>2 DEF ReadsRight
  <2>3. CASE c.cnt = n
    <3> DEFINE stops == c.cnt > MaxInclude \/ f \in Scanned(c) \/ files[f] = <<>>
    <3>1. h[<<c, f>>] = IF stops THEN c ELSE ReadOn(files, h, c, f)
      BY <2>1 DEF Reads
    <3>2. CASE stops
      <4>1. Grows(files, c, c) /\ Keeps(files, W, c, c)
        BY <1>1, <2>1, StaysSo
      <4>2. c.cnt <= MaxInclude => files[f] = <<>> \/ f \in Slots(c)
        BY <1>0, <2>1, <3>2, ScannedSlots
      <4>3. QED
        BY <3>1, <3>2, <4>1, <4>2 DEF Right
    <3>3. CASE ~stops
      <4>1. n <= MaxInclude /\ f \notin Scanned(c) /\ files[f] # <<>>
        BY <1>0, <2>1, <2>3, <3>3
      <4>2. Right(files, W, c, f, ReadOn(files, h, c, f))
        BY <1>1, <2>1, <2>3, <4>1, FileRead
      <4>3. QED
        BY <3>1, <3>3, <4>2
    <3>4. QED
      BY <3>2, <3>3
  <2>4. QED
    BY <2>2, <2>3
<1>2. QED
  BY <1>1 DEF ReadsRight

LEMMA LoadsRightly ==
    ASSUME NEW files \in Disks, NEW W, NEW h, h = [x \in Confs(files) \X DOMAIN files |-> Reads(files, h, x[1], x[2])],
           Loads(files, h, 0)
    PROVE  ReadsRight(files, W, h, 0)
<1> DEFINE N == MaxInclude + 1
           G == {k \in 0..N : ReadsRight(files, W, h, N - k)}
<1>0. MaxInclude \in Nat /\ N \in Nat
  BY DisksAssumption
<1>a. ASSUME NEW c \in Confs(files), NEW f \in DOMAIN files PROVE h[<<c, f>>] = Reads(files, h, c, f)
  <2> DEFINE x == <<c, f>>
  <2>1. x \in Confs(files) \X DOMAIN files /\ x[1] = c /\ x[2] = f
    OBVIOUS
  <2> HIDE DEF x
  <2>2. h[x] = Reads(files, h, x[1], x[2])
    BY <2>1, Zenon
  <2>3. QED
    BY <2>1, <2>2 DEF x
<1>1. 0 \in G
  <2>1. ASSUME NEW c \in After(files, N), NEW f \in DOMAIN files, Level(c)
        PROVE  Right(files, W, c, f, h[<<c, f>>])
    <3>1. c \in Confs(files) /\ c.cnt = N /\ N > MaxInclude /\ c.cnt \in Nat
      BY <1>0, AfterIs
    <3>2. h[<<c, f>>] = c
      BY <1>a, <3>1 DEF Reads
    <3>3. Grows(files, c, c) /\ Keeps(files, W, c, c)
      BY <2>1, <3>1, StaysSo
    <3>4. ~(c.cnt <= MaxInclude)
      BY <1>0, <3>1
    <3>5. QED
      BY <3>2, <3>3, <3>4 DEF Right
  <2>2. ReadsRight(files, W, h, N)
    BY <2>1 DEF ReadsRight
  <2>3. N - 0 = N /\ 0 \in 0..N
    BY <1>0
  <2>4. QED
    BY <2>2, <2>3
<1>2. ASSUME NEW k \in 0..(N - 1), k \in G PROVE k + 1 \in G
  <2> DEFINE n == N - (k + 1)
  <2>1. n \in Nat /\ n + 1 = N - k /\ k + 1 \in 0..N /\ 0 <= n + 1
    BY <1>0
  <2>2. ReadsRight(files, W, h, n + 1)
    BY <1>2, <2>1
  <2> HIDE DEF n
  <2>3. Below(files, h, n)
    BY <2>1, LoadsBelow, 0 \in Nat
  <2>4. ReadsRight(files, W, h, n)
    BY <1>a, <2>1, <2>2, <2>3, ReadsRightOneMore
  <2>5. QED
    BY <2>1, <2>4 DEF n
<1>3. N \in G
  <2> HIDE DEF N, G
  <2>1. \A k \in 0..N : k \in G
    BY <1>0, <1>1, <1>2, CountedUp
  <2>2. QED
    BY <1>0, <2>1
<1>4. QED
  BY <1>0, <1>3

LEMMA ConfRight ==
    ASSUME NEW files \in Disks, NEW W, NEW start \in After(files, 0), Level(start), NEW main \in DOMAIN files
    PROVE  /\ Right(files, W, start, main, ConfigLoad(files, start, main))
           /\ files[main] = <<>> => ConfigLoad(files, start, main) = start
<1> DEFINE Is(h) == h = [x \in Confs(files) \X DOMAIN files |-> Reads(files, h, x[1], x[2])]
           load == CHOOSE h : Is(h)
<1>1. ConfigLoad(files, start, main) = load[<<start, main>>]
  BY DEF ConfigLoad, Reads, ReadOn, Follow, Confs, ItemsOf, FoldLeft, MapThenFoldSet
<1> HIDE DEF Is
<1>2. \E h : Is(h)
  BY LoadExists DEF Is
<1>3. Is(load)
  BY <1>2
<1> HIDE DEF load
<1>4. load = [x \in Confs(files) \X DOMAIN files |-> Reads(files, load, x[1], x[2])]
  BY <1>3 DEF Is
<1>5. Loads(files, load, 0)
  BY <1>4, LoadCounts
<1>6. ReadsRight(files, W, load, 0)
  BY <1>4, <1>5, LoadsRightly
<1>7. Right(files, W, start, main, load[<<start, main>>])
  BY <1>6 DEF ReadsRight
<1>8. load[<<start, main>>] = Reads(files, load, start, main)
  BY <1>5 DEF Loads
<1>9. QED
  BY <1>1, <1>7, <1>8 DEF Reads

\* What has been read is all that is included.
LEMMA AllRead ==
    ASSUME NEW files \in Disks, NEW start, Unread(files, start), files[MainFile] # <<>>,
           NEW e, e = ConfigLoad(files, start, MainFile), e.cnt <= MaxInclude
    PROVE  Closed(files, Slots(e)) /\ MainFile \in Slots(e) /\ \A f \in Slots(e) : AllDone(files, f, e)
<1>0. MaxInclude \in Nat /\ MainFile \in DOMAIN files /\ NoFile \notin DOMAIN files
  BY DisksAssumption
<1>1. start \in After(files, 0) /\ Level(start) /\ Slots(start) = {}
  BY DEF Unread, Level, Slots
<1>2. Right(files, {}, start, MainFile, e) /\ e \in After(files, 0)
  BY <1>0, <1>1, ConfRight, ConfLoaded
<1>3. Grown(files, start, e) /\ MainFile \in Slots(e)
  BY <1>2 DEF Right, Grows
<1>4. e.stack \in [1..MaxInclude -> DOMAIN files \cup {NoFile}]
  BY <1>2 DEF After, Confs
<1>5. Slots(e) \subseteq DOMAIN files
  BY <1>4 DEF Slots
<1>6. \A f \in Slots(e) : AllDone(files, f, e)
  BY <1>1, <1>3, <1>5 DEF Grown
<1>7. IsFiniteSet(Slots(e)) /\ Cardinality(Slots(e)) <= MaxInclude
  <2> DEFINE S == 1..MaxInclude
             T == {e.stack[i] : i \in S}
             s == e.stack
  <2>1. IsFiniteSet(S) /\ Cardinality(S) = MaxInclude
    <3>1. 1 \in Int /\ MaxInclude \in Int /\ (1 > MaxInclude => MaxInclude = 0) /\ MaxInclude - 1 + 1 = MaxInclude
      BY <1>0
    <3>2. QED
      BY <3>1, FS_Interval
  <2>2. s \in Surjection(S, T)
    BY <1>4 DEF Surjection
  <2>3. Slots(e) \in SUBSET T
    BY DEF Slots
  <2> HIDE DEF S, T, s
  <2>4. IsFiniteSet(T) /\ Cardinality(T) <= MaxInclude
    BY <2>1, <2>2, FS_Surjection
  <2>5. IsFiniteSet(Slots(e)) /\ Cardinality(Slots(e)) <= Cardinality(T)
    BY <2>3, <2>4, FS_Subset
  <2>6. Cardinality(T) \in Nat /\ Cardinality(Slots(e)) \in Nat
    BY <2>4, <2>5, FS_CardinalityType
  <2>7. QED
    BY <1>0, <2>4, <2>5, <2>6
<1>8. ASSUME NEW f \in Slots(e), NEW k \in 1..Len(files[f]), Includes(files[f][k])
      PROVE  files[files[f][k].file] = <<>> \/ files[f][k].file \in Slots(e)
  <2>1. Done(files, files[f][k], e)
    BY <1>6 DEF AllDone
  <2>2. QED
    BY <1>8, <2>1 DEF Done
<1>9. Closed(files, Slots(e))
  BY <1>5, <1>7, <1>8 DEF Closed
<1>10. QED
  BY <1>3, <1>6, <1>9

LEMMA NothingRead ==
    ASSUME NEW files \in Disks, NEW start, Unread(files, start), files[MainFile] = <<>>
    PROVE  ConfigLoad(files, start, MainFile).tree = <<>>
<1>1. start \in After(files, 0) /\ Level(start) /\ start.tree = <<>> /\ MainFile \in DOMAIN files
  BY DisksAssumption DEF Unread, Level
<1>2. QED
  BY <1>1, ConfRight

\* Nothing is read but what a closed set has in it.
LEMMA NoMoreRead ==
    ASSUME NEW files \in Disks, NEW start, Unread(files, start), NEW W, Closed(files, W), MainFile \in W,
           NEW e, e = ConfigLoad(files, start, MainFile)
    PROVE  Inside(files, W, e) /\ (start.cnt = 0 => e.cnt <= MaxInclude)
<1>0. MaxInclude \in Nat /\ MainFile \in DOMAIN files /\ NoFile \notin DOMAIN files
  BY DisksAssumption
<1>1. start \in After(files, 0) /\ Level(start) /\ Slots(start) = {}
  BY DEF Unread, Level, Slots
<1>2. Right(files, W, start, MainFile, e)
  BY <1>0, <1>1, ConfRight
<1>3. Keeps(files, W, start, e)
  BY <1>2 DEF Right
<1>4. Inside(files, W, start)
  <2>1. ToSet(start.tree) = {}
    BY DEF Unread, ToSet
  <2>2. QED
    BY <1>1, <2>1 DEF Inside
<1>5. start.cnt = 0 => Packed(W, start)
  <2>1. \A i \in 1..0 : FALSE
    OBVIOUS
  <2>2. QED
    BY <1>0, <2>1 DEF Packed
<1>6. QED
  BY <1>3, <1>4, <1>5 DEF Keeps, Packed

\* The directives of one reading are in the other if its files are.
LEMMA SameTree ==
    ASSUME NEW files, NEW a, NEW b, Inside(files, Slots(b), a), \A f \in Slots(b) : AllDone(files, f, b)
    PROVE  ToSet(a.tree) \subseteq ToSet(b.tree)
<1> SUFFICES ASSUME NEW item \in ToSet(a.tree) PROVE item \in ToSet(b.tree)
  OBVIOUS
<1>1. Says(files, Slots(b), item)
  BY DEF Inside
<1>2. PICK f \in Slots(b) : \E k \in 1..Len(files[f]) : item = files[f][k]
  BY <1>1 DEF Says
<1>3. PICK k \in 1..Len(files[f]) : item = files[f][k]
  BY <1>2
<1>4. Done(files, item, b)
  BY <1>3 DEF AllDone
<1>5. QED
  BY <1>1, <1>4 DEF Done, Says

LEMMA NoConfUnread ==
    ASSUME NEW files \in Disks
    PROVE  Unread(files, NoConf) /\ NoConf.cnt = 0
<1>1. NoConf.tree = <<>> /\ NoConf.cnt = 0 /\ \A i \in 1..MaxInclude : NoConf.stack[i] = NoFile
  BY DEF NoConf
<1>2. QED
  BY <1>1, NoConfIs DEF Unread

\* A rehash below the limit and a fresh start read the same directives.
LEMMA ReloadedIsFresh ==
    ASSUME disk \in Disks, conf \in ConfStates, Reloaded.cnt <= MaxInclude
    PROVE  ToSet(Reloaded.tree) = ToSet(Fresh(disk).tree)
<1> DEFINE a == Reloaded
           b == Fresh(disk)
           old == Destroy(conf)
<1>0. MaxInclude \in Nat /\ MainFile \in DOMAIN disk
  BY DisksAssumption
<1>1. Unread(disk, old) /\ Unread(disk, NoConf) /\ NoConf.cnt = 0
  BY DestroyUnread, NoConfUnread
<1>2. a = ConfigLoad(disk, old, MainFile) /\ b = ConfigLoad(disk, NoConf, MainFile)
  BY DEF Reloaded, Fresh
<1>3. a.cnt <= MaxInclude
  OBVIOUS
<1> HIDE DEF a, b, old
<1>4. CASE disk[MainFile] # <<>>
  <2>1. Closed(disk, Slots(a)) /\ MainFile \in Slots(a) /\ \A f \in Slots(a) : AllDone(disk, f, a)
    BY <1>1, <1>2, <1>3, <1>4, AllRead
  <2>2. Inside(disk, Slots(a), b) /\ b.cnt <= MaxInclude
    BY <1>1, <1>2, <2>1, NoMoreRead
  <2>3. Closed(disk, Slots(b)) /\ MainFile \in Slots(b) /\ \A f \in Slots(b) : AllDone(disk, f, b)
    BY <1>1, <1>2, <1>4, <2>2, AllRead
  <2>4. Inside(disk, Slots(b), a)
    BY <1>1, <1>2, <2>3, NoMoreRead
  <2>5. ToSet(a.tree) \subseteq ToSet(b.tree) /\ ToSet(b.tree) \subseteq ToSet(a.tree)
    BY <2>1, <2>2, <2>3, <2>4, SameTree
  <2>6. QED
    BY <2>5 DEF a, b
<1>5. CASE disk[MainFile] = <<>>
  <2>1. a.tree = <<>> /\ b.tree = <<>>
    BY <1>1, <1>2, <1>5, NothingRead
  <2>2. QED
    BY <2>1 DEF a, b
<1>6. QED
  BY <1>4, <1>5

-----------------------------------------------------------------------------
(* The database and the two lists that are kept in it *)

\* No server is on the list of splits twice, or while it is linked.
ListInv ==
    /\ linked \subseteq Servers /\ splits \in Seq(Servers)
    /\ IsInjective(splits) /\ ToSet(splits) \cap linked = {}

ConfInv ==
    /\ scope \in Scopes /\ disk \in Disks /\ conf \in ConfStates
    /\ operonly \in BOOLEAN /\ splitsave \in BOOLEAN

\* RowsAgree, about the operators above; and an entry of ours has its row in any case.
RowsInv ==
    /\ OursIn(access) \subseteq Keys(Rows(db, "AC"))
    /\ Up /\ ~past.early => Keys(Rows(db, "AC")) = OursIn(access)

DaemonInv ==
    /\ ConfInv /\ ListInv
    /\ file \in Seq(FileLines) /\ db \in DBs /\ access \in AccessLists
    /\ unnoticed \subseteq {u \in Users : users[u].here}
    /\ past = [saved |-> past.saved, whole |-> past.whole, early |-> past.early]
    /\ RowsInv

LEMMA Saves ==
    ASSUME ListInv, db \in DBs
    PROVE  SaveDbEvent \in DBsWith(Rows(db, "AC"))
<1> DEFINE list == IF splitsave THEN splits ELSE <<>>
           rows == Rows(db, "AC")
           d == DelRows(db, "SPLIT")
<1>1. db \in DBsWith(rows)
  BY DEF DBsWith
<1> HIDE DEF rows
<1>2. d \in DBsWith(rows)
  BY <1>1, RowsDeleted
<1> HIDE DEF d
<1>3. list \in Seq(Servers)
  BY DEF ListInv
<1> HIDE DEF list
<1>4. Written(d, list) \in DBsWith(rows)
  BY <1>2, <1>3, RowsWritten
<1>5. SaveDb(db) \in DBsWith(rows)
  BY <1>4, Zenon DEF SaveDb, Written, d, list
<1>6. QED
  BY <1>1, <1>5 DEF SaveDbEvent, rows

LEMMA NothingYet ==
    /\ <<>> \in Seq(FileLines) /\ <<>> \in DBs /\ <<>> \in AccessLists /\ OursIn(<<>>) = {}
    /\ <<>> \in Seq(Servers) /\ IsInjective(<<>>) /\ ToSet(<<>>) = {}
<1>1. <<>> \in Seq(FileLines) /\ <<>> \in Seq(Servers) /\ <<>> \in Seq(Container) /\ <<>> \in Seq(Accesses) /\ Len(<<>>) = 0
  OBVIOUS
<1>2. ToSet(<<>>) = {} /\ IsInjective(<<>>)
  BY DEF ToSet, IsInjective
<1>3. <<>> \in DBs /\ <<>> \in AccessLists
  BY <1>1 DEF DBs, AccessLists
<1>4. OursIn(<<>>) = {}
  BY <1>2 DEF OursIn
<1>5. QED
  BY <1>1, <1>2, <1>3, <1>4

LEMMA DaemonInit == Init => DaemonInv
<1> SUFFICES ASSUME Init PROVE DaemonInv
  OBVIOUS
<1>1. /\ scope \in Scopes /\ disk \in scope.disks /\ conf = NoConf /\ operonly = TRUE /\ splitsave = FALSE
      /\ db = <<>> /\ file = <<>> /\ access = <<>> /\ unnoticed = {} /\ splits = <<>> /\ linked = {}
      /\ proc = "down" /\ past = NoPast
  BY DEF Init
<1>2. disk \in Disks
  BY <1>1, ScopesAssumption
<1>3. NoConf \in ConfStates
  BY <1>2, NoConfIs DEF ConfStates
<1>4. past = [saved |-> past.saved, whole |-> past.whole, early |-> past.early]
  BY <1>1 DEF NoPast
<1>5. RowsInv
  BY <1>1, NothingYet DEF RowsInv, Up
<1>6. ConfInv
  BY <1>1, <1>2, <1>3 DEF ConfInv
<1>7. ListInv
  BY <1>1, NothingYet DEF ListInv
<1>8. QED
  BY <1>1, <1>4, <1>5, <1>6, <1>7, NothingYet DEF DaemonInv

\* A start makes the entries of the rows the database's own, and only those.
LEMMA BootKeeps ==
    ASSUME DaemonInv, Boot
    PROVE  DaemonInv'
<1> DEFINE new  == Fresh(disk)
           tree == new.tree
           save == Bool(tree, "splitserv", FALSE)
           only == Bool(tree, "settings", TRUE)
           rows == LoadRows(file)
           mine == Rows(rows, "AC")
           st   == LoadDb(rows, save, {})
           list == BuildAccessList(<<>>, tree)
           full == LoadAccess(list, mine)
<1>1. /\ conf' = new /\ operonly' = only /\ access' = full /\ unnoticed' = {}
      /\ splits' = st.list /\ db' = st.db /\ splitsave' = save /\ linked' = {}
      /\ past' = [past EXCEPT !.early = FALSE] /\ disk' = disk /\ file' = file /\ scope' = scope
  BY DEF Boot
<1>2. new \in ConfStates
  BY ConfFresh DEF DaemonInv, ConfInv
<1> HIDE DEF new
<1>3. tree \in Seq(Items)
  BY <1>2, ConfIs
<1> HIDE DEF tree
<1>4. save \in BOOLEAN /\ only \in BOOLEAN
  BY BoolIs
<1> HIDE DEF save, only
<1>5. rows \in DBs
  BY RowsLoaded DEF DaemonInv
<1> HIDE DEF rows
<1>6. mine \in Seq(RowsOf("AC"))
  BY <1>5, RowsAre
<1>7. rows \in DBsWith(mine)
  BY <1>5 DEF DBsWith
<1> HIDE DEF mine
<1>8. st \in SplitStates({}, mine)
  BY <1>7, SplitsLoaded
<1> HIDE DEF st
<1>9. list \in AccessLists /\ OursIn(list) = {}
  BY <1>3, NothingYet, ListBuilt
<1> HIDE DEF list
<1>10. full \in AccessLists /\ OursIn(full) = OursIn(list) \cup Keys(mine)
  BY <1>6, <1>9, ListLoaded
<1> HIDE DEF full
<1>11. /\ st.list \in Seq(Servers) /\ st.db \in DBs /\ Rows(st.db, "AC") = mine
       /\ IsInjective(st.list)
  BY <1>8 DEF SplitStates, DBsWith
<1>12. ConfInv'
  BY <1>1, <1>2, <1>4 DEF DaemonInv, ConfInv
<1>13. ListInv'
  BY <1>1, <1>11 DEF ListInv
<1>14. RowsInv'
  <2>1. Keys(Rows(db', "AC")) = OursIn(access')
    BY <1>1, <1>9, <1>10, <1>11
  <2>2. QED
    BY <2>1 DEF RowsInv
<1>15. past' = [saved |-> past'.saved, whole |-> past'.whole, early |-> past'.early]
  BY <1>1 DEF DaemonInv
<1>16. file' \in Seq(FileLines) /\ db' \in DBs /\ access' \in AccessLists
  BY <1>1, <1>10, <1>11 DEF DaemonInv
<1>17. QED
  BY <1>1, <1>12, <1>13, <1>14, <1>15, <1>16 DEF DaemonInv

\* What is written, whole or cut short, can be read again.
LEMMA HaltKeeps ==
    ASSUME DaemonInv, Halt, file' \in Seq(FileLines),
           past' = [saved |-> past'.saved, whole |-> past'.whole, early |-> past'.early]
    PROVE  DaemonInv'
<1>1. /\ proc' = "down" /\ conf' = NoConf /\ db' = <<>> /\ access' = <<>> /\ unnoticed' = {}
      /\ splits' = <<>> /\ linked' = {}
      /\ disk' = disk /\ operonly' = operonly /\ splitsave' = splitsave /\ scope' = scope
  BY DEF Halt
<1>2. NoConf \in ConfStates
  BY NoConfIs DEF DaemonInv, ConfInv, ConfStates
<1>3. ConfInv'
  BY <1>1, <1>2 DEF DaemonInv, ConfInv
<1>4. ListInv'
  BY <1>1, NothingYet DEF ListInv
<1>5. RowsInv'
  BY <1>1, NothingYet DEF RowsInv, Up
<1>6. QED
  BY <1>1, <1>3, <1>4, <1>5, NothingYet DEF DaemonInv

LEMMA LinesSaved ==
    ASSUME DaemonInv
    PROVE  /\ SaveDbEvent \in DBs /\ Rows(SaveDbEvent, "AC") = Rows(db, "AC")
           /\ Lines(SaveDbEvent) \in Seq(FileLines) /\ Cut(Lines(SaveDbEvent)) \subseteq Seq(FileLines)
<1>1. SaveDbEvent \in DBsWith(Rows(db, "AC"))
  BY Saves DEF DaemonInv
<1>2. SaveDbEvent \in DBs /\ Rows(SaveDbEvent, "AC") = Rows(db, "AC")
  BY <1>1 DEF DBsWith
<1> DEFINE l == Lines(SaveDbEvent)
<1>3. l \in Seq(FileLines)
  BY <1>2, LinesAre
<1> HIDE DEF l
<1>4. Cut(l) \subseteq Seq(FileLines)
  BY <1>3 DEF Cut
<1>5. QED
  BY <1>2, <1>3, <1>4 DEF l

\* Saving, in every way it ends.
LEMMA SavingKeeps ==
    ASSUME DaemonInv, DbUpdate \/ DbUpdateFails \/ AtExit \/ RestartFaults \/ Crash
    PROVE  DaemonInv'
<1> DEFINE l == Lines(SaveDbEvent)
<1>0. past = [saved |-> past.saved, whole |-> past.whole, early |-> past.early] /\ file \in Seq(FileLines)
  BY DEF DaemonInv
<1>1. CASE AtExit
  <2>1. Halt /\ file' = l /\ past' = [past EXCEPT !.saved = Saved, !.whole = TRUE]
    BY <1>1 DEF AtExit
  <2>2. past' = [saved |-> past'.saved, whole |-> past'.whole, early |-> past'.early]
    BY <1>0, <2>1
  <2>3. QED
    BY <2>1, <2>2, LinesSaved, HaltKeeps
<1>2. CASE RestartFaults \/ Crash
  <2>1. Halt /\ (file' = file \/ file' \in Cut(l)) /\ (past' = past \/ past' = [past EXCEPT !.whole = FALSE])
    BY <1>2 DEF RestartFaults, Crash
  <2>2. past' = [saved |-> past'.saved, whole |-> past'.whole, early |-> past'.early]
    BY <1>0, <2>1
  <2>3. file' \in Seq(FileLines)
    BY <1>0, <2>1, LinesSaved
  <2>4. QED
    BY <2>1, <2>2, <2>3, HaltKeeps
<1>3. CASE DbUpdate \/ DbUpdateFails
  <2>1. /\ db' = SaveDbEvent /\ (file' = Lines(db') \/ file' = <<>>)
        /\ past' = [past EXCEPT !.saved = Saved, !.whole = TRUE] \/ past' = [past EXCEPT !.whole = FALSE]
        /\ UNCHANGED <<disk, conf, accessVars, splitVars, proc, sync, scope>>
    BY <1>3 DEF DbUpdate, DbUpdateFails
  <2>2. past' = [saved |-> past'.saved, whole |-> past'.whole, early |-> past'.early] /\ past'.early = past.early
    BY <1>0, <2>1
  <2>3. /\ disk' = disk /\ conf' = conf /\ access' = access /\ users' = users /\ operonly' = operonly
        /\ unnoticed' = unnoticed /\ splits' = splits /\ linked' = linked /\ splitsave' = splitsave
        /\ proc' = proc /\ scope' = scope
    BY <2>1 DEF accessVars, splitVars
  <2>4. file' \in Seq(FileLines) /\ db' \in DBs /\ Rows(db', "AC") = Rows(db, "AC")
    BY <2>1, LinesSaved, NothingYet
  <2>5. ConfInv' /\ ListInv'
    BY <2>3 DEF DaemonInv, ConfInv, ListInv
  <2>6. RowsInv'
    BY <2>2, <2>3, <2>4 DEF DaemonInv, RowsInv, Up
  <2>7. QED
    BY <2>2, <2>3, <2>4, <2>5, <2>6 DEF DaemonInv
<1>4. QED
  BY <1>1, <1>2, <1>3

-----------------------------------------------------------------------------
(* The commands and the network *)

LEMMA RefreshKeeps ==
    ASSUME unnoticed \subseteq {u \in Users : users[u].here}, RefreshAccess(access')
    PROVE  unnoticed' \subseteq {u \in Users : users'[u].here}
<1>1. /\ users' = [u \in Users |->
                     IF Unrefreshed(u) THEN users[u]
                     ELSE [users[u] EXCEPT !.rights = SetAccess(access', u, users[u], operonly)]]
      /\ unnoticed' = {u \in unnoticed : Unrefreshed(u)}
  BY Zenon DEF RefreshAccess, Unrefreshed
<1>2. ASSUME NEW u \in unnoticed' PROVE u \in Users /\ users'[u] = users[u] /\ users[u].here
  BY <1>1
<1>3. QED
  BY <1>2

\* Entries of the database stay, unless the burst has not ended.
LEMMA RehashKeeps ==
    ASSUME DaemonInv, Rehash
    PROVE  DaemonInv'
<1> DEFINE new  == Reloaded
           tree == new.tree
           save == Bool(tree, "splitserv", FALSE)
           run  == sync = "RUNNING"
           I    == {i \in DOMAIN access : access[i].nonConfig /\ run}
           kept == DestAccList(access, run)
           full == BuildAccessList(kept, tree)
           less == DelRows(db, "SPLIT")
<1>1. /\ conf' = new /\ access' = full /\ RefreshAccess(access')
      /\ (splitsave' = save /\ (db' = db \/ db' = less)) \/ (splitsave' = splitsave /\ db' = db)
      /\ past' = [past EXCEPT !.early = past.early \/ (sync # "RUNNING" /\ Ours # {})]
      /\ disk' = disk /\ file' = file /\ operonly' = operonly /\ splits' = splits /\ linked' = linked
      /\ proc' = proc /\ scope' = scope
  BY DEF Rehash
<1>2. /\ file \in Seq(FileLines) /\ db \in DBs /\ access \in AccessLists
      /\ unnoticed \subseteq {u \in Users : users[u].here}
      /\ past = [saved |-> past.saved, whole |-> past.whole, early |-> past.early]
      /\ disk \in Disks /\ conf \in ConfStates
  BY DEF DaemonInv, ConfInv
<1>3. new \in ConfStates
  BY <1>2, ConfReloaded
<1> HIDE DEF new
<1>4. tree \in Seq(Items)
  BY <1>3, ConfIs
<1> HIDE DEF tree
<1>5. save \in BOOLEAN
  BY BoolIs
<1> HIDE DEF save
<1>6. less \in DBs /\ Rows(less, "AC") = Rows(db, "AC")
  <2> DEFINE rows == Rows(db, "AC")
  <2>1. db \in DBsWith(rows)
    BY <1>2 DEF DBsWith
  <2> HIDE DEF rows
  <2>2. less \in DBsWith(rows)
    BY <2>1, RowsDeleted
  <2>3. QED
    BY <2>2 DEF DBsWith, rows
<1> HIDE DEF less
<1>7. kept \in AccessLists /\ (run => OursIn(kept) = OursIn(access)) /\ OursIn(kept) \subseteq OursIn(access)
  <2>1. I \in SUBSET (1..Len(access)) /\ access \in Seq(Accesses)
    BY <1>2 DEF AccessLists
  <2>2. kept = Picked(access, I)
    BY DEF DestAccList
  <2>3. \A i \in I : access[i].nonConfig /\ run /\ i \in 1..Len(access)
    BY <2>1
  <2>4. \A i \in 1..Len(access) : access[i].nonConfig /\ run => i \in I
    BY <2>1
  <2> HIDE DEF I, kept, run
  <2>5. /\ Picked(access, I) \in AccessLists
        /\ \A x : x \in OursIn(Picked(access, I)) <=> \E i \in I : access[i].nonConfig /\ access[i].name = x
    BY <1>2, <2>1, ListPicked
  <2>6. \A x : x \in OursIn(access) <=> \E i \in 1..Len(access) : access[i].nonConfig /\ access[i].name = x
    BY <2>1, OursAre
  <2>7. OursIn(kept) \subseteq OursIn(access)
    BY <2>2, <2>3, <2>5, <2>6
  <2>8. run => OursIn(access) \subseteq OursIn(kept)
    BY <2>2, <2>4, <2>5, <2>6
  <2>9. QED
    BY <2>2, <2>5, <2>7, <2>8
<1> HIDE DEF kept
<1>8. full \in AccessLists /\ OursIn(full) = OursIn(kept)
  BY <1>4, <1>7, ListBuilt
<1> HIDE DEF full
<1>9. db' \in DBs /\ Rows(db', "AC") = Rows(db, "AC")
  BY <1>1, <1>2, <1>6
<1>10. /\ past' = [saved |-> past'.saved, whole |-> past'.whole, early |-> past'.early]
       /\ past'.early = (past.early \/ (sync # "RUNNING" /\ Ours # {}))
  BY <1>1, <1>2
<1>11. RowsInv'
  <2>0. OursIn(full) \subseteq Keys(Rows(db, "AC"))
    BY <1>7, <1>8 DEF DaemonInv, RowsInv
  <2> SUFFICES ASSUME Up, ~past'.early PROVE Keys(Rows(db, "AC")) = OursIn(full)
    BY <1>1, <1>9, <2>0 DEF RowsInv, Up
  <2>1. ~past.early /\ (run \/ Ours = {})
    BY <1>10
  <2>2. Ours = OursIn(access)
    BY DEF Ours, OursIn
  <2>3. Keys(Rows(db, "AC")) = OursIn(access)
    BY <2>1 DEF DaemonInv, RowsInv
  <2> HIDE DEF run
  <2>4. QED
    BY <1>7, <1>8, <2>1, <2>2, <2>3
<1>12. ConfInv'
  BY <1>1, <1>3, <1>5 DEF DaemonInv, ConfInv
<1>13. ListInv'
  BY <1>1 DEF DaemonInv, ListInv
<1>14. unnoticed' \subseteq {u \in Users : users'[u].here}
  BY <1>1, <1>2, RefreshKeeps
<1>15. QED
  BY <1>1, <1>2, <1>8, <1>9, <1>10, <1>11, <1>12, <1>13, <1>14 DEF DaemonInv

\* ACCESS ADD and ACCESS DEL change the list and the table alike.
LEMMA AccessStepKeeps ==
    ASSUME DaemonInv, AccessStep
    PROVE  DaemonInv'
<1>1. /\ disk' = disk /\ conf' = conf /\ proc' = proc /\ scope' = scope /\ past' = past
      /\ splits' = splits /\ linked' = linked /\ splitsave' = splitsave
  BY DEF AccessStep, splitVars
<1>2. /\ file \in Seq(FileLines) /\ db \in DBs /\ access \in AccessLists
      /\ unnoticed \subseteq {u \in Users : users[u].here}
      /\ past = [saved |-> past.saved, whole |-> past.whole, early |-> past.early]
  BY DEF DaemonInv
<1>3. PICK n \in Names : AccessDel(n) \/ \E f \in Flags, m \in scope.masks : AccessAdd(n, f, m)
  BY DEF AccessStep
<1>4. ASSUME RefreshAccess(access'), file' = file, operonly' = operonly, db' \in DBs, access' \in AccessLists,
             Keys(Rows(db, "AC")) = OursIn(access) => Keys(Rows(db', "AC")) = OursIn(access'),
             OursIn(access) \subseteq Keys(Rows(db, "AC")) => OursIn(access') \subseteq Keys(Rows(db', "AC"))
      PROVE  DaemonInv'
  <2>1. ConfInv' /\ ListInv'
    BY <1>1, <1>4 DEF DaemonInv, ConfInv, ListInv
  <2>2. RowsInv'
    BY <1>1, <1>4 DEF DaemonInv, RowsInv, Up
  <2>3. unnoticed' \subseteq {u \in Users : users'[u].here}
    BY <1>2, <1>4, RefreshKeeps
  <2>4. QED
    BY <1>1, <1>2, <1>4, <2>1, <2>2, <2>3 DEF DaemonInv
<1>5. CASE AccessDel(n)
  <2> DEFINE I == {i \in DOMAIN access : access[i].name # n}
             p == Picked(access, I)
             d == DelRow(db, "AC", n)
  <2>1. access' = p /\ db' = d /\ RefreshAccess(access') /\ file' = file /\ operonly' = operonly
    BY <1>5 DEF AccessDel
  <2>2. I \in SUBSET (1..Len(access)) /\ access \in Seq(Accesses)
    BY <1>2 DEF AccessLists
  <2>3. \A i \in 1..Len(access) : i \in I <=> access[i].name # n
    BY <2>2
  <2> HIDE DEF I
  <2>4. /\ p \in AccessLists
        /\ \A x : x \in OursIn(p) <=> \E i \in I : access[i].nonConfig /\ access[i].name = x
    BY <1>2, <2>2, ListPicked
  <2> HIDE DEF p
  <2>5. \A x : x \in OursIn(access) <=> \E i \in 1..Len(access) : access[i].nonConfig /\ access[i].name = x
    BY <2>2, OursAre
  <2>6. \A x : x \in OursIn(p) <=> x \in OursIn(access) /\ x # n
    BY <2>2, <2>3, <2>4, <2>5
  <2>7. d \in DBs /\ Keys(Rows(d, "AC")) = Keys(Rows(db, "AC")) \ {n}
    BY <1>2, RowDeleted
  <2> HIDE DEF d
  <2>8. /\ Keys(Rows(db, "AC")) = OursIn(access) => Keys(Rows(d, "AC")) = OursIn(p)
        /\ OursIn(access) \subseteq Keys(Rows(db, "AC")) => OursIn(p) \subseteq Keys(Rows(d, "AC"))
    BY <2>6, <2>7
  <2>9. QED
    BY <1>4, <2>1, <2>4, <2>7, <2>8
<1>6. ASSUME NEW f \in Flags, NEW m \in scope.masks, AccessAdd(n, f, m)
      PROVE  DaemonInv'
  <2> DEFINE l == Put(access, n, f, m, TRUE)
             v == <<f, m>>
             d == AddRow(db, "AC", n, v)
  <2>1. access' = l /\ db' = d /\ RefreshAccess(access') /\ file' = file /\ operonly' = operonly
    BY <1>6 DEF AccessAdd
  <2>2. m \in Masks
    BY ScopesAssumption DEF DaemonInv, ConfInv
  <2>3. PutGiven(n, f, m)
    BY <2>2 DEF PutGiven, AllNames, AllFlags
  <2>4. PutRight(access, n, f, m, TRUE)
    BY <1>2, <2>3, PutKeeps
  <2>5. l \in AccessLists /\ OursIn(l) = OursIn(access) \cup {n}
    BY <2>4 DEF PutRight
  <2>6. "AC" \in Tables /\ [key |-> n, value |-> v] \in RowsOf("AC")
    BY <2>2 DEF Tables, RowsOf
  <2> HIDE DEF v, l
  <2>7. d \in DBs /\ Keys(Rows(d, "AC")) = Keys(Rows(db, "AC")) \cup {n}
    BY <1>2, <2>6, RowAdded
  <2> HIDE DEF d
  <2>8. QED
    BY <1>4, <2>1, <2>5, <2>7
<1>7. QED
  BY <1>3, <1>5, <1>6

\* Steps that leave all but the users as they are.
LEMMA UsersKeep ==
    ASSUME DaemonInv, UNCHANGED <<disk, conf, db, file, access, operonly, splits, splitsave, proc, scope, past>>,
           linked' = linked \/ linked' = {},
           unnoticed' \subseteq {u \in Users : users'[u].here}
    PROVE  DaemonInv'
<1>1. /\ disk' = disk /\ conf' = conf /\ db' = db /\ file' = file /\ access' = access /\ operonly' = operonly
      /\ splits' = splits /\ splitsave' = splitsave /\ proc' = proc /\ scope' = scope /\ past' = past
  OBVIOUS
<1>2. ConfInv'
  BY <1>1 DEF DaemonInv, ConfInv
<1>3. ListInv'
  BY <1>1 DEF DaemonInv, ListInv
<1>4. RowsInv'
  BY <1>1 DEF DaemonInv, RowsInv, Up
<1>5. QED
  BY <1>1, <1>2, <1>3, <1>4 DEF DaemonInv

LEMMA UserStepKeeps ==
    ASSUME DaemonInv, RightsInv, UserStep
    PROVE  DaemonInv'
<1>1. UNCHANGED <<disk, conf, db, file, access, operonly, splits, splitsave, proc, scope, past>> /\ linked' = linked
  <2>1. UNCHANGED <<access, operonly>>
    BY UserStepIs
  <2>2. QED
    BY <2>1 DEF UserStep, splitVars
<1>2. DOMAIN users = Users /\ unnoticed \subseteq {u \in Users : users[u].here}
  BY DEF DaemonInv, RightsInv
<1> DEFINE Is(v, x) ==
              /\ users' = [users EXCEPT ![v] = x]
              /\ unnoticed' \subseteq unnoticed \cup {v}
              /\ v \in unnoticed' => x.here \/ (~users[v].here /\ v \in unnoticed)
<1>0. PICK v \in Users : \E x : Is(v, x)
  BY UserStepIs
<1>3. PICK x : Is(v, x)
  BY <1>0
<1>4. unnoticed' \subseteq {u \in Users : users'[u].here}
  <2>1. users'[v] = x /\ \A u \in Users \ {v} : users'[u] = users[u]
    BY <1>2, <1>3
  <2>2. QED
    BY <1>2, <1>3, <2>1
<1>5. QED
  BY <1>1, <1>4, UsersKeep

\* Steps of the list of splits.
LEMMA SplitsKeep ==
    ASSUME DaemonInv, UNCHANGED <<disk, conf, file, accessVars, proc, scope, past>>, splitsave' \in BOOLEAN,
           db' \in DBsWith(Rows(db, "AC")), ListInv'
    PROVE  DaemonInv'
<1>1. /\ disk' = disk /\ conf' = conf /\ file' = file /\ access' = access /\ users' = users /\ operonly' = operonly
      /\ unnoticed' = unnoticed /\ proc' = proc /\ scope' = scope /\ past' = past
  BY DEF accessVars
<1>2. db' \in DBs /\ Rows(db', "AC") = Rows(db, "AC")
  BY DEF DBsWith
<1>3. ConfInv'
  BY <1>1 DEF DaemonInv, ConfInv
<1>4. RowsInv'
  BY <1>1, <1>2 DEF DaemonInv, RowsInv, Up
<1>5. QED
  BY <1>1, <1>2, <1>3, <1>4 DEF DaemonInv

LEMMA SplitStepKeeps ==
    ASSUME DaemonInv, SplitStep
    PROVE  DaemonInv'
<1> DEFINE rows == Rows(db, "AC")
<1>1. UNCHANGED <<disk, conf, file, accessVars, proc, scope, past>>
  <2>1. UNCHANGED <<disk, conf, accessVars, proc, sync, scope, past>>
    BY DEF SplitStep
  <2>2. file' = file
    BY DEF SplitStep, ServConnect, ServExit, SplitAdd, SplitForget, ExpireSplits, LoadSplitserv, UnloadSplitserv
  <2>3. QED
    BY <2>1, <2>2
<1>2. /\ linked \subseteq Servers /\ splits \in Seq(Servers) /\ IsInjective(splits) /\ ToSet(splits) \cap linked = {}
      /\ splitsave \in BOOLEAN /\ db \in DBs
  BY DEF DaemonInv, ConfInv, ListInv
<1>3. db \in DBsWith(rows)
  BY <1>2 DEF DBsWith
<1> HIDE DEF rows
<1>4. ASSUME splitsave' \in BOOLEAN, db' \in DBsWith(rows), ListInv'
      PROVE  DaemonInv'
  BY <1>1, <1>4, SplitsKeep DEF rows
<1>5. ASSUME NEW s \in Servers
      PROVE  /\ RemoveFirst(splits, s) \in Seq(Servers) /\ IsInjective(RemoveFirst(splits, s))
             /\ ToSet(RemoveFirst(splits, s)) = ToSet(splits) \ {s}
  <2>1. CASE s \in ToSet(splits)
    BY <1>2, <2>1, RemovedKeeps
  <2>2. CASE s \notin ToSet(splits)
    <3>1. ~\E i \in 1..Len(splits) : splits[i] = s
      BY <1>2, <2>2, InList
    <3>2. RemoveFirst(splits, s) = splits
      BY <3>1 DEF RemoveFirst
    <3>3. QED
      BY <1>2, <2>2, <3>2
  <2>3. QED
    BY <2>1, <2>2
<1>6. ASSUME NEW s \in Servers, ServConnect(s) PROVE DaemonInv'
  <2>1. linked' = linked \cup {s} /\ splits' = RemoveFirst(splits, s) /\ splitsave' = splitsave /\ db' = db
    BY <1>6 DEF ServConnect
  <2>2. ListInv'
    BY <1>2, <1>5, <2>1 DEF ListInv
  <2>3. QED
    BY <1>2, <1>3, <1>4, <2>1, <2>2
<1>7. ASSUME NEW s \in Servers, ServExit(s) PROVE DaemonInv'
  <2>1. /\ s \in linked /\ linked' = linked \ {s} /\ splitsave' = splitsave /\ db' = db
        /\ splits' = Append(splits, s) \/ splits' = splits
    BY <1>7 DEF ServExit
  <2>2. s \notin ToSet(splits)
    BY <1>2, <2>1
  <2>3. /\ Append(splits, s) \in Seq(Servers) /\ IsInjective(Append(splits, s))
        /\ ToSet(Append(splits, s)) = ToSet(splits) \cup {s}
    BY <1>2, <2>2, AppendKeeps
  <2>4. ListInv'
    BY <1>2, <2>1, <2>3 DEF ListInv
  <2>5. QED
    BY <1>2, <1>3, <1>4, <2>1, <2>4
<1>8. ASSUME NEW s \in Servers, SplitAdd(s) PROVE DaemonInv'
  <2> DEFINE st == [list |-> splits, db |-> db]
             new == AddSplit(st, s, linked)
  <2>1. splits' = new.list /\ db' = new.db /\ linked' = linked /\ splitsave' = splitsave
    BY <1>8 DEF SplitAdd
  <2>2. st \in SplitStates(linked, rows)
    BY <1>2, <1>3 DEF SplitStates
  <2> HIDE DEF st
  <2>3. new \in SplitStates(linked, rows)
    BY <2>2, SplitAdded
  <2> HIDE DEF new
  <2>4. new.list \in Seq(Servers) /\ new.db \in DBsWith(rows) /\ IsInjective(new.list) /\ ToSet(new.list) \cap linked = {}
    BY <2>3 DEF SplitStates
  <2>5. ListInv'
    BY <1>2, <2>1, <2>4 DEF ListInv
  <2>6. QED
    BY <1>2, <1>4, <2>1, <2>4, <2>5
<1>9. ASSUME NEW s \in Servers, SplitForget(s) PROVE DaemonInv'
  <2>1. /\ splits' = RemoveFirst(splits, s) /\ db' = DelRow(db, "SPLIT", s) /\ linked' = linked /\ splitsave' = splitsave
    BY <1>9 DEF SplitForget
  <2>2. ListInv'
    BY <1>2, <1>5, <2>1 DEF ListInv
  <2>3. db' \in DBsWith(rows)
    BY <1>3, <2>1, OthersKeep
  <2>4. QED
    BY <1>2, <1>4, <2>1, <2>2, <2>3
<1>10. ASSUME NEW S \in SUBSET Servers, ExpireSplits(S) PROVE DaemonInv'
  <2> DEFINE I == {i \in DOMAIN splits : splits[i] \notin S}
             J == {i \in DOMAIN splits : splits[i] \in S}
             kept == Picked(splits, I)
             gone == Picked(splits, J)
             d == FoldLeft(LAMBDA e, p : DelRow(e, "SPLIT", p), db, gone)
  <2>1. splits' = kept /\ db' = d /\ linked' = linked /\ splitsave' = splitsave
    BY <1>10 DEF ExpireSplits
  <2>2. I \in SUBSET (1..Len(splits)) /\ J \in SUBSET (1..Len(splits))
    BY <1>2
  <2>3. \A i \in I : splits[i] \in ToSet(splits)
    BY DEF ToSet
  <2> HIDE DEF I, J
  <2>4. kept \in Seq(Servers) /\ IsInjective(kept) /\ ToSet(kept) = {splits[i] : i \in I}
    BY <1>2, <2>2, PickedKeeps, PickedInjective
  <2>5. gone \in Seq(Servers)
    BY <1>2, <2>2, PickedKeeps
  <2> HIDE DEF kept, gone
  <2>6. d \in DBsWith(rows)
    BY <1>3, <2>5, RowsExpired
  <2> HIDE DEF d
  <2>7. ToSet(kept) \cap linked = {}
    BY <1>2, <2>3, <2>4
  <2>8. ListInv'
    BY <1>2, <2>1, <2>4, <2>7 DEF ListInv
  <2>9. QED
    BY <1>2, <1>4, <2>1, <2>6, <2>8
<1>11. CASE LoadSplitserv(Bool(conf.tree, "splitserv", FALSE))
  <2> DEFINE save == Bool(conf.tree, "splitserv", FALSE)
             st == LoadDb(db, save, linked)
  <2>1. splits' = st.list /\ db' = st.db /\ linked' = linked /\ splitsave' = save
    BY <1>11 DEF LoadSplitserv
  <2>2. save \in BOOLEAN
    BY BoolIs
  <2> HIDE DEF save
  <2>3. st \in SplitStates(linked, rows)
    BY <1>3, SplitsLoaded
  <2> HIDE DEF st
  <2>4. st.list \in Seq(Servers) /\ st.db \in DBsWith(rows) /\ IsInjective(st.list) /\ ToSet(st.list) \cap linked = {}
    BY <2>3 DEF SplitStates
  <2>5. ListInv'
    BY <1>2, <2>1, <2>4 DEF ListInv
  <2>6. QED
    BY <1>4, <2>1, <2>2, <2>4, <2>5
<1>12. CASE UnloadSplitserv
  <2>1. tracking /\ splits' = <<>> /\ db' = SaveDb(db) /\ linked' = linked /\ splitsave' = splitsave
    BY <1>12 DEF UnloadSplitserv
  <2>2. SaveDb(db) = SaveDbEvent
    BY <2>1 DEF SaveDbEvent
  <2>3. SaveDbEvent \in DBsWith(rows)
    BY Saves DEF DaemonInv, rows
  <2>4. ListInv'
    BY <1>2, <2>1, NothingYet DEF ListInv
  <2>5. QED
    BY <1>2, <1>4, <2>1, <2>2, <2>3, <2>4
<1>13. QED
  <2>1. \/ \E s \in Servers : ServConnect(s) \/ ServExit(s) \/ SplitAdd(s) \/ SplitForget(s)
        \/ \E S \in SUBSET Servers : ExpireSplits(S)
        \/ LoadSplitserv(Bool(conf.tree, "splitserv", FALSE))
        \/ UnloadSplitserv
    BY DEF SplitStep
  <2>2. QED
    BY <1>6, <1>7, <1>8, <1>9, <1>10, <1>11, <1>12, <2>1, Zenon

LEMMA DaemonNext == DaemonInv /\ RightsInv /\ [Next]_vars => DaemonInv'
<1> SUFFICES ASSUME DaemonInv, RightsInv, [Next]_vars PROVE DaemonInv'
  OBVIOUS
<1>1. CASE Start \/ DoRestart
  BY <1>1, BootKeeps DEF Start, DoRestart
<1>2. CASE DbUpdate \/ DbUpdateFails \/ AtExit \/ RestartFaults \/ Crash
  BY <1>2, SavingKeeps
<1>3. CASE Edit
  <2>1. disk' \in scope.disks /\ UNCHANGED <<conf, db, file, accessVars, splitVars, proc, scope, past>>
    BY <1>3 DEF Edit
  <2>2. disk' \in Disks
    BY <2>1, ScopesAssumption DEF DaemonInv, ConfInv
  <2>3. /\ conf' = conf /\ db' = db /\ file' = file /\ access' = access /\ users' = users /\ operonly' = operonly
        /\ unnoticed' = unnoticed /\ splits' = splits /\ linked' = linked /\ splitsave' = splitsave
        /\ proc' = proc /\ scope' = scope /\ past' = past
    BY <2>1 DEF accessVars, splitVars
  <2>4. ConfInv' /\ ListInv'
    BY <2>2, <2>3 DEF DaemonInv, ConfInv, ListInv
  <2>5. RowsInv'
    BY <2>3 DEF DaemonInv, RowsInv, Up
  <2>6. QED
    BY <2>3, <2>4, <2>5 DEF DaemonInv
<1>4. CASE Rehash
  BY <1>4, RehashKeeps
<1>5. CASE Sync \/ UNCHANGED vars
  <2>1. /\ disk' = disk /\ conf' = conf /\ db' = db /\ file' = file /\ access' = access /\ operonly' = operonly
        /\ splits' = splits /\ splitsave' = splitsave /\ proc' = proc /\ scope' = scope /\ past' = past
        /\ linked' = linked /\ users' = users /\ unnoticed' = unnoticed
    BY <1>5 DEF Sync, vars, accessVars, splitVars
  <2>2. unnoticed' \subseteq {u \in Users : users'[u].here}
    BY <2>1 DEF DaemonInv
  <2>3. QED
    BY <2>1, <2>2, UsersKeep
<1>6. CASE LoseUplink
  <2>1. /\ UNCHANGED <<disk, conf, db, file, access, operonly, splits, splitsave, proc, scope, past>>
        /\ linked' = {} /\ unnoticed' = {}
    BY <1>6 DEF LoseUplink
  <2>2. QED
    BY <2>1, UsersKeep
<1>7. CASE UserStep
  BY <1>7, UserStepKeeps
<1>8. CASE AccessStep
  BY <1>8, AccessStepKeeps
<1>9. CASE Exempt
  <2>1. /\ db' = AddRow(db, "EX", "host", <<>>)
        /\ UNCHANGED <<disk, conf, file, accessVars, splitVars, proc, scope, past>>
    BY <1>9 DEF Exempt
  <2>2. db \in DBsWith(Rows(db, "AC"))
    BY DEF DaemonInv, DBsWith
  <2>3. db' \in DBsWith(Rows(db, "AC"))
    BY <2>1, <2>2, OthersKeep
  <2>4. splits' = splits /\ linked' = linked /\ splitsave' = splitsave
    BY <2>1 DEF splitVars
  <2>5. ListInv' /\ splitsave' \in BOOLEAN
    BY <2>4 DEF DaemonInv, ConfInv, ListInv
  <2>6. QED
    BY <2>1, <2>3, <2>5, SplitsKeep
<1>10. CASE SplitStep
  BY <1>10, SplitStepKeeps
<1>11. QED
  BY <1>1, <1>2, <1>3, <1>4, <1>5, <1>6, <1>7, <1>8, <1>9, <1>10, Zenon DEF Next

-----------------------------------------------------------------------------
(* What was saved is what the file tells *)

\* The file was written from a database with a row for every entry that was saved,
\* and with the splits that were tracked.
Wrote(d, saved) ==
    /\ d \in DBs /\ saved.entries \subseteq Keys(Rows(d, "AC"))
    /\ saved.tracked => /\ saved.splits \in Seq(Servers) /\ IsInjective(saved.splits)
                        /\ Rows(d, "SPLIT") = SplitRows(saved.splits)

FileInv == past.whole => \E d \in DBs : file = Lines(d) /\ Wrote(d, past.saved)

LEMMA NoLines == Lines(<<>>) = <<>>
<1> DEFINE s == [i \in DOMAIN <<>> |-> [j \in DOMAIN <<>>[i].rows |-> Line(<<>>[i].name, <<>>[i].rows[j])]]
<1>1. s = <<>>
  OBVIOUS
<1>2. Lines(<<>>) = FlattenSeq(s)
  BY DEF Lines
<1> HIDE DEF s
<1>3. QED
  BY <1>1, <1>2 DEF FlattenSeq

LEMMA FileInit == Init => FileInv
<1> SUFFICES ASSUME Init PROVE FileInv
  OBVIOUS
<1>1. file = <<>> /\ past = NoPast
  BY DEF Init
<1>2. past.saved.entries = {} /\ ~past.saved.tracked
  BY <1>1 DEF NoPast
<1>3. Wrote(<<>>, past.saved)
  BY <1>2, NothingYet DEF Wrote
<1>4. QED
  BY <1>1, <1>3, NoLines, NothingYet DEF FileInv

\* What is saved has its rows, and the splits are those of the list.
LEMMA SaveWrites ==
    ASSUME DaemonInv
    PROVE  Wrote(SaveDbEvent, Saved)
<1> DEFINE rows == Rows(db, "AC")
           list == IF splitsave THEN splits ELSE <<>>
           d == DelRows(db, "SPLIT")
<1>1. SaveDbEvent \in DBs /\ Rows(SaveDbEvent, "AC") = rows
  BY LinesSaved
<1>2. Saved.entries = OursIn(access) /\ Saved.splits = list /\ Saved.tracked = tracking
  BY DEF Saved, Ours, OursIn
<1>3. OursIn(access) \subseteq Keys(rows)
  BY DEF DaemonInv, RowsInv
<1>4. list \in Seq(Servers) /\ IsInjective(list)
  BY NothingYet DEF DaemonInv, ListInv
<1>5. ASSUME tracking PROVE Rows(SaveDbEvent, "SPLIT") = SplitRows(list)
  <2>1. SaveDbEvent = Written(d, list)
    <3>1. SaveDbEvent = SaveDb(db)
      BY <1>5 DEF SaveDbEvent
    <3>2. SaveDb(db) = Written(d, list)
      BY Zenon DEF SaveDb, Written
    <3>3. QED
      BY <3>1, <3>2
  <2>2. db \in DBsWith(rows)
    BY DEF DaemonInv, DBsWith
  <2> HIDE DEF rows
  <2>3. d \in DBsWith(rows) /\ Rows(d, "SPLIT") = <<>>
    BY <2>2, RowsDeleted, SplitRowsGone
  <2> HIDE DEF d, list
  <2>4. Rows(Written(d, list), "SPLIT") = SplitRows(list)
    BY <1>4, <2>3, SplitRowsWritten
  <2>5. QED
    BY <2>1, <2>4
<1>6. QED
  <2> HIDE DEF list, rows
  <2>1. QED
    BY <1>1, <1>2, <1>3, <1>4, <1>5 DEF Wrote

LEMMA FileNext == DaemonInv /\ FileInv /\ [Next]_vars => FileInv'
<1> SUFFICES ASSUME DaemonInv, FileInv, [Next]_vars PROVE FileInv'
  OBVIOUS
<1>0. past = [saved |-> past.saved, whole |-> past.whole, early |-> past.early]
  BY DEF DaemonInv
<1>1. ASSUME file' = file, past'.saved = past.saved, past'.whole = past.whole PROVE FileInv'
  BY <1>1 DEF FileInv
<1>2. ASSUME ~past'.whole PROVE FileInv'
  BY <1>2 DEF FileInv
<1>3. ASSUME file' = Lines(SaveDbEvent), past' = [past EXCEPT !.saved = Saved, !.whole = TRUE] PROVE FileInv'
  <2>1. past'.saved = Saved
    BY <1>0, <1>3
  <2>2. SaveDbEvent \in DBs /\ Wrote(SaveDbEvent, Saved)
    BY LinesSaved, SaveWrites
  <2>3. QED
    BY <1>3, <2>1, <2>2 DEF FileInv
<1>4. CASE Start \/ DoRestart
  <2>1. file' = file /\ past' = [past EXCEPT !.early = FALSE]
    BY <1>4 DEF Start, DoRestart, Boot
  <2>2. QED
    BY <1>0, <1>1, <2>1
<1>5. CASE DbUpdate \/ AtExit
  BY <1>3, <1>5 DEF DbUpdate, AtExit
<1>6. CASE DbUpdateFails
  <2>1. past' = [past EXCEPT !.whole = FALSE]
    BY <1>6 DEF DbUpdateFails
  <2>2. QED
    BY <1>0, <1>2, <2>1
<1>7. CASE RestartFaults \/ Crash
  <2>1. (file' = file /\ past' = past) \/ past' = [past EXCEPT !.whole = FALSE]
    BY <1>7 DEF RestartFaults, Crash
  <2>2. QED
    BY <1>0, <1>1, <1>2, <2>1
<1>8. CASE Rehash
  <2>1. file' = file /\ past' = [past EXCEPT !.early = past.early \/ (sync # "RUNNING" /\ Ours # {})]
    BY <1>8 DEF Rehash
  <2>2. QED
    BY <1>0, <1>1, <2>1
<1>9. CASE AccessStep
  <2>1. past' = past /\ file' = file
    BY <1>9 DEF AccessStep, AccessAdd, AccessDel
  <2>2. QED
    BY <1>1, <2>1
<1>10. CASE SplitStep
  <2>1. past' = past /\ file' = file
    BY <1>10 DEF SplitStep, ServConnect, ServExit, SplitAdd, SplitForget, ExpireSplits, LoadSplitserv, UnloadSplitserv
  <2>2. QED
    BY <1>1, <2>1
<1>11. CASE Edit \/ Sync \/ LoseUplink \/ UserStep \/ Exempt \/ UNCHANGED vars
  <2>1. past' = past /\ file' = file
    BY <1>11 DEF Edit, Sync, LoseUplink, UserStep, Exempt, vars
  <2>2. QED
    BY <1>1, <2>1
<1>12. QED
  BY <1>4, <1>5, <1>6, <1>7, <1>8, <1>9, <1>10, <1>11, Zenon DEF Next

\* What a start makes of a file that was written whole.
LEMMA BootRestores ==
    ASSUME DaemonInv, FileInv, Boot, past.whole, Readable(file) = file
    PROVE  /\ \A name \in past.saved.entries : \E l \in ToSet(file), a \in ToSet(access') :
                 /\ l.table = "AC" /\ l.key = name /\ a.name = name /\ a.nonConfig
                 /\ a.flags = l.value[1] /\ l.value[2] \in a.masks
           /\ splitsave' /\ past.saved.tracked => splits' = past.saved.splits
<1> DEFINE new  == Fresh(disk)
           tree == new.tree
           save == Bool(tree, "splitserv", FALSE)
           rows == LoadRows(file)
           mine == Rows(rows, "AC")
           list == BuildAccessList(<<>>, tree)
<1>1. /\ access' = LoadAccess(list, mine) /\ splitsave' = save /\ splits' = LoadDb(rows, save, {}).list
  BY DEF Boot
<1>2. new \in ConfStates
  BY ConfFresh DEF DaemonInv, ConfInv
<1> HIDE DEF new
<1>3. tree \in Seq(Items)
  BY <1>2, ConfIs
<1> HIDE DEF tree
<1>4. save \in BOOLEAN
  BY BoolIs
<1> HIDE DEF save
<1>5. list \in AccessLists
  BY <1>3, NothingYet, ListBuilt
<1> HIDE DEF list
<1>6. PICK d \in DBs : file = Lines(d) /\ Wrote(d, past.saved)
  BY DEF FileInv
<1>7. rows = LoadRows(Lines(d)) /\ Readable(Lines(d)) = Lines(d) /\ "AC" \in Tables /\ "SPLIT" \in Tables
  BY <1>6 DEF Tables
<1>8. rows \in DBs
  BY RowsLoaded DEF DaemonInv
<1> HIDE DEF rows
<1>9. mine = Rows(d, "AC") /\ Rows(rows, "SPLIT") = Rows(d, "SPLIT")
  BY <1>7, RowsComeBack
<1>10. mine \in Seq(RowsOf("AC")) /\ Keyed(mine)
  BY <1>8, RowsAre
<1>11. rows \in DBsWith(mine)
  BY <1>8 DEF DBsWith
<1> HIDE DEF mine
<1>12. ASSUME NEW name \in past.saved.entries
       PROVE  \E l \in ToSet(file), a \in ToSet(access') :
                 /\ l.table = "AC" /\ l.key = name /\ a.name = name /\ a.nonConfig
                 /\ a.flags = l.value[1] /\ l.value[2] \in a.masks
  <2>1. name \in Keys(mine)
    BY <1>6, <1>9 DEF Wrote
  <2>2. PICK j \in 1..Len(mine) : mine[j].key = name
    BY <1>10, <2>1 DEF Keys, ToSet
  <2>3. PICK n : StandAt(Lines(d), "AC", mine, n)
    BY <1>7, <1>9, LinesStand
  <2> DEFINE row == mine[j]
             l == file[n + j]
  <2>4. l = Line("AC", row) /\ n + j \in 1..Len(file)
    <3>1. /\ n \in Nat /\ n + Len(mine) <= Len(file) /\ file[n + j] = Line("AC", mine[j])
      BY <1>6, <2>3 DEF StandAt
    <3>2. file \in Seq(FileLines)
      BY DEF DaemonInv
    <3>3. j \in Nat /\ j <= Len(mine) /\ Len(mine) \in Nat /\ Len(file) \in Nat /\ 1 <= j
      BY <1>10, <3>2
    <3>4. QED
      BY <3>1, <3>3
  <2>5. l.table = "AC" /\ l.key = name /\ l.value = row.value
    <3> HIDE DEF l
    <3>1. QED
      BY <2>2, <2>4 DEF Line
  <2>6. l \in ToSet(file)
    <3>1. file \in Seq(FileLines)
      BY DEF DaemonInv
    <3>2. QED
      BY <2>4, <3>1 DEF ToSet
  <2>7. Given(access', name, l.value)
    <3>1. Given(LoadAccess(list, mine), mine[j].key, mine[j].value)
      BY <1>5, <1>10, RowsGiven
    <3> HIDE DEF l
    <3>2. QED
      BY <1>1, <2>2, <2>5, <3>1
  <2> HIDE DEF l
  <2>8. PICK i \in 1..Len(access') : /\ access'[i].name = name /\ access'[i].nonConfig
                                     /\ access'[i].flags = l.value[1] /\ l.value[2] \in access'[i].masks
    BY <2>7 DEF Given
  <2>9. access' \in AccessLists
    BY <1>1, <1>5, <1>10, ListLoaded
  <2>10. access'[i] \in ToSet(access')
    BY <2>9 DEF AccessLists, ToSet
  <2>11. QED
    BY <2>5, <2>6, <2>8, <2>10
<1>13. ASSUME save, past.saved.tracked PROVE splits' = past.saved.splits
  <2> DEFINE p == past.saved.splits
  <2>1. p \in Seq(Servers) /\ IsInjective(p) /\ Rows(rows, "SPLIT") = SplitRows(p)
    BY <1>6, <1>9, <1>13 DEF Wrote
  <2> HIDE DEF p
  <2>2. LoadDb(rows, TRUE, {}).list = p
    BY <1>11, <2>1, SplitsInOrder
  <2>3. save = TRUE
    BY <1>4, <1>13
  <2>4. QED
    BY <1>1, <2>2, <2>3 DEF p
<1>14. QED
  BY <1>1, <1>12, <1>13

-----------------------------------------------------------------------------

\* No server is on the list of splits twice or while it is linked, whatever was
\* loaded, saved, forgotten or lost with the uplink.
THEOREM SplitsApartHolds == Spec => []SplitsApart
<1>1. DaemonInv => SplitsApart
  BY DEF DaemonInv, ListInv, SplitsApart
<1>2. QED
  BY <1>1, RightsInit, RightsNext, DaemonInit, DaemonNext, PTL DEF Spec

\* The state is of the right form, and as long as no rehash came before the end of
\* a burst the entries of the database's own are exactly those that have a row.
THEOREM RowsRightHolds == Spec => []RowsRight
<1>1. DaemonInv => RowsRight
  <2> SUFFICES ASSUME DaemonInv PROVE RowsRight
    OBVIOUS
  <2>1. /\ disk \in Disks /\ conf \in ConfStates /\ operonly \in BOOLEAN /\ splitsave \in BOOLEAN
        /\ linked \subseteq Servers /\ splits \in Seq(Servers) /\ db \in DBs /\ access \in AccessLists
        /\ unnoticed \subseteq {u \in Users : users[u].here}
    BY DEF DaemonInv, ConfInv, ListInv
  <2>2. ConfTypeOK
    BY <2>1, ConfIs DEF ConfTypeOK
  <2>3. DbTypeOK
    <3>1. DOMAIN db = 1..Len(db)
      BY <2>1 DEF DBs
    <3>2. QED
      BY <2>1, <3>1 DEF DbTypeOK, DBs, Keyed
  <2>4. AccessTypeOK
    <3>1. DOMAIN access = 1..Len(access) /\ access \in Seq(Accesses)
      BY <2>1 DEF AccessLists
    <3>2. \A i \in DOMAIN access : access[i] \in Accesses
      BY <3>1
    <3>3. \A i \in DOMAIN access : access[i].nonConfig \in BOOLEAN /\ access[i].masks \subseteq Masks
      BY <3>2 DEF Accesses
    <3>4. \A i, j \in DOMAIN access : access[i].name = access[j].name => i = j
      BY <2>1, <3>1 DEF AccessLists
    <3>5. QED
      BY <2>1, <3>3, <3>4 DEF AccessTypeOK
  <2>5. SplitsTypeOK
    BY <2>1, InList DEF SplitsTypeOK
  <2>6. RowsAgree
    BY DEF DaemonInv, RowsInv, RowsAgree, Keys, OursIn, Ours
  <2>7. QED
    BY <2>2, <2>3, <2>4, <2>5, <2>6 DEF RowsRight, TypeOK
<1>2. QED
  BY <1>1, RightsInit, RightsNext, DaemonInit, DaemonNext, PTL DEF Spec

\* A start from a file that was written whole has every entry and every split of that
\* time again, and a rehash that stays below the limit of includes has the directives
\* that a start would read: the configuration is the least set of files that has all
\* it includes, in whatever order and how often they are read.
THEOREM FilesRestoredHolds == Spec => FilesRestored
<1> DEFINE Inv == DaemonInv /\ RightsInv /\ FileInv
<1>1. Inv /\ [Next]_vars => [ ((Start \/ DoRestart) /\ past.whole /\ Readable(file) = file) =>
          /\ \A name \in past.saved.entries : \E l \in ToSet(file), a \in ToSet(access') :
                /\ l.table = "AC" /\ l.key = name /\ a.name = name /\ a.nonConfig
                /\ a.flags = l.value[1] /\ l.value[2] \in a.masks
          /\ splitsave' /\ past.saved.tracked => splits' = past.saved.splits ]_vars
  <2> SUFFICES ASSUME DaemonInv, FileInv, Start \/ DoRestart, past.whole, Readable(file) = file
               PROVE  /\ \A name \in past.saved.entries : \E l \in ToSet(file), a \in ToSet(access') :
                            /\ l.table = "AC" /\ l.key = name /\ a.name = name /\ a.nonConfig
                            /\ a.flags = l.value[1] /\ l.value[2] \in a.masks
                      /\ splitsave' /\ past.saved.tracked => splits' = past.saved.splits
    OBVIOUS
  <2>1. Boot
    BY DEF Start, DoRestart
  <2>2. QED
    BY <2>1, BootRestores
<1>2. Inv /\ [Next]_vars => [Rehash /\ conf'.cnt <= MaxInclude => ToSet(conf'.tree) = ToSet(Fresh(disk).tree)]_vars
  <2> SUFFICES ASSUME DaemonInv, Rehash, conf'.cnt <= MaxInclude PROVE ToSet(conf'.tree) = ToSet(Fresh(disk).tree)
    OBVIOUS
  <2>1. conf' = Reloaded
    BY DEF Rehash
  <2>2. disk \in Disks /\ conf \in ConfStates
    BY DEF DaemonInv, ConfInv
  <2>3. QED
    BY <2>1, <2>2, ReloadedIsFresh
<1>3. Init => Inv
  BY RightsInit, DaemonInit, FileInit
<1>4. Inv /\ [Next]_vars => Inv'
  BY RightsNext, DaemonNext, FileNext
<1>5. QED
  BY <1>1, <1>2, <1>3, <1>4, PTL DEF Spec, SavedIsRestored, ConfCurrent, FilesRestored

=============================================================================
