------------------------------- MODULE Access -------------------------------
(***************************************************************************)
(* access.c and g_access.c: the access list, from the configuration and    *)
(* from the table "AC", and the rights its entries give the users.  A      *)
(* host mask is known by the users it matches under each of their nicks    *)
(* and idents; the masks of an entry are a set, for their order decides    *)
(* nothing.                                                                *)
(***************************************************************************)
EXTENDS Config, Database, FiniteSets

CONSTANTS
    Users, Nicks, Idents,
    Masks, Matches,  \* Matches[m]: the <<user, nick, ident>> that mask m matches
    ByAddress,       \* masks that match by the address of a user, not by his host
    Names, Flags,    \* what operators give with ACCESS ADD
    MaxNamed         \* bound: entries of the list

\* Files are lists of items, include other files that exist, maybe empty, and
\* give hosts that are masks; a free slot is no file.
ASSUME DisksAssumption ==
    /\ MaxInclude \in Nat
    /\ \A files \in Disks :
          /\ MainFile \in DOMAIN files /\ NoFile \notin DOMAIN files
          /\ \A f \in DOMAIN files :
                /\ files[f] \in Seq(ToSet(files[f]))
                /\ \A d \in ToSet(files[f]) : /\ d.kind = "include" => d.file \in DOMAIN files
                                              /\ d.kind = "access" => d.mask \in Masks

VARIABLES
    access,    \* accesslist: [name, flags, masks, nonConfig]
    users,     \* user -> [here, oper, service, nick, ident, ip, rights]; ip: the address is known
    operonly,  \* CfgSettings.operonly, which only the start reads
    unnoticed  \* history: users whose nick, ident or service mode changed after their rights were set

accessVars == <<access, users, operonly, unnoticed>>

NoFlags == "u"   \* ACC_FLAG_USER
Unset   == ""    \* what new_user leaves

Gone == [here |-> FALSE, oper |-> FALSE, service |-> FALSE, nick |-> CHOOSE n \in Nicks : TRUE,
         ident |-> CHOOSE i \in Idents : TRUE, ip |-> FALSE, rights |-> Unset]

----------------------------------------------------------------------------
(* The list. *)

AccessExists(list, name) == SelectInSeq(list, LAMBDA a : a.name = name)

NewAccess(list, name) ==
    IF AccessExists(list, name) # 0 THEN list
    ELSE Append(list, [name |-> name, flags |-> NoFlags, masks |-> {}, nonConfig |-> FALSE])

\* new_access, set_access_flag and add_access_host for one entry; `ours' sets
\* non_config, which nothing resets.
Put(list, name, flags, mask, ours) ==
    LET l == NewAccess(list, name)
        i == AccessExists(l, name)
    IN  [l EXCEPT ![i] = [l[i] EXCEPT !.flags = flags, !.masks = @ \cup {mask}, !.nonConfig = @ \/ ours]]

\* build_access_list: entries that are there already are extended.
BuildAccessList(list, tree) ==
    FoldLeft(LAMBDA l, d : Put(l, d.name, d.flags, d.mask, FALSE), list, Base(tree, "access"))

\* load_access: the rows after the configuration.
LoadAccess(list, rows) ==
    FoldLeft(LAMBDA l, r : Put(l, r.key, r.value[1], r.value[2], TRUE), list, rows)

\* DestAccList: entries of the database stay, but only once we are synchronised.
DestAccList(list, running) == Picked(list, {i \in DOMAIN list : list[i].nonConfig /\ running})

----------------------------------------------------------------------------
(* The rights of a user. *)

\* find_access: the first entry with a mask that matches.
FindAccess(list, u, x) ==
    SelectInSeq(list, LAMBDA a : \E m \in a.masks :
                         <<u, x.nick, x.ident>> \in Matches[m] /\ (m \in ByAddress => x.ip))

\* What the list gives to the user u with the fields x.
RightsOf(list, u, x, opers) ==
    LET i == FindAccess(list, u, x)
    IN  IF i = 0 \/ (opers /\ ~x.oper) THEN NoFlags ELSE list[i].flags

\* setAccess does not look at services.
SetAccess(list, u, x, opers) == IF x.service THEN x.rights ELSE RightsOf(list, u, x, opers)

\* refresh_access: services are skipped, and the others too when only opers have rights.
RefreshAccess(list) ==
    LET skipped(u) == ~users[u].here \/ users[u].service \/ (operonly /\ ~users[u].oper)
    IN  /\ users' = [u \in Users |->
                       IF skipped(u) THEN users[u]
                       ELSE [users[u] EXCEPT !.rights = SetAccess(list, u, users[u], operonly)]]
        /\ unnoticed' = {u \in unnoticed : skipped(u)}

----------------------------------------------------------------------------
(* Users come, go and change; AddUser and an oper mode set their access, nothing *)
(* else does.                                                                      *)

\* AddUser: the modes are read before the address is filled in, letter by letter; `ahead': the
\* service mode stands before the oper mode.
UserConnects(u, nick, ident, oper, service, ahead) ==
    /\ ~users[u].here /\ \A v \in Users : users[v].here => users[v].nick # nick
    /\ LET x(s, ip, r) == [here |-> TRUE, oper |-> oper, service |-> s, nick |-> nick,
                            ident |-> ident, ip |-> ip, rights |-> r]
           modes == IF oper THEN SetAccess(access, u, x(service /\ ahead, FALSE, Unset), operonly) ELSE Unset
       IN  users' = [users EXCEPT ![u] =
                        x(service, TRUE, SetAccess(access, u, x(service, TRUE, modes), operonly))]
    /\ UNCHANGED <<access, operonly, unnoticed>>

UserQuits(u) ==
    /\ users[u].here
    /\ users' = [users EXCEPT ![u] = Gone]
    /\ unnoticed' = unnoticed \ {u}
    /\ UNCHANGED <<access, operonly>>

OperMode(u) ==
    /\ users[u].here
    /\ LET x == [users[u] EXCEPT !.oper = ~@]
       IN  users' = [users EXCEPT ![u] = [x EXCEPT !.rights = SetAccess(access, u, x, operonly)]]
    /\ unnoticed' = IF users[u].service THEN unnoticed ELSE unnoticed \ {u}
    /\ UNCHANGED <<access, operonly>>

\* A user changes in a way that find_access or setAccess would see.
Changes(u, x) ==
    /\ users[u].here
    /\ users' = [users EXCEPT ![u] = x]
    /\ unnoticed' = unnoticed \cup {u}
    /\ UNCHANGED <<access, operonly>>

NewNick(u, nick) ==
    /\ \A v \in Users : users[v].here => users[v].nick # nick
    /\ Changes(u, [users[u] EXCEPT !.nick = nick])

\* FIDENT, which the two inspircd modules have.
Fident(u, ident) == Changes(u, [users[u] EXCEPT !.ident = ident])

ServiceMode(u) == Changes(u, [users[u] EXCEPT !.service = ~@])

----------------------------------------------------------------------------
(* ACCESS ADD and ACCESS DEL. *)

\* An entry of that name, whoever made it, is changed and is now ours.
AccessAdd(name, flags, mask) ==
    /\ Len(access) < MaxNamed \/ AccessExists(access, name) # 0
    /\ access' = Put(access, name, flags, mask, TRUE)
    /\ db' = AddRow(db, "AC", name, <<flags, mask>>)
    /\ RefreshAccess(access')
    /\ UNCHANGED <<file, operonly>>

\* A wrong variant of AccessDel: the entry goes, the rights stay until the next refresh.
AccessDelSilent(name) ==
    /\ AccessExists(access, name) # 0
    /\ access' = Picked(access, {i \in DOMAIN access : access[i].name # name})
    /\ db' = DelRow(db, "AC", name)
    /\ UNCHANGED <<users, unnoticed, file, operonly>>

\* A name that is not on the list is answered before its row is looked for.
AccessDel(name) ==
    /\ AccessExists(access, name) # 0
    /\ access' = Picked(access, {i \in DOMAIN access : access[i].name # name})
    /\ db' = DelRow(db, "AC", name)
    /\ RefreshAccess(access')
    /\ UNCHANGED <<file, operonly>>

----------------------------------------------------------------------------
AccessTypeOK ==
    /\ \A i, j \in DOMAIN access : access[i].name = access[j].name => i = j
    /\ \A i \in DOMAIN access : access[i].nonConfig \in BOOLEAN /\ access[i].masks \subseteq Masks
    /\ operonly \in BOOLEAN /\ unnoticed \subseteq {u \in Users : users[u].here}

\* A user has the rights of the first entry that matches now, through every ADD, DEL, rehash
\* and change of the oper mode.  Services are not looked at: they keep what they had when the
\* mode came.  A change of nick or of ident, and the loss of the service mode, go unnoticed
\* until the next time the rights are set.
RightsFollowList ==
    \A u \in Users : users[u].here /\ ~users[u].service /\ u \notin unnoticed =>
        users[u].rights = RightsOf(access, u, users[u], operonly)

=============================================================================
