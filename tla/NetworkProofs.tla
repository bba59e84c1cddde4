--------------------------- MODULE NetworkProofs ---------------------------
(***************************************************************************)
(* Proofs about Network, for every number of users, nicks, channels and    *)
(* servers.  Everything rests on the inductive invariant NetInv; a channel *)
(* is freed on usercnt, so that the two lists of members agree only        *)
(* because usercnt covers them, and the other way round.                   *)
(***************************************************************************)
EXTENDS Network, FiniteSetTheorems, TLAPS

\* Taking the users T off a channel of users S whose count is n: the count
\* still covers those who remain, and when it reaches zero nobody does.
LEMMA CountAfterLeave ==
    ASSUME NEW S, IsFiniteSet(S), NEW T \in SUBSET S,
           NEW n \in Int, n >= Cardinality(S)
    PROVE  /\ n - Cardinality(T) \in Int
           /\ n - Cardinality(T) >= Cardinality(S \ T)
           /\ n - Cardinality(T) <= 0 => S \ T = {}
<1>1. S \cap T = T
  OBVIOUS
<1>2. /\ IsFiniteSet(S \ T)
      /\ Cardinality(S \ T) = Cardinality(S) - Cardinality(T)
  BY <1>1, FS_Difference
<1>3. Cardinality(S) \in Nat /\ Cardinality(T) \in Nat /\ Cardinality(S \ T) \in Nat
  BY <1>2, FS_CardinalityType, FS_Subset
<1>4. Cardinality(S \ T) = 0 => S \ T = {}
  BY <1>2, FS_EmptySet
<1>5. QED
  BY <1>2, <1>3, <1>4

\* Putting the users T, none of them there yet, on a channel of users S.
LEMMA CountAfterJoin ==
    ASSUME NEW S, IsFiniteSet(S), NEW T, IsFiniteSet(T), S \cap T = {},
           NEW n \in Int, n >= Cardinality(S)
    PROVE  /\ n + Cardinality(T) \in Nat
           /\ n + Cardinality(T) >= Cardinality(S \cup T)
<1>1. Cardinality(S \cup T) = Cardinality(S) + Cardinality(T)
  <2>1. Cardinality(S \cap T) = 0
    BY FS_EmptySet
  <2>2. Cardinality(S) \in Nat /\ Cardinality(T) \in Nat
    BY FS_CardinalityType
  <2>3. Cardinality(S \cup T) =
            Cardinality(S) + Cardinality(T) - Cardinality(S \cap T)
    BY FS_Union
  <2>4. QED
    BY <2>1, <2>2, <2>3
<1>2. Cardinality(S) \in Nat /\ Cardinality(T) \in Nat
  BY FS_CardinalityType
<1>3. QED
  BY <1>1, <1>2

\* Leave keeps the two lists in step and frees no channel under a member.
LEMMA LeaveKeeps ==
    ASSUME NetInv, NEW out \in [Chan -> SUBSET Addr],
           \A c \in Chan : out[c] \subseteq members[c],
           Leave(out)
    PROVE  /\ chans' \in [Addr -> SUBSET Chan]
           /\ channels' \in SUBSET Chan
           /\ members' \in [Chan -> SUBSET Addr]
           /\ usercnt' \in [Chan -> Nat]
           /\ \A a \in Addr, c \in Chan : a \in members'[c] <=> c \in chans'[a]
           /\ \A c \in Chan : members'[c] = members[c] \ out[c]
           /\ \A a \in Addr : chans'[a] \subseteq channels'
           /\ CountCovers'
<1> DEFINE left(c) == usercnt[c] - Cardinality(out[c])
           freed == {c \in channels : out[c] # {} /\ left(c) <= 0}
<1>1. /\ channels' = channels \ freed
      /\ members' = [c \in Chan |-> members[c] \ out[c]]
      /\ usercnt' = [c \in Chan |-> IF c \in freed THEN 0 ELSE left(c)]
      /\ chans' = [a \in Addr |-> {c \in chans[a] : a \notin out[c]}]
  BY DEF Leave
<1>2. TypeOK /\ MembershipAgrees /\ CountCovers
  BY DEF NetInv
<1>3. \A c \in Chan : IsFiniteSet(members[c]) /\ IsFiniteSet(out[c])
  BY <1>2, AddrFinite, FS_Subset DEF TypeOK
<1>4. \A c \in Chan : left(c) \in Int
  BY <1>2, <1>3, FS_CardinalityType DEF TypeOK
<1>5. \A c \in channels : /\ left(c) >= Cardinality(members[c] \ out[c])
                          /\ left(c) <= 0 => members[c] \ out[c] = {}
  <2> SUFFICES ASSUME NEW c \in channels
               PROVE  /\ left(c) >= Cardinality(members[c] \ out[c])
                      /\ left(c) <= 0 => members[c] \ out[c] = {}
    OBVIOUS
  <2>1. c \in Chan /\ usercnt[c] \in Int /\ usercnt[c] >= Cardinality(members[c])
    BY <1>2 DEF TypeOK, CountCovers
  <2>2. out[c] \in SUBSET members[c] /\ IsFiniteSet(members[c])
    BY <1>3, <2>1
  <2> DEFINE S == members[c]
             T == out[c]
             n == usercnt[c]
  <2>3. IsFiniteSet(S) /\ T \in SUBSET S /\ n \in Int /\ n >= Cardinality(S)
    BY <2>1, <2>2
  <2>4. /\ n - Cardinality(T) >= Cardinality(S \ T)
        /\ n - Cardinality(T) <= 0 => S \ T = {}
    <3> HIDE DEF S, T, n
    <3>1. QED
      BY <2>3, CountAfterLeave
  <2>5. QED
    BY <2>4
<1>6. /\ chans' \in [Addr -> SUBSET Chan]
      /\ channels' \in SUBSET Chan
      /\ members' \in [Chan -> SUBSET Addr]
  BY <1>1, <1>2 DEF TypeOK
<1>7. usercnt' \in [Chan -> Nat]
  <2> SUFFICES ASSUME NEW c \in Chan
               PROVE  c \in freed \/ left(c) \in Nat
    BY <1>1, Zenon
  <2>1. CASE out[c] = {}
    <3>1. Cardinality(out[c]) = 0
      BY <2>1, FS_EmptySet
    <3>2. QED
      BY <1>2, <3>1 DEF TypeOK
  <2>2. CASE out[c] # {}
    <3>1. c \in channels
      BY <1>2, <2>2 DEF TypeOK, MembershipAgrees
    <3>2. c \in freed \/ ~(left(c) <= 0)
      BY <2>2, <3>1
    <3>3. QED
      BY <1>4, <3>2
  <2>3. QED
    BY <2>1, <2>2
<1>8. \A a \in Addr, c \in Chan : a \in members'[c] <=> c \in chans'[a]
  BY <1>1, <1>2 DEF TypeOK, MembershipAgrees
<1>9. \A a \in Addr : chans'[a] \subseteq channels'
  <2> SUFFICES ASSUME NEW a \in Addr, NEW c \in chans'[a]
               PROVE  c \in channels'
    OBVIOUS
  <2>1. c \in chans[a] /\ a \notin out[c]
    BY <1>1
  <2>2. c \in channels /\ c \in Chan /\ a \in members[c] \ out[c]
    BY <1>2, <2>1 DEF TypeOK, MembershipAgrees
  <2>3. c \notin freed
    BY <1>5, <2>2
  <2>4. QED
    BY <1>1, <2>2, <2>3
<1>10. CountCovers'
  <2> SUFFICES ASSUME NEW c \in channels'
               PROVE  usercnt'[c] >= Cardinality(members'[c])
    BY DEF CountCovers
  <2>1. c \in channels /\ c \notin freed /\ c \in Chan
    BY <1>1, <1>2 DEF TypeOK
  <2>2. usercnt'[c] = left(c) /\ members'[c] = members[c] \ out[c]
    BY <1>1, <2>1
  <2>3. QED
    BY <1>5, <2>1, <2>2
<1>11. QED
  BY <1>1, <1>6, <1>7, <1>8, <1>9, <1>10

\* Join keeps the two lists in step, and usercnt above them.
LEMMA JoinKeeps ==
    ASSUME NetInv, NEW S \in SUBSET users, NEW c \in Chan, Join(S, c)
    PROVE  /\ chans' \in [Addr -> SUBSET Chan]
           /\ channels' \in SUBSET Chan
           /\ members' \in [Chan -> SUBSET Addr]
           /\ usercnt' \in [Chan -> Nat]
           /\ \A a \in Addr, d \in Chan : a \in members'[d] <=> d \in chans'[a]
           /\ \A d \in Chan : members'[d] \subseteq users
           /\ \A d \in Chan : members'[d] \subseteq members[d] \cup S
           /\ \A a \in Addr : chans'[a] \subseteq channels'
           /\ CountCovers'
<1> DEFINE new == {a \in S : c \notin chans[a]}
           old == IF c \in channels THEN members[c] ELSE {}
           cnt == IF c \in channels THEN usercnt[c] ELSE 0
<1>1. /\ channels' = channels \cup {c}
      /\ members' = [members EXCEPT ![c] = old \cup new]
      /\ usercnt' = [usercnt EXCEPT ![c] = cnt + Cardinality(new)]
      /\ chans' = [a \in Addr |-> IF a \in new THEN chans[a] \cup {c}
                                               ELSE chans[a]]
  BY DEF Join
<1>2. TypeOK /\ MembershipAgrees /\ CountCovers
  BY DEF NetInv
<1>3. old = members[c]
  BY <1>2 DEF TypeOK, MembershipAgrees
<1>4. new \in SUBSET Addr /\ new \in SUBSET users /\ old \in SUBSET Addr
  BY <1>2 DEF TypeOK
<1>5. old \cap new = {}
  BY <1>2, <1>3, <1>4 DEF TypeOK, MembershipAgrees
<1>6. IsFiniteSet(old) /\ IsFiniteSet(new)
  <2> HIDE DEF old, new
  <2>1. QED
    BY <1>4, AddrFinite, FS_Subset
<1>7. cnt \in Int /\ cnt >= Cardinality(old)
  BY <1>2, FS_EmptySet DEF TypeOK, CountCovers
<1>8. /\ cnt + Cardinality(new) \in Nat
      /\ cnt + Cardinality(new) >= Cardinality(old \cup new)
  <2> HIDE DEF old, new, cnt
  <2>1. QED
    BY <1>5, <1>6, <1>7, CountAfterJoin
<1>9. /\ chans' \in [Addr -> SUBSET Chan]
      /\ channels' \in SUBSET Chan
      /\ members' \in [Chan -> SUBSET Addr]
      /\ usercnt' \in [Chan -> Nat]
  <2> HIDE DEF old, new, cnt
  <2>1. QED
    BY <1>1, <1>2, <1>4, <1>8 DEF TypeOK
<1>10. \A a \in Addr, d \in Chan : a \in members'[d] <=> d \in chans'[a]
  <2> HIDE DEF old, new, cnt
  <2>1. QED
    BY <1>1, <1>2, <1>3, <1>4 DEF TypeOK, MembershipAgrees
<1>11. /\ \A d \in Chan : members'[d] \subseteq users
       /\ \A d \in Chan : members'[d] \subseteq members[d] \cup S
  <2>1. new \subseteq S
    OBVIOUS
  <2> HIDE DEF old, new, cnt
  <2>2. QED
    BY <1>1, <1>2, <1>3, <1>4, <2>1 DEF TypeOK, MembershipAgrees
<1>12. \A a \in Addr : chans'[a] \subseteq channels'
  <2> HIDE DEF old, new, cnt
  <2>1. QED
    BY <1>1, <1>2 DEF TypeOK, MembershipAgrees
<1>13. CountCovers'
  <2> HIDE DEF old, new, cnt
  <2> SUFFICES ASSUME NEW d \in channels'
               PROVE  usercnt'[d] >= Cardinality(members'[d])
    BY DEF CountCovers
  <2>1. CASE d = c
    BY <1>1, <1>2, <1>8, <2>1 DEF TypeOK
  <2>2. CASE d # c
    BY <1>1, <1>2, <2>2 DEF TypeOK, CountCovers
  <2>3. QED
    BY <2>1, <2>2
<1>14. QED
  BY <1>9, <1>10, <1>11, <1>12, <1>13

\* Exiting the users of D leaves the others, their attributes and their
\* place on each channel as they were.
LEMMA ExitKeeps ==
    ASSUME NetInv, NEW D \in SUBSET users, ExitUsers(D)
    PROVE  /\ users' = users \ D
           /\ users' \in SUBSET Addr
           /\ nick' \in [Addr -> Nick \cup {NoNick}]
           /\ home' \in [Addr -> Serv \cup {NoServ}]
           /\ mine' \in [Addr -> BOOLEAN]
           /\ chans' \in [Addr -> SUBSET Chan]
           /\ channels' \in SUBSET Chan
           /\ members' \in [Chan -> SUBSET Addr]
           /\ usercnt' \in [Chan -> Nat]
           /\ \A a \in users' : /\ nick'[a] = nick[a]
                                /\ home'[a] = home[a]
                                /\ mine'[a] = mine[a]
                                /\ chans'[a] = chans[a]
           /\ MembershipAgrees'
           /\ CountCovers'
           /\ NickUnique'
<1>1. TypeOK /\ MembershipAgrees /\ NickUnique
  BY DEF NetInv
<1>2. /\ users' = users \ D
      /\ nick' = [a \in Addr |-> IF a \in D THEN NoNick ELSE nick[a]]
      /\ home' = [a \in Addr |-> IF a \in D THEN NoServ ELSE home[a]]
      /\ mine' = [a \in Addr |-> IF a \in D THEN FALSE ELSE mine[a]]
  BY DEF ExitUsers
<1>3. Found(D) \in [Chan -> SUBSET Addr]
  BY <1>1 DEF TypeOK, Found
<1>4. \A c \in Chan : Found(D)[c] = D \cap members[c]
  BY <1>1 DEF TypeOK, Found, MembershipAgrees
<1>5. Leave(Found(D))
  BY DEF ExitUsers
<1>6. \A c \in Chan : Found(D)[c] \subseteq members[c]
  BY <1>4
<1>7. /\ chans' \in [Addr -> SUBSET Chan]
      /\ channels' \in SUBSET Chan
      /\ members' \in [Chan -> SUBSET Addr]
      /\ usercnt' \in [Chan -> Nat]
      /\ \A a \in Addr, c \in Chan : a \in members'[c] <=> c \in chans'[a]
      /\ \A c \in Chan : members'[c] = members[c] \ Found(D)[c]
      /\ \A a \in Addr : chans'[a] \subseteq channels'
      /\ CountCovers'
  BY <1>3, <1>5, <1>6, LeaveKeeps
<1>8. MembershipAgrees'
  BY <1>1, <1>2, <1>4, <1>7 DEF MembershipAgrees
<1>9. \A a \in users' : /\ nick'[a] = nick[a]
                        /\ home'[a] = home[a]
                        /\ mine'[a] = mine[a]
  BY <1>1, <1>2 DEF TypeOK
<1>10. \A a \in users' : chans'[a] = chans[a]
  <2> SUFFICES ASSUME NEW a \in users'
               PROVE  chans'[a] = chans[a]
    OBVIOUS
  <2>1. a \in Addr /\ a \notin D
    BY <1>1, <1>2 DEF TypeOK
  <2>2. chans'[a] = {c \in chans[a] : a \notin Found(D)[c]}
    BY <1>5, <2>1 DEF Leave
  <2>3. \A c \in chans[a] : a \notin Found(D)[c]
    BY <1>1, <1>4, <2>1 DEF TypeOK
  <2>4. QED
    BY <2>2, <2>3
<1>11. /\ nick' \in [Addr -> Nick \cup {NoNick}]
       /\ home' \in [Addr -> Serv \cup {NoServ}]
       /\ mine' \in [Addr -> BOOLEAN]
       /\ users' \in SUBSET Addr
  BY <1>1, <1>2 DEF TypeOK
<1>12. NickUnique'
  <2>1. users' \subseteq users
    BY <1>2
  <2>2. \A a, b \in users' : nick'[a] = nick'[b] => a = b
    BY <1>1, <1>9, <2>1 DEF NickUnique
  <2>3. QED
    BY <2>2 DEF NickUnique
<1>13. QED
  BY <1>2, <1>7, <1>8, <1>9, <1>10, <1>11, <1>12

\* Subtree(s) holds s and, with a server, the servers that hang below it.
LEMMA SubtreeClosed ==
    ASSUME NEW S, NEW u, NEW s \in S
    PROVE  /\ s \in Subtree(s, S, u)
           /\ Subtree(s, S, u) \subseteq S
           /\ Closed(Subtree(s, S, u), S, u)
<1>1. s \in Subtree(s, S, u) /\ Subtree(s, S, u) \subseteq S
  BY DEF Subtree
<1>2. ASSUME NEW x \in S, u[x] \in Subtree(s, S, u)
      PROVE  x \in Subtree(s, S, u)
  <2>1. ASSUME NEW D \in SUBSET S, s \in D, Closed(D, S, u)
        PROVE  x \in D
    <3>1. u[x] \in D
      BY <1>2, <2>1 DEF Subtree
    <3>2. QED
      BY <2>1, <3>1 DEF Closed
  <2>2. QED
    BY <2>1 DEF Subtree
<1>3. QED
  BY <1>1, <1>2 DEF Closed

\* A fault changes nothing the invariant speaks of.
LEMMA FaultsKeeps ==
    ASSUME NetInv, Faults
    PROVE  NetInv'
BY DEF NetInv, Faults, TypeOK, MembershipAgrees, CountCovers, NickUnique,
       LinksLive, OnlyOursUnlinked, Ours, userVars, chanVars, servVars

\* ExitUsers of whoever, with the servers left alone.
LEMMA ExitStep ==
    ASSUME NetInv, linked, NEW D \in SUBSET users, ExitUsers(D),
           UNCHANGED <<servVars, linked, fault>>
    PROVE  NetInv'
<1>1. /\ users' = users \ D
      /\ TypeOK'
      /\ MembershipAgrees' /\ CountCovers' /\ NickUnique'
      /\ \A a \in users' : home'[a] = home[a] /\ mine'[a] = mine[a]
  BY ExitKeeps DEF NetInv, TypeOK, servVars
<1>2. LinksLive'
  BY <1>1 DEF NetInv, LinksLive, servVars
<1>3. OnlyOursUnlinked'
  BY DEF OnlyOursUnlinked
<1>4. /\ \A a \in users' : mine'[a] => home'[a] = Me
      /\ \A t \in Serv \ servs' : up'[t] = NoServ
  BY <1>1 DEF NetInv, servVars
<1>5. QED
  BY <1>1, <1>2, <1>3, <1>4 DEF NetInv

\* The same for one of our clients, with or without a link.
LEMMA DelClientStep ==
    ASSUME NetInv, NEW a \in Addr, DelClient(a)
    PROVE  NetInv'
<1>1. /\ a \in users /\ mine[a]
      /\ ExitUsers({a})
      /\ UNCHANGED <<servVars, linked, fault>>
  BY DEF DelClient, Ours
<1>2. CASE linked
  BY <1>1, <1>2, ExitStep
<1>3. CASE ~linked
  <2>1. /\ users' = users \ {a}
        /\ TypeOK'
        /\ MembershipAgrees' /\ CountCovers' /\ NickUnique'
        /\ \A b \in users' : home'[b] = home[b] /\ mine'[b] = mine[b]
    BY <1>1, ExitKeeps DEF NetInv, TypeOK, servVars
  <2>2. LinksLive'
    BY <1>1, <2>1 DEF NetInv, LinksLive, servVars
  <2>3. /\ \A b \in users' : mine'[b] => home'[b] = Me
        /\ \A t \in Serv \ servs' : up'[t] = NoServ
    BY <1>1, <2>1 DEF NetInv, servVars
  <2>4. OnlyOursUnlinked'
    <3>1. ~fault' => users = Ours /\ servs = {Me}
      BY <1>1, <1>3 DEF NetInv, OnlyOursUnlinked
    <3>2. ~fault' => users' = Ours'
      BY <2>1, <3>1 DEF Ours
    <3>3. \A c \in Chan : members'[c] \subseteq users'
      BY <2>1 DEF MembershipAgrees
    <3>4. QED
      BY <1>1, <3>1, <3>2, <3>3 DEF OnlyOursUnlinked, servVars
  <2>5. QED
    BY <2>1, <2>2, <2>3, <2>4 DEF NetInv
<1>4. QED
  BY <1>2, <1>3

\* A step that changes only the channels, by Join.
LEMMA JoinStep ==
    ASSUME NetInv, NEW S \in SUBSET users, NEW c \in Chan, Join(S, c),
           UNCHANGED <<userVars, servVars, linked, fault>>
    PROVE  NetInv'
<1>1. /\ TypeOK' /\ MembershipAgrees' /\ CountCovers'
      /\ \A d \in Chan : members'[d] \subseteq users'
  BY JoinKeeps DEF NetInv, TypeOK, MembershipAgrees, userVars, servVars
<1>2. NickUnique' /\ LinksLive'
  BY DEF NetInv, NickUnique, LinksLive, userVars, servVars
<1>3. OnlyOursUnlinked'
  BY <1>1 DEF NetInv, OnlyOursUnlinked, Ours, userVars, servVars
<1>4. QED
  BY <1>1, <1>2, <1>3 DEF NetInv, userVars, servVars

\* A step that changes only the channels, by Leave.
LEMMA LeaveStep ==
    ASSUME NetInv, NEW out \in [Chan -> SUBSET Addr],
           \A c \in Chan : out[c] \subseteq members[c],
           Leave(out), UNCHANGED <<userVars, servVars, linked, fault>>
    PROVE  NetInv'
<1>1. /\ TypeOK' /\ MembershipAgrees' /\ CountCovers'
      /\ \A d \in Chan : members'[d] \subseteq users'
  BY LeaveKeeps DEF NetInv, TypeOK, MembershipAgrees, userVars, servVars
<1>2. NickUnique' /\ LinksLive'
  BY DEF NetInv, NickUnique, LinksLive, userVars, servVars
<1>3. OnlyOursUnlinked'
  BY <1>1 DEF NetInv, OnlyOursUnlinked, Ours, userVars, servVars
<1>4. QED
  BY <1>1, <1>2, <1>3 DEF NetInv, userVars, servVars


\* The loss of the link: the remote users go, then every server but ours.
LEMMA LoseUplinkStep ==
    ASSUME NetInv, LoseUplink
    PROVE  /\ NetInv'
           /\ linked' \/ (/\ users' = Ours
                         /\ \A a \in Ours : /\ chans'[a] = chans[a]
                                           /\ chans[a] \subseteq channels')
<1>1. CASE Faults
  BY <1>1, FaultsKeeps DEF Faults, LoseUplink
<1>2. CASE /\ Me \in servs
           /\ ExitUsers(users \ Ours)
           /\ FreeServers
           /\ linked' = FALSE
           /\ UNCHANGED fault
  <2>1. /\ users' = users \ (users \ Ours)
        /\ nick' \in [Addr -> Nick \cup {NoNick}]
        /\ home' \in [Addr -> Serv \cup {NoServ}]
        /\ mine' \in [Addr -> BOOLEAN]
        /\ chans' \in [Addr -> SUBSET Chan]
        /\ channels' \in SUBSET Chan
        /\ members' \in [Chan -> SUBSET Addr]
        /\ usercnt' \in [Chan -> Nat]
        /\ \A a \in users' : /\ home'[a] = home[a]
                             /\ mine'[a] = mine[a]
                             /\ chans'[a] = chans[a]
        /\ MembershipAgrees' /\ CountCovers' /\ NickUnique'
    BY <1>2, ExitKeeps
  <2>2. users' = Ours /\ Ours \in SUBSET Addr
    BY <2>1 DEF Ours, NetInv, TypeOK
  <2>3. /\ servs' = {Me}
        /\ up' = [t \in Serv |-> NoServ]
        /\ linked' = FALSE /\ fault' = fault
    BY <1>2 DEF FreeServers
  <2>4. TypeOK'
    BY <2>1, <2>2, <2>3, ServersExist DEF NetInv, TypeOK
  <2>5. \A a \in users' : mine'[a] /\ home'[a] = Me
    BY <2>1, <2>2 DEF Ours, NetInv
  <2>6. LinksLive'
    BY <2>3, <2>5, ServersExist DEF LinksLive
  <2>7. OnlyOursUnlinked'
    BY <2>1, <2>3, <2>5 DEF OnlyOursUnlinked, MembershipAgrees, Ours
  <2>8. \A t \in Serv \ servs' : up'[t] = NoServ
    BY <2>3
  <2>9. \A a \in Ours : /\ chans'[a] = chans[a]
                       /\ chans[a] \subseteq channels'
    BY <2>1, <2>2 DEF MembershipAgrees
  <2>10. QED
    BY <2>1, <2>2, <2>4, <2>5, <2>6, <2>7, <2>8, <2>9 DEF NetInv
<1>3. QED
  BY <1>1, <1>2 DEF LoseUplink

\* A netsplit: the users and the servers behind s, and no others.
LEMMA SquitStep ==
    ASSUME NetInv, NEW s \in Serv, RecvSquit(s)
    PROVE  NetInv'
<1>1. CASE Faults
  BY <1>1, FaultsKeeps DEF Faults, servVars
<1>2. CASE ExitServ(s)
  <2> DEFINE gone == Subtree(s, servs, up)
             D == {a \in users : home[a] \in gone}
  <2>1. /\ ExitUsers(D)
        /\ servs' = servs \ gone
        /\ up' = [t \in Serv |-> IF t \in gone THEN NoServ ELSE up[t]]
        /\ linked' = linked /\ fault' = fault
    BY <1>2 DEF ExitServ
  <2>2. linked /\ s \in servs
    BY DEF RecvSquit
  <2>3. /\ gone \subseteq servs
        /\ \A x \in servs : up[x] \in gone => x \in gone
    BY <2>2, SubtreeClosed DEF Closed
  <2> HIDE DEF gone
  <2>4. /\ users' = users \ D
        /\ users' \in SUBSET Addr
        /\ nick' \in [Addr -> Nick \cup {NoNick}]
        /\ home' \in [Addr -> Serv \cup {NoServ}]
        /\ mine' \in [Addr -> BOOLEAN]
        /\ chans' \in [Addr -> SUBSET Chan]
        /\ channels' \in SUBSET Chan
        /\ members' \in [Chan -> SUBSET Addr]
        /\ usercnt' \in [Chan -> Nat]
        /\ \A a \in users' : home'[a] = home[a] /\ mine'[a] = mine[a]
        /\ MembershipAgrees' /\ CountCovers' /\ NickUnique'
    <3>1. D \in SUBSET users
      OBVIOUS
    <3> HIDE DEF D
    <3>2. QED
      BY <2>1, <3>1, ExitKeeps
  <2>5. TypeOK'
    BY <2>1, <2>3, <2>4 DEF NetInv, TypeOK
  <2>6. LinksLive'
    <3>1. \A a \in users' : home'[a] \in servs' \cup {NoServ}
      BY <2>1, <2>4 DEF NetInv, LinksLive
    <3>2. \A t \in servs' : up'[t] \in servs' \cup {NoServ}
      BY <2>1, <2>3 DEF NetInv, TypeOK, LinksLive
    <3>3. QED
      BY <3>1, <3>2 DEF LinksLive
  <2>7. OnlyOursUnlinked'
    BY <2>1, <2>2 DEF OnlyOursUnlinked
  <2>8. /\ \A a \in users' : mine'[a] => home'[a] = Me
        /\ \A t \in Serv \ servs' : up'[t] = NoServ
    BY <2>1, <2>4 DEF NetInv
  <2>9. QED
    BY <2>4, <2>5, <2>6, <2>7, <2>8 DEF NetInv
<1>3. QED
  BY <1>1, <1>2 DEF RecvSquit

\* A user is added: by the uplink or by us.
LEMMA PutUserStep ==
    ASSUME NetInv, NEW a \in Addr \ users, NEW n \in Nick, ~Known(n),
           NEW s \in servs \cup {NoServ}, NEW m \in BOOLEAN,
           m => s = Me,
           ~linked /\ ~fault => m,
           PutUser(a, n, s, m),
           UNCHANGED <<chanVars, servVars, linked, fault>>
    PROVE  NetInv'
<1>1. /\ users' = users \cup {a}
      /\ nick' = [nick EXCEPT ![a] = n]
      /\ home' = [home EXCEPT ![a] = s]
      /\ mine' = [mine EXCEPT ![a] = m]
  BY DEF PutUser
<1>2. TypeOK'
  BY <1>1 DEF NetInv, TypeOK, chanVars, servVars
<1>3. MembershipAgrees' /\ CountCovers'
  BY <1>1 DEF NetInv, MembershipAgrees, CountCovers, chanVars
<1>4. NickUnique'
  BY <1>1 DEF NetInv, TypeOK, NickUnique, Known
<1>5. LinksLive'
  BY <1>1 DEF NetInv, TypeOK, LinksLive, servVars
<1>6. OnlyOursUnlinked'
  BY <1>1, <1>3 DEF NetInv, TypeOK, OnlyOursUnlinked, MembershipAgrees, Ours,
                    servVars, chanVars
<1>7. /\ \A b \in users' : mine'[b] => home'[b] = Me
      /\ \A t \in Serv \ servs' : up'[t] = NoServ
  BY <1>1 DEF NetInv, TypeOK, servVars
<1>8. QED
  BY <1>2, <1>3, <1>4, <1>5, <1>6, <1>7 DEF NetInv

\* A server is added below one that is there, or below none.
LEMMA ServerStep ==
    ASSUME NetInv, RecvServer \/ \E p, s \in Serv : RecvSid(p, s)
    PROVE  NetInv' /\ servs \subseteq servs'
<1>1. CASE Faults
  BY <1>1, FaultsKeeps DEF Faults, servVars
<1>2. CASE RecvServer /\ ~Faults
  <2>1. /\ Me \in servs /\ linked /\ ~fault
        /\ servs' = servs \cup {Hub}
        /\ up' = [up EXCEPT ![Me] = Hub]
        /\ UNCHANGED <<userVars, chanVars, linked, fault>>
    BY <1>2 DEF RecvServer
  <2>2. QED
    BY <2>1, ServersExist
    DEF NetInv, TypeOK, MembershipAgrees, CountCovers, NickUnique, LinksLive,
        OnlyOursUnlinked, userVars, chanVars
<1>3. ASSUME NEW p \in Serv, NEW s \in Serv, RecvSid(p, s)
      PROVE  NetInv' /\ servs \subseteq servs'
  <2>1. /\ linked /\ ~fault /\ p \in servs /\ s \notin servs /\ s # Me
        /\ servs' = servs \cup {s}
        /\ up' = [up EXCEPT ![s] = p]
        /\ UNCHANGED <<userVars, chanVars, linked, fault>>
    BY <1>3 DEF RecvSid
  <2>2. QED
    BY <2>1
    DEF NetInv, TypeOK, MembershipAgrees, CountCovers, NickUnique, LinksLive,
        OnlyOursUnlinked, userVars, chanVars
<1>4. QED
  BY <1>1, <1>2, <1>3

\* A kick takes the user off both lists and leaves the count, which is then
\* too high, never too low.
LEMMA KickStep ==
    ASSUME NetInv, NEW a \in Addr, NEW c \in Chan, RecvKick(a, c)
    PROVE  NetInv'
<1>1. /\ a \in members[c] /\ c \in channels /\ a \in users
      /\ members' = [members EXCEPT ![c] = members[c] \ {a}]
      /\ chans' = [chans EXCEPT ![a] = chans[a] \ {c}]
      /\ UNCHANGED <<usercnt, userVars, servVars, linked, fault>>
  BY DEF RecvKick, Visible
<1>2. IsFiniteSet(members[c]) /\ Cardinality(members[c]) \in Nat
      /\ Cardinality(members[c] \ {a}) = Cardinality(members[c]) - 1
  <2>1. members[c] \in SUBSET Addr
    BY DEF NetInv, TypeOK
  <2>2. IsFiniteSet(members[c])
    BY <2>1, AddrFinite, FS_Subset
  <2>3. QED
    BY <1>1, <2>2, FS_CardinalityType, FS_RemoveElement
<1>3. usercnt[c] \in Int /\ usercnt[c] >= Cardinality(members[c])
  BY <1>1 DEF NetInv, TypeOK, CountCovers
<1>4. usercnt[c] # 0 /\ usercnt[c] >= Cardinality(members[c] \ {a})
  <2>1. Cardinality(members[c]) # 0
    BY <1>1, <1>2, FS_EmptySet
  <2>2. QED
    BY <1>2, <1>3, <2>1
<1>5. channels' = channels
  BY <1>4 DEF RecvKick
<1>6. TypeOK' /\ MembershipAgrees'
  BY <1>1, <1>5 DEF NetInv, TypeOK, MembershipAgrees, userVars, servVars
<1>7. CountCovers'
  BY <1>1, <1>4, <1>5 DEF NetInv, TypeOK, CountCovers
<1>8. NickUnique' /\ LinksLive' /\ OnlyOursUnlinked'
  BY <1>1 DEF NetInv, RecvKick, NickUnique, LinksLive, OnlyOursUnlinked,
              userVars, servVars
<1>9. QED
  BY <1>1, <1>6, <1>7, <1>8 DEF NetInv, userVars, servVars


-----------------------------------------------------------------------------

\* What an initial state and a step guarantee, in the form the theorems use.
LEMMA InitInv == Init => NetInv
<1> SUFFICES ASSUME Init PROVE NetInv
  OBVIOUS
<1>1. TypeOK
  <2>1. /\ users \in SUBSET Addr
        /\ channels \in SUBSET Chan
        /\ servs \in SUBSET Serv
        /\ linked \in BOOLEAN
        /\ fault \in BOOLEAN
    BY ServersExist DEF Init
  <2>2. /\ nick \in [Addr -> Nick \cup {NoNick}]
        /\ home \in [Addr -> Serv \cup {NoServ}]
        /\ mine \in [Addr -> BOOLEAN]
        /\ up \in [Serv -> Serv \cup {NoServ}]
    BY DEF Init
  <2>3. /\ chans \in [Addr -> SUBSET Chan]
        /\ members \in [Chan -> SUBSET Addr]
        /\ usercnt \in [Chan -> Nat]
    BY DEF Init
  <2>4. QED
    BY <2>1, <2>2, <2>3 DEF TypeOK
<1>2. MembershipAgrees /\ CountCovers /\ NickUnique
  BY DEF Init, MembershipAgrees, CountCovers, NickUnique
<1>3. LinksLive /\ OnlyOursUnlinked
  BY ServersExist DEF Init, LinksLive, OnlyOursUnlinked, Ours
<1>4. QED
  BY <1>1, <1>2, <1>3 DEF Init, NetInv

\* Every step, and stuttering, preserves it.
LEMMA NextInv ==
    ASSUME NetInv, [Next]_vars
    PROVE  /\ NetInv'
           /\ \/ ~linked \/ linked'
              \/ /\ users' = Ours
                 /\ \A a \in Ours : /\ chans'[a] = chans[a]
                                   /\ chans[a] \subseteq channels'
<1> USE DEF servVars
<1>1. CASE ConnectUplink
  <2>1. /\ ~linked /\ linked'
        /\ UNCHANGED <<userVars, chanVars, servVars, fault>>
    BY <1>1 DEF ConnectUplink
  <2>2. QED
    BY <2>1
    DEF NetInv, TypeOK, MembershipAgrees, CountCovers, NickUnique, LinksLive,
        OnlyOursUnlinked, userVars, chanVars
<1>2. CASE LoseUplink
  <2>1. linked /\ (~linked' \/ servs' = servs)
    BY <1>2 DEF LoseUplink, Faults
  <2>2. QED
    BY <1>2, <2>1, LoseUplinkStep
<1>3. CASE RecvServer \/ \E p, s \in Serv : RecvSid(p, s)
  <2>1. linked'
    BY <1>3 DEF RecvServer, RecvSid, Faults
  <2>2. NetInv' /\ servs \subseteq servs'
    BY <1>3, ServerStep
  <2>3. QED
    BY <2>1, <2>2
<1>4. ASSUME NEW s \in Serv, RecvSquit(s)
      PROVE  NetInv' /\ linked'
  <2>1. linked'
    BY <1>4 DEF RecvSquit, ExitServ, Faults
  <2>2. QED
    BY <1>4, <2>1, SquitStep
<1>5. ASSUME NEW a \in Addr, NEW n \in Nick, NEW s \in Serv \ {Me},
             RecvUser(a, n, s)
      PROVE  NetInv' /\ linked' = linked /\ servs' = servs
  <2>1. CASE Faults
    BY <2>1, FaultsKeeps DEF Faults
  <2>2. CASE /\ s \in servs
             /\ PutUser(a, n, s, FALSE)
             /\ UNCHANGED <<chanVars, servVars, linked, fault>>
    <3>1. a \in Addr \ users /\ ~Known(n) /\ linked
      BY <1>5 DEF RecvUser
    <3>2. QED
      BY <2>2, <3>1, PutUserStep
  <2>3. QED
    BY <1>5, <2>1, <2>2 DEF RecvUser
<1>6. ASSUME NEW a \in Addr, NEW n \in Nick, RecvNick(a, n)
      PROVE  NetInv' /\ linked' = linked /\ servs' = servs
  <2>1. /\ a \in users /\ ~Known(n)
        /\ nick' = [nick EXCEPT ![a] = n]
        /\ UNCHANGED <<users, home, mine, chanVars, servVars, linked, fault>>
    BY <1>6 DEF RecvNick, Remote, Visible
  <2>2. NickUnique'
    BY <2>1 DEF NetInv, TypeOK, NickUnique, Known
  <2>3. QED
    BY <2>1, <2>2
    DEF NetInv, TypeOK, MembershipAgrees, CountCovers, LinksLive,
        OnlyOursUnlinked, Ours, chanVars
<1>7. ASSUME NEW a \in Addr, RecvExit(a) \/ DelClient(a)
      PROVE  NetInv' /\ linked' = linked /\ servs' = servs
  <2>1. CASE RecvExit(a)
    <3>1. /\ linked /\ {a} \in SUBSET users /\ ExitUsers({a})
          /\ UNCHANGED <<servVars, linked, fault>>
      BY <2>1 DEF RecvExit, Visible
    <3>2. QED
      BY <3>1, ExitStep
  <2>2. CASE DelClient(a)
    BY <2>2, DelClientStep DEF DelClient
  <2>3. QED
    BY <1>7, <2>1, <2>2
<1>8. ASSUME NEW a \in Addr, NEW n \in Nick, NewClient(a, n)
      PROVE  NetInv' /\ linked' = linked /\ servs' = servs
  <2>1. /\ a \in Addr \ users /\ ~Known(n)
        /\ UNCHANGED <<chanVars, servVars, linked, fault>>
    BY <1>8 DEF NewClient
  <2>2. CASE Me \in servs /\ PutUser(a, n, Me, TRUE)
    BY <2>1, <2>2, PutUserStep
  <2>3. CASE Me \notin servs /\ PutUser(a, n, NoServ, FALSE)
    <3>1. linked \/ fault
      BY <2>3 DEF NetInv, OnlyOursUnlinked
    <3>2. QED
      BY <2>1, <2>3, <3>1, PutUserStep
  <2>4. QED
    BY <1>8, <2>2, <2>3 DEF NewClient
<1>9. ASSUME NEW c \in Chan, NEW S \in SUBSET users, Join(S, c),
             UNCHANGED <<userVars, servVars, linked, fault>>
      PROVE  NetInv' /\ linked' = linked /\ servs' = servs
  BY <1>9, JoinStep
<1>10. ASSUME NEW a \in Addr, NEW c \in Chan, RecvJoin(a, c) \/ OurJoin(a, c)
       PROVE  NetInv' /\ linked' = linked /\ servs' = servs
  <2>1. /\ {a} \in SUBSET users /\ Join({a}, c)
        /\ UNCHANGED <<userVars, servVars, linked, fault>>
    BY <1>10 DEF RecvJoin, OurJoin, Visible, Ours
  <2>2. QED
    BY <1>9, <2>1
<1>11. ASSUME NEW a \in Addr, NEW c \in Chan, Part(a, c) \/ RecvForcepart(a, c)
       PROVE  NetInv' /\ linked' = linked /\ servs' = servs
  <2>1. CASE Faults
    BY <2>1, FaultsKeeps DEF Faults
  <2>2. CASE /\ a \in members[c] /\ LeaveOne(a, c)
             /\ UNCHANGED <<userVars, servVars, linked, fault>>
    <3> DEFINE out == [d \in Chan |-> IF d = c THEN {a} ELSE {}]
    <3>1. /\ out \in [Chan -> SUBSET Addr]
          /\ \A d \in Chan : out[d] \subseteq members[d]
          /\ Leave(out)
      BY <2>2 DEF LeaveOne
    <3> HIDE DEF out
    <3>2. QED
      BY <2>2, <3>1, LeaveStep
  <2>3. QED
    BY <1>11, <2>1, <2>2 DEF Part, RecvForcepart
<1>12. ASSUME NEW a \in Addr, RecvPartAll(a)
       PROVE  NetInv' /\ linked' = linked /\ servs' = servs
  <2>1. /\ Leave(Found({a}))
        /\ UNCHANGED <<userVars, servVars, linked, fault>>
    BY <1>12 DEF RecvPartAll
  <2>2. /\ Found({a}) \in [Chan -> SUBSET Addr]
        /\ \A d \in Chan : Found({a})[d] \subseteq members[d]
    BY DEF NetInv, TypeOK, Found
  <2>3. QED
    BY <2>1, <2>2, LeaveStep
<1>13. ASSUME NEW a \in Addr, NEW c \in Chan, RecvKick(a, c)
       PROVE  NetInv' /\ linked' = linked /\ servs' = servs
  BY <1>13, KickStep DEF RecvKick
<1>14. CASE UNCHANGED vars
  BY <1>14
  DEF vars, NetInv, TypeOK, MembershipAgrees, CountCovers, NickUnique,
      LinksLive, OnlyOursUnlinked, Ours, userVars, chanVars
<1>15. ASSUME NEW S \in SUBSET Visible, NEW c \in Chan, RecvSjoin(S, c)
       PROVE  NetInv' /\ linked' = linked /\ servs' = servs
  <2>1. /\ S \in SUBSET users /\ Join(S, c)
        /\ UNCHANGED <<userVars, servVars, linked, fault>>
    BY <1>15 DEF RecvSjoin, Visible
  <2>2. QED
    BY <1>9, <2>1
<1>16. QED
  BY <1>1, <1>2, <1>3, <1>4, <1>5, <1>6, <1>7, <1>8, <1>10, <1>11, <1>12,
     <1>13, <1>14, <1>15
  DEF Next, Halted

\* NetInv holds in every reachable state, however the messages of the uplink,
\* our own modules and the losses of the link are interleaved.
THEOREM NetInvHolds == Spec => []NetInv
<1>1. NetInv /\ [Next]_vars => NetInv'
  BY NextInv
<1>2. QED
  BY InitInv, <1>1, PTL DEF Spec

\* The variables of Network always have their types.
THEOREM TypeCorrect == Spec => []TypeOK
<1>1. NetInv => TypeOK
  BY DEF NetInv
<1>2. QED
  BY <1>1, NetInvHolds, PTL

\* The user list and the channel lists always describe the same membership,
\* and hold no pointer to a freed user or channel (AddToChannel,
\* KickFromChannel, DelFromChannel, exit_user, exit_serv, uplink_cleanup).
THEOREM MembershipCorrect == Spec => []MembershipAgrees
<1>1. NetInv => MembershipAgrees
  BY DEF NetInv
<1>2. QED
  BY <1>1, NetInvHolds, PTL

\* usercnt is never below the length of the list it counts, also when users
\* are kicked: DelFromChannel never frees a channel that has members.
THEOREM CountSound == Spec => []CountCovers
<1>1. NetInv => CountCovers
  BY DEF NetInv
<1>2. QED
  BY <1>1, NetInvHolds, PTL

\* No two users ever have the same nick, which find_chanuser relies on.
THEOREM NicksUnique == Spec => []NickUnique
<1>1. NetInv => NickUnique
  BY DEF NetInv
<1>2. QED
  BY <1>1, NetInvHolds, PTL

\* No user and no server ever points to a server that has been freed.
THEOREM LinksAlwaysLive == Spec => []LinksLive
<1>1. NetInv => LinksLive
  BY DEF NetInv
<1>2. QED
  BY <1>1, NetInvHolds, PTL

\* Without a link only our own clients and our own server are known.
THEOREM NothingRemoteUnlinked == Spec => []OnlyOursUnlinked
<1>1. NetInv => OnlyOursUnlinked
  BY DEF NetInv
<1>2. QED
  BY <1>1, NetInvHolds, PTL

\* Losing the uplink leaves our clients on their channels (uplink_cleanup).
THEOREM OursSurvive == Spec => OursSurviveLoss
<1>1. NetInv /\ [Next]_vars =>
        [linked /\ ~linked' =>
           /\ users' = Ours
           /\ \A a \in Ours : chans'[a] = chans[a]
                             /\ chans[a] \subseteq channels']_vars
  BY NextInv
<1>2. QED
  BY <1>1, NetInvHolds, PTL DEF Spec, OursSurviveLoss

-----------------------------------------------------------------------------
(* With protocol modules that never kick (MaxGhost = 0) usercnt is exact and the last user out
   destroys the channel; and Network implements NetTree, the abstract tree of servers. *)

\* Taking the users T off the users S, counted exactly.
LEMMA ExactAfterLeave ==
    ASSUME NEW S, IsFiniteSet(S), NEW T \in SUBSET S
    PROVE  /\ Cardinality(S) - Cardinality(T) = Cardinality(S \ T)
           /\ S \ T = {} => Cardinality(S) - Cardinality(T) = 0
<1>1. S \cap T = T
  OBVIOUS
<1>2. /\ IsFiniteSet(S \ T)
      /\ Cardinality(S \ T) = Cardinality(S) - Cardinality(T)
  BY <1>1, FS_Difference
<1>3. S \ T = {} => Cardinality(S \ T) = 0
  BY FS_EmptySet
<1>4. QED
  BY <1>2, <1>3

\* Putting the users T, none of them there yet, on the users S.
LEMMA ExactAfterJoin ==
    ASSUME NEW S, IsFiniteSet(S), NEW T, IsFiniteSet(T), S \cap T = {}
    PROVE  Cardinality(S) + Cardinality(T) = Cardinality(S \cup T)
<1>1. Cardinality(S \cap T) = 0
  BY FS_EmptySet
<1>2. Cardinality(S) \in Nat /\ Cardinality(T) \in Nat
  BY FS_CardinalityType
<1>3. Cardinality(S \cup T) =
          Cardinality(S) + Cardinality(T) - Cardinality(S \cap T)
  BY FS_Union
<1>4. QED
  BY <1>1, <1>2, <1>3

\* What LastOneOut says of one step.
LastGoes == \A c \in channels :
               members[c] # {} /\ members'[c] = {} => c \notin channels'

\* Leave keeps an exact count exact and frees each channel it empties.
LEMMA LeaveExact ==
    ASSUME NetInv, CountExact, NEW out \in [Chan -> SUBSET Addr],
           \A c \in Chan : out[c] \subseteq members[c],
           Leave(out)
    PROVE  CountExact' /\ LastGoes
<1> DEFINE left(c) == usercnt[c] - Cardinality(out[c])
           freed == {c \in channels : out[c] # {} /\ left(c) <= 0}
<1>1. /\ channels' = channels \ freed
      /\ members' = [c \in Chan |-> members[c] \ out[c]]
      /\ usercnt' = [c \in Chan |-> IF c \in freed THEN 0 ELSE left(c)]
  BY DEF Leave
<1>2. channels \subseteq Chan
  BY DEF NetInv, TypeOK
<1>3. \A c \in channels : IsFiniteSet(members[c]) /\ out[c] \in SUBSET members[c]
  BY <1>2, AddrFinite, FS_Subset DEF NetInv, TypeOK
<1>4. \A c \in channels :
         /\ left(c) = Cardinality(members[c] \ out[c])
         /\ members[c] \ out[c] = {} => left(c) = 0
  <2> SUFFICES ASSUME NEW c \in channels
               PROVE  /\ left(c) = Cardinality(members[c] \ out[c])
                      /\ members[c] \ out[c] = {} => left(c) = 0
    OBVIOUS
  <2>1. usercnt[c] = Cardinality(members[c])
    BY DEF CountExact
  <2> DEFINE S == members[c]
             T == out[c]
  <2>2. IsFiniteSet(S) /\ T \in SUBSET S
    BY <1>3
  <2>3. /\ Cardinality(S) - Cardinality(T) = Cardinality(S \ T)
        /\ S \ T = {} => Cardinality(S) - Cardinality(T) = 0
    <3> HIDE DEF S, T
    <3>1. QED
      BY <2>2, ExactAfterLeave
  <2>4. QED
    BY <2>1, <2>3
<1>5. CountExact'
  <2> SUFFICES ASSUME NEW c \in channels'
               PROVE  usercnt'[c] = Cardinality(members'[c])
    BY DEF CountExact
  <2>1. c \in channels /\ c \notin freed /\ c \in Chan
    BY <1>1, <1>2
  <2>2. QED
    BY <1>1, <1>4, <2>1
<1>6. LastGoes
  <2> SUFFICES ASSUME NEW c \in channels, members[c] # {}, members'[c] = {}
               PROVE  c \in freed
    BY <1>1 DEF LastGoes
  <2>1. members[c] \ out[c] = {}
    BY <1>1, <1>2
  <2>2. out[c] # {} /\ left(c) = 0
    BY <1>4, <2>1
  <2>3. QED
    BY <2>2
<1>7. QED
  BY <1>5, <1>6

\* Join keeps an exact count exact and empties no channel.
LEMMA JoinExact ==
    ASSUME NetInv, CountExact, NEW S \in SUBSET users, NEW c \in Chan,
           Join(S, c)
    PROVE  CountExact' /\ LastGoes
<1> DEFINE new == {a \in S : c \notin chans[a]}
           old == IF c \in channels THEN members[c] ELSE {}
           cnt == IF c \in channels THEN usercnt[c] ELSE 0
<1>1. /\ channels' = channels \cup {c}
      /\ members' = [members EXCEPT ![c] = old \cup new]
      /\ usercnt' = [usercnt EXCEPT ![c] = cnt + Cardinality(new)]
  BY DEF Join
<1>2. TypeOK /\ MembershipAgrees
  BY DEF NetInv
<1>3. old = members[c] /\ new \in SUBSET Addr /\ old \in SUBSET Addr
  BY <1>2 DEF TypeOK, MembershipAgrees
<1>4. old \cap new = {}
  BY <1>2, <1>3 DEF TypeOK, MembershipAgrees
<1>5. IsFiniteSet(old) /\ IsFiniteSet(new)
  <2> HIDE DEF old, new
  <2>1. QED
    BY <1>3, AddrFinite, FS_Subset
<1>6. cnt = Cardinality(old)
  BY FS_EmptySet DEF CountExact
<1>7. cnt + Cardinality(new) = Cardinality(old \cup new)
  <2> HIDE DEF old, new, cnt
  <2>1. QED
    BY <1>4, <1>5, <1>6, ExactAfterJoin
<1> HIDE DEF old, new, cnt
<1>8. CountExact'
  <2> SUFFICES ASSUME NEW d \in channels'
               PROVE  usercnt'[d] = Cardinality(members'[d])
    BY DEF CountExact
  <2>1. CASE d = c
    BY <1>1, <1>2, <1>7, <2>1 DEF TypeOK
  <2>2. CASE d # c
    BY <1>1, <1>2, <2>2 DEF TypeOK, CountExact
  <2>3. QED
    BY <2>1, <2>2
<1>9. \A d \in channels : members[d] \subseteq members'[d]
  BY <1>1, <1>2, <1>3 DEF TypeOK
<1>10. QED
  BY <1>8, <1>9 DEF LastGoes

\* What find_chanuser finds is on the channel.
LEMMA FoundOnChannel ==
    ASSUME NetInv, NEW D \in SUBSET Addr
    PROVE  /\ Found(D) \in [Chan -> SUBSET Addr]
           /\ \A c \in Chan : Found(D)[c] \subseteq members[c]
BY DEF NetInv, TypeOK, Found

\* Without kicks every step keeps the count exact.
LEMMA ExactStep ==
    ASSUME MaxGhost = 0, NetInv, CountExact, [Next]_vars
    PROVE  CountExact' /\ LastGoes
<1>1. CASE UNCHANGED chanVars
  BY <1>1 DEF CountExact, LastGoes, chanVars
<1>2. ASSUME NEW D \in SUBSET users, ExitUsers(D)
      PROVE  CountExact' /\ LastGoes
  <2>1. D \in SUBSET Addr /\ Leave(Found(D))
    BY <1>2 DEF ExitUsers, NetInv, TypeOK
  <2>2. QED
    BY <2>1, FoundOnChannel, LeaveExact
<1>3. ASSUME NEW a \in Addr, NEW c \in Chan, Part(a, c) \/ RecvForcepart(a, c)
      PROVE  CountExact' /\ LastGoes
  <2>1. CASE Faults
    BY <1>1, <2>1 DEF Faults
  <2>2. CASE a \in members[c] /\ LeaveOne(a, c)
    <3> DEFINE out == [d \in Chan |-> IF d = c THEN {a} ELSE {}]
    <3>1. /\ out \in [Chan -> SUBSET Addr]
          /\ \A d \in Chan : out[d] \subseteq members[d]
          /\ Leave(out)
      BY <2>2 DEF LeaveOne
    <3> HIDE DEF out
    <3>2. QED
      BY <3>1, LeaveExact
  <2>3. QED
    BY <1>3, <2>1, <2>2 DEF Part, RecvForcepart
<1>4. ASSUME NEW a \in Addr, RecvPartAll(a)
      PROVE  CountExact' /\ LastGoes
  <2>1. {a} \in SUBSET Addr /\ Leave(Found({a}))
    BY <1>4 DEF RecvPartAll
  <2>2. QED
    BY <2>1, FoundOnChannel, LeaveExact
<1>5. ASSUME NEW S \in SUBSET users, NEW c \in Chan, Join(S, c)
      PROVE  CountExact' /\ LastGoes
  BY <1>5, JoinExact
<1>6. ASSUME NEW a \in Addr, NEW c \in Chan, RecvKick(a, c)
      PROVE  FALSE
  <2>1. /\ usercnt[c] - Cardinality(members[c]) < 0
        /\ c \in channels
    BY <1>6 DEF RecvKick
  <2>2. usercnt[c] = Cardinality(members[c]) /\ usercnt[c] \in Nat
    BY <2>1 DEF CountExact, NetInv, TypeOK
  <2>3. QED
    BY <2>1, <2>2
<1>7. CASE LoseUplink
  <2>1. CASE Faults
    BY <1>1, <2>1 DEF Faults
  <2>2. CASE ExitUsers(users \ Ours)
    <3>1. users \ Ours \in SUBSET users
      OBVIOUS
    <3>2. QED
      BY <1>2, <2>2, <3>1
  <2>3. QED
    BY <1>7, <2>1, <2>2 DEF LoseUplink
<1>8. ASSUME NEW s \in Serv, RecvSquit(s)
      PROVE  CountExact' /\ LastGoes
  <2>1. CASE Faults
    BY <1>1, <2>1 DEF Faults
  <2>2. CASE ExitServ(s)
    <3> DEFINE D == {a \in users : home[a] \in Subtree(s, servs, up)}
    <3>1. D \in SUBSET users /\ ExitUsers(D)
      BY <2>2 DEF ExitServ
    <3> HIDE DEF D
    <3>2. QED
      BY <1>2, <3>1
  <2>3. QED
    BY <1>8, <2>1, <2>2 DEF RecvSquit
<1>9. ASSUME NEW a \in Addr, RecvExit(a) \/ DelClient(a)
      PROVE  CountExact' /\ LastGoes
  <2>1. {a} \in SUBSET users /\ ExitUsers({a})
    BY <1>9 DEF RecvExit, DelClient, Visible, Ours
  <2>2. QED
    BY <1>2, <2>1
<1>10. ASSUME NEW c \in Chan,
              \/ \E S \in SUBSET Visible : RecvSjoin(S, c)
              \/ \E a \in Addr : RecvJoin(a, c) \/ OurJoin(a, c)
       PROVE  CountExact' /\ LastGoes
  <2>1. \E S \in SUBSET users : Join(S, c)
    BY <1>10 DEF RecvSjoin, RecvJoin, OurJoin, Visible, Ours
  <2>2. QED
    BY <1>5, <2>1
<1>11. CASE \/ ConnectUplink \/ RecvServer
            \/ \E p, s \in Serv : RecvSid(p, s)
            \/ \E a \in Addr, n \in Nick, s \in Serv \ {Me} : RecvUser(a, n, s)
            \/ \E a \in Addr, n \in Nick : RecvNick(a, n) \/ NewClient(a, n)
  <2>1. UNCHANGED chanVars
    BY <1>11 DEF ConnectUplink, RecvServer, RecvSid, RecvUser, RecvNick,
                 NewClient, Faults
  <2>2. QED
    BY <1>1, <2>1
<1>12. CASE UNCHANGED vars
  BY <1>1, <1>12 DEF vars
<1>13. QED
  BY <1>3, <1>4, <1>6, <1>7, <1>8, <1>9, <1>10, <1>11, <1>12
  DEF Next, Halted

\* With protocol modules that never call KickFromChannel, usercnt always is
\* the length of the channel's list of users.
THEOREM CountIsExact ==
    ASSUME MaxGhost = 0
    PROVE  Spec => []CountExact
<1>1. Init => CountExact
  BY DEF Init, CountExact
<1>2. NetInv /\ CountExact /\ [Next]_vars => CountExact'
  BY ExactStep
<1>3. QED
  BY <1>1, <1>2, NetInvHolds, PTL DEF Spec

\* With the same modules the last user to leave a channel, by whatever way,
\* takes the channel with it (DelFromChannel).
THEOREM LastOneOutHolds ==
    ASSUME MaxGhost = 0
    PROVE  Spec => LastOneOut
<1>1. NetInv /\ CountExact /\ [Next]_vars =>
        [\A c \in channels :
           members[c] # {} /\ members'[c] = {} => c \notin channels']_vars
  BY ExactStep DEF LastGoes
<1>2. Spec => []CountExact
  BY CountIsExact
<1>3. QED
  BY <1>1, <1>2, NetInvHolds, PTL DEF Spec, LastOneOut

-----------------------------------------------------------------------------
(* Network implements NetTree *)

\* Who is exited loses its server, and nobody else does.
LEMMA HomeAfterExit ==
    ASSUME NetInv, HomeInv, NEW D \in SUBSET users, ExitUsers(D)
    PROVE  HomeInv'
BY DEF ExitUsers, HomeInv, NetInv, TypeOK

\* An exit of one user is a step of the tree.
LEMMA ExitMaps ==
    ASSUME NetInv, NEW a \in Addr, ExitUsers({a}), UNCHANGED servVars
    PROVE  Tree!Next
<1>1. home' = [home EXCEPT ![a] = NoServ]
  BY DEF ExitUsers, NetInv, TypeOK
<1>2. Tree!Exit(a)
  BY <1>1 DEF Tree!Exit, servVars
<1>3. QED
  BY <1>2 DEF Tree!Next

\* A complete exit_serv is the netsplit of the tree.
LEMMA SquitMaps ==
    ASSUME NetInv, HomeInv, NEW s \in servs, ExitServ(s)
    PROVE  Tree!Next
<1> DEFINE gone == Subtree(s, servs, up)
           D == {a \in users : home[a] \in gone}
<1>1. Tree!Subtree(s, servs, up) = gone
  BY DEF Tree!Subtree, Subtree, Tree!Closed, Closed
<1>2. /\ servs' = servs \ gone
      /\ up' = [t \in Serv |-> IF t \in gone THEN NoServ ELSE up[t]]
      /\ home' = [a \in Addr |-> IF a \in D THEN NoServ ELSE home[a]]
  BY DEF ExitServ, ExitUsers
<1>3. gone \subseteq Serv
  BY SubtreeClosed DEF NetInv, TypeOK
<1> HIDE DEF gone
<1>4. \A a \in Addr : a \in D <=> home[a] \in gone
  BY <1>3, NoServIsNone DEF HomeInv
<1>5. home' = [a \in Addr |-> IF home[a] \in gone THEN NoServ ELSE home[a]]
  <2> HIDE DEF D
  <2>1. QED
    BY <1>2, <1>4
<1>6. Tree!Squit(s)
  BY <1>1, <1>2, <1>5 DEF Tree!Squit
<1>7. s \in Serv
  BY DEF NetInv, TypeOK
<1>8. QED
  BY <1>6, <1>7 DEF Tree!Next

\* The loss of the link leaves us alone in the tree.
LEMMA LossMaps ==
    ASSUME NetInv, HomeInv, Me \in servs,
           ExitUsers(users \ Ours), FreeServers
    PROVE  Tree!Next
<1>1. /\ servs' = {Me}
      /\ up' = [t \in Serv |-> NoServ]
  BY DEF FreeServers
<1>2. \A a \in Addr : home[a] = Me <=> a \in Ours
  BY ServersExist, NoServIsNone DEF HomeInv, NetInv, TypeOK, Ours
<1>3. home' = [a \in Addr |-> IF a \in users \ Ours THEN NoServ ELSE home[a]]
  BY DEF ExitUsers
<1>4. home' = [a \in Addr |-> IF home[a] = Me THEN Me ELSE NoServ]
  <2> SUFFICES ASSUME NEW a \in Addr
               PROVE  (IF a \in users \ Ours THEN NoServ ELSE home[a]) =
                      (IF home[a] = Me THEN Me ELSE NoServ)
    BY <1>3
  <2>1. a \in users \/ home[a] = NoServ
    BY DEF HomeInv
  <2>2. QED
    BY <1>2, <2>1 DEF Ours
<1>5. Tree!Alone
  BY <1>1, <1>4 DEF Tree!Alone
<1>6. QED
  BY <1>5 DEF Tree!Next

\* The mapped variables do not move.
Still == UNCHANGED <<servs, up, home>>

\* Every step of Network is a step of NetTree or leaves it alone.
LEMMA StepMaps ==
    ASSUME NetInv, HomeInv, [Next]_vars
    PROVE  HomeInv' /\ (Tree!Next \/ Still)
<1>1. CASE Faults
  BY <1>1 DEF Faults, HomeInv, Still, userVars, servVars
<1>2. CASE UNCHANGED <<userVars, servVars>>
  BY <1>2 DEF HomeInv, Still, userVars, servVars
<1>3. CASE LoseUplink
  <2>1. CASE Me \in servs /\ ExitUsers(users \ Ours) /\ FreeServers
    <3>1. users \ Ours \in SUBSET users
      OBVIOUS
    <3>2. QED
      BY <2>1, <3>1, HomeAfterExit, LossMaps
  <2>2. QED
    BY <1>1, <1>3, <2>1 DEF LoseUplink
<1>4. CASE RecvServer
  <2>1. CASE /\ Me \in servs
             /\ servs' = servs \cup {Hub}
             /\ up' = [up EXCEPT ![Me] = Hub]
             /\ UNCHANGED userVars
    <3>1. Tree!Adopt /\ HomeInv'
      BY <2>1 DEF Tree!Adopt, HomeInv, userVars
    <3>2. QED
      BY <3>1 DEF Tree!Next
  <2>2. QED
    BY <1>1, <1>4, <2>1 DEF RecvServer
<1>5. ASSUME NEW p \in Serv, NEW s \in Serv, RecvSid(p, s)
      PROVE  HomeInv' /\ Tree!Next
  <2>1. Tree!Introduce(p, s) /\ HomeInv'
    BY <1>5 DEF RecvSid, Tree!Introduce, HomeInv, userVars
  <2>2. QED
    BY <2>1 DEF Tree!Next
<1>6. ASSUME NEW s \in Serv, RecvSquit(s)
      PROVE  HomeInv' /\ (Tree!Next \/ Still)
  <2>1. CASE ExitServ(s)
    <3> DEFINE D == {a \in users : home[a] \in Subtree(s, servs, up)}
    <3>1. D \in SUBSET users /\ ExitUsers(D)
      BY <2>1 DEF ExitServ
    <3>2. HomeInv'
      <4> HIDE DEF D
      <4>1. QED
        BY <3>1, HomeAfterExit
    <3>3. QED
      BY <1>6, <2>1, <3>2, SquitMaps DEF RecvSquit
  <2>2. QED
    BY <1>1, <1>6, <2>1 DEF RecvSquit
<1>7. ASSUME NEW a \in Addr \ users, NEW n \in Nick,
             NEW s \in servs \cup {NoServ}, NEW m \in BOOLEAN,
             s = Me => m, PutUser(a, n, s, m), UNCHANGED servVars
      PROVE  HomeInv' /\ (Tree!Next \/ Still)
  <2>1. /\ users' = users \cup {a}
        /\ home' = [home EXCEPT ![a] = s]
        /\ mine' = [mine EXCEPT ![a] = m]
    BY <1>7 DEF PutUser
  <2>2. home[a] = NoServ
    BY DEF HomeInv
  <2>3. HomeInv'
    BY <1>7, <2>1 DEF HomeInv, NetInv, TypeOK
  <2>4. CASE s = NoServ
    BY <1>7, <2>1, <2>2, <2>3, <2>4 DEF Still, servVars, NetInv, TypeOK
  <2>5. CASE s # NoServ
    <3>1. s \in servs /\ s \in Serv
      BY <2>5 DEF NetInv, TypeOK
    <3>2. Tree!Enter(a, s)
      BY <1>7, <2>1, <2>2, <3>1 DEF Tree!Enter, servVars
    <3>3. QED
      BY <2>3, <3>1, <3>2 DEF Tree!Next
  <2>6. QED
    BY <2>4, <2>5
<1>8. ASSUME NEW a \in Addr, NEW n \in Nick, NEW s \in Serv \ {Me},
             RecvUser(a, n, s)
      PROVE  HomeInv' /\ (Tree!Next \/ Still)
  BY <1>1, <1>7, <1>8 DEF RecvUser
<1>9. ASSUME NEW a \in Addr, NEW n \in Nick, NewClient(a, n)
      PROVE  HomeInv' /\ (Tree!Next \/ Still)
  <2>1. a \in Addr \ users /\ UNCHANGED servVars
    BY <1>9 DEF NewClient
  <2>2. \/ Me \in servs /\ PutUser(a, n, Me, TRUE)
        \/ PutUser(a, n, NoServ, FALSE)
    BY <1>9 DEF NewClient
  <2>3. Me # NoServ
    BY ServersExist, NoServIsNone
  <2>4. QED
    BY <1>7, <2>1, <2>2, <2>3
<1>10. ASSUME NEW a \in Addr, RecvExit(a) \/ DelClient(a)
       PROVE  HomeInv' /\ Tree!Next
  <2>1. {a} \in SUBSET users /\ ExitUsers({a}) /\ UNCHANGED servVars
    BY <1>10 DEF RecvExit, DelClient, Visible, Ours
  <2>2. QED
    BY <2>1, HomeAfterExit, ExitMaps
<1>11. ASSUME NEW a \in Addr, NEW n \in Nick, RecvNick(a, n)
       PROVE  HomeInv' /\ Still
  BY <1>11 DEF RecvNick, HomeInv, Still, servVars
<1>12. CASE \/ ConnectUplink
            \/ \E S \in SUBSET Visible, c \in Chan : RecvSjoin(S, c)
            \/ \E a \in Addr, c \in Chan : RecvJoin(a, c) \/ OurJoin(a, c)
            \/ \E a \in Addr, c \in Chan : Part(a, c) \/ RecvKick(a, c)
            \/ ~Faults /\ \E a \in Addr, c \in Chan : RecvForcepart(a, c)
            \/ \E a \in Addr : RecvPartAll(a)
            \/ UNCHANGED vars
  <2>1. UNCHANGED <<userVars, servVars>>
    BY <1>12 DEF ConnectUplink, RecvSjoin, RecvJoin, OurJoin, Part, RecvKick,
                 RecvForcepart, RecvPartAll, vars
  <2>2. QED
    BY <1>2, <2>1
<1>13. QED
  BY <1>1, <1>3, <1>4, <1>5, <1>6, <1>8, <1>9, <1>10, <1>11, <1>12
  DEF Next, Halted

\* servlist, the uplinks and the users implement the abstract tree: whatever
\* the order of messages and losses, servers and users come and go as NetTree
\* lets them, and a netsplit is one step of it.
THEOREM NetworkImplementsTree == Spec => ImplementsTree
<1>1. Init => HomeInv /\ Tree!Init
  BY DEF Init, HomeInv, Tree!Init
<1>2. NetInv /\ HomeInv /\ [Next]_vars => HomeInv' /\ [Tree!Next]_Tree!vars
  BY StepMaps DEF Still, Tree!vars
<1>3. QED
  BY <1>1, <1>2, NetInvHolds, PTL DEF Spec, ImplementsTree, Tree!Spec

=============================================================================
