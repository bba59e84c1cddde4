--------------------------- MODULE NetsplitProofs ---------------------------
(***************************************************************************)
(* Proofs about Netsplit, for any number of users and servers and for any  *)
(* tree: exit_serv never leaves a server with a freed uplink behind, not   *)
(* even between the steps of its nested loops.                             *)
(***************************************************************************)
EXTENDS Netsplit, ListProofs

-----------------------------------------------------------------------------
(* The invariant of the walk *)

\* A server stands behind its uplink in the list, our own one excepted: the
\* hub is introduced after it.  No server is linked to our own.
Ordered ==
    /\ \A s \in Serv : up[s] # Me
    /\ \A s \in Serv \ Servers : up[s] = NoServ
    /\ up[Me] \in Servers \cup {NoServ}
    /\ \A s \in Serv \ {Me} : up[s] = NoServ \/ Behind(servlist, up[s], s)

\* The children that the loop of f has still to meet: it is at them, or they
\* come from the node it has remembered on, unless that node is freed.
Covered(f) ==
    /\ \A c \in Servers : up[c] = f.s =>
          \/ c = f.cur
          \/ f.nxt \in Serv \ Servers
          \/ From(servlist, f.nxt, c)
    /\ f.cur = NoServ => f.nxt = NoServ

\* The calls in progress go down the tree, and so down the list.
Nested ==
    \A i, j \in 1..Len(stack) : i < j =>
        /\ stack[i].s # Me
        /\ stack[j].s = Me \/ Behind(servlist, stack[i].s, stack[j].s)

Calls ==
    /\ \A i \in 1..Len(stack) : stack[i].s \in Servers /\ Covered(stack[i])
    /\ Nested

IInv ==
    /\ TypeOK
    /\ fault = "none" => Ordered /\ Calls
    /\ fault # "none" => ~Idle

-----------------------------------------------------------------------------
(* What the steps of the loop do to the calls *)

\* The walk meets every server from the head of the list on, and the node
\* after s is where what stands behind s begins.
LEMMA HeadIsFirst ==
    ASSUME TypeOK, NEW c \in Servers
    PROVE  From(servlist, Head(servlist), c) /\ Head(servlist) \in Servers
<1>1. PICK i \in 1..Len(servlist) : servlist[i] = c
  BY InList DEF TypeOK, Servers
<1>2. Head(servlist) = servlist[1] /\ 1 \in 1..Len(servlist) /\ 1 <= i
  BY <1>1 DEF TypeOK
<1>3. QED
  BY <1>1, <1>2, InList DEF From, TypeOK, Servers

LEMMA AfterIsNext ==
    ASSUME TypeOK, NEW s \in Servers
    PROVE  /\ After(s) \in Servers \cup {NoServ}
           /\ \A c : c # s /\ From(servlist, s, c) => From(servlist, After(s), c)
<1> DEFINE l == servlist
           k == CHOOSE j \in DOMAIN l : l[j] = s
<1>1. l \in Seq(Serv) /\ IsInjective(l) /\ DOMAIN l = 1..Len(l) /\ Len(l) \in Nat
  BY DEF TypeOK
<1>2. k \in 1..Len(l) /\ l[k] = s
  BY <1>1, InList DEF Servers
<1>3. After(s) = IF k = Len(l) THEN NoServ ELSE l[k + 1]
  BY DEF After
<1> HIDE DEF k
<1>4. \A n \in Nat : \A x \in 1..n : x # n => x + 1 \in 1..n
  OBVIOUS
<1>5. k # Len(l) => k + 1 \in 1..Len(l)
  BY <1>1, <1>2, <1>4, Zenon
<1>6. After(s) \in Servers \cup {NoServ}
  BY <1>1, <1>3, <1>5, InList DEF Servers
<1>7. ASSUME NEW c, c # s, From(l, s, c)
      PROVE  From(l, After(s), c)
  <2>1. PICK i \in 1..Len(l), j \in 1..Len(l) : i <= j /\ l[i] = s /\ l[j] = c
    BY <1>7 DEF From
  <2>2. i = k
    BY <1>1, <1>2, <2>1 DEF IsInjective
  <2>3. i # j
    BY <1>7, <2>1
  <2>4. \A n \in Nat : \A x, y \in 1..n : x <= y /\ x # y => x + 1 <= y /\ x # n
    OBVIOUS
  <2>5. k + 1 <= j /\ k # Len(l)
    BY <1>1, <2>1, <2>2, <2>3, <2>4, Zenon
  <2>6. QED
    BY <1>3, <1>5, <2>1, <2>5 DEF From
<1>8. QED
  BY <1>6, <1>7

LEMMA AfterDiffers ==
    ASSUME TypeOK, NEW s \in Servers PROVE After(s) # s
<1> DEFINE l == servlist
           k == CHOOSE j \in DOMAIN l : l[j] = s
<1>1. l \in Seq(Serv) /\ IsInjective(l) /\ DOMAIN l = 1..Len(l) /\ Len(l) \in Nat
  BY DEF TypeOK
<1>2. k \in 1..Len(l) /\ l[k] = s
  BY <1>1, InList DEF Servers
<1>3. After(s) = IF k = Len(l) THEN NoServ ELSE l[k + 1]
  BY DEF After
<1> HIDE DEF k
<1>4. CASE k = Len(l)
  BY <1>1, <1>2, <1>3, <1>4, InList, NoServIsNone DEF TypeOK
<1>5. CASE k # Len(l)
  <2>1. k + 1 \in 1..Len(l) /\ k + 1 # k
    <3>1. \A n \in Nat : \A x \in 1..n : x # n => x + 1 \in 1..n /\ x + 1 # x
      OBVIOUS
    <3>2. QED
      BY <1>1, <1>2, <1>5, <3>1, Zenon
  <2>2. l[k + 1] # l[k]
    BY <1>1, <1>2, <2>1 DEF IsInjective
  <2>3. QED
    BY <1>2, <1>3, <1>5, <2>2
<1>6. QED
  BY <1>4, <1>5

\* The frame of a new call covers all the children of its server.
LEMMA EnterCovers ==
    ASSUME TypeOK, NEW s \in Servers
    PROVE  Enter(s) \in Frame /\ Covered(Enter(s))
<1>1. Head(servlist) \in Servers /\ Servers \subseteq Serv
  BY HeadIsFirst, InList DEF TypeOK, Servers
<1>2. After(Head(servlist)) \in Servers \cup {NoServ}
  BY <1>1, AfterIsNext
<1>3. \A c \in Servers : c # Head(servlist) => From(servlist, After(Head(servlist)), c)
  BY <1>1, AfterIsNext, HeadIsFirst
<1>4. QED
  BY <1>1, <1>2, <1>3, NoServIsNone DEF Enter, Frame, Covered

\* Nothing in the list stands behind the end of it.
LEMMA NothingFromNone ==
    ASSUME TypeOK, NEW c
    PROVE  ~ From(servlist, NoServ, c)
BY NoServIsNone DEF TypeOK, From

\* The stack with its innermost frame changed, or without it.
LEMMA TopReplaced ==
    ASSUME NEW st \in Seq(Frame), st # <<>>, NEW f \in Frame,
           NEW m, m = Front(st) \o <<f>>
    PROVE  /\ m \in Seq(Frame) /\ Len(m) = Len(st) /\ m[Len(st)] = f
           /\ \A i \in 1..(Len(st) - 1) : m[i] = st[i]
<1> DEFINE a == SubSeq(st, 1, Len(st) - 1)
<1>1. a \in Seq(Frame) /\ Len(a) = Len(st) - 1 /\ \A i \in 1..(Len(st) - 1) : a[i] = st[i]
  OBVIOUS
<1>2. m = Append(a, f)
  <2>1. m = a \o <<f>>
    BY DEF Front
  <2>2. a \o <<f>> = Append(a, f)
    BY <1>1
  <2>3. QED
    BY <2>1, <2>2
<1> HIDE DEF a
<1>3. Len(m) = Len(st) /\ m \in Seq(Frame)
  <2>1. \A x \in Seq(Frame) : Append(x, f) \in Seq(Frame) /\ Len(Append(x, f)) = Len(x) + 1
    OBVIOUS
  <2>2. m \in Seq(Frame) /\ Len(m) = Len(a) + 1
    BY <1>1, <1>2, <2>1, Zenon
  <2>3. Len(st) \in Nat
    OBVIOUS
  <2>4. Len(a) + 1 = Len(st)
    BY <1>1, <2>3
  <2>5. QED
    BY <2>2, <2>4
<1>4. m[Len(st)] = f
  BY <1>1, <1>2
<1>5. \A i \in 1..(Len(st) - 1) : m[i] = st[i]
  BY <1>1, <1>2
<1>6. QED
  BY <1>3, <1>4, <1>5

LEMMA TopRemoved ==
    ASSUME NEW st \in Seq(Frame), st # <<>>
    PROVE  /\ Front(st) \in Seq(Frame) /\ Len(Front(st)) = Len(st) - 1
           /\ \A i \in 1..(Len(st) - 1) : Front(st)[i] = st[i]
<1> DEFINE a == SubSeq(st, 1, Len(st) - 1)
<1>1. a \in Seq(Frame) /\ Len(a) = Len(st) - 1
  OBVIOUS
<1>2. \A i \in 1..(Len(st) - 1) : a[i] = st[i]
  OBVIOUS
<1>3. QED
  BY <1>1, <1>2 DEF Front

LEMMA TopIsFrame ==
    ASSUME TypeOK, ~Idle
    PROVE  /\ Len(stack) \in Nat \ {0} /\ Len(stack) \in 1..Len(stack)
           /\ Top = stack[Len(stack)] /\ Top \in Frame
BY DEF TypeOK, Idle, Top, Last

-----------------------------------------------------------------------------
(* One lemma per action *)

LEMMA InitHolds == Init => IInv
<1> SUFFICES ASSUME Init PROVE IInv
  OBVIOUS
<1>1. Servers = {Me}
  BY DEF Init, Servers, ToSet
<1>2. TypeOK
  BY ServersExist DEF Init, TypeOK, IsInjective
<1>3. Ordered
  BY <1>1, ServersExist, NoServIsNone DEF Init, Ordered
<1>4. Calls
  BY DEF Init, Calls, Nested
<1>5. QED
  BY <1>2, <1>3, <1>4 DEF Init, IInv

\* Between calls there is no frame to disturb.
LEMMA NoCalls ==
    ASSUME Idle PROVE Calls
BY DEF Idle, Calls, Nested

LEMMA RecvServerHolds ==
    ASSUME IInv, RecvServer PROVE IInv'
<1>1. TypeOK /\ Ordered /\ fault = "none"
  BY DEF IInv, RecvServer
<1>2. /\ servlist' \in Seq(Serv) /\ IsInjective(servlist')
      /\ Servers' = Servers \cup {Hub}
      /\ \A x, y : Behind(servlist, x, y) => Behind(servlist', x, y)
  <2>1. /\ servlist \in Seq(Serv) /\ IsInjective(servlist)
        /\ Hub \in Serv /\ Hub \notin ToSet(servlist) /\ servlist' = Append(servlist, Hub)
    BY <1>1, ServersExist DEF RecvServer, TypeOK, Servers
  <2>2. /\ servlist' \in Seq(Serv) /\ IsInjective(servlist')
        /\ ToSet(servlist') = ToSet(servlist) \cup {Hub}
    BY <2>1, AppendKeeps, ZenonT(60)
  <2>3. /\ \A x, y : Behind(servlist, x, y) => Behind(servlist', x, y)
        /\ \A x \in ToSet(servlist) : Behind(servlist', x, Hub)
    BY <2>1, AppendOrder, Zenon
  <2>4. QED
    BY <2>1, <2>2, <2>3 DEF Servers
<1>3. TypeOK'
  BY <1>1, <1>2, ServersExist DEF RecvServer, TypeOK
<1>4. Ordered'
  BY <1>1, <1>2, ServersExist DEF RecvServer, Ordered, TypeOK
<1>5. Calls'
  BY DEF RecvServer, Idle, Calls, Nested
<1>6. QED
  BY <1>1, <1>3, <1>4, <1>5 DEF IInv, RecvServer

LEMMA RecvSidHolds ==
    ASSUME IInv, NEW p \in Serv, NEW s \in Serv, RecvSid(p, s) PROVE IInv'
<1>1. TypeOK /\ Ordered /\ fault = "none"
  BY DEF IInv, RecvSid
<1>2. /\ servlist' \in Seq(Serv) /\ IsInjective(servlist')
      /\ Servers' = Servers \cup {s}
      /\ \A x, y : Behind(servlist, x, y) => Behind(servlist', x, y)
      /\ Behind(servlist', p, s)
  <2>1. /\ servlist \in Seq(Serv) /\ IsInjective(servlist)
        /\ s \in Serv /\ s \notin ToSet(servlist) /\ servlist' = Append(servlist, s)
        /\ p \in ToSet(servlist)
    BY <1>1 DEF RecvSid, TypeOK, Servers
  <2>2. /\ servlist' \in Seq(Serv) /\ IsInjective(servlist')
        /\ ToSet(servlist') = ToSet(servlist) \cup {s}
    BY <2>1, AppendKeeps, ZenonT(60)
  <2>3. /\ \A x, y : Behind(servlist, x, y) => Behind(servlist', x, y)
        /\ \A x \in ToSet(servlist) : Behind(servlist', x, s)
    BY <2>1, AppendOrder, Zenon
  <2>4. QED
    BY <2>1, <2>2, <2>3 DEF Servers
<1>3. TypeOK'
  BY <1>1, <1>2 DEF RecvSid, TypeOK
<1>4. Ordered'
  BY <1>1, <1>2, ServersExist DEF RecvSid, Ordered, TypeOK
<1>5. Calls'
  BY DEF RecvSid, Idle, Calls, Nested
<1>6. QED
  BY <1>1, <1>3, <1>4, <1>5 DEF IInv, RecvSid

LEMMA RecvUserHolds ==
    ASSUME IInv, NEW u \in User, NEW s \in Serv, RecvUser(u, s) PROVE IInv'
<1>1. TypeOK /\ Ordered /\ fault = "none"
  BY DEF IInv, RecvUser
<1>2. UNCHANGED <<servlist, up, stack, fault>> /\ Servers' = Servers
  BY DEF RecvUser, Servers
<1>3. TypeOK'
  BY <1>1, <1>2 DEF RecvUser, TypeOK
<1>4. Ordered'
  BY <1>1, <1>2 DEF Ordered
<1>5. Calls'
  BY <1>2 DEF RecvUser, Idle, Calls, Nested
<1>6. QED
  BY <1>1, <1>2, <1>3, <1>4, <1>5 DEF IInv

LEMMA RecvSquitHolds ==
    ASSUME IInv, NEW s \in Serv, RecvSquit(s) PROVE IInv'
<1>1. TypeOK /\ Ordered /\ fault = "none"
  BY DEF IInv, RecvSquit
<1>2. /\ UNCHANGED <<servlist, up, home, fault>> /\ Servers' = Servers
      /\ stack' = <<Enter(s)>> /\ s \in Servers
  BY DEF RecvSquit, Servers
<1>3. Enter(s) \in Frame /\ Covered(Enter(s)) /\ Enter(s).s = s
  BY <1>1, <1>2, EnterCovers DEF Enter
<1>4. /\ stack' \in Seq(Frame) /\ Len(stack') = 1 /\ stack' # <<>>
      /\ \A i \in 1..Len(stack') : stack'[i] = Enter(s) /\ i = 1
  BY <1>2, <1>3
<1>5. TypeOK'
  BY <1>1, <1>2, <1>4 DEF TypeOK
<1>6. Ordered'
  BY <1>1, <1>2 DEF Ordered
<1>7. Calls'
  <2>1. \A i \in 1..Len(stack') : stack'[i].s \in Servers' /\ Covered(stack[i])'
    BY <1>2, <1>3, <1>4 DEF Covered
  <2>2. Nested'
    BY <1>4 DEF Nested
  <2>3. QED
    BY <2>1, <2>2 DEF Calls
<1>8. QED
  BY <1>1, <1>2, <1>5, <1>6, <1>7 DEF IInv

\* The loop enters a child: it is behind its uplink, and that behind all the
\* servers whose calls are in progress.
LEMMA CallHolds ==
    ASSUME IInv, Call PROVE IInv'
<1> DEFINE c == Top.cur
           n == Len(stack)
<1>1. /\ TypeOK /\ Ordered /\ Calls /\ fault = "none" /\ ~Idle
      /\ c \in Servers /\ up[c] = Top.s
  BY DEF IInv, Call, Running, AtChild
<1>2. /\ UNCHANGED <<servlist, up, home, fault>> /\ Servers' = Servers
      /\ stack' = Append(stack, Enter(c))
  BY DEF Call, Servers
<1>3. Enter(c) \in Frame /\ Covered(Enter(c)) /\ Enter(c).s = c
  BY <1>1, EnterCovers DEF Enter
<1>4. n \in Nat \ {0} /\ n \in 1..n /\ Top = stack[n] /\ stack \in Seq(Frame)
  BY <1>1, TopIsFrame DEF TypeOK
<1>5. /\ stack' \in Seq(Frame) /\ Len(stack') = n + 1 /\ stack'[n + 1] = Enter(c)
      /\ \A i \in 1..n : stack'[i] = stack[i]
  BY <1>2, <1>3, <1>4
<1> HIDE DEF c, n
<1>6. TypeOK'
  BY <1>1, <1>2, <1>5 DEF TypeOK
<1>7. Ordered'
  BY <1>1, <1>2 DEF Ordered
<1>8. c \in Serv /\ Top.s # NoServ /\ Top.s # Me /\ (c = Me \/ Behind(servlist, Top.s, c))
  <2>1. Servers \subseteq Serv
    BY <1>1, InList DEF TypeOK, Servers
  <2>2. Top.s \in Servers
    BY <1>1, <1>4 DEF Calls, n
  <2>3. QED
    BY <1>1, <2>1, <2>2, NoServIsNone DEF Ordered
<1>9. ASSUME NEW i \in 1..n
      PROVE  stack[i].s # Me /\ (c = Me \/ Behind(servlist, stack[i].s, c))
  <2>1. CASE i = n
    BY <1>4, <1>8, <2>1
  <2>2. CASE i # n
    <3>1. stack[i].s # Me /\ Behind(servlist, stack[i].s, Top.s)
      <4>1. i < n
        BY <1>4, <2>2
      <4>2. QED
        BY <1>1, <1>4, <1>8, <4>1 DEF Calls, Nested, n
    <3>2. QED
      BY <1>1, <1>8, <3>1, BehindTransitive DEF TypeOK
  <2>3. QED
    BY <2>1, <2>2
<1>10. Calls'
  <2>1. ASSUME NEW i \in 1..Len(stack')
        PROVE  stack'[i].s \in Servers' /\ Covered(stack[i])'
    <3>1. CASE i \in 1..n
      BY <1>1, <1>2, <1>5, <3>1 DEF Calls, Covered, n
    <3>2. CASE i = n + 1
      BY <1>1, <1>2, <1>3, <1>5, <3>2 DEF Covered
    <3>3. QED
      BY <1>4, <1>5, <3>1, <3>2
  <2>2. ASSUME NEW i \in 1..Len(stack'), NEW j \in 1..Len(stack'), i < j
        PROVE  /\ stack'[i].s # Me
               /\ stack'[j].s = Me \/ Behind(servlist', stack'[i].s, stack'[j].s)
    <3>1. i \in 1..n
      BY <1>4, <1>5, <2>2
    <3>2. CASE j \in 1..n
      BY <1>1, <1>2, <1>5, <2>2, <3>1, <3>2 DEF Calls, Nested, n
    <3>3. CASE j = n + 1
      BY <1>2, <1>3, <1>5, <1>9, <3>1, <3>3
    <3>4. QED
      BY <1>4, <1>5, <3>2, <3>3
  <2>3. QED
    BY <2>1, <2>2 DEF Calls, Nested
<1>11. QED
  BY <1>1, <1>2, <1>6, <1>7, <1>10 DEF IInv

\* A step of the loop to another node changes the innermost frame only, and
\* none of its servers.
LEMMA FrameMoves ==
    ASSUME TypeOK, Ordered, Calls, fault = "none", ~Idle,
           UNCHANGED <<servlist, up, home, fault>>,
           NEW f \in Frame, f.s = Top.s, Covered(f),
           stack' = Front(stack) \o <<f>>
    PROVE  IInv'
<1> DEFINE n == Len(stack)
<1>1. n \in Nat \ {0} /\ n \in 1..n /\ Top = stack[n] /\ stack \in Seq(Frame)
  BY TopIsFrame DEF TypeOK
<1>2. /\ stack' \in Seq(Frame) /\ Len(stack') = n /\ stack'[n] = f
      /\ \A i \in 1..(n - 1) : stack'[i] = stack[i]
  <2>1. stack # <<>>
    BY DEF Idle
  <2>2. \A m : m = Front(stack) \o <<f>> =>
            /\ m \in Seq(Frame) /\ Len(m) = Len(stack) /\ m[Len(stack)] = f
            /\ \A i \in 1..(Len(stack) - 1) : m[i] = stack[i]
    BY <1>1, <2>1, TopReplaced, ZenonT(30)
  <2>3. QED
    BY <2>2, ZenonT(30)
<1>3. Servers' = Servers
  BY DEF Servers
<1> HIDE DEF n
<1>4. \A i \in 1..n : i = n \/ i \in 1..(n - 1)
  BY <1>1
<1>5. \A i \in 1..n : stack'[i].s = stack[i].s
  BY <1>1, <1>2, <1>4
<1>6. TypeOK'
  BY <1>2 DEF TypeOK
<1>7. Ordered'
  BY <1>3 DEF Ordered
<1>8. ASSUME NEW i \in 1..Len(stack')
      PROVE  stack'[i].s \in Servers' /\ Covered(stack[i])'
  <2>1. stack[i].s \in Servers /\ Covered(stack[i])
    BY <1>2, <1>8 DEF Calls, n
  <2>2. CASE i = n
    BY <1>2, <1>3, <1>5, <2>1, <2>2 DEF Covered
  <2>3. CASE i # n
    BY <1>2, <1>3, <1>4, <2>1, <2>3 DEF Covered
  <2>4. QED
    BY <2>2, <2>3
<1>9. Nested'
  <2>1. \A i, j \in 1..n : i < j =>
            /\ stack[i].s # Me
            /\ stack[j].s = Me \/ Behind(servlist, stack[i].s, stack[j].s)
    BY DEF Calls, Nested, n
  <2>2. \A i, j \in 1..n : i < j =>
            /\ stack'[i].s # Me
            /\ stack'[j].s = Me \/ Behind(servlist, stack'[i].s, stack'[j].s)
    BY <1>5, <2>1
  <2>3. UNCHANGED servlist /\ Len(stack') = n
    BY <1>2
  <2>4. QED
    BY <2>2, <2>3 DEF Nested
<1>10. QED
  BY <1>6, <1>7, <1>8, <1>9 DEF IInv, Calls

LEMMA AdvanceHolds ==
    ASSUME IInv, Advance PROVE IInv'
<1>1. /\ TypeOK /\ Ordered /\ Calls /\ fault = "none" /\ ~Idle
      /\ Top.cur # NoServ
      /\ ~(Top.cur \in Servers /\ up[Top.cur] = Top.s)
      /\ UNCHANGED <<servlist, up, home, before>>
  BY DEF IInv, Advance, Running, AtChild
<1>2. Top \in Frame /\ Covered(Top) /\ Servers \subseteq Serv
  BY <1>1, TopIsFrame, InList DEF Calls, TypeOK, Servers
\* The loop is not at a child: those left come from the remembered node on.
<1>3. \A c \in Servers : up[c] = Top.s =>
          Top.nxt \in Serv \ Servers \/ From(servlist, Top.nxt, c)
  BY <1>1, <1>2 DEF Covered
<1>4. CASE /\ Top.nxt = NoServ
           /\ stack' = Front(stack) \o <<[Top EXCEPT !.cur = NoServ]>>
           /\ UNCHANGED fault
  <2> DEFINE f == [Top EXCEPT !.cur = NoServ]
  <2>1. f \in Frame /\ f.s = Top.s /\ f.cur = NoServ /\ f.nxt = NoServ
    BY <1>2, <1>4 DEF Frame
  <2>2. \A c \in Servers : up[c] # Top.s
    BY <1>1, <1>3, <1>4, NothingFromNone, NoServIsNone
  <2> HIDE DEF f
  <2>3. Covered(f)
    BY <2>1, <2>2 DEF Covered
  <2>4. stack' = Front(stack) \o <<f>>
    BY <1>4 DEF f
  <2>5. QED
    BY <1>1, <1>4, <2>1, <2>3, <2>4, FrameMoves
<1>5. CASE /\ Top.nxt \in Servers
           /\ stack' = Front(stack) \o
                 <<[Top EXCEPT !.cur = Top.nxt, !.nxt = After(Top.nxt)]>>
           /\ UNCHANGED fault
  <2> DEFINE f == [Top EXCEPT !.cur = Top.nxt, !.nxt = After(Top.nxt)]
  <2>1. After(Top.nxt) \in Servers \cup {NoServ}
    BY <1>1, <1>5, AfterIsNext
  <2>2. f \in Frame /\ f.s = Top.s /\ f.cur = Top.nxt /\ f.nxt = After(Top.nxt)
    BY <1>2, <1>5, <2>1 DEF Frame
  <2>3. \A c \in Servers : up[c] = Top.s =>
            c = Top.nxt \/ From(servlist, After(Top.nxt), c)
    BY <1>1, <1>3, <1>5, AfterIsNext
  <2> HIDE DEF f
  <2>4. Covered(f)
    BY <1>2, <1>5, <2>2, <2>3, NoServIsNone DEF Covered
  <2>5. stack' = Front(stack) \o <<f>>
    BY <1>5 DEF f
  <2>6. QED
    BY <1>1, <1>5, <2>2, <2>4, <2>5, FrameMoves
<1>6. CASE fault' = "freed" /\ UNCHANGED stack
  BY <1>1, <1>6 DEF IInv, TypeOK, Idle
<1>7. QED
  BY <1>4, <1>5, <1>6 DEF Advance

\* At the end of its loop the server has no children left.
LEMMA NoChildrenLeft ==
    ASSUME TypeOK, Calls, ~Idle, Top.cur = NoServ
    PROVE  \A c \in Servers : up[c] # Top.s
<1>1. Covered(Top) /\ Servers \subseteq Serv
  BY TopIsFrame, InList DEF Calls, TypeOK, Servers
<1>2. Top.nxt = NoServ
  BY <1>1 DEF Covered
<1>3. QED
  BY <1>1, <1>2, NothingFromNone, NoServIsNone DEF Covered

LEMMA FinishHolds ==
    ASSUME IInv, Finish PROVE IInv'
<1> DEFINE t == Top.s
           n == Len(stack)
<1>1. /\ TypeOK /\ Ordered /\ Calls /\ fault = "none" /\ ~Idle
      /\ Top.cur = NoServ
  BY DEF IInv, Finish, Running
<1>2. CASE fault' = "null" /\ UNCHANGED <<servlist, up, home, stack, before>>
  BY <1>1, <1>2 DEF IInv, TypeOK, Idle
<1>3. CASE /\ servlist' = RemoveFirst(servlist, t)
           /\ up' = [up EXCEPT ![t] = NoServ]
           /\ home' = [u \in User |-> IF home[u] = t THEN NoServ ELSE home[u]]
           /\ stack' = Front(stack)
           /\ UNCHANGED fault
  <2>1. n \in Nat \ {0} /\ n \in 1..n /\ Top = stack[n] /\ stack \in Seq(Frame)
    BY <1>1, TopIsFrame DEF TypeOK
  <2>2. stack' \in Seq(Frame) /\ Len(stack') = n - 1 /\ \A i \in 1..(n - 1) : stack'[i] = stack[i]
    BY <1>1, <1>3, <2>1, TopRemoved DEF Idle
  <2>3. Servers \subseteq Serv /\ t \in Servers /\ t \in ToSet(servlist)
    BY <1>1, <2>1, InList DEF Calls, TypeOK, Servers
  <2>4. \A c \in Servers : up[c] # t
    BY <1>1, NoChildrenLeft
  <2> HIDE DEF t, n
  <2>5. /\ servlist' \in Seq(Serv) /\ IsInjective(servlist') /\ Servers' = Servers \ {t}
        /\ \A x, y : x # t /\ y # t /\ Behind(servlist, x, y) => Behind(servlist', x, y)
        /\ \A x, y : x # t /\ y # t /\ From(servlist, x, y) => From(servlist', x, y)
    <3>1. servlist \in Seq(Serv) /\ IsInjective(servlist) /\ t \in ToSet(servlist)
          /\ servlist' = RemoveFirst(servlist, t)
      BY <1>1, <1>3, <2>3 DEF TypeOK
    <3>2. servlist' \in Seq(Serv) /\ IsInjective(servlist') /\ ToSet(servlist') = ToSet(servlist) \ {t}
      BY <3>1, RemovedKeeps, Zenon
    <3>3. /\ \A x, y : x # t /\ y # t /\ Behind(servlist, x, y) => Behind(servlist', x, y)
          /\ \A x, y : x # t /\ y # t /\ From(servlist, x, y) => From(servlist', x, y)
      BY <3>1, RemovedOrder, Zenon
    <3>4. QED
      BY <3>2, <3>3, Zenon DEF Servers
  <2>6. up'[t] = NoServ /\ \A s \in Serv \ {t} : up'[s] = up[s]
    BY <1>1, <1>3, <2>3 DEF TypeOK
  <2>7. TypeOK'
    BY <1>1, <1>3, <2>2, <2>3, <2>5 DEF TypeOK
  \* Nobody has t for an uplink any more.
  <2>8. \A s \in Serv : up'[s] # t
    BY <1>1, <2>3, <2>4, <2>6, NoServIsNone DEF Ordered
  <2>9. Ordered'
    <3>1. \A s \in Serv : up'[s] # Me
      BY <1>1, <2>6, ServersExist, NoServIsNone DEF Ordered
    <3>2. \A s \in Serv \ Servers' : up'[s] = NoServ
      BY <1>1, <2>5, <2>6 DEF Ordered
    <3>3. up'[Me] \in Servers' \cup {NoServ}
      BY <1>1, <2>5, <2>6, <2>8, ServersExist DEF Ordered
    <3>4. ASSUME NEW s \in Serv \ {Me}, up'[s] # NoServ
          PROVE  Behind(servlist', up'[s], s)
      <4>1. s # t /\ up'[s] = up[s]
        BY <2>6, <3>4
      <4>2. up[s] # t /\ Behind(servlist, up[s], s)
        BY <1>1, <2>8, <3>4, <4>1 DEF Ordered
      <4>3. QED
        BY <2>5, <4>1, <4>2
    <3>5. QED
      BY <3>1, <3>2, <3>3, <3>4 DEF Ordered
  \* The calls below exit other servers, which stand before t.
  <2>10. ASSUME NEW i \in 1..(n - 1)
         PROVE  i \in 1..n /\ i < n /\ stack[i].s \in Servers /\ stack[i].s # t /\ Covered(stack[i])
    <3>1. i \in 1..n /\ i < n
      BY <2>1
    <3>2. stack[i].s # Me /\ (t = Me \/ Behind(servlist, stack[i].s, t))
      BY <1>1, <2>1, <3>1 DEF Calls, Nested, t, n
    <3>3. stack[i].s # t
      BY <1>1, <3>2, BehindDiffers DEF TypeOK
    <3>4. QED
      BY <1>1, <3>1, <3>3 DEF Calls, n
  <2>11. ASSUME NEW i \in 1..Len(stack')
         PROVE  stack'[i].s \in Servers' /\ Covered(stack[i])'
    <3>1. i \in 1..(n - 1) /\ stack'[i] = stack[i] /\ stack[i] \in Frame
      BY <2>1, <2>2, <2>10, <2>11 DEF n
    <3>2. stack[i].s \in Servers /\ stack[i].s # t /\ Covered(stack[i])
      BY <2>10, <3>1
    <3>3. ASSUME NEW c \in Servers', up'[c] = stack[i].s
          PROVE  \/ c = stack[i].cur
                 \/ stack[i].nxt \in Serv \ Servers'
                 \/ From(servlist', stack[i].nxt, c)
      <4>1. c \in Servers /\ c # t /\ up[c] = stack[i].s
        BY <2>3, <2>5, <2>6, <3>3
      <4>2. \/ c = stack[i].cur
            \/ stack[i].nxt \in Serv \ Servers
            \/ From(servlist, stack[i].nxt, c)
        BY <3>2, <4>1 DEF Covered
      <4>3. QED
        BY <2>3, <2>5, <4>1, <4>2
    <3>4. Covered(stack[i])'
      BY <3>1, <3>2, <3>3 DEF Covered
    <3>5. QED
      BY <2>5, <3>1, <3>2, <3>4
  <2>12. Nested'
    <3> SUFFICES ASSUME NEW i \in 1..Len(stack'), NEW j \in 1..Len(stack'), i < j
                 PROVE  /\ stack'[i].s # Me
                        /\ stack'[j].s = Me \/ Behind(servlist', stack'[i].s, stack'[j].s)
      BY DEF Nested
    <3>1. i \in 1..(n - 1) /\ j \in 1..(n - 1)
      BY <2>2
    <3>2. /\ stack[i].s # Me
          /\ stack[j].s = Me \/ Behind(servlist, stack[i].s, stack[j].s)
      BY <1>1, <2>10, <3>1 DEF Calls, Nested, n
    <3>3. QED
      BY <2>2, <2>5, <2>10, <3>1, <3>2
  <2>13. QED
    BY <1>1, <1>3, <2>7, <2>9, <2>11, <2>12 DEF IInv, Calls
<1>4. QED
  BY <1>2, <1>3 DEF Finish

LEMMA StepHolds == IInv /\ [Next]_vars => IInv'
<1> SUFFICES ASSUME IInv, [Next]_vars PROVE IInv'
  OBVIOUS
<1>1. CASE UNCHANGED vars
  BY <1>1 DEF IInv, vars, TypeOK, Ordered, Calls, Nested, Covered, Servers, Idle
<1>2. CASE Next
  BY <1>1, <1>2, RecvServerHolds, RecvSidHolds, RecvUserHolds, RecvSquitHolds,
     CallHolds, AdvanceHolds, FinishHolds DEF Next, Walk, Halted
<1>3. QED
  BY <1>1, <1>2

\* exit_serv recurses and frees in the middle of its own loops, and still
\* the uplink of every server on servlist can be read after any of its steps,
\* as long as the walk has not itself run into a freed node or a NULL.
THEOREM UplinksReadableHolds == Spec => []UplinksReadable
<1>1. IInv => UplinksReadable
  <2> SUFFICES ASSUME IInv, fault = "none", NEW s \in Servers
               PROVE  up[s] \in Servers \cup {NoServ}
    BY DEF IInv, UplinksReadable
  <2>1. s \in Serv /\ TypeOK /\ Ordered
    BY InList DEF IInv, TypeOK, Servers
  <2>2. CASE s = Me
    BY <2>1, <2>2 DEF Ordered
  <2>3. CASE s # Me /\ Behind(servlist, up[s], s)
    BY <2>1, <2>3, InList DEF Behind, TypeOK, Servers
  <2>4. QED
    BY <2>1, <2>2, <2>3 DEF Ordered
<1>2. QED
  BY <1>1, InitHolds, StepHolds, PTL DEF Spec

-----------------------------------------------------------------------------
(* The walk and the network it began with *)

\* The servers that the call has taken off the list, and those it has to.
Gone  == before.servs \ Servers
Whole == Subtree(stack[1].s, before.servs, before.up)

\* The lists are those of the beginning without what is gone.  What is gone belongs to the
\* subtree, and took along what hung below it.
Walked ==
    /\ before.servs \subseteq Serv /\ Servers \subseteq before.servs
    /\ before.up \in [Serv -> Serv \cup {NoServ}] /\ before.home \in [User -> Serv \cup {NoServ}]
    /\ up = [s \in Serv |-> IF s \in Gone THEN NoServ ELSE before.up[s]]
    /\ home = [u \in User |-> IF before.home[u] \in Gone THEN NoServ ELSE before.home[u]]
    /\ Gone \subseteq Whole /\ Closed(Gone, before.servs, before.up)
    /\ \A i \in 1..Len(stack) : stack[i].s \in Whole

\* Each loop waits at the child that the next call exits.  The node it has remembered is
\* another one; if that is gone, then with a call further down.
Loops ==
    /\ \A i \in 1..Len(stack) :
          /\ stack[i].nxt \in before.servs \cup {NoServ}
          /\ stack[i].cur # NoServ => stack[i].nxt # stack[i].cur
          /\ stack[i].nxt \in Gone => before.up[stack[i].nxt] # stack[1].s
    /\ \A i \in 1..(Len(stack) - 1) :
          stack[i + 1].s = stack[i].cur /\ up[stack[i + 1].s] = stack[i].s

WalkInv ==
    /\ IInv /\ StaleNeedsGrandchild
    /\ ~Idle => Walked
    /\ ~Idle /\ fault = "none" => Loops

\* A subtree holds its root and is the least set that is closed.
LEMMA SubtreeIsLeast ==
    ASSUME NEW S, NEW u, NEW s \in S
    PROVE  /\ s \in Subtree(s, S, u) /\ Subtree(s, S, u) \subseteq S /\ Closed(Subtree(s, S, u), S, u)
           /\ \A D \in SUBSET S : s \in D /\ Closed(D, S, u) => Subtree(s, S, u) \subseteq D
BY DEF Subtree, Closed

LEMMA SquitWalks ==
    ASSUME WalkInv, NEW s \in Serv, RecvSquit(s) PROVE WalkInv'
<1>1. IInv' /\ TypeOK /\ fault = "none"
  BY StepHolds DEF Next, WalkInv, IInv, RecvSquit
<1>2. /\ UNCHANGED <<servlist, up, home, fault>> /\ Servers' = Servers /\ s \in Servers
      /\ stack' = <<Enter(s)>> /\ before' = [servs |-> Servers, up |-> up, home |-> home]
  BY DEF RecvSquit, Servers, Snapshot
<1>3. Servers \subseteq Serv /\ Gone' = {}
  BY <1>1, <1>2, InList DEF Gone, Servers, TypeOK
<1>4. Len(stack') = 1 /\ stack'[1].s = s /\ stack'[1] = Enter(s) /\ \A i \in 1..Len(stack') : i = 1
  BY <1>2 DEF Enter
<1>5. s \in Whole'
  BY <1>2, <1>4, SubtreeIsLeast DEF Whole
<1>6. Walked'
  <2>1. before'.servs = Servers /\ before'.up = up /\ before'.home = home
    BY <1>2
  <2>2. up' = [x \in Serv |-> IF x \in Gone' THEN NoServ ELSE before'.up[x]]
    BY <1>1, <1>2, <1>3, <2>1 DEF TypeOK
  <2>3. home' = [x \in User |-> IF before'.home[x] \in Gone' THEN NoServ ELSE before'.home[x]]
    BY <1>1, <1>2, <1>3, <2>1 DEF TypeOK
  <2>4. Closed(Gone', before'.servs, before'.up)
    BY <1>3 DEF Closed
  <2>5. \A i \in 1..Len(stack') : stack'[i].s \in Whole'
    BY <1>4, <1>5
  <2>6. QED
    BY <1>1, <1>2, <1>3, <2>1, <2>2, <2>3, <2>4, <2>5 DEF Walked, TypeOK
<1>7. Loops'
  <2>1. Head(servlist) \in Servers /\ After(Head(servlist)) \in Servers \cup {NoServ}
    BY <1>1, <1>2, HeadIsFirst, AfterIsNext
  <2>2. After(Head(servlist)) # Head(servlist)
    BY <1>1, <2>1, AfterDiffers
  <2>3. Enter(s).cur = Head(servlist) /\ Enter(s).nxt = After(Head(servlist)) /\ before'.servs = Servers
    BY <1>2 DEF Enter
  <2>4. \A i \in 1..Len(stack') :
          /\ stack'[i].nxt \in before'.servs \cup {NoServ}
          /\ stack'[i].nxt # stack'[i].cur
    BY <1>4, <2>1, <2>2, <2>3
  <2>5. ~ \E i \in 1..(Len(stack') - 1) : TRUE
    BY <1>4
  <2>6. QED
    BY <1>3, <2>4, <2>5 DEF Loops
<1>8. QED
  BY <1>1, <1>2, <1>6, <1>7 DEF WalkInv, StaleNeedsGrandchild

LEMMA CallWalks ==
    ASSUME WalkInv, Call PROVE WalkInv'
<1> DEFINE c == Top.cur
           n == Len(stack)
<1>1. /\ IInv' /\ TypeOK /\ Walked /\ Loops /\ fault = "none" /\ ~Idle
      /\ c \in Servers /\ up[c] = Top.s
      /\ UNCHANGED <<servlist, up, home, before, fault>> /\ stack' = Append(stack, Enter(c))
  BY StepHolds DEF Next, Walk, WalkInv, IInv, Call, Running, AtChild
<1>2. n \in Nat \ {0} /\ n \in 1..n /\ Top = stack[n] /\ stack \in Seq(Frame)
  BY <1>1, TopIsFrame DEF TypeOK
<1>3. Enter(c) \in Frame /\ Enter(c).s = c /\ Enter(c).cur = Head(servlist) /\ Enter(c).nxt = After(Head(servlist))
  BY <1>1, EnterCovers DEF Enter
<1>4. Head(servlist) \in Servers /\ After(Head(servlist)) \in Servers \cup {NoServ} /\ After(Head(servlist)) # Head(servlist)
  BY <1>1, HeadIsFirst, AfterIsNext, AfterDiffers
<1>5. /\ stack' \in Seq(Frame) /\ Len(stack') = n + 1 /\ stack'[n + 1] = Enter(c)
      /\ \A i \in 1..n : stack'[i] = stack[i]
  BY <1>1, <1>2, <1>3
<1> HIDE DEF c, n
<1>6. /\ 1 \in 1..n /\ stack'[1] = stack[1] /\ Gone' = Gone /\ Whole' = Whole
  BY <1>1, <1>2, <1>5 DEF Gone, Whole, Servers
<1>7. \A i \in 1..(n + 1) : i \in 1..n \/ i = n + 1
  BY <1>2
<1>8. c \in Whole
  <2>1. Top.s \in Whole /\ stack[1].s \in Whole /\ c \in before.servs
    BY <1>1, <1>2, <1>6 DEF Walked, n
  <2>2. before.up[c] = up[c]
    <3>1. c \in Serv /\ c \notin Gone
      BY <1>1, InList DEF Gone, Walked
    <3>2. QED
      BY <1>1, <3>1, NoServIsNone DEF Walked
  <2>3. stack[1].s \in before.servs
    BY <2>1 DEF Whole, Subtree
  <2>4. QED
    BY <1>1, <2>1, <2>2, <2>3, SubtreeIsLeast DEF Whole, Closed
<1>9. Walked'
  <2>1. \A i \in 1..Len(stack') : stack'[i].s \in Whole'
    BY <1>1, <1>3, <1>5, <1>6, <1>7, <1>8 DEF Walked, n
  <2>2. QED
    BY <1>1, <1>6, <2>1 DEF Walked, Servers
<1>10. Loops'
  <2>1. ASSUME NEW i \in 1..Len(stack')
        PROVE  /\ stack'[i].nxt \in before'.servs \cup {NoServ}
               /\ stack'[i].cur # NoServ => stack'[i].nxt # stack'[i].cur
               /\ stack'[i].nxt \in Gone' => before'.up[stack'[i].nxt] # stack'[1].s
    <3>1. CASE i \in 1..n
      BY <1>1, <1>5, <1>6, <3>1 DEF Loops, n
    <3>2. CASE i = n + 1
      <4>1. stack'[i].nxt \in Servers \cup {NoServ} /\ stack'[i].nxt # stack'[i].cur
        BY <1>3, <1>4, <1>5, <3>2
      <4>2. stack'[i].nxt \notin Gone /\ stack'[i].nxt \in before.servs \cup {NoServ}
        BY <1>1, <4>1, NoServIsNone DEF Walked, Gone
      <4>3. QED
        BY <1>1, <1>6, <4>1, <4>2
    <3>3. QED
      BY <1>5, <1>7, <3>1, <3>2
  <2>2. ASSUME NEW i \in 1..(Len(stack') - 1)
        PROVE  stack'[i + 1].s = stack'[i].cur /\ up'[stack'[i + 1].s] = stack'[i].s
    <3>1. i \in 1..n
      BY <1>2, <1>5
    <3>2. CASE i = n
      BY <1>1, <1>2, <1>3, <1>5, <3>2 DEF c
    <3>3. CASE i # n
      <4>1. i \in 1..(Len(stack) - 1) /\ i + 1 \in 1..n
        BY <1>2, <3>1, <3>3 DEF n
      <4>2. QED
        BY <1>1, <1>5, <3>1, <4>1 DEF Loops
    <3>4. QED
      BY <3>2, <3>3
  <2>3. QED
    BY <2>1, <2>2 DEF Loops
<1>11. QED
  BY <1>1, <1>9, <1>10 DEF WalkInv, StaleNeedsGrandchild

\* The innermost frame changed, the others as they were.
LEMMA StackMoves ==
    ASSUME TypeOK, ~Idle, NEW f \in Frame, stack' = Front(stack) \o <<f>>
    PROVE  /\ Len(stack') = Len(stack) /\ stack'[Len(stack)] = f
           /\ \A i \in 1..Len(stack) : i # Len(stack) => stack'[i] = stack[i]
<1>1. stack \in Seq(Frame) /\ stack # <<>>
  BY DEF TypeOK, Idle
<1>2. \A m : m = Front(stack) \o <<f>> =>
          /\ m \in Seq(Frame) /\ Len(m) = Len(stack) /\ m[Len(stack)] = f
          /\ \A i \in 1..(Len(stack) - 1) : m[i] = stack[i]
  BY <1>1, TopReplaced, ZenonT(30)
<1>3. /\ Len(stack') = Len(stack) /\ stack'[Len(stack)] = f
      /\ \A i \in 1..(Len(stack) - 1) : stack'[i] = stack[i]
  BY <1>2, ZenonT(30)
<1>4. \A i \in 1..Len(stack) : i # Len(stack) => i \in 1..(Len(stack) - 1)
  BY <1>1
<1>5. QED
  BY <1>3, <1>4

LEMMA FrameWalks ==
    ASSUME TypeOK, Walked, Loops, ~Idle, Top.cur # NoServ, UNCHANGED <<servlist, up, home, before>>,
           NEW f \in Frame, f.s = Top.s, f.nxt \in Servers \cup {NoServ}, f.cur # NoServ => f.nxt # f.cur,
           stack' = Front(stack) \o <<f>>
    PROVE  Walked' /\ Loops'
<1> DEFINE n == Len(stack)
<1>1. n \in Nat \ {0} /\ n \in 1..n /\ Top = stack[n]
  BY TopIsFrame
<1>2. Len(stack') = n /\ stack'[n] = f /\ \A i \in 1..n : i # n => stack'[i] = stack[i]
  BY StackMoves
<1> HIDE DEF n
<1>3. \A i \in 1..n : stack'[i].s = stack[i].s
  BY <1>1, <1>2
<1>4. 1 \in 1..n
  BY <1>1
<1>5. stack'[1].s = stack[1].s
  BY <1>3, <1>4
<1>6. Gone' = Gone /\ Servers' = Servers /\ Whole' = Whole
  BY <1>5 DEF Gone, Servers, Whole
<1>7. Walked'
  <2>1. \A i \in 1..Len(stack') : stack'[i].s \in Whole'
    BY <1>2, <1>3, <1>6 DEF Walked, n
  <2>2. QED
    BY <1>6, <2>1 DEF Walked
<1>8. ASSUME NEW i \in 1..n
      PROVE  /\ stack'[i].nxt \in before.servs \cup {NoServ}
             /\ stack'[i].cur # NoServ => stack'[i].nxt # stack'[i].cur
             /\ stack'[i].nxt \in Gone => before.up[stack'[i].nxt] # stack[1].s
  <2>1. CASE i = n
    <3>1. f.nxt \notin Gone /\ f.nxt \in before.servs \cup {NoServ}
      BY NoServIsNone DEF Walked, Gone
    <3>2. QED
      BY <1>2, <2>1, <3>1
  <2>2. CASE i # n
    BY <1>2, <2>2 DEF Loops, n
  <2>3. QED
    BY <2>1, <2>2
<1>9. ASSUME NEW i \in 1..(n - 1)
      PROVE  stack'[i + 1].s = stack'[i].cur /\ up[stack'[i + 1].s] = stack'[i].s
  <2>1. i \in 1..n /\ i # n /\ i + 1 \in 1..n
    BY <1>1
  <2>2. stack'[i] = stack[i] /\ stack'[i + 1].s = stack[i + 1].s
    BY <1>2, <1>3, <2>1
  <2>3. QED
    BY <2>2 DEF Loops, n
<1>10. Loops'
  <2>1. Len(stack') = n /\ before' = before /\ up' = up
    BY <1>2
  <2>2. \A i \in 1..n :
          /\ stack'[i].nxt \in before'.servs \cup {NoServ}
          /\ stack'[i].cur # NoServ => stack'[i].nxt # stack'[i].cur
          /\ stack'[i].nxt \in Gone' => before'.up[stack'[i].nxt] # stack'[1].s
    BY <1>5, <1>6, <1>8, <2>1
  <2>3. \A i \in 1..(n - 1) : stack'[i + 1].s = stack'[i].cur /\ up'[stack'[i + 1].s] = stack'[i].s
    BY <1>9, <2>1
  <2>4. QED
    BY <2>1, <2>2, <2>3 DEF Loops
<1>11. QED
  BY <1>7, <1>10

LEMMA AdvanceWalks ==
    ASSUME WalkInv, Advance PROVE WalkInv'
<1>1. /\ IInv' /\ TypeOK /\ Calls /\ Walked /\ Loops /\ fault = "none" /\ ~Idle /\ Top.cur # NoServ
      /\ UNCHANGED <<servlist, up, home, before>>
  BY StepHolds DEF Next, Walk, WalkInv, IInv, Advance, Running
<1>2. Top \in Frame /\ Servers \subseteq Serv
  BY <1>1, TopIsFrame, InList DEF TypeOK, Servers
<1>3. CASE /\ Top.nxt = NoServ
           /\ stack' = Front(stack) \o <<[Top EXCEPT !.cur = NoServ]>>
           /\ UNCHANGED fault
  <2> DEFINE f == [Top EXCEPT !.cur = NoServ]
  <2>1. f \in Frame /\ f.s = Top.s /\ f.cur = NoServ /\ f.nxt = NoServ
    BY <1>2, <1>3 DEF Frame
  <2>2. stack' = Front(stack) \o <<f>>
    BY <1>3
  <2> HIDE DEF f
  <2>3. Walked' /\ Loops'
    BY <1>1, <2>1, <2>2, FrameWalks
  <2>4. QED
    BY <1>1, <1>3, <2>3 DEF WalkInv, StaleNeedsGrandchild
<1>4. CASE /\ Top.nxt \in Servers
           /\ stack' = Front(stack) \o
                 <<[Top EXCEPT !.cur = Top.nxt, !.nxt = After(Top.nxt)]>>
           /\ UNCHANGED fault
  <2> DEFINE f == [Top EXCEPT !.cur = Top.nxt, !.nxt = After(Top.nxt)]
  <2>1. After(Top.nxt) \in Servers \cup {NoServ} /\ After(Top.nxt) # Top.nxt
    BY <1>1, <1>4, AfterIsNext, AfterDiffers
  <2>2. f \in Frame /\ f.s = Top.s /\ f.cur = Top.nxt /\ f.nxt = After(Top.nxt)
    BY <1>2, <1>4, <2>1 DEF Frame
  <2>3. stack' = Front(stack) \o <<f>>
    BY <1>4
  <2> HIDE DEF f
  <2>4. Walked' /\ Loops'
    BY <1>1, <2>1, <2>2, <2>3, FrameWalks
  <2>5. QED
    BY <1>1, <1>4, <2>4 DEF WalkInv, StaleNeedsGrandchild
\* The remembered node is gone: it was below a child of what is exited.
<1>5. CASE Top.nxt \notin Servers \cup {NoServ} /\ fault' = "freed" /\ UNCHANGED stack
  <2> DEFINE y == Top.nxt
  <2>1. Len(stack) \in 1..Len(stack) /\ Top = stack[Len(stack)] /\ 1 \in 1..Len(stack)
    BY <1>1, TopIsFrame
  <2>2. y \in before.servs \cup {NoServ} /\ (y \in Gone => before.up[y] # stack[1].s)
    BY <1>1, <2>1 DEF Loops
  <2>3. y \in Gone
    BY <1>5, <2>2 DEF Gone
  <2>4. y # stack[1].s
    BY <1>1, <1>5, <2>1 DEF Calls
  <2>5. y \in Grandchildren(stack[1].s, before.servs, before.up)
    BY <1>1, <2>2, <2>3, <2>4 DEF Grandchildren, Walked, Whole
  <2>6. StaleNeedsGrandchild'
    BY <1>1, <1>5, <2>5 DEF StaleNeedsGrandchild
  <2>7. Walked'
    BY <1>1, <1>5 DEF Walked, Gone, Whole, Servers
  <2>8. QED
    BY <1>1, <1>5, <2>6, <2>7 DEF WalkInv
<1>6. QED
  BY <1>3, <1>4, <1>5 DEF Advance

\* The innermost call returns: its server, which has no children any more, is gone.
LEMMA FinishTakes ==
    ASSUME WalkInv, Finish, fault' # "null"
    PROVE  LET t == Top.s
               n == Len(stack)
               D == Gone \cup {t}
           IN  /\ t \in Servers /\ fault' = "none" /\ n \in Nat \ {0}
               /\ Len(stack') = n - 1 /\ \A i \in 1..(n - 1) : stack'[i] = stack[i]
               /\ Servers' = before.servs \ D
               /\ up' = [s \in Serv |-> IF s \in D THEN NoServ ELSE before.up[s]]
               /\ home' = [u \in User |-> IF before.home[u] \in D THEN NoServ ELSE before.home[u]]
               /\ D \subseteq Whole /\ Closed(D, before.servs, before.up)
               /\ up[t] = before.up[t] /\ \A s \in Serv : s # t => up'[s] = up[s]
<1> DEFINE t == Top.s
           n == Len(stack)
           D == Gone \cup {t}
<1>1. /\ TypeOK /\ Ordered /\ Calls /\ Walked /\ fault = "none" /\ ~Idle /\ Top.cur = NoServ
      /\ servlist' = RemoveFirst(servlist, t)
      /\ up' = [up EXCEPT ![t] = NoServ]
      /\ home' = [u \in User |-> IF home[u] = t THEN NoServ ELSE home[u]]
      /\ stack' = Front(stack) /\ fault' = fault
  BY DEF WalkInv, IInv, Finish, Running
<1>2. n \in Nat \ {0} /\ n \in 1..n /\ Top = stack[n] /\ stack \in Seq(Frame) /\ stack # <<>>
  BY <1>1, TopIsFrame DEF TypeOK, Idle
<1>3. Len(stack') = n - 1 /\ \A i \in 1..(n - 1) : stack'[i] = stack[i]
  BY <1>1, <1>2, TopRemoved
<1>4. Servers \subseteq Serv /\ t \in Servers /\ t \in Whole
  BY <1>1, <1>2, InList DEF Calls, Walked, TypeOK, Servers
<1>5. \A c \in Servers : up[c] # t
  BY <1>1, NoChildrenLeft
<1> HIDE DEF t, n
<1>6. Servers' = Servers \ {t}
  <2>1. servlist \in Seq(Serv) /\ IsInjective(servlist) /\ t \in ToSet(servlist)
    BY <1>1, <1>4 DEF TypeOK, Servers
  <2>2. ToSet(RemoveFirst(servlist, t)) = ToSet(servlist) \ {t}
    BY <2>1, RemovedKeeps, Zenon
  <2>3. QED
    BY <1>1, <2>2 DEF Servers
<1>7. Servers' = before.servs \ D
  BY <1>1, <1>6 DEF Walked, Gone
<1>8. up[t] = before.up[t] /\ t # NoServ /\ t \in Serv
  BY <1>1, <1>4, NoServIsNone DEF Walked, Gone
<1>9. up' = [s \in Serv |-> IF s \in D THEN NoServ ELSE before.up[s]]
  <2>1. up = [s \in Serv |-> IF s \in Gone THEN NoServ ELSE before.up[s]]
    BY <1>1 DEF Walked
  <2>2. \A s \in Serv : up'[s] = IF s \in D THEN NoServ ELSE before.up[s]
    BY <1>1, <1>8, <2>1
  <2>3. up' = [s \in Serv |-> up'[s]]
    BY <1>1, <2>1
  <2>4. QED
    BY <2>2, <2>3
<1>10. home' = [u \in User |-> IF before.home[u] \in D THEN NoServ ELSE before.home[u]]
  <2>1. home = [u \in User |-> IF before.home[u] \in Gone THEN NoServ ELSE before.home[u]]
    BY <1>1 DEF Walked
  <2>2. \A u \in User : (IF home[u] = t THEN NoServ ELSE home[u]) = IF before.home[u] \in D THEN NoServ ELSE before.home[u]
    BY <1>8, <2>1
  <2>3. QED
    BY <1>1, <2>2
<1>11. D \subseteq Whole
  BY <1>1, <1>4 DEF Walked
<1>12. Closed(D, before.servs, before.up)
  <2> SUFFICES ASSUME NEW x \in before.servs, before.up[x] \in D PROVE x \in D
    BY DEF Closed
  <2>1. CASE before.up[x] \in Gone
    BY <1>1, <2>1 DEF Walked, Closed
  <2>2. CASE before.up[x] = t
    <3>1. SUFFICES x \notin Gone => FALSE
      OBVIOUS
    <3>2. x \notin Gone => x \in Servers /\ up[x] = before.up[x]
      BY <1>1, <1>4 DEF Gone, Walked
    <3>3. QED
      BY <1>5, <2>2, <3>2
  <2>3. QED
    BY <2>1, <2>2
<1>13. \A s \in Serv : s # t => up'[s] = up[s]
  BY <1>1 DEF Walked
<1>14. QED
  BY <1>1, <1>2, <1>3, <1>4, <1>7, <1>8, <1>9, <1>10, <1>11, <1>12, <1>13 DEF t, n

LEMMA FinishWalks ==
    ASSUME WalkInv, Finish PROVE WalkInv'
<1>1. IInv' /\ Walked /\ Loops /\ Calls /\ fault = "none" /\ ~Idle /\ TypeOK /\ Ordered
  BY StepHolds DEF Next, Walk, WalkInv, IInv, Finish, Running
<1>2. CASE fault' = "null"
  <2>1. UNCHANGED <<servlist, up, home, stack, before>>
    BY <1>1, <1>2 DEF Finish
  <2>2. QED
    BY <1>1, <1>2, <2>1 DEF WalkInv, StaleNeedsGrandchild, Walked, Gone, Whole, Servers
<1>3. CASE fault' # "null"
  <2> DEFINE t == Top.s
             n == Len(stack)
             D == Gone \cup {t}
  <2>1. /\ t \in Servers /\ fault' = "none" /\ n \in Nat \ {0}
        /\ Len(stack') = n - 1 /\ \A i \in 1..(n - 1) : stack'[i] = stack[i]
        /\ Servers' = before.servs \ D
        /\ up' = [s \in Serv |-> IF s \in D THEN NoServ ELSE before.up[s]]
        /\ home' = [u \in User |-> IF before.home[u] \in D THEN NoServ ELSE before.home[u]]
        /\ D \subseteq Whole /\ Closed(D, before.servs, before.up)
        /\ up[t] = before.up[t] /\ \A s \in Serv : s # t => up'[s] = up[s]
    BY <1>3, FinishTakes, Zenon
  <2>2. StaleNeedsGrandchild'
    BY <2>1 DEF StaleNeedsGrandchild
  <2>3. CASE n = 1
    <3>1. Idle'
      <4>1. stack' \in Seq(Frame) /\ Len(stack') = 0
        BY <1>1, <2>1, <2>3 DEF IInv, TypeOK
      <4>2. QED
        BY <4>1 DEF Idle
    <3>2. QED
      BY <1>1, <2>2, <3>1 DEF WalkInv
  <2>4. CASE n # 1
    <3> HIDE DEF t, n
    <3>1. before' = before
      BY <1>3, <2>4 DEF Finish, n
    <3>2. 1 \in 1..(n - 1) /\ n \in 1..n /\ 1 \in 1..n
      BY <2>1, <2>4
    <3>3. stack'[1] = stack[1] /\ Whole' = Whole
      BY <2>1, <3>1, <3>2 DEF Whole
    <3>4. Gone' = D
      BY <1>1, <2>1, <3>1 DEF Gone, Walked
    <3> HIDE DEF D
    <3>5. \A i \in 1..(n - 1) : i \in 1..n /\ i < n
      BY <2>1
    <3>6. Walked'
      <4>1. \A i \in 1..Len(stack') : stack'[i].s \in Whole'
        BY <1>1, <2>1, <3>3, <3>5 DEF Walked, n
      <4>2. QED
        BY <1>1, <2>1, <3>1, <3>3, <3>4, <4>1 DEF Walked
    <3>7. Top = stack[n]
      BY <1>1, TopIsFrame DEF n
    <3>8. t = stack[n - 1].cur /\ up[t] = stack[n - 1].s /\ n - 1 \in 1..(n - 1)
      <4>1. n - 1 \in 1..(n - 1) /\ (n - 1) + 1 = n
        BY <2>1, <2>4
      <4>2. QED
        BY <1>1, <3>7, <4>1 DEF Loops, t, n
    \* A node that this call frees is no child of the server that the outermost call exits,
    \* unless that call waits for it: then it is not the one that it has remembered.
    <3>9. ASSUME NEW i \in 1..(n - 1), stack[i].nxt = t
          PROVE  before.up[t] # stack[1].s
      <4>1. CASE n = 2
        <5>1. i = 1 /\ n - 1 = 1
          BY <4>1
        <5>2. t \in Serv
          BY <1>1, <2>1, InList DEF TypeOK, Servers
        <5>3. stack[1].nxt # stack[1].cur
          BY <1>1, <3>2, <3>8, <5>1, <5>2, NoServIsNone DEF Loops, n
        <5>4. QED
          BY <3>8, <3>9, <5>1, <5>3
      <4>2. CASE n # 2
        <5>1. 1 < n - 1 /\ n - 1 \in 1..n
          BY <2>1, <2>4, <4>2
        <5>2. stack[1].s # Me /\ (stack[n - 1].s = Me \/ Behind(servlist, stack[1].s, stack[n - 1].s))
          BY <1>1, <3>2, <5>1 DEF Calls, Nested, n
        <5>3. stack[n - 1].s # stack[1].s
          BY <1>1, <5>2, BehindDiffers DEF TypeOK
        <5>4. QED
          BY <2>1, <3>8, <5>3
      <4>3. QED
        BY <4>1, <4>2
    <3>10. ASSUME NEW i \in 1..(n - 1)
           PROVE  /\ stack'[i].nxt \in before.servs \cup {NoServ}
                  /\ stack'[i].cur # NoServ => stack'[i].nxt # stack'[i].cur
                  /\ stack'[i].nxt \in D => before.up[stack'[i].nxt] # stack[1].s
      <4>1. stack'[i] = stack[i] /\ i \in 1..Len(stack)
        BY <2>1, <3>5 DEF n
      <4>2. /\ stack[i].nxt \in before.servs \cup {NoServ}
            /\ stack[i].cur # NoServ => stack[i].nxt # stack[i].cur
            /\ stack[i].nxt \in Gone => before.up[stack[i].nxt] # stack[1].s
        BY <1>1, <4>1 DEF Loops
      <4>3. QED
        BY <3>9, <4>1, <4>2 DEF D
    <3>11. ASSUME NEW i \in 1..((n - 1) - 1)
           PROVE  stack'[i + 1].s = stack'[i].cur /\ up'[stack'[i + 1].s] = stack'[i].s
      <4>1. i \in 1..(n - 1) /\ i + 1 \in 1..(n - 1) /\ i + 1 \in 1..n /\ i + 1 < n
        BY <2>1
      <4>2. stack[i + 1].s = stack[i].cur /\ up[stack[i + 1].s] = stack[i].s
        BY <1>1, <4>1 DEF Loops, n
      <4>3. stack[i + 1].s \in Servers
        BY <1>1, <4>1 DEF Calls, n
      <4>4. stack[i + 1].s # Me /\ (t = Me \/ Behind(servlist, stack[i + 1].s, t))
        BY <1>1, <3>2, <3>7, <4>1 DEF Calls, Nested, t, n
      <4>5. stack[i + 1].s # t /\ stack[i + 1].s \in Serv
        BY <1>1, <4>3, <4>4, BehindDiffers, InList DEF TypeOK, Servers
      <4>6. QED
        BY <2>1, <4>1, <4>2, <4>5
    <3>12. Loops'
      BY <2>1, <3>1, <3>3, <3>4, <3>10, <3>11 DEF Loops
    <3>13. QED
      BY <1>1, <2>2, <3>6, <3>12 DEF WalkInv
  <2>5. QED
    BY <2>3, <2>4
<1>4. QED
  BY <1>2, <1>3

LEMMA WalkStep == WalkInv /\ [Next]_vars => WalkInv'
<1> SUFFICES ASSUME WalkInv, [Next]_vars PROVE WalkInv'
  OBVIOUS
<1>1. IInv'
  BY StepHolds DEF WalkInv
<1>2. CASE UNCHANGED vars
  BY <1>1, <1>2 DEF WalkInv, vars, Walked, Loops, Gone, Whole, Servers, Idle, StaleNeedsGrandchild
<1>3. ASSUME Idle, Idle', UNCHANGED fault PROVE WalkInv'
  <2>1. fault = "none" /\ fault' = "none"
    BY <1>3 DEF WalkInv, IInv
  <2>2. QED
    BY <1>1, <1>3, <2>1 DEF WalkInv, StaleNeedsGrandchild
<1>4. CASE RecvServer \/ (\E p, s \in Serv : RecvSid(p, s)) \/ \E u \in User, s \in Serv : RecvUser(u, s)
  <2>1. Idle /\ Idle' /\ UNCHANGED fault
    BY <1>4 DEF RecvServer, RecvSid, RecvUser, Idle
  <2>2. QED
    BY <1>3, <2>1
<1>5. CASE Next
  BY <1>2, <1>4, <1>5, SquitWalks, CallWalks, AdvanceWalks, FinishWalks DEF Next, Walk, Halted
<1>6. QED
  BY <1>2, <1>5

LEMMA WalkHolds == Spec => []WalkInv
<1>1. Init => WalkInv
  BY InitHolds DEF WalkInv, Init, Idle, StaleNeedsGrandchild
<1>2. QED
  BY <1>1, WalkStep, PTL DEF Spec

\* The loop of exit_serv steps on a freed node only where a server two hops below the one that
\* is exited was taken along: a tree of any size whose servers are all next to the hub is safe.
THEOREM StaleNeedsGrandchildHolds == Spec => []StaleNeedsGrandchild
<1>1. WalkInv => StaleNeedsGrandchild
  BY DEF WalkInv
<1>2. QED
  BY <1>1, WalkHolds, PTL

-----------------------------------------------------------------------------
(* The walk implements the netsplit of NetTree *)

LEMMA TreeInit == Init => Tree!Init
<1> SUFFICES ASSUME Init PROVE Tree!Init
  OBVIOUS
<1>1. Servers = {Me} /\ Idle
  BY DEF Init, Servers, ToSet, Idle
<1>2. QED
  BY <1>1 DEF Init, Tree!Init

\* When the outermost call returns, what is gone is the subtree: it is closed and part of it.
LEMMA LastFinishIsSquit ==
    ASSUME WalkInv, Finish, Idle' PROVE \E s \in Serv : Tree!Squit(s)
<1> DEFINE t == Top.s
           D == Gone \cup {t}
<1>1. Walked /\ ~Idle /\ TypeOK /\ stack' # stack
  BY DEF WalkInv, IInv, Finish, Running, Idle
<1>2. fault' # "null"
  BY <1>1 DEF Finish, WalkInv, IInv, Running
<1>3. /\ t \in Servers /\ Len(stack) \in Nat \ {0} /\ Len(stack') = Len(stack) - 1
      /\ Servers' = before.servs \ D
      /\ up' = [s \in Serv |-> IF s \in D THEN NoServ ELSE before.up[s]]
      /\ home' = [u \in User |-> IF before.home[u] \in D THEN NoServ ELSE before.home[u]]
      /\ D \subseteq Whole /\ Closed(D, before.servs, before.up)
  BY <1>2, FinishTakes, Zenon
<1>4. Len(stack) = 1
  BY <1>3 DEF Idle
<1>5. t = stack[1].s /\ t \in before.servs /\ t \in Serv
  BY <1>1, <1>3, <1>4, TopIsFrame DEF Walked
<1>6. D \subseteq before.servs
  BY <1>5 DEF Gone
<1> HIDE DEF t
<1>7. D = Subtree(t, before.servs, before.up)
  <2>1. Subtree(t, before.servs, before.up) \subseteq D
    BY <1>3, <1>5, <1>6, SubtreeIsLeast
  <2>2. QED
    BY <1>3, <1>5, <2>1 DEF Whole
<1> HIDE DEF D
<1>8. Tree!Squit(t)
  BY <1>1, <1>3, <1>5, <1>7 DEF Tree!Squit, Tree!Subtree, Tree!Closed, Subtree, Closed
<1>9. QED
  BY <1>5, <1>8

LEMMA TreeStep == WalkInv /\ [Next]_vars => [Tree!Next]_(Tree!vars)
<1> SUFFICES ASSUME WalkInv, [Next]_vars PROVE [Tree!Next]_(Tree!vars)
  OBVIOUS
<1>1. CASE UNCHANGED vars
  BY <1>1 DEF vars, Servers, Idle, Tree!vars
<1>2. CASE RecvServer
  <2>1. Idle /\ Idle' /\ Servers' = Servers \cup {Hub}
    <3>1. servlist \in Seq(Serv) /\ IsInjective(servlist) /\ Hub \in Serv /\ Hub \notin ToSet(servlist)
      BY <1>2, ServersExist DEF WalkInv, IInv, TypeOK, RecvServer, Servers
    <3>2. ToSet(Append(servlist, Hub)) = ToSet(servlist) \cup {Hub}
      BY <3>1, AppendKeeps, ZenonT(60)
    <3>3. QED
      BY <1>2, <3>2 DEF RecvServer, Servers, Idle
  <2>2. Tree!Adopt
    BY <1>2, <2>1 DEF RecvServer, Tree!Adopt
  <2>3. QED
    BY <2>2 DEF Tree!Next
<1>3. ASSUME NEW p \in Serv, NEW s \in Serv, RecvSid(p, s) PROVE Tree!Next
  <2>1. Idle /\ Idle' /\ Servers' = Servers \cup {s}
    <3>1. servlist \in Seq(Serv) /\ IsInjective(servlist) /\ s \notin ToSet(servlist)
      BY <1>3 DEF WalkInv, IInv, TypeOK, RecvSid, Servers
    <3>2. ToSet(Append(servlist, s)) = ToSet(servlist) \cup {s}
      BY <3>1, AppendKeeps, ZenonT(60)
    <3>3. QED
      BY <1>3, <3>2 DEF RecvSid, Servers, Idle
  <2>2. Tree!Introduce(p, s)
    BY <1>3, <2>1 DEF RecvSid, Tree!Introduce
  <2>3. QED
    BY <2>2 DEF Tree!Next
<1>4. ASSUME NEW u \in User, NEW s \in Serv, RecvUser(u, s) PROVE Tree!Next
  <2>1. Idle /\ Idle' /\ Servers' = Servers
    BY <1>4 DEF RecvUser, Servers, Idle
  <2>2. Tree!Enter(u, s)
    BY <1>4, <2>1 DEF RecvUser, Tree!Enter
  <2>3. QED
    BY <2>2 DEF Tree!Next
\* The call begins with the network there is.
<1>5. ASSUME NEW s \in Serv, RecvSquit(s) PROVE UNCHANGED Tree!vars
  <2>1. /\ Idle /\ ~Idle' /\ UNCHANGED <<up, home>>
        /\ before'.servs = Servers /\ before'.up = up /\ before'.home = home
    BY <1>5 DEF RecvSquit, Idle, Snapshot
  <2>2. QED
    BY <2>1 DEF Tree!vars
<1>6. ASSUME ~Idle, ~Idle', UNCHANGED before PROVE UNCHANGED Tree!vars
  BY <1>6 DEF Tree!vars
<1>7. ASSUME ~Idle, stack' # <<>>, UNCHANGED before PROVE UNCHANGED Tree!vars
  BY <1>6, <1>7 DEF Idle
<1>8. CASE Call
  <2>1. ~Idle /\ UNCHANGED before /\ stack \in Seq(Frame) /\ stack' = Append(stack, Enter(Top.cur))
    BY <1>8 DEF Call, Running, WalkInv, IInv, TypeOK
  <2>2. stack' # <<>>
    BY <2>1
  <2>3. QED
    BY <1>7, <2>1, <2>2
<1>9. CASE Advance
  <2>1. ~Idle /\ UNCHANGED before /\ TypeOK
    BY <1>9 DEF Advance, Running, WalkInv, IInv
  <2>2. \A f : stack' = Front(stack) \o <<f>> => stack' # <<>>
    <3>1. Front(stack) \in Seq(Frame)
      BY <2>1, TopRemoved DEF TypeOK, Idle
    <3>2. QED
      BY <3>1
  <2>3. stack' # <<>>
    BY <1>9, <2>1, <2>2 DEF Advance, Idle
  <2>4. QED
    BY <1>7, <2>1, <2>3
<1>10. CASE Finish
  <2>1. CASE Idle'
    BY <1>10, <2>1, LastFinishIsSquit DEF Tree!Next
  <2>2. CASE ~Idle'
    <3>1. ~Idle /\ TypeOK
      BY <1>10 DEF Finish, Running, WalkInv, IInv
    <3>2. UNCHANGED before
      <4>1. Len(stack) = 1 /\ stack' = Front(stack) => Idle'
        <5>1. stack \in Seq(Frame) /\ stack # <<>>
          BY <3>1 DEF TypeOK, Idle
        <5>2. Front(stack) \in Seq(Frame) /\ Len(Front(stack)) = Len(stack) - 1
          BY <5>1, TopRemoved
        <5>3. QED
          BY <5>2 DEF Idle
      <4>2. QED
        BY <1>10, <2>2, <4>1 DEF Finish
    <3>3. QED
      BY <1>6, <2>2, <3>1, <3>2
  <2>3. QED
    BY <2>1, <2>2
<1>11. QED
  BY <1>1, <1>2, <1>3, <1>4, <1>5, <1>8, <1>9, <1>10 DEF Next, Walk, Halted

\* exit_serv, with all its nested loops over a list that they shorten, is the netsplit of one
\* step that NetTree describes, for any tree: when it returns, the whole subtree is gone with
\* its users and nothing else is.
THEOREM ImplementsTreeHolds == Spec => ImplementsTree
<1>1. QED
  BY TreeInit, TreeStep, WalkHolds, PTL DEF Spec, ImplementsTree, Tree!Spec

=============================================================================
