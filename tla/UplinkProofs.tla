---------------------------- MODULE UplinkProofs ----------------------------
(***************************************************************************)
(* Proofs about Uplink, for any descriptors and outcomes of write, and     *)
(* about Protocol, which speaks over it, for any users, uplinks and        *)
(* protocol modules; both for any bounds.                                  *)
(***************************************************************************)
EXTENDS Uplink, Protocol, ListProofs

-----------------------------------------------------------------------------
(* The descriptor of a new socket *)

\* socket() returns a descriptor nobody holds, if there is one: never NoFd.
LEMMA LowestIsFree ==
    ASSUME Free # {}
    PROVE  Lowest \in Fds /\ Lowest # NoFd
<1>1. Free \in SUBSET Nat
  BY FdsAreNumbers DEF Free
<1>2. \E f \in Free : \A g \in Free : f <= g
  BY <1>1, LeastOfSet
<1>3. Lowest \in Free
  BY <1>2 DEF Lowest
<1>4. QED
  BY <1>3, FdsAreNumbers DEF Free

-----------------------------------------------------------------------------
(* The reconnect timer *)

\* OneTimer is not inductive: the loss of the link adds one timer to those
\* there are, so there must be none while it is up, also after a Connect that
\* failed; and the first Connect must find none.
TimerInv ==
    /\ mode \in {"boot", "idle", "read", "parse"}
    /\ OneTimer
    /\ Up => ~failed
    /\ mode = "boot" => ~Up /\ timers = 0

\* The steps of sending: either the socket and the timers stay, or the link
\* is lost, and with it one timer is added.
LEMMA SendLineSocket ==
    ASSUME SendLine
    PROVE  /\ Up /\ UNCHANGED <<mode, failed, conn, readVars>>
           /\ UNCHANGED <<sd, timers>> \/ (sd' = NoFd /\ timers' = timers + 1)
<1>1. PICK f \in Flushes :
          \/ f.res = "error" /\ Lose /\ sendq' = f.rest
          \/ f.res = "wait" /\ Take(f.out, f.rest \o Unsent(next + 1, 0))
          \/ /\ f.res = "done"
             /\ \/ "error" \in Outcomes /\ Lose /\ sendq' = <<>>
                \/ \E n \in 0..2 :
                      /\ n = 0 => "again" \in Outcomes
                      /\ n = 1 => "some" \in Outcomes
                      /\ Take(f.out \o SubSeq(LineBytes(next + 1), 1, n),
                              Unsent(next + 1, n))
  BY Zenon DEF SendLine
<1>2. CASE Lose
  BY <1>2 DEF SendLine, Lose
<1>3. CASE \E out, q : Take(out, q)
  BY <1>3 DEF SendLine, Take
<1>4. QED
  BY <1>1, <1>2, <1>3, Zenon

LEMMA TimerInit == Init => TimerInv
  BY DEF Init, TimerInv, OneTimer, Up

\* What Connect does to the link, from a state without one.
LEMMA ConnectedTimer ==
    ASSUME Connected, ~Up
    PROVE  (Up' /\ ~failed') \/ (~Up' /\ failed')
<1>1. CASE /\ conn < MaxConn /\ Free # {} /\ sd' = Lowest /\ failed' = FALSE
  BY <1>1, LowestIsFree DEF Up
<1>2. CASE failed' = TRUE /\ UNCHANGED <<sd, conn, greet, left, told, read>>
  BY <1>2 DEF Up
<1>3. QED
  BY <1>1, <1>2 DEF Connected

LEMMA TimerNext == TimerInv /\ [Next]_vars => TimerInv'
<1> SUFFICES ASSUME TimerInv, [Next]_vars PROVE TimerInv'
  OBVIOUS
<1>1. CASE Boot
  BY <1>1, ConnectedTimer DEF Boot, TimerInv, OneTimer
<1>2. CASE ConnectUplink
  <2>1. timers = 1 /\ timers' = 0 /\ mode' = "idle"
    BY <1>2 DEF ConnectUplink, TimerInv, OneTimer
  <2>2. QED
    BY <1>2, <2>1, ConnectedTimer DEF ConnectUplink, TimerInv, OneTimer
<1>3. CASE SendLine
  BY <1>3, SendLineSocket DEF TimerInv, OneTimer, Up
<1>4. CASE ReadError
  BY <1>4 DEF ReadError, Lose, TimerInv, OneTimer, Up
<1>5. CASE ReadByte
  BY <1>5 DEF ReadByte, TimerInv, OneTimer, Up
<1>6. CASE ParseLine
  BY <1>6 DEF ParseLine, TimerInv, OneTimer, Up
<1>7. CASE Tell \/ Receive \/ EndRead \/ OtherOpen \/ \E f \in Fds : OtherClose(f)
  BY <1>7 DEF Tell, Receive, EndRead, OtherOpen, OtherClose, TimerInv, OneTimer, Up
<1>8. CASE UNCHANGED vars
  BY <1>8 DEF vars, TimerInv, OneTimer, Up
<1>9. QED
  BY <1>1, <1>2, <1>3, <1>4, <1>5, <1>6, <1>7, <1>8 DEF Next

\* Every way to lose the link arms exactly one timer, and every attempt to
\* connect takes it off.
THEOREM OneTimerHolds == Spec => []OneTimer
<1>1. TimerInv => OneTimer
  BY DEF TimerInv
<1>2. QED
  BY <1>1, TimerInit, TimerNext, PTL DEF Spec

-----------------------------------------------------------------------------
(* The lines that are parsed *)

\* What read_buffer may hold: the starts of lines that were broken off, of
\* earlier connections in their order, and at the end the first byte of the
\* line the latest one is in.  It holds that byte exactly when an odd number
\* of bytes has been read on it.
BufInv ==
    /\ conn \in Nat /\ read \in Nat
    /\ buf \in Seq(Byte)
    /\ \A j \in 1..Len(buf) : buf[j][2] % 2 = 1 /\ buf[j][1] <= conn
    /\ \A j \in 1..(Len(buf) - 1) : buf[j][1] < buf[j + 1][1]
    /\ read % 2 = 1 => Len(buf) > 0 /\ buf[Len(buf)] = <<conn, read>>
    /\ read % 2 = 0 => \A j \in 1..Len(buf) : buf[j][1] < conn

\* Lines wait only between the read they came with and the end of their
\* parsing, when no connection is made: so all are of the latest one.
LinesInv ==
    /\ BufInv
    /\ lines \in Seq(Seq(Byte))
    /\ mode \in {"boot", "idle"} => lines = <<>>
    /\ WholeLines

LEMMA AppendFacts ==
    ASSUME NEW T, NEW s \in Seq(T), NEW e \in T, NEW t, t = Append(s, e)
    PROVE  /\ t \in Seq(T) /\ Len(s) \in Nat /\ Len(t) = Len(s) + 1
           /\ t[Len(t)] = e
           /\ \A i \in 1..Len(s) : t[i] = s[i]
OBVIOUS

LEMMA TailFacts ==
    ASSUME NEW T, NEW s \in Seq(T), s # <<>>, NEW t, t = Tail(s)
    PROVE  /\ t \in Seq(T) /\ Len(s) \in Nat /\ Len(t) = Len(s) - 1
           /\ \A i \in 1..Len(t) : i + 1 \in 1..Len(s) /\ t[i] = s[i + 1]
OBVIOUS

LEMMA Parity ==
    ASSUME NEW r \in Nat
    PROVE  ((r + 1) % 2 = 0 /\ r % 2 = 1) \/ ((r + 1) % 2 = 1 /\ r % 2 = 0)
OBVIOUS

LineOf == Append(buf, <<conn, read + 1>>)

\* The byte that ends a line makes what was kept before it a whole line.
LEMMA EndsWhole ==
    ASSUME BufInv, (read + 1) % 2 = 0
    PROVE  LineOf \in Seq(Byte) /\ Whole(LineOf) /\ Last(LineOf)[1] = conn
<1> DEFINE n == Len(LineOf)
<1>1. read % 2 = 1
  BY Parity DEF BufInv
<1>2. /\ LineOf \in Seq(Byte) /\ n = Len(buf) + 1 /\ Len(buf) \in Nat /\ Len(buf) > 0
      /\ LineOf[n] = <<conn, read + 1>>
      /\ \A j \in 1..Len(buf) : LineOf[j] = buf[j]
  BY <1>1 DEF BufInv, LineOf, Byte
<1>3. LineOf[n - 1] = <<conn, read>>
  BY <1>1, <1>2 DEF BufInv
<1>4. \A j \in 1..(n - 2) : LineOf[j][1] < LineOf[j + 1][1] /\ LineOf[j][2] % 2 = 1
  <2> SUFFICES ASSUME NEW j \in 1..(n - 2)
               PROVE  LineOf[j][1] < LineOf[j + 1][1] /\ LineOf[j][2] % 2 = 1
    OBVIOUS
  <2>1. j \in 1..(Len(buf) - 1) /\ j \in 1..Len(buf) /\ j + 1 \in 1..Len(buf)
    BY <1>2
  <2>2. LineOf[j] = buf[j] /\ LineOf[j + 1] = buf[j + 1]
    BY <1>2, <2>1
  <2>3. QED
    BY <2>1, <2>2 DEF BufInv
<1>5. QED
  BY <1>2, <1>3, <1>4 DEF BufInv, Whole, Last

\* The first byte of a line comes behind starts of earlier connections only.
LEMMA StartsTorn ==
    ASSUME BufInv, (read + 1) % 2 # 0, read' = read + 1, buf' = LineOf, conn' = conn
    PROVE  BufInv'
<1> read \in Nat
  BY DEF BufInv
<1>1. read % 2 = 0 /\ read' % 2 = 1 /\ read' \in Nat
  BY Parity
<1>2. /\ buf' \in Seq(Byte) /\ Len(buf') = Len(buf) + 1 /\ Len(buf) \in Nat
      /\ buf'[Len(buf')] = <<conn, read'>>
      /\ \A j \in 1..Len(buf) : buf'[j] = buf[j]
  BY DEF BufInv, LineOf, Byte
<1>3. \A j \in 1..Len(buf') : buf'[j][2] % 2 = 1 /\ buf'[j][1] <= conn'
  BY <1>1, <1>2 DEF BufInv
<1>4. \A j \in 1..(Len(buf') - 1) : buf'[j][1] < buf'[j + 1][1]
  BY <1>1, <1>2 DEF BufInv
<1>5. QED
  BY <1>1, <1>2, <1>3, <1>4 DEF BufInv

\* A new connection: what is kept is of earlier ones now.
LEMMA ConnectedBuf ==
    ASSUME Connected, BufInv, buf' = buf
    PROVE  BufInv'
<1>1. CASE conn' = conn + 1 /\ read' = 0
  <2>1. conn' \in Nat /\ read' \in Nat /\ read' % 2 = 0
    BY <1>1 DEF BufInv
  <2>2. \A j \in 1..Len(buf) : buf[j][2] % 2 = 1 /\ buf[j][1] < conn' /\ buf[j][1] <= conn'
    <3> SUFFICES ASSUME NEW j \in 1..Len(buf)
                 PROVE  buf[j][2] % 2 = 1 /\ buf[j][1] < conn' /\ buf[j][1] <= conn'
      OBVIOUS
    <3>1. buf[j][1] \in Nat /\ buf[j][1] <= conn /\ buf[j][2] % 2 = 1 /\ conn \in Nat
      BY DEF BufInv, Byte
    <3>2. QED
      BY <1>1, <3>1
  <2>3. buf' \in Seq(Byte) /\ \A j \in 1..(Len(buf) - 1) : buf[j][1] < buf[j + 1][1]
    BY DEF BufInv
  <2>4. read' % 2 # 1
    BY <1>1
  <2>5. QED
    BY <2>1, <2>2, <2>3, <2>4 DEF BufInv
<1>2. CASE UNCHANGED <<sd, conn, greet, left, told, read>>
  BY <1>2 DEF Connected, BufInv
<1>3. QED
  BY <1>1, <1>2 DEF Connected

LEMMA LinesInit == Init => LinesInv
  BY DEF Init, LinesInv, BufInv, WholeLines, NoneOlder

LEMMA LinesNext == LinesInv /\ [Next]_vars => LinesInv'
<1> SUFFICES ASSUME LinesInv, [Next]_vars PROVE LinesInv'
  OBVIOUS
<1>1. CASE Boot \/ ConnectUplink
  <2>1. lines = <<>> /\ lines' = <<>> /\ buf' = buf /\ Connected
    BY <1>1 DEF Boot, ConnectUplink, LinesInv
  <2>2. BufInv'
    BY <2>1, ConnectedBuf DEF LinesInv
  <2>3. QED
    BY <2>1, <2>2 DEF LinesInv, WholeLines, NoneOlder
<1>2. CASE ReadByte
  <2>1. /\ mode' = "read" /\ mode = "read" /\ conn' = conn /\ read' = read + 1
        /\ IF (read + 1) % 2 = 0
           THEN buf' = <<>> /\ lines' = Append(lines, LineOf)
           ELSE buf' = LineOf /\ lines' = lines
    BY <1>2 DEF ReadByte, LineOf
  <2>2. CASE (read + 1) % 2 = 0
    <3>1. BufInv'
      BY <2>1, <2>2 DEF LinesInv, BufInv, Byte
    <3>2. /\ lines' \in Seq(Seq(Byte)) /\ Len(lines') = Len(lines) + 1 /\ Len(lines) \in Nat
          /\ lines'[Len(lines')] = LineOf
          /\ \A i \in 1..Len(lines) : lines'[i] = lines[i]
      <4>1. LineOf \in Seq(Byte) /\ lines \in Seq(Seq(Byte))
        BY <2>2, EndsWhole DEF LinesInv
      <4>2. lines' = Append(lines, LineOf)
        BY <2>1, <2>2
      <4>3. QED
        BY <4>1, <4>2, AppendFacts
    <3>3. \A i \in 1..Len(lines') : Whole(lines'[i]) /\ Last(lines'[i])[1] = conn'
      <4> SUFFICES ASSUME NEW i \in 1..Len(lines')
                   PROVE  Whole(lines'[i]) /\ Last(lines'[i])[1] = conn'
        OBVIOUS
      <4>1. CASE i = Len(lines')
        BY <2>1, <2>2, <3>2, <4>1, EndsWhole DEF LinesInv
      <4>2. CASE i \in 1..Len(lines)
        BY <2>1, <3>2, <4>2 DEF LinesInv, WholeLines, NoneOlder
      <4>3. QED
        BY <3>2, <4>1, <4>2
    <3>4. QED
      BY <2>1, <3>1, <3>2, <3>3 DEF LinesInv, WholeLines, NoneOlder, Whole, Last
  <2>3. CASE (read + 1) % 2 # 0
    <3>1. BufInv'
      BY <2>1, <2>3, StartsTorn DEF LinesInv
    <3>2. QED
      BY <2>1, <2>3, <3>1 DEF LinesInv, WholeLines, NoneOlder, Whole, Last
  <2>4. QED
    BY <2>2, <2>3
<1>3. CASE ParseLine
  <2>1. conn' = conn /\ BufInv'
    BY <1>3 DEF ParseLine, LinesInv, BufInv, readVars
  <2>2. CASE lines # <<>>
    <3>1. mode' = "parse" /\ lines' = Tail(lines) /\ lines \in Seq(Seq(Byte))
      BY <1>3, <2>2 DEF ParseLine, LinesInv
    <3>2. /\ lines' \in Seq(Seq(Byte))
          /\ \A i \in 1..Len(lines') : i + 1 \in 1..Len(lines) /\ lines'[i] = lines[i + 1]
      BY <2>2, <3>1, TailFacts
    <3>3. \A i \in 1..Len(lines') : Whole(lines'[i]) /\ Last(lines'[i])[1] = conn'
      BY <2>1, <3>2 DEF LinesInv, WholeLines, NoneOlder
    <3>4. QED
      BY <2>1, <3>1, <3>2, <3>3 DEF LinesInv, WholeLines, NoneOlder, Whole, Last
  <2>3. CASE lines = <<>>
    BY <1>3, <2>1, <2>3 DEF ParseLine, LinesInv, WholeLines, NoneOlder
  <2>4. QED
    BY <2>2, <2>3
<1>4. CASE SendLine
  BY <1>4, SendLineSocket DEF LinesInv, BufInv, WholeLines, NoneOlder, Whole, Last, readVars
<1>5. CASE \/ Tell \/ Receive \/ EndRead \/ ReadError \/ OtherOpen
           \/ (\E f \in Fds : OtherClose(f)) \/ UNCHANGED vars
  <2>1. /\ UNCHANGED <<conn, buf, lines, read>>
        /\ mode' \in {"boot", "idle"} => mode \in {"boot", "idle"}
    BY <1>5 DEF Tell, Receive, EndRead, ReadError, OtherOpen, OtherClose, vars, readVars
  <2>2. QED
    BY <2>1 DEF LinesInv, BufInv, WholeLines, NoneOlder, Whole, Last
<1>6. QED
  BY <1>1, <1>2, <1>3, <1>4, <1>5 DEF Next

\* What is parsed is a whole line of the latest connection, behind at most the
\* starts of lines that earlier connections broke off in.
THEOREM WholeLinesHolds == Spec => []WholeLines
<1>1. LinesInv => WholeLines
  BY DEF LinesInv
<1>2. QED
  BY <1>1, LinesInit, LinesNext, PTL DEF Spec

-----------------------------------------------------------------------------
(* The stream of bytes *)

\* What an entry has to write to the descriptor fd.
PieceFor(fd, e) == IF e.fd = fd THEN Rest(e) ELSE <<>>

LEMMA LineHasTwo ==
    ASSUME NEW l \in Nat
    PROVE  /\ LineBytes(l) \in Seq(Byte) /\ Len(LineBytes(l)) = 2
           /\ SubSeq(LineBytes(l), 1, 2) = LineBytes(l)
           /\ SubSeq(LineBytes(l), 2, 2) = <<<<l, 2>>>> /\ SubSeq(LineBytes(l), 1, 1) = <<<<l, 1>>>>
           /\ SubSeq(LineBytes(l), 1, 0) = <<>>
           /\ <<<<l, 1>>>> \o <<<<l, 2>>>> = LineBytes(l)
<1>1. <<l, 1>> \in Byte /\ <<l, 2>> \in Byte
  BY DEF Byte
<1>2. ASSUME NEW x \in Byte, NEW y \in Byte
      PROVE  /\ <<x, y>> \in Seq(Byte) /\ Len(<<x, y>>) = 2
             /\ SubSeq(<<x, y>>, 1, 2) = <<x, y>> /\ SubSeq(<<x, y>>, 2, 2) = <<y>>
             /\ SubSeq(<<x, y>>, 1, 1) = <<x>> /\ SubSeq(<<x, y>>, 1, 0) = <<>>
             /\ <<x>> \o <<y>> = <<x, y>>
  <2> DEFINE xy == <<x, y>>
  <2>1. xy \in Seq(Byte) /\ Len(xy) = 2 /\ xy[1] = x /\ xy[2] = y
    OBVIOUS
  <2> HIDE DEF xy
  <2>2. SubSeq(xy, 1, 2) = xy
    BY <2>1
  <2>0. ASSUME NEW z \in Byte
        PROVE  <<z>> \in Seq(Byte) /\ Len(<<z>>) = 1 /\ \A m \in Seq(Byte) : Len(m) = 1 /\ m[1] = z => m = <<z>>
    <3> DEFINE k == <<z>>
    <3>1. k \in Seq(Byte) /\ Len(k) = 1 /\ k[1] = z
      OBVIOUS
    <3> HIDE DEF k
    <3>2. ASSUME NEW m \in Seq(Byte), Len(m) = 1, m[1] = z PROVE m = k
      <4>1. \A i \in 1..Len(m) : m[i] = k[i]
        BY <3>1, <3>2
      <4>2. QED
        BY <3>1, <3>2, <4>1, SeqEqual
    <3>3. QED
      BY <3>1, <3>2 DEF k
  <2>3. SubSeq(xy, 2, 2) = <<y>>
    <3>1. SubSeq(xy, 2, 2) \in Seq(Byte) /\ Len(SubSeq(xy, 2, 2)) = 1 /\ SubSeq(xy, 2, 2)[1] = xy[2]
      BY <2>1
    <3>2. QED
      BY <2>0, <2>1, <3>1
  <2>4. SubSeq(xy, 1, 1) = <<x>>
    <3>1. SubSeq(xy, 1, 1) \in Seq(Byte) /\ Len(SubSeq(xy, 1, 1)) = 1 /\ SubSeq(xy, 1, 1)[1] = xy[1]
      BY <2>1
    <3>2. QED
      BY <2>0, <2>1, <3>1
  <2>5. SubSeq(xy, 1, 0) = <<>>
    BY <2>1
  <2>6. <<x>> \o <<y>> = <<x, y>>
    <3>1. <<x>> \in Seq(Byte) /\ <<y>> \in Seq(Byte) /\ Len(<<x>>) = 1 /\ Len(<<y>>) = 1
      BY <2>0
    <3>2. <<x>> = SubSeq(xy, 1, 1) /\ <<y>> = SubSeq(xy, 2, 2)
      BY <2>3, <2>4
    <3>3. SubSeq(xy, 1, 1) \o SubSeq(xy, 1 + 1, 2) = SubSeq(xy, 1, 2)
      BY <2>1, ConcatAdjacentSubSeq
    <3>4. SubSeq(xy, 1 + 1, 2) = SubSeq(xy, 2, 2)
      OBVIOUS
    <3>5. <<x>> \o <<y>> = xy
      BY <2>2, <3>2, <3>3, <3>4
    <3>6. QED
      BY <3>5 DEF xy
  <2>7. QED
    BY <2>1, <2>2, <2>3, <2>4, <2>5, <2>6 DEF xy
<1>3. QED
  BY <1>1, <1>2 DEF LineBytes

LEMMA RestOfEntry ==
    ASSUME NEW e \in Entry
    PROVE  /\ Rest(e) \in Seq(Byte) /\ \A fd : PieceFor(fd, e) \in Seq(Byte)
           /\ e.pos = 0 => Rest(e) = LineBytes(e.line)
           /\ e.pos = 1 => Rest(e) = <<<<e.line, 2>>>>
<1>1. e.line \in Nat /\ e.pos \in {0, 1}
  BY DEF Entry
<1>2. <<e.line, 2>> \in Byte
  BY <1>1 DEF Byte
<1>3. (e.pos = 0 => Rest(e) = LineBytes(e.line)) /\ (e.pos = 1 => Rest(e) = <<<<e.line, 2>>>>)
  <2>1. SubSeq(LineBytes(e.line), 1, 2) = LineBytes(e.line) /\ SubSeq(LineBytes(e.line), 2, 2) = <<<<e.line, 2>>>>
    BY <1>1, LineHasTwo
  <2>2. 0 + 1 = 1 /\ 1 + 1 = 2
    OBVIOUS
  <2>3. CASE e.pos = 0
    BY <2>1, <2>2, <2>3 DEF Rest
  <2>4. CASE e.pos = 1
    BY <2>1, <2>2, <2>4 DEF Rest
  <2>5. QED
    BY <1>1, <2>3, <2>4
<1>4. Rest(e) \in Seq(Byte)
  <2>1. LineBytes(e.line) \in Seq(Byte) /\ <<<<e.line, 2>>>> \in Seq(Byte)
    <3>1. \A z \in Byte : <<z>> \in Seq(Byte)
      OBVIOUS
    <3>2. QED
      BY <1>1, <1>2, <3>1, LineHasTwo
  <2>2. QED
    BY <1>1, <1>3, <2>1
<1>5. QED
  BY <1>3, <1>4 DEF PieceFor

\* Queues one behind the other.
LEMMA BytesJoin ==
    ASSUME NEW fd, NEW q \in Seq(Entry), NEW r \in Seq(Entry)
    PROVE  /\ Bytes(fd, q) \in Seq(Byte) /\ Bytes(fd, r) \in Seq(Byte)
           /\ q \o r \in Seq(Entry) /\ Bytes(fd, q \o r) = Bytes(fd, q) \o Bytes(fd, r)
<1> DEFINE m == Len(q)
           n == Len(r)
           s == q \o r
           a == [i \in 1..Len(q) |-> PieceFor(fd, q[i])]
           b == [i \in 1..Len(r) |-> PieceFor(fd, r[i])]
           c == [i \in 1..Len(s) |-> PieceFor(fd, s[i])]
<1>1. /\ s \in Seq(Entry) /\ Len(s) = m + n /\ m \in Nat /\ n \in Nat
      /\ \A i \in 1..m : s[i] = q[i] /\ q[i] \in Entry
      /\ \A i \in 1..n : s[m + i] = r[i] /\ r[i] \in Entry
  OBVIOUS
<1>2. Bytes(fd, q) = FlattenSeq(a) /\ Bytes(fd, r) = FlattenSeq(b) /\ Bytes(fd, s) = FlattenSeq(c)
  BY DEF Bytes, PieceFor
<1> HIDE DEF s
<1>3. a \in Seq(Seq(Byte)) /\ Len(a) = m /\ \A i \in 1..m : a[i] = PieceFor(fd, q[i])
  BY <1>1, RestOfEntry
<1>4. b \in Seq(Seq(Byte)) /\ Len(b) = n /\ \A i \in 1..n : b[i] = PieceFor(fd, r[i])
  BY <1>1, RestOfEntry
<1>5. DOMAIN c = 1..(m + n) /\ \A i \in 1..(m + n) : c[i] = PieceFor(fd, s[i])
  BY <1>1
<1>6. c = [i \in 1..(m + n) |-> c[i]]
  BY <1>1
<1> HIDE DEF a, b, c
<1>7. /\ a \o b \in Seq(Seq(Byte)) /\ DOMAIN (a \o b) = 1..(m + n)
      /\ a \o b = [i \in 1..(m + n) |-> (a \o b)[i]]
      /\ \A i \in 1..m : (a \o b)[i] = a[i]
      /\ \A i \in 1..n : (a \o b)[m + i] = b[i]
  <2>1. /\ a \o b \in Seq(Seq(Byte)) /\ Len(a \o b) = m + n
        /\ \A i \in 1..(m + n) : (a \o b)[i] = IF i <= m THEN a[i] ELSE b[i - m]
    <3>1. ASSUME NEW x \in Seq(Seq(Byte)), NEW y \in Seq(Seq(Byte))
          PROVE  /\ x \o y \in Seq(Seq(Byte)) /\ Len(x \o y) = Len(x) + Len(y)
                 /\ \A i \in 1..(Len(x) + Len(y)) : (x \o y)[i] = IF i <= Len(x) THEN x[i] ELSE y[i - Len(x)]
      BY ConcatProperties
    <3>2. a \in Seq(Seq(Byte)) /\ b \in Seq(Seq(Byte)) /\ Len(a) = m /\ Len(b) = n
      BY <1>3, <1>4
    <3> HIDE DEF m, n
    <3>3. /\ a \o b \in Seq(Seq(Byte)) /\ Len(a \o b) = Len(a) + Len(b)
          /\ \A i \in 1..(Len(a) + Len(b)) : (a \o b)[i] = IF i <= Len(a) THEN a[i] ELSE b[i - Len(a)]
      BY <3>1, <3>2
    <3>4. QED
      BY <3>2, <3>3
  <2>2. \A i \in 1..m : i \in 1..(m + n) /\ i <= m
    BY <1>1
  <2>3. \A i \in 1..n : m + i \in 1..(m + n) /\ ~(m + i <= m) /\ (m + i) - m = i
    BY <1>1
  <2>4. \A i \in 1..m : (a \o b)[i] = a[i]
    BY <2>1, <2>2
  <2>5. \A i \in 1..n : (a \o b)[m + i] = b[i]
    BY <2>1, <2>3
  <2>6. DOMAIN (a \o b) = 1..(m + n) /\ a \o b = [i \in 1..(m + n) |-> (a \o b)[i]]
    <3> DEFINE x == a \o b
    <3>1. x \in Seq(Seq(Byte)) /\ Len(x) = m + n
      BY <2>1
    <3> HIDE DEF x, m, n
    <3>2. DOMAIN x = 1..(m + n) /\ x = [i \in 1..(m + n) |-> x[i]]
      BY <3>1
    <3>3. QED
      BY <3>2 DEF x
  <2> HIDE DEF m, n
  <2>7. QED
    BY <2>1, <2>4, <2>5, <2>6
<1>8. ASSUME NEW i \in 1..(m + n) PROVE c[i] = (a \o b)[i]
  <2>1. CASE i \in 1..m
    BY <1>1, <1>3, <1>5, <1>7, <2>1
  <2>2. CASE i \notin 1..m
    <3>1. i - m \in 1..n /\ m + (i - m) = i
      BY <1>1, <2>2
    <3>2. s[i] = r[i - m] /\ (a \o b)[i] = b[i - m]
      BY <1>1, <1>7, <3>1
    <3>3. QED
      BY <1>4, <1>5, <3>1, <3>2
  <2>3. QED
    BY <2>1, <2>2
<1>9. c = a \o b
  BY <1>6, <1>7, <1>8
<1>10. FlattenSeq(a) \in Seq(Byte) /\ FlattenSeq(b) \in Seq(Byte) /\ FlattenSeq(a \o b) = FlattenSeq(a) \o FlattenSeq(b)
  BY <1>3, <1>4, FlattenJoin
<1>11. QED
  BY <1>1, <1>2, <1>9, <1>10 DEF s

LEMMA BytesOne ==
    ASSUME NEW fd, NEW e \in Entry
    PROVE  <<e>> \in Seq(Entry) /\ Bytes(fd, <<e>>) = PieceFor(fd, e) /\ Bytes(fd, <<>>) = <<>>
<1> DEFINE q == <<e>>
           a == [i \in 1..Len(q) |-> PieceFor(fd, q[i])]
<1>1. q \in Seq(Entry) /\ Len(q) = 1 /\ q[1] = e
  OBVIOUS
<1>2. Bytes(fd, q) = FlattenSeq(a)
  BY DEF Bytes, PieceFor
<1>3. a = <<PieceFor(fd, e)>>
  BY <1>1
<1>4. FlattenSeq(<<PieceFor(fd, e)>>) = PieceFor(fd, e)
  BY RestOfEntry, FlattenOne
<1>5. Bytes(fd, <<>>) = <<>>
  <2>1. [i \in 1..Len(<<>>) |-> IF <<>>[i].fd = fd THEN Rest(<<>>[i]) ELSE <<>>] = <<>>
    OBVIOUS
  <2>2. QED
    BY <2>1, FlattenOne, <<>> \in Seq(Byte) DEF Bytes
<1>6. QED
  BY <1>1, <1>2, <1>3, <1>4, <1>5

\* One behind the other, for the provers a term like any other.
Cat(a, b) == a \o b

LEMMA CatThree ==
    ASSUME NEW x \in Seq(Byte), NEW y \in Seq(Byte), NEW z \in Seq(Byte)
    PROVE  Cat(x, y) \in Seq(Byte) /\ Cat(Cat(x, y), z) = Cat(x, Cat(y, z))
<1>1. (x \o y) \o z = x \o (y \o z)
  BY ConcatAssociative
<1>2. x \o y \in Seq(Byte)
  OBVIOUS
<1>3. QED
  BY <1>1, <1>2 DEF Cat

LEMMA Regrouped ==
    ASSUME NEW x \in Seq(Byte), NEW y \in Seq(Byte), NEW z \in Seq(Byte), NEW v \in Seq(Byte)
    PROVE  Cat(x, y) \in Seq(Byte) /\ Cat(Cat(x, y), Cat(z, v)) = Cat(x, Cat(Cat(y, z), v))
<1>1. Cat(x, y) \in Seq(Byte) /\ Cat(z, v) \in Seq(Byte)
  BY CatThree
<1>2. Cat(Cat(y, z), v) = Cat(y, Cat(z, v))
  BY CatThree
<1>3. Cat(Cat(x, y), Cat(z, v)) = Cat(x, Cat(y, Cat(z, v)))
  <2> DEFINE c == Cat(z, v)
  <2>1. c \in Seq(Byte)
    BY <1>1
  <2> HIDE DEF c
  <2>2. Cat(Cat(x, y), c) = Cat(x, Cat(y, c))
    BY <2>1, CatThree
  <2>3. QED
    BY <2>2 DEF c
<1>4. QED
  BY <1>1, <1>2, <1>3

\* A queue that is cut behind its k-th entry.
LEMMA QueueCut ==
    ASSUME NEW q \in Seq(Entry), NEW k \in 0..Len(q)
    PROVE  /\ SubSeq(q, 1, k) \in Seq(Entry) /\ SubSeq(q, k + 1, Len(q)) \in Seq(Entry)
           /\ SubSeq(q, 1, k) \o SubSeq(q, k + 1, Len(q)) = q
           /\ k < Len(q) => /\ q[k + 1] \in Entry /\ SubSeq(q, k + 2, Len(q)) \in Seq(Entry)
                            /\ SubSeq(q, k + 1, Len(q)) = <<q[k + 1]>> \o SubSeq(q, k + 2, Len(q))
<1> DEFINE n == Len(q)
<1>1. n \in Nat /\ k \in Nat /\ k <= n
  OBVIOUS
<1>2. SubSeq(q, 1, k) \in Seq(Entry) /\ SubSeq(q, k + 1, n) \in Seq(Entry)
  OBVIOUS
<1>3. SubSeq(q, 1, n) = q
  <2>1. SubSeq(q, 1, n) \in Seq(Entry) /\ Len(SubSeq(q, 1, n)) = n /\ \A i \in 1..n : SubSeq(q, 1, n)[i] = q[i]
    OBVIOUS
  <2>2. QED
    BY <2>1, SeqEqual
<1>4. SubSeq(q, 1, k) \o SubSeq(q, k + 1, n) = SubSeq(q, 1, n)
  <2>1. 1 \in 1..(Len(q) + 1) /\ k \in (1 - 1)..Len(q) /\ Len(q) \in k..Len(q)
    BY <1>1
  <2>2. QED
    BY <2>1, ConcatAdjacentSubSeq
<1>5. ASSUME k < n
      PROVE  /\ q[k + 1] \in Entry /\ SubSeq(q, k + 2, n) \in Seq(Entry)
             /\ SubSeq(q, k + 1, n) = <<q[k + 1]>> \o SubSeq(q, k + 2, n)
  <2>1. k + 1 \in 1..n /\ q[k + 1] \in Entry /\ SubSeq(q, k + 2, n) \in Seq(Entry)
    BY <1>1, <1>5
  <2>2. SubSeq(q, k + 1, k + 1) = <<q[k + 1]>>
    <3> DEFINE x == SubSeq(q, k + 1, k + 1)
               y == <<q[k + 1]>>
    <3>1. x \in Seq(Entry) /\ Len(x) = 1 /\ x[1] = q[k + 1]
      BY <1>1, <1>5
    <3>2. y \in Seq(Entry) /\ Len(y) = 1 /\ y[1] = q[k + 1]
      BY <2>1
    <3> HIDE DEF x, y
    <3>3. \A i \in 1..Len(x) : x[i] = y[i]
      BY <3>1, <3>2
    <3>4. x = y
      BY <3>1, <3>2, <3>3, SeqEqual
    <3>5. QED
      BY <3>4 DEF x, y
  <2>3. SubSeq(q, k + 1, k + 1) \o SubSeq(q, (k + 1) + 1, n) = SubSeq(q, k + 1, n)
    <3>1. k + 1 \in 1..(Len(q) + 1) /\ k + 1 \in ((k + 1) - 1)..Len(q) /\ Len(q) \in (k + 1)..Len(q)
      BY <1>1, <1>5
    <3>2. QED
      BY <3>1, ConcatAdjacentSubSeq
  <2>4. (k + 1) + 1 = k + 2
    BY <1>1
  <2>5. QED
    BY <2>1, <2>2, <2>3, <2>4
<1>6. QED
  BY <1>2, <1>3, <1>4, <1>5

\* What a flush writes to the connection and what it leaves make up what was there.
Flushed(f) ==
    /\ f.out \in Seq(Byte) /\ f.rest \in Seq(Entry)
    /\ f.out \o Bytes(sd, f.rest) = Bytes(sd, sendq)
    /\ f.res = "done" => f.rest = <<>>

LEMMA FlushKeeps ==
    ASSUME TypeOK, NEW f \in Flushes
    PROVE  Flushed(f)
<1> DEFINE n == Len(sendq)
           Out(k) == Bytes(sd, SubSeq(sendq, 1, k))
           Left(k) == SubSeq(sendq, k + 1, n)
           Half(k) == [sendq[k + 1] EXCEPT !.pos = 1]
           Said(k) == IF sendq[k + 1].fd = sd THEN <<Head(Rest(sendq[k + 1]))>> ELSE <<>>
<1>1. sendq \in Seq(Entry) /\ n \in Nat
  BY DEF TypeOK
<1>0. ASSUME NEW q \in Seq(Entry), NEW r \in Seq(Entry)
      PROVE  /\ Bytes(sd, q) \in Seq(Byte) /\ Bytes(sd, r) \in Seq(Byte)
             /\ q \o r \in Seq(Entry) /\ Bytes(sd, q \o r) = Bytes(sd, q) \o Bytes(sd, r)
  BY BytesJoin
<1>2. ASSUME NEW k \in 0..n
      PROVE  /\ Out(k) \in Seq(Byte) /\ Left(k) \in Seq(Entry)
             /\ Out(k) \o Bytes(sd, Left(k)) = Bytes(sd, sendq)
  <2>1. /\ SubSeq(sendq, 1, k) \in Seq(Entry) /\ Left(k) \in Seq(Entry)
        /\ SubSeq(sendq, 1, k) \o Left(k) = sendq
    BY <1>1, QueueCut
  <2> DEFINE x == SubSeq(sendq, 1, k)
             y == Left(k)
  <2> HIDE DEF x, y
  <2>2. x \in Seq(Entry) /\ y \in Seq(Entry) /\ x \o y = sendq
    BY <2>1 DEF x, y
  <2>3. Bytes(sd, x) \in Seq(Byte) /\ Bytes(sd, sendq) = Bytes(sd, x) \o Bytes(sd, y)
    BY <1>0, <2>2
  <2>4. QED
    BY <2>2, <2>3 DEF x, y
<1>3. ASSUME NEW k \in 0..n, k < n, sendq[k + 1].pos = 0
      PROVE  /\ Out(k) \o Said(k) \in Seq(Byte) /\ <<Half(k)>> \o SubSeq(sendq, k + 2, n) \in Seq(Entry)
             /\ (Out(k) \o Said(k)) \o Bytes(sd, <<Half(k)>> \o SubSeq(sendq, k + 2, n)) = Bytes(sd, sendq)
  <2> DEFINE e == sendq[k + 1]
             r == SubSeq(sendq, k + 2, n)
  <2>1. e \in Entry /\ r \in Seq(Entry) /\ Left(k) = <<e>> \o r
    BY <1>1, <1>3, QueueCut
  <2>2. Half(k) \in Entry /\ Half(k).fd = e.fd /\ Half(k).line = e.line /\ Half(k).pos = 1
    BY <2>1 DEF Entry
  <2>3. Said(k) \in Seq(Byte) /\ PieceFor(sd, e) = Said(k) \o PieceFor(sd, Half(k)) /\ PieceFor(sd, Half(k)) \in Seq(Byte)
    <3>1. /\ e.line \in Nat /\ Rest(e) = LineBytes(e.line) /\ Rest(Half(k)) = <<<<e.line, 2>>>>
          /\ PieceFor(sd, Half(k)) \in Seq(Byte)
      BY <1>3, <2>1, <2>2, RestOfEntry DEF Entry
    <3>2. Head(LineBytes(e.line)) = <<e.line, 1>> /\ <<e.line, 1>> \in Byte
      BY <3>1 DEF LineBytes, Byte
    <3>3. <<<<e.line, 1>>>> \in Seq(Byte) /\ <<<<e.line, 1>>>> \o <<<<e.line, 2>>>> = LineBytes(e.line)
      <4>1. \A z \in Byte : <<z>> \in Seq(Byte)
        OBVIOUS
      <4>2. QED
        BY <3>1, <3>2, <4>1, LineHasTwo
    <3>4. CASE e.fd = sd
      BY <2>2, <3>1, <3>2, <3>3, <3>4 DEF PieceFor
    <3>5. CASE e.fd # sd
      <4>1. <<>> \in Seq(Byte) /\ <<>> \o <<>> = <<>>
        BY ConcatEmptySeq, <<>> \in Seq(Byte)
      <4>2. QED
        BY <2>2, <3>1, <3>5, <4>1 DEF PieceFor
    <3>6. QED
      BY <3>4, <3>5
  <2>4. <<Half(k)>> \in Seq(Entry) /\ Bytes(sd, <<Half(k)>>) = PieceFor(sd, Half(k)) /\ Bytes(sd, <<e>>) = PieceFor(sd, e)
    BY <2>1, <2>2, BytesOne
  <2>5. <<e>> \in Seq(Entry)
    BY <2>1
  <2> DEFINE h == <<Half(k)>>
             o == Out(k)
             w == Said(k)
             p == PieceFor(sd, Half(k))
             b == Bytes(sd, r)
  <2>6. /\ Bytes(sd, Left(k)) = Bytes(sd, <<e>>) \o b /\ b \in Seq(Byte)
        /\ h \o r \in Seq(Entry) /\ Bytes(sd, h \o r) = p \o b
    <3>1. h \in Seq(Entry) /\ r \in Seq(Entry) /\ <<e>> \in Seq(Entry) /\ Bytes(sd, h) = p /\ Left(k) = <<e>> \o r
      BY <2>1, <2>4, <2>5
    <3> HIDE DEF h, r, p, e
    <3>2. Bytes(sd, <<e>> \o r) = Bytes(sd, <<e>>) \o Bytes(sd, r) /\ Bytes(sd, r) \in Seq(Byte)
      BY <1>0, <3>1
    <3>3. h \o r \in Seq(Entry) /\ Bytes(sd, h \o r) = Bytes(sd, h) \o Bytes(sd, r)
      BY <1>0, <3>1
    <3>4. QED
      BY <3>1, <3>2, <3>3
  <2>7. Bytes(sd, Left(k)) = (w \o p) \o b
    BY <2>3, <2>4, <2>6
  <2>8. o \in Seq(Byte) /\ w \in Seq(Byte) /\ p \in Seq(Byte) /\ o \o Bytes(sd, Left(k)) = Bytes(sd, sendq)
    BY <1>2, <2>3
  <2> HIDE DEF h, o, w, p, b, e, r
  <2>9. o \o w \in Seq(Byte) /\ (o \o w) \o (p \o b) = o \o ((w \o p) \o b)
    <3>1. o \in Seq(Byte) /\ w \in Seq(Byte) /\ p \in Seq(Byte) /\ b \in Seq(Byte)
      BY <2>6, <2>8
    <3>2. Cat(o, w) \in Seq(Byte) /\ Cat(Cat(o, w), Cat(p, b)) = Cat(o, Cat(Cat(w, p), b))
      BY <3>1, Regrouped
    <3>3. QED
      BY <3>2 DEF Cat
  <2>10. /\ o \o w \in Seq(Byte) /\ h \o r \in Seq(Entry)
         /\ (o \o w) \o Bytes(sd, h \o r) = Bytes(sd, sendq)
    BY <2>6, <2>7, <2>8, <2>9
  <2>11. QED
    BY <2>10 DEF h, o, w, r
<1>4. \/ \E k \in 0..n : k = n /\ f = [res |-> "done", out |-> Out(n), rest |-> <<>>]
      \/ \E k \in 0..n : /\ k < n /\ sendq[k + 1].pos = 0
                         /\ f = [res |-> "wait", out |-> Out(k) \o Said(k), rest |-> <<Half(k)>> \o SubSeq(sendq, k + 2, n)]
      \/ \E k \in 0..n, res \in {"wait", "error"} : k < n /\ f = [res |-> res, out |-> Out(k), rest |-> Left(k)]
  BY DEF Flushes
<1>5. CASE f = [res |-> "done", out |-> Out(n), rest |-> <<>>]
  <2>1. n \in 0..n
    BY <1>1
  <2>2. Left(n) = <<>>
    BY <1>1
  <2>3. QED
    BY <1>2, <1>5, <2>1, <2>2 DEF Flushed
<1>6. ASSUME NEW k \in 0..n, k < n, sendq[k + 1].pos = 0,
             f = [res |-> "wait", out |-> Out(k) \o Said(k), rest |-> <<Half(k)>> \o SubSeq(sendq, k + 2, n)]
      PROVE  Flushed(f)
  BY <1>3, <1>6 DEF Flushed
<1>7. ASSUME NEW k \in 0..n, k < n, NEW res \in {"wait", "error"}, f = [res |-> res, out |-> Out(k), rest |-> Left(k)]
      PROVE  Flushed(f)
  BY <1>2, <1>7 DEF Flushed
<1>8. QED
  <2> HIDE DEF Out, Said, Half, Left, n
  <2>1. QED
    BY <1>4, <1>5, <1>6, <1>7

\* A line, the part of it that was written and the part that was not.
LEMMA UnsentFits ==
    ASSUME NEW l \in Nat, NEW n \in 0..2, sd \in Fds
    PROVE  /\ Unsent(l, n) \in Seq(Entry) /\ Bytes(sd, Unsent(l, n)) \in Seq(Byte)
           /\ LineBytes(l) \in Seq(Byte) /\ SubSeq(LineBytes(l), 1, n) \in Seq(Byte)
           /\ Cat(SubSeq(LineBytes(l), 1, n), Bytes(sd, Unsent(l, n))) = LineBytes(l)
<1> DEFINE e == [line |-> l, pos |-> n, fd |-> sd]
           b == LineBytes(l)
           s == SubSeq(LineBytes(l), 1, n)
<1>1. /\ b \in Seq(Byte) /\ Len(b) = 2
      /\ (n = 0 => s = <<>>) /\ (n = 1 => s = <<<<l, 1>>>>) /\ (n = 2 => s = b)
      /\ <<<<l, 1>>>> \o <<<<l, 2>>>> = b
  BY LineHasTwo
<1>2. s \in Seq(Byte)
  <2>1. b \in Seq(Byte) /\ n \in 0..Len(b)
    BY <1>1
  <2> HIDE DEF b
  <2>2. SubSeq(b, 1, n) \in Seq(Byte)
    BY <2>1
  <2>3. QED
    BY <2>2 DEF b
<1> HIDE DEF b, s
<1>3. CASE n = 2
  <2>1. Unsent(l, n) = <<>> /\ <<>> \in Seq(Entry) /\ <<>> \in Seq(Byte)
    BY <1>3 DEF Unsent
  <2>2. Bytes(sd, <<>>) = <<>>
    <3>1. [i \in 1..Len(<<>>) |-> IF <<>>[i].fd = sd THEN Rest(<<>>[i]) ELSE <<>>] = <<>>
      OBVIOUS
    <3>2. QED
      BY <3>1, FlattenOne, <<>> \in Seq(Byte) DEF Bytes
  <2>3. b \o <<>> = b
    BY <1>1, ConcatEmptySeq
  <2>4. QED
    BY <1>1, <1>2, <1>3, <2>1, <2>2, <2>3 DEF Cat, b, s
<1>4. CASE n # 2
  <2>1. n \in {0, 1} /\ e \in Entry /\ e.fd = sd /\ e.line = l /\ e.pos = n /\ Unsent(l, n) = <<e>>
    BY <1>4 DEF Unsent, Entry
  <2> HIDE DEF e
  <2>2. /\ <<e>> \in Seq(Entry) /\ Bytes(sd, <<e>>) = Rest(e) /\ Rest(e) \in Seq(Byte)
        /\ (n = 0 => Rest(e) = b) /\ (n = 1 => Rest(e) = <<<<l, 2>>>>)
    BY <2>1, BytesOne, RestOfEntry DEF PieceFor, b
  <2>3. <<>> \o b = b
    BY <1>1, ConcatEmptySeq
  <2>4. s \o Rest(e) = b
    BY <1>1, <2>1, <2>2, <2>3
  <2>5. QED
    BY <1>1, <1>2, <2>1, <2>2, <2>4 DEF Cat, b, s
<1>5. QED
  BY <1>3, <1>4

\* What was written w and is left b is what was there l and was said s; a line t is added, of
\* which and of b the part o is written and q is left.
Grows(w, b, l, s, t, o, q) ==
    /\ w \in Seq(Byte) /\ b \in Seq(Byte) /\ l \in Seq(Byte) /\ s \in Seq(Byte)
    /\ t \in Seq(Byte) /\ o \in Seq(Byte) /\ q \in Seq(Byte)
    /\ Cat(w, b) = Cat(l, s) /\ Cat(o, q) = Cat(b, t)

LEMMA LineTaken ==
    ASSUME NEW w, NEW b, NEW l, NEW s, NEW t, NEW o, NEW q, Grows(w, b, l, s, t, o, q)
    PROVE  Cat(Cat(w, o), q) = Cat(l, Cat(s, t))
<1>0. /\ w \in Seq(Byte) /\ b \in Seq(Byte) /\ l \in Seq(Byte) /\ s \in Seq(Byte)
      /\ t \in Seq(Byte) /\ o \in Seq(Byte) /\ q \in Seq(Byte)
      /\ Cat(w, b) = Cat(l, s) /\ Cat(o, q) = Cat(b, t)
  BY DEF Grows
<1>1. Cat(Cat(w, o), q) = Cat(w, Cat(o, q))
  BY <1>0, CatThree
<1>2. Cat(w, Cat(b, t)) = Cat(Cat(w, b), t)
  BY <1>0, CatThree
<1>3. Cat(Cat(l, s), t) = Cat(l, Cat(s, t))
  BY <1>0, CatThree
<1>4. QED
  BY <1>0, <1>1, <1>2, <1>3

Stream == Cat(wire, Bytes(sd, sendq)) = Cat(left, said)

StreamInv ==
    /\ TypeOK /\ TimerInv
    /\ Up => Stream
    /\ ~Up => wire = <<>> /\ left = <<>> /\ said = <<>>

\* send_line takes the line after a flush.
LEMMA TakeKeeps ==
    ASSUME TypeOK, Up, Stream, NEW o \in Seq(Byte), NEW q \in Seq(Entry), Take(o, q), next' = next + 1,
           Cat(o, Bytes(sd, q)) = Cat(Bytes(sd, sendq), LineBytes(next + 1))
    PROVE  /\ Up' /\ Stream' /\ wire' \in Seq(Byte) /\ said' \in Seq(Byte) /\ sendq' \in Seq(Entry)
           /\ UNCHANGED <<sd, timers, left>>
<1>1. /\ wire \in Seq(Byte) /\ left \in Seq(Byte) /\ said \in Seq(Byte) /\ sendq \in Seq(Entry)
      /\ next + 1 \in Nat
  BY DEF TypeOK
<1>2. Bytes(sd, q) \in Seq(Byte) /\ Bytes(sd, sendq) \in Seq(Byte)
  BY <1>1, BytesJoin
<1>3. LineBytes(next + 1) \in Seq(Byte)
  BY <1>1, LineHasTwo
<1> DEFINE b == Bytes(sd, sendq)
           r == Bytes(sd, q)
           t == LineBytes(next + 1)
<1>4. /\ wire' = Cat(wire, o) /\ sendq' = q /\ said' = Cat(said, t) /\ UNCHANGED <<sd, timers, left>>
  BY DEF Take, Cat
<1>5. r \in Seq(Byte) /\ b \in Seq(Byte) /\ t \in Seq(Byte) /\ Cat(o, r) = Cat(b, t) /\ Cat(wire, b) = Cat(left, said)
  BY <1>2, <1>3 DEF Stream
<1>6. Stream' <=> Cat(wire', r) = Cat(left, said')
  BY <1>4 DEF Stream
<1> HIDE DEF b, r, t
<1>7. Cat(Cat(wire, o), r) = Cat(left, Cat(said, t))
  <2>1. wire \in Seq(Byte) /\ left \in Seq(Byte) /\ said \in Seq(Byte)
    BY <1>1
  <2>2. r \in Seq(Byte) /\ b \in Seq(Byte) /\ t \in Seq(Byte)
    BY <1>5
  <2>3. Cat(o, r) = Cat(b, t) /\ Cat(wire, b) = Cat(left, said)
    BY <1>5
  <2>4. Grows(wire, b, left, said, t, o, r)
    BY <2>1, <2>2, <2>3 DEF Grows
  <2>5. QED
    BY <2>4, LineTaken
<1>8. wire' \in Seq(Byte) /\ said' \in Seq(Byte)
  BY <1>1, <1>4, <1>5, CatThree
<1>9. QED
  BY <1>1, <1>4, <1>6, <1>7, <1>8 DEF Up

\* A flush that keeps the queue: the line is queued behind it.
LEMMA WaitFits ==
    ASSUME TypeOK, Up, NEW f \in Flushes
    PROVE  LET q == f.rest \o Unsent(next + 1, 0)
           IN  q \in Seq(Entry) /\ Cat(f.out, Bytes(sd, q)) = Cat(Bytes(sd, sendq), LineBytes(next + 1))
<1>1. sd \in Fds /\ next + 1 \in Nat /\ 0 \in 0..2
  BY DEF TypeOK, Up
<1>2. f.out \in Seq(Byte) /\ f.rest \in Seq(Entry) /\ Cat(f.out, Bytes(sd, f.rest)) = Bytes(sd, sendq)
  BY FlushKeeps DEF Flushed, Cat
<1> DEFINE t == LineBytes(next + 1)
           u == Unsent(next + 1, 0)
<1>3. /\ u \in Seq(Entry) /\ Bytes(sd, u) \in Seq(Byte) /\ t \in Seq(Byte)
      /\ Cat(SubSeq(t, 1, 0), Bytes(sd, u)) = t
  BY <1>1, UnsentFits
<1>4. Bytes(sd, u) = t
  <2>1. SubSeq(t, 1, 0) = <<>>
    BY <1>1, LineHasTwo
  <2> HIDE DEF u, t
  <2>2. <<>> \o Bytes(sd, u) = Bytes(sd, u)
    BY <1>3, ConcatEmptySeq
  <2>3. QED
    BY <1>3, <2>1, <2>2 DEF Cat
<1> DEFINE o == f.out
           r == f.rest
<1> HIDE DEF t, u, o, r
<1>5. o \in Seq(Byte) /\ r \in Seq(Entry) /\ u \in Seq(Entry) /\ Cat(o, Bytes(sd, r)) = Bytes(sd, sendq)
  BY <1>2, <1>3 DEF o, r
<1>6. /\ r \o u \in Seq(Entry) /\ Bytes(sd, r) \in Seq(Byte)
      /\ Bytes(sd, r \o u) = Cat(Bytes(sd, r), t)
  BY <1>4, <1>5, BytesJoin DEF Cat
<1>7. Cat(Cat(o, Bytes(sd, r)), t) = Cat(o, Cat(Bytes(sd, r), t))
  BY <1>3, <1>5, <1>6, CatThree
<1>8. r \o u \in Seq(Entry) /\ Cat(o, Bytes(sd, r \o u)) = Cat(Bytes(sd, sendq), t)
  BY <1>5, <1>6, <1>7
<1>9. QED
  BY <1>8 DEF o, r, t, u

\* A flush that empties the queue: n bytes of the line are written.
LEMMA DoneFits ==
    ASSUME TypeOK, Up, NEW f \in Flushes, f.res = "done", NEW n \in 0..2
    PROVE  LET o == f.out \o SubSeq(LineBytes(next + 1), 1, n)
               q == Unsent(next + 1, n)
           IN  /\ o \in Seq(Byte) /\ q \in Seq(Entry)
               /\ Cat(o, Bytes(sd, q)) = Cat(Bytes(sd, sendq), LineBytes(next + 1))
<1>1. sd \in Fds /\ next + 1 \in Nat
  BY DEF TypeOK, Up
<1> DEFINE x == f.out
           t == LineBytes(next + 1)
           s == SubSeq(t, 1, n)
           q == Unsent(next + 1, n)
           b == Bytes(sd, sendq)
<1>2. x \in Seq(Byte) /\ x = b
  <2>1. f.out \in Seq(Byte) /\ f.rest = <<>> /\ f.out \o Bytes(sd, f.rest) = Bytes(sd, sendq)
    BY FlushKeeps DEF Flushed
  <2>2. Bytes(sd, <<>>) = <<>>
    <3>1. [i \in 1..Len(<<>>) |-> IF <<>>[i].fd = sd THEN Rest(<<>>[i]) ELSE <<>>] = <<>>
      OBVIOUS
    <3>2. QED
      BY <3>1, FlattenOne, <<>> \in Seq(Byte) DEF Bytes
  <2>3. f.out \o <<>> = f.out
    BY <2>1, ConcatEmptySeq
  <2>4. QED
    BY <2>1, <2>2, <2>3
<1>3. /\ q \in Seq(Entry) /\ Bytes(sd, q) \in Seq(Byte) /\ t \in Seq(Byte) /\ s \in Seq(Byte)
      /\ Cat(s, Bytes(sd, q)) = t
  BY <1>1, UnsentFits
<1> HIDE DEF x, t, s, q, b
<1>4. Cat(x, s) \in Seq(Byte) /\ Cat(Cat(x, s), Bytes(sd, q)) = Cat(b, t)
  BY <1>2, <1>3, CatThree
<1>5. QED
  BY <1>3, <1>4 DEF Cat, x, t, s, q, b

\* send_line keeps the stream, or loses the link.
LEMMA SendKeeps ==
    ASSUME TypeOK, Stream, SendLine
    PROVE  /\ sendq' \in Seq(Entry)
           /\ \/ /\ Up' /\ Stream' /\ wire' \in Seq(Byte) /\ said' \in Seq(Byte)
                 /\ UNCHANGED <<sd, timers, left>>
              \/ sd' = NoFd /\ timers' = timers + 1 /\ wire' = <<>> /\ left' = <<>> /\ said' = <<>>
<1>1. Up /\ next' = next + 1
  BY DEF SendLine
<1>2. PICK f \in Flushes :
          \/ f.res = "error" /\ Lose /\ sendq' = f.rest
          \/ f.res = "wait" /\ Take(f.out, f.rest \o Unsent(next + 1, 0))
          \/ /\ f.res = "done"
             /\ \/ "error" \in Outcomes /\ Lose /\ sendq' = <<>>
                \/ \E n \in 0..2 :
                      /\ n = 0 => "again" \in Outcomes
                      /\ n = 1 => "some" \in Outcomes
                      /\ Take(f.out \o SubSeq(LineBytes(next + 1), 1, n),
                              Unsent(next + 1, n))
  BY Zenon DEF SendLine
<1>3. f.out \in Seq(Byte) /\ f.rest \in Seq(Entry)
  BY FlushKeeps DEF Flushed
<1>4. CASE Lose /\ sendq' \in {f.rest, <<>>}
  <2>0. <<>> \in Seq(Entry)
    OBVIOUS
  <2>1. sendq' \in Seq(Entry)
    BY <1>3, <1>4, <2>0
  <2>2. QED
    BY <1>4, <2>1 DEF Lose
<1>5. CASE Take(f.out, f.rest \o Unsent(next + 1, 0))
  <2> DEFINE q == f.rest \o Unsent(next + 1, 0)
             o == f.out
  <2>1. q \in Seq(Entry) /\ o \in Seq(Byte) /\ Cat(o, Bytes(sd, q)) = Cat(Bytes(sd, sendq), LineBytes(next + 1))
    BY <1>1, <1>3, WaitFits
  <2>2. Take(o, q)
    BY <1>5
  <2> HIDE DEF q, o
  <2>3. QED
    BY <1>1, <2>1, <2>2, TakeKeeps
<1>6. ASSUME NEW n \in 0..2, f.res = "done",
             Take(f.out \o SubSeq(LineBytes(next + 1), 1, n), Unsent(next + 1, n))
      PROVE  /\ sendq' \in Seq(Entry)
             /\ Up' /\ Stream' /\ wire' \in Seq(Byte) /\ said' \in Seq(Byte)
             /\ UNCHANGED <<sd, timers, left>>
  <2> DEFINE o == f.out \o SubSeq(LineBytes(next + 1), 1, n)
             q == Unsent(next + 1, n)
  <2>1. o \in Seq(Byte) /\ q \in Seq(Entry) /\ Cat(o, Bytes(sd, q)) = Cat(Bytes(sd, sendq), LineBytes(next + 1))
    BY <1>1, <1>6, DoneFits
  <2>2. Take(o, q)
    BY <1>6
  <2> HIDE DEF q, o
  <2>3. QED
    BY <1>1, <2>1, <2>2, TakeKeeps
<1>7. QED
  BY <1>2, <1>4, <1>5, <1>6

LEMMA StreamInit == Init => StreamInv
<1> SUFFICES ASSUME Init PROVE StreamInv
  OBVIOUS
<1>1. TimerInv
  BY TimerInit
<1>2. <<>> \in Seq(Entry) /\ <<>> \in Seq(Byte) /\ <<>> \in Seq(Seq(Byte))
  OBVIOUS
<1>3. TypeOK
  <2>1. sd \in Fds \cup {NoFd} /\ other \in SUBSET Fds /\ read \in 0..told
    BY DEF Init
  <2>2. QED
    BY <1>2, <2>1 DEF Init, TypeOK
<1>4. QED
  BY <1>1, <1>3 DEF Init, StreamInv, Up

\* A new connection starts with what the queue holds for its descriptor.
LEMMA ConnectedStream ==
    ASSUME StreamInv, ~Up, Connected, sendq' = sendq, wire' = wire, said' = said
    PROVE  /\ sd' \in Fds \cup {NoFd} /\ failed' \in BOOLEAN /\ greet' \in BOOLEAN /\ conn' \in Nat
           /\ told' \in Nat /\ read' \in 0..told' /\ left' \in Seq(Byte)
           /\ Up' => Stream'
           /\ ~Up' => wire' = <<>> /\ left' = <<>> /\ said' = <<>>
<1>0. TypeOK /\ wire = <<>> /\ left = <<>> /\ said = <<>>
  BY DEF StreamInv
<1>1. CASE /\ conn < MaxConn /\ Free # {} /\ sd' = Lowest /\ conn' = conn + 1
           /\ failed' = FALSE /\ greet' = TRUE /\ left' = Bytes(Lowest, sendq) /\ told' = 0 /\ read' = 0
  <2> DEFINE b == Bytes(Lowest, sendq)
  <2>1. sd' \in Fds /\ Up' /\ conn' \in Nat
    BY <1>0, <1>1, LowestIsFree DEF Up, TypeOK
  <2>2. b \in Seq(Byte)
    BY <1>0, BytesJoin DEF TypeOK
  <2>3. Stream' <=> Cat(<<>>, b) = Cat(b, <<>>)
    BY <1>0, <1>1 DEF Stream
  <2>4. left' = b
    BY <1>1
  <2> HIDE DEF b
  <2>5. Cat(<<>>, b) = b /\ Cat(b, <<>>) = b
    BY <2>2, ConcatEmptySeq DEF Cat
  <2>6. told' \in Nat /\ read' \in 0..told' /\ left' \in Seq(Byte)
    BY <1>1, <2>2, <2>4
  <2>7. QED
    BY <1>1, <2>1, <2>3, <2>5, <2>6
<1>2. CASE failed' = TRUE /\ UNCHANGED <<sd, conn, greet, left, told, read>>
  BY <1>0, <1>2 DEF TypeOK, Up
<1>3. QED
  BY <1>1, <1>2 DEF Connected

LEMMA StreamNext == StreamInv /\ [Next]_vars => StreamInv'
<1> SUFFICES ASSUME StreamInv, [Next]_vars PROVE StreamInv'
  OBVIOUS
<1>0. TimerInv' /\ TypeOK /\ TimerInv
  BY TimerNext DEF StreamInv
<1>1. CASE Boot \/ ConnectUplink
  <2>1. /\ ~Up /\ Connected /\ mode' = "idle" /\ UNCHANGED <<other, sendq, next, wire, said, buf, lines>>
        /\ timers' \in Nat
    BY <1>0, <1>1 DEF Boot, ConnectUplink, TimerInv, OneTimer, TypeOK
  <2>2. /\ sd' \in Fds \cup {NoFd} /\ failed' \in BOOLEAN /\ greet' \in BOOLEAN /\ conn' \in Nat
        /\ told' \in Nat /\ read' \in 0..told' /\ left' \in Seq(Byte)
        /\ Up' => Stream'
        /\ ~Up' => wire' = <<>> /\ left' = <<>> /\ said' = <<>>
    BY <2>1, ConnectedStream
  <2>3. TypeOK'
    BY <1>0, <2>1, <2>2 DEF TypeOK
  <2>4. QED
    BY <1>0, <2>2, <2>3 DEF StreamInv
<1>2. CASE SendLine
  <2>1. Up /\ Stream
    BY <1>2 DEF SendLine, StreamInv
  <2>2. /\ UNCHANGED <<failed, mode, other, conn, readVars>> /\ next' = next + 1 /\ greet' = FALSE
    BY <1>2 DEF SendLine
  <2>3. /\ sendq' \in Seq(Entry)
        /\ \/ /\ Up' /\ Stream' /\ wire' \in Seq(Byte) /\ said' \in Seq(Byte)
              /\ UNCHANGED <<sd, timers, left>>
           \/ sd' = NoFd /\ timers' = timers + 1 /\ wire' = <<>> /\ left' = <<>> /\ said' = <<>>
    BY <1>0, <1>2, <2>1, SendKeeps
  <2>4. <<>> \in Seq(Byte)
    OBVIOUS
  <2>5. TypeOK'
    <3>1. sd' \in Fds \cup {NoFd} /\ timers' \in Nat /\ next' \in Nat
      BY <1>0, <2>2, <2>3 DEF TypeOK
    <3>2. wire' \in Seq(Byte) /\ left' \in Seq(Byte) /\ said' \in Seq(Byte)
      BY <1>0, <2>3, <2>4 DEF TypeOK
    <3>3. QED
      BY <1>0, <2>2, <2>3, <3>1, <3>2 DEF TypeOK, readVars
  <2>6. (Up' => Stream') /\ (~Up' => wire' = <<>> /\ left' = <<>> /\ said' = <<>>)
    BY <2>3 DEF Up
  <2>7. QED
    BY <1>0, <2>5, <2>6 DEF StreamInv
<1>3. CASE ReadError
  <2>1. <<>> \in Seq(Byte)
    OBVIOUS
  <2>2. /\ sd' = NoFd /\ timers' = timers + 1 /\ wire' = <<>> /\ left' = <<>> /\ said' = <<>>
        /\ UNCHANGED <<failed, mode, greet, other, conn, sendq, next, readVars>>
    BY <1>3 DEF ReadError, Lose
  <2>3. TypeOK'
    BY <1>0, <2>1, <2>2 DEF TypeOK, readVars
  <2>4. QED
    BY <1>0, <2>2, <2>3 DEF StreamInv, Up
<1>4. CASE \/ OtherOpen \/ (\E f \in Fds : OtherClose(f)) \/ Tell \/ Receive \/ ReadByte
           \/ EndRead \/ ParseLine \/ UNCHANGED vars
  <2>0. UNCHANGED <<sd, sendVars>> /\ UNCHANGED <<timers, failed, greet>>
    BY <1>4 DEF OtherOpen, OtherClose, Tell, Receive, ReadByte, EndRead, ParseLine, vars
  <2>1. /\ mode' \in {"boot", "idle", "read", "parse"} /\ other' \in SUBSET Fds
        /\ conn' \in Nat /\ told' \in Nat /\ read' \in 0..told'
    <3>1. CASE ReadByte
      BY <1>0, <3>1 DEF ReadByte, TypeOK
    <3>2. CASE OtherOpen
      BY <1>0, <3>2, LowestIsFree DEF OtherOpen, TypeOK, readVars
    <3>3. CASE Tell
      BY <1>0, <3>3 DEF Tell, TypeOK
    <3>4. CASE Receive \/ EndRead \/ ParseLine \/ (\E f \in Fds : OtherClose(f)) \/ UNCHANGED vars
      BY <1>0, <3>4 DEF Receive, EndRead, ParseLine, OtherClose, vars, readVars, TypeOK
    <3>5. QED
      BY <1>4, <3>1, <3>2, <3>3, <3>4
  <2>2. buf' \in Seq(Byte) /\ lines' \in Seq(Seq(Byte))
    <3>1. CASE ReadByte
      <4>1. LineOf \in Seq(Byte) /\ <<>> \in Seq(Byte)
        BY <1>0 DEF LineOf, TypeOK, Byte
      <4>2. Append(lines, LineOf) \in Seq(Seq(Byte))
        BY <1>0, <4>1 DEF TypeOK
      <4>3. QED
        BY <1>0, <3>1, <4>1, <4>2 DEF ReadByte, LineOf, TypeOK
    <3>2. CASE ParseLine
      <4>1. lines # <<>> => Tail(lines) \in Seq(Seq(Byte))
        BY <1>0 DEF TypeOK
      <4>2. QED
        BY <1>0, <3>2, <4>1 DEF ParseLine, TypeOK
    <3>3. CASE Tell \/ Receive \/ EndRead \/ OtherOpen \/ (\E f \in Fds : OtherClose(f)) \/ UNCHANGED vars
      BY <1>0, <3>3 DEF Tell, Receive, EndRead, OtherOpen, OtherClose, vars, readVars, TypeOK
    <3>4. QED
      BY <1>4, <3>1, <3>2, <3>3
  <2>3. TypeOK'
    BY <1>0, <2>0, <2>1, <2>2 DEF TypeOK, sendVars
  <2>4. QED
    BY <1>0, <2>0, <2>3 DEF StreamInv, Stream, Up, sendVars
<1>5. QED
  BY <1>1, <1>2, <1>3, <1>4 DEF Next

\* Nothing is lost, repeated or reordered on a connection, however its writes
\* go: what was written and what is queued for it are what was queued when it
\* was made and the lines sent since.
THEOREM StreamKeptHolds == Spec => []StreamKept
<1>1. StreamInv => StreamKept
  BY DEF StreamInv, StreamKept, Stream, Cat
<1>2. QED
  BY <1>1, StreamInit, StreamNext, PTL DEF Spec

-----------------------------------------------------------------------------
(* The protocol modules as tables: what each table says *)

LEMMA CharybdisPeopleIs ==
    /\ DOMAIN CharybdisPeople =
          {"nick", "unick", "uid", "quit", "null"}
    /\ CharybdisPeople["nick"] = "add" /\ CharybdisPeople["unick"] = "rename"
    /\ CharybdisPeople["uid"] = "add" /\ CharybdisPeople["quit"] = "exit"
    /\ CharybdisPeople["null"] = "none"
BY DEF CharybdisPeople

LEMMA CharybdisChannelsIs ==
    /\ DOMAIN CharybdisChannels =
          {"sjoin", "privmsg"}
    /\ CharybdisChannels["sjoin"] = "sjoin" /\ CharybdisChannels["privmsg"] = "none"
BY DEF CharybdisChannels

LEMMA CharybdisServersIs ==
    /\ DOMAIN CharybdisServers =
          {"server", "sid", "mode", "ping", "pong", "pass", "squit", "encap"}
    /\ CharybdisServers["server"] = "server pong" /\ CharybdisServers["sid"] = "leaf"
    /\ CharybdisServers["mode"] = "none" /\ CharybdisServers["ping"] = "ircd_ping"
    /\ CharybdisServers["pong"] = "none" /\ CharybdisServers["pass"] = "pass"
    /\ CharybdisServers["squit"] = "exit" /\ CharybdisServers["encap"] = "none"
BY DEF CharybdisServers

LEMMA CharybdisOrdersIs ==
    /\ DOMAIN CharybdisOrders =
          {"kill", "skill", "forcejoin", "forcepart", "invite", "rehash"}
    /\ CharybdisOrders["kill"] = "exit" /\ CharybdisOrders["skill"] = "exit"
    /\ CharybdisOrders["forcejoin"] = "force join" /\ CharybdisOrders["forcepart"] = "force part"
    /\ CharybdisOrders["invite"] = "invite" /\ CharybdisOrders["rehash"] = "rehash"
BY DEF CharybdisOrders

LEMMA HybridOrdersIs ==
    /\ DOMAIN HybridOrders =
          {"kill", "skill"}
    /\ HybridOrders["kill"] = "exit" /\ HybridOrders["skill"] = "exit"
BY DEF HybridOrders

LEMMA BahamutDoesIs ==
    /\ DOMAIN BahamutDoes =
          {"null", "server", "ping", "nick", "unick", "sjoin"}
    /\ BahamutDoes["null"] = "none" /\ BahamutDoes["server"] = "server"
    /\ BahamutDoes["ping"] = "ircd_ping" /\ BahamutDoes["nick"] = "add"
    /\ BahamutDoes["unick"] = "rename" /\ BahamutDoes["sjoin"] = "chan"
BY DEF BahamutDoes

LEMMA UnrealServersIs ==
    /\ DOMAIN UnrealServers =
          {"nick", "netinfo", "server", "eos"}
    /\ UnrealServers["nick"] = "add" /\ UnrealServers["netinfo"] = "none"
    /\ UnrealServers["server"] = "server pong" /\ UnrealServers["eos"] = "end"
BY DEF UnrealServers

LEMMA UnrealKillsIs ==
    /\ DOMAIN UnrealKills =
          {"squit", "svsmode", "kill", "svskill", "skill"}
    /\ UnrealKills["squit"] = "exit" /\ UnrealKills["svsmode"] = "none"
    /\ UnrealKills["kill"] = "bring back" /\ UnrealKills["svskill"] = "count and bring back"
    /\ UnrealKills["skill"] = "count and bring back"
BY DEF UnrealKills

LEMMA UnrealOrdersIs ==
    /\ DOMAIN UnrealOrders =
          {"sajoin", "sapart", "unick", "pong", "ukick", "skick", "invite", "rehash", "serv_null"}
    /\ UnrealOrders["sajoin"] = "force join" /\ UnrealOrders["sapart"] = "force part"
    /\ UnrealOrders["unick"] = "rename" /\ UnrealOrders["pong"] = "none"
    /\ UnrealOrders["ukick"] = "part" /\ UnrealOrders["skick"] = "part"
    /\ UnrealOrders["invite"] = "invite" /\ UnrealOrders["rehash"] = "rehash"
    /\ UnrealOrders["serv_null"] = "none"
BY DEF UnrealOrders

LEMMA Inspircd12ServersIs ==
    /\ DOMAIN Inspircd12Servers =
          {"null", "ping", "capab", "server", "burst", "endburst", "uid"}
    /\ Inspircd12Servers["null"] = "none" /\ Inspircd12Servers["ping"] = "pong"
    /\ Inspircd12Servers["capab"] = "none" /\ Inspircd12Servers["server"] = "server first"
    /\ Inspircd12Servers["burst"] = "none" /\ Inspircd12Servers["endburst"] = "end"
    /\ Inspircd12Servers["uid"] = "add"
BY DEF Inspircd12Servers

LEMMA Inspircd12ChannelsIs ==
    /\ DOMAIN Inspircd12Channels =
          {"pong", "fjoin", "error"}
    /\ Inspircd12Channels["pong"] = "none" /\ Inspircd12Channels["fjoin"] = "sjoin"
    /\ Inspircd12Channels["error"] = "error"
BY DEF Inspircd12Channels

LEMMA Inspircd12UsersIs ==
    /\ DOMAIN Inspircd12Users =
          {"fmode", "squit", "svsnick", "version", "privmsg", "part", "invite", "quit", "kill",
           "encap", "mode"}
    /\ Inspircd12Users["fmode"] = "none" /\ Inspircd12Users["squit"] = "exit"
    /\ Inspircd12Users["svsnick"] = "set nick" /\ Inspircd12Users["version"] = "none"
    /\ Inspircd12Users["privmsg"] = "none" /\ Inspircd12Users["part"] = "part"
    /\ Inspircd12Users["invite"] = "invite quietly" /\ Inspircd12Users["quit"] = "exit"
    /\ Inspircd12Users["kill"] = "exit" /\ Inspircd12Users["encap"] = "enter quietly"
    /\ Inspircd12Users["mode"] = "mode"
BY DEF Inspircd12Users

LEMMA Inspircd12OrdersIs ==
    /\ DOMAIN Inspircd12Orders =
          {"opertype", "kick", "fhost", "fname", "fident", "unick"}
    /\ Inspircd12Orders["opertype"] = "mode" /\ Inspircd12Orders["kick"] = "kick"
    /\ Inspircd12Orders["fhost"] = "none" /\ Inspircd12Orders["fname"] = "none"
    /\ Inspircd12Orders["fident"] = "none" /\ Inspircd12Orders["unick"] = "rename"
BY DEF Inspircd12Orders

LEMMA CharybdisServerIs ==
    /\ DOMAIN CharybdisServer =
          {"NICK", "UID", "PING", "PONG", "SJOIN", "PASS", "SQUIT", "SERVER", "SID", "ENCAP",
           "MODE", "KILL", "SVINFO", "NOTICE"}
    /\ CharybdisServer["NICK"] = "nick" /\ CharybdisServer["UID"] = "uid"
    /\ CharybdisServer["PING"] = "ping" /\ CharybdisServer["PONG"] = "pong"
    /\ CharybdisServer["SJOIN"] = "sjoin" /\ CharybdisServer["PASS"] = "pass"
    /\ CharybdisServer["SQUIT"] = "squit" /\ CharybdisServer["SERVER"] = "server"
    /\ CharybdisServer["SID"] = "sid" /\ CharybdisServer["ENCAP"] = "encap"
    /\ CharybdisServer["MODE"] = "mode" /\ CharybdisServer["KILL"] = "skill"
    /\ CharybdisServer["SVINFO"] = "null" /\ CharybdisServer["NOTICE"] = "null"
BY DEF CharybdisServer

LEMMA CharybdisUserIs ==
    /\ DOMAIN CharybdisUser =
          {"PRIVMSG", "QUIT", "MODE", "TMODE", "PART", "JOIN", "KILL", "NICK", "REHASH",
           "FORCEJOIN", "FORCEPART", "INVITE"}
    /\ CharybdisUser["PRIVMSG"] = "privmsg" /\ CharybdisUser["QUIT"] = "quit"
    /\ CharybdisUser["MODE"] = "mode_user" /\ CharybdisUser["TMODE"] = "tmode"
    /\ CharybdisUser["PART"] = "part" /\ CharybdisUser["JOIN"] = "join"
    /\ CharybdisUser["KILL"] = "kill" /\ CharybdisUser["NICK"] = "unick"
    /\ CharybdisUser["REHASH"] = "rehash" /\ CharybdisUser["FORCEJOIN"] = "forcejoin"
    /\ CharybdisUser["FORCEPART"] = "forcepart" /\ CharybdisUser["INVITE"] = "invite"
BY DEF CharybdisUser

LEMMA BahamutServerIs ==
    /\ DOMAIN BahamutCommands.server =
          {"SERVER", "PING", "SVINFO", "NICK", "PASS", "GNOTICE", "CAPAB", "SQLINE", "SJOIN",
           "LUSERSLOCK"}
    /\ BahamutCommands.server["SERVER"] = "server" /\ BahamutCommands.server["PING"] = "ping"
    /\ BahamutCommands.server["SVINFO"] = "null" /\ BahamutCommands.server["NICK"] = "nick"
    /\ BahamutCommands.server["PASS"] = "null" /\ BahamutCommands.server["GNOTICE"] = "null"
    /\ BahamutCommands.server["CAPAB"] = "null" /\ BahamutCommands.server["SQLINE"] = "null"
    /\ BahamutCommands.server["SJOIN"] = "sjoin" /\ BahamutCommands.server["LUSERSLOCK"] = "null"
BY DEF BahamutCommands

LEMMA BahamutUserIs ==
    /\ DOMAIN BahamutCommands.user =
          {"NICK"}
    /\ BahamutCommands.user["NICK"] = "unick"
BY DEF BahamutCommands

LEMMA UnrealServerIs ==
    /\ DOMAIN UnrealCommands.server =
          {"KICK", "NETINFO", "SJOIN", "NICK", "EOS", "SERVER", "PING", "SQUIT", "SVSMODE",
           "SVSKILL", "KILL", "PONG", "SWHOIS", "SENDSNO"}
    /\ UnrealCommands.server["KICK"] = "skick" /\ UnrealCommands.server["NETINFO"] = "netinfo"
    /\ UnrealCommands.server["SJOIN"] = "sjoin" /\ UnrealCommands.server["NICK"] = "nick"
    /\ UnrealCommands.server["EOS"] = "eos" /\ UnrealCommands.server["SERVER"] = "server"
    /\ UnrealCommands.server["PING"] = "ping" /\ UnrealCommands.server["SQUIT"] = "squit"
    /\ UnrealCommands.server["SVSMODE"] = "svsmode" /\ UnrealCommands.server["SVSKILL"] = "svskill"
    /\ UnrealCommands.server["KILL"] = "skill" /\ UnrealCommands.server["PONG"] = "pong"
    /\ UnrealCommands.server["SWHOIS"] = "serv_null"
    /\ UnrealCommands.server["SENDSNO"] = "serv_null"
BY DEF UnrealCommands

LEMMA UnrealUserIs ==
    /\ DOMAIN UnrealCommands.user =
          {"PRIVMSG", "QUIT", "MODE", "PART", "JOIN", "KILL", "SAJOIN", "SAPART", "NICK", "KICK",
           "INVITE", "REHASH"}
    /\ UnrealCommands.user["PRIVMSG"] = "privmsg" /\ UnrealCommands.user["QUIT"] = "quit"
    /\ UnrealCommands.user["MODE"] = "mode" /\ UnrealCommands.user["PART"] = "part"
    /\ UnrealCommands.user["JOIN"] = "join" /\ UnrealCommands.user["KILL"] = "kill"
    /\ UnrealCommands.user["SAJOIN"] = "sajoin" /\ UnrealCommands.user["SAPART"] = "sapart"
    /\ UnrealCommands.user["NICK"] = "unick" /\ UnrealCommands.user["KICK"] = "ukick"
    /\ UnrealCommands.user["INVITE"] = "invite" /\ UnrealCommands.user["REHASH"] = "rehash"
BY DEF UnrealCommands

LEMMA Inspircd12ServerIs ==
    /\ DOMAIN Inspircd12Commands.server =
          {"PING", "CAPAB", "SERVER", "BURST", "ENDBURST", "UID", "PONG", "FJOIN", "SQUIT",
           "SVSNICK", "VERSION", "ERROR", "METADATA", "FTOPIC"}
    /\ Inspircd12Commands.server["PING"] = "ping" /\ Inspircd12Commands.server["CAPAB"] = "capab"
    /\ Inspircd12Commands.server["SERVER"] = "server"
    /\ Inspircd12Commands.server["BURST"] = "burst"
    /\ Inspircd12Commands.server["ENDBURST"] = "endburst"
    /\ Inspircd12Commands.server["UID"] = "uid" /\ Inspircd12Commands.server["PONG"] = "pong"
    /\ Inspircd12Commands.server["FJOIN"] = "fjoin" /\ Inspircd12Commands.server["SQUIT"] = "squit"
    /\ Inspircd12Commands.server["SVSNICK"] = "svsnick"
    /\ Inspircd12Commands.server["VERSION"] = "version"
    /\ Inspircd12Commands.server["ERROR"] = "error"
    /\ Inspircd12Commands.server["METADATA"] = "null"
    /\ Inspircd12Commands.server["FTOPIC"] = "null"
BY DEF Inspircd12Commands

LEMMA Inspircd12UserIs ==
    /\ DOMAIN Inspircd12Commands.user =
          {"FMODE", "PRIVMSG", "PART", "INVITE", "QUIT", "KILL", "ENCAP", "MODE", "OPERTYPE",
           "KICK", "FHOST", "FNAME", "FIDENT", "NICK"}
    /\ Inspircd12Commands.user["FMODE"] = "fmode" /\ Inspircd12Commands.user["PRIVMSG"] = "privmsg"
    /\ Inspircd12Commands.user["PART"] = "part" /\ Inspircd12Commands.user["INVITE"] = "invite"
    /\ Inspircd12Commands.user["QUIT"] = "quit" /\ Inspircd12Commands.user["KILL"] = "kill"
    /\ Inspircd12Commands.user["ENCAP"] = "encap" /\ Inspircd12Commands.user["MODE"] = "mode"
    /\ Inspircd12Commands.user["OPERTYPE"] = "opertype" /\ Inspircd12Commands.user["KICK"] = "kick"
    /\ Inspircd12Commands.user["FHOST"] = "fhost" /\ Inspircd12Commands.user["FNAME"] = "fname"
    /\ Inspircd12Commands.user["FIDENT"] = "fident" /\ Inspircd12Commands.user["NICK"] = "unick"
BY DEF Inspircd12Commands

Five(a, b, c, e, f) == a ++ b ++ c ++ e ++ f

Four(a, b, c, e) == a ++ b ++ c ++ e
FourApart(a, b, c, e) ==
    /\ DOMAIN b \cap DOMAIN a = {} /\ DOMAIN c \cap (DOMAIN a \cup DOMAIN b) = {}
    /\ DOMAIN e \cap (DOMAIN a \cup DOMAIN b \cup DOMAIN c) = {}
FourHold(all, a, b, c, e) ==
    /\ DOMAIN all = DOMAIN a \cup DOMAIN b \cup DOMAIN c \cup DOMAIN e
    /\ \A h \in DOMAIN a : all[h] = a[h]
    /\ \A h \in DOMAIN b : all[h] = b[h]
    /\ \A h \in DOMAIN c : all[h] = c[h]
    /\ \A h \in DOMAIN e : all[h] = e[h]

\* No two of the five tables have an entry in common.
Apart(a, b, c, e, f) ==
    /\ DOMAIN b \cap DOMAIN a = {} /\ DOMAIN c \cap (DOMAIN a \cup DOMAIN b) = {}
    /\ DOMAIN e \cap (DOMAIN a \cup DOMAIN b \cup DOMAIN c) = {}
    /\ DOMAIN f \cap (DOMAIN a \cup DOMAIN b \cup DOMAIN c \cup DOMAIN e) = {}

\* A table has the entries of the five.
Holds(all, a, b, c, e, f) ==
    /\ DOMAIN all = DOMAIN a \cup DOMAIN b \cup DOMAIN c \cup DOMAIN e \cup DOMAIN f
    /\ \A h \in DOMAIN a : all[h] = a[h]
    /\ \A h \in DOMAIN b : all[h] = b[h]
    /\ \A h \in DOMAIN c : all[h] = c[h]
    /\ \A h \in DOMAIN e : all[h] = e[h]
    /\ \A h \in DOMAIN f : all[h] = f[h]

\* Where no two of five tables have an entry in common, each says what its own are.
LEMMA FiveTables ==
    ASSUME NEW a, NEW b, NEW c, NEW e, NEW f, Apart(a, b, c, e, f)
    PROVE  Holds(Five(a, b, c, e, f), a, b, c, e, f)
<1> DEFINE ab == a ++ b
           abc == ab ++ c
           abce == abc ++ e
           all == abce ++ f
<1>1. /\ DOMAIN ab = DOMAIN a \cup DOMAIN b
      /\ \A h \in DOMAIN a \cup DOMAIN b : ab[h] = IF h \in DOMAIN a THEN a[h] ELSE b[h]
  BY DEF ++
<1>2. /\ DOMAIN abc = DOMAIN ab \cup DOMAIN c
      /\ \A h \in DOMAIN ab \cup DOMAIN c : abc[h] = IF h \in DOMAIN ab THEN ab[h] ELSE c[h]
  <2> HIDE DEF ab
  <2>1. QED
    BY DEF ++
<1>3. /\ DOMAIN abce = DOMAIN abc \cup DOMAIN e
      /\ \A h \in DOMAIN abc \cup DOMAIN e : abce[h] = IF h \in DOMAIN abc THEN abc[h] ELSE e[h]
  <2> HIDE DEF abc
  <2>1. QED
    BY DEF ++
<1>4. /\ DOMAIN all = DOMAIN abce \cup DOMAIN f
      /\ \A h \in DOMAIN abce \cup DOMAIN f : all[h] = IF h \in DOMAIN abce THEN abce[h] ELSE f[h]
  <2> HIDE DEF abce
  <2>1. QED
    BY DEF ++
<1>5. Holds(all, a, b, c, e, f)
  <2> HIDE DEF all, abce, abc, ab
  <2>1. QED
    BY <1>1, <1>2, <1>3, <1>4 DEF Apart, Holds
<1>6. QED
  BY <1>5 DEF Five

\* The same of four.
LEMMA FourTables ==
    ASSUME NEW a, NEW b, NEW c, NEW e, FourApart(a, b, c, e)
    PROVE  FourHold(Four(a, b, c, e), a, b, c, e)
<1> DEFINE ab == a ++ b
           abc == ab ++ c
           all == abc ++ e
<1>1. /\ DOMAIN ab = DOMAIN a \cup DOMAIN b
      /\ \A h \in DOMAIN a \cup DOMAIN b : ab[h] = IF h \in DOMAIN a THEN a[h] ELSE b[h]
  BY DEF ++
<1>2. /\ DOMAIN abc = DOMAIN ab \cup DOMAIN c
      /\ \A h \in DOMAIN ab \cup DOMAIN c : abc[h] = IF h \in DOMAIN ab THEN ab[h] ELSE c[h]
  <2> HIDE DEF ab
  <2>1. QED
    BY DEF ++
<1>3. /\ DOMAIN all = DOMAIN abc \cup DOMAIN e
      /\ \A h \in DOMAIN abc \cup DOMAIN e : all[h] = IF h \in DOMAIN abc THEN abc[h] ELSE e[h]
  <2> HIDE DEF abc
  <2>1. QED
    BY DEF ++
<1>4. FourHold(all, a, b, c, e)
  <2> HIDE DEF all, abc, ab
  <2>1. QED
    BY <1>1, <1>2, <1>3 DEF FourApart, FourHold
<1>5. QED
  BY <1>4 DEF Four

LEMMA CharybdisMovesIs ==
    /\ DOMAIN CharybdisMoves = {"mode_user", "tmode", "part", "join", "join 0"}
    /\ CharybdisMoves["mode_user"] = "mode" /\ CharybdisMoves["tmode"] = "none"
    /\ CharybdisMoves["part"] = "part" /\ CharybdisMoves["join"] = "enter"
    /\ CharybdisMoves["join 0"] = "none"
<1> DEFINE f == [mode_user |-> "mode", tmode |-> "none", part |-> "part", join |-> "enter"]
           g == [x \in {"join 0"} |-> "none"]
<1>1. /\ DOMAIN f = {"mode_user", "tmode", "part", "join"} /\ f["mode_user"] = "mode"
      /\ f["tmode"] = "none" /\ f["part"] = "part" /\ f["join"] = "enter"
  OBVIOUS
<1>2. DOMAIN g = {"join 0"} /\ g["join 0"] = "none"
  OBVIOUS
<1>3. CharybdisMoves = f ++ g
  BY DEF CharybdisMoves
<1> HIDE DEF f, g
<1>4. DOMAIN CharybdisMoves = DOMAIN f \cup DOMAIN g
      /\ \A x \in DOMAIN f \cup DOMAIN g : CharybdisMoves[x] = IF x \in DOMAIN f THEN f[x] ELSE g[x]
  BY <1>3 DEF ++
<1>5. QED
  BY <1>1, <1>2, <1>4

LEMMA DirectMovesIs ==
    /\ DOMAIN DirectMoves = {"mode_user", "tmode", "part", "join", "join 0"}
    /\ DirectMoves["mode_user"] = "none" /\ DirectMoves["tmode"] = "none"
    /\ DirectMoves["part"] = "part" /\ DirectMoves["join"] = "enter"
    /\ DirectMoves["join 0"] = "none"
BY CharybdisMovesIs DEF DirectMoves

LEMMA HybridMovesIs ==
    /\ DOMAIN HybridMoves = {"mode_user", "tmode", "part", "join", "join 0"}
    /\ HybridMoves["mode_user"] = "mode" /\ HybridMoves["tmode"] = "none"
    /\ HybridMoves["part"] = "part" /\ HybridMoves["join"] = "enter"
    /\ HybridMoves["join 0"] = "null"
BY CharybdisMovesIs DEF HybridMoves

LEMMA HybridServersIs ==
    /\ DOMAIN HybridServers = DOMAIN CharybdisServers /\ HybridServers["server"] = "server"
    /\ \A h \in DOMAIN CharybdisServers \ {"server"} : HybridServers[h] = CharybdisServers[h]
BY CharybdisServersIs DEF HybridServers

LEMMA Ratbox3ServersIs ==
    /\ DOMAIN Ratbox3Servers = DOMAIN CharybdisServers /\ Ratbox3Servers["pass"] = "pass ts6"
    /\ \A h \in DOMAIN CharybdisServers \ {"pass"} : Ratbox3Servers[h] = CharybdisServers[h]
BY CharybdisServersIs DEF Ratbox3Servers

LEMMA UnrealUsersIs ==
    /\ DOMAIN UnrealUsers = {"sjoin", "mode", "privmsg", "quit", "ping", "part", "join", "join 0"}
    /\ UnrealUsers["sjoin"] = "sjoin" /\ UnrealUsers["mode"] = "mode" /\ UnrealUsers["privmsg"] = "none"
    /\ UnrealUsers["quit"] = "exit" /\ UnrealUsers["ping"] = "ircd_ping" /\ UnrealUsers["part"] = "part"
    /\ UnrealUsers["join"] = "none" /\ UnrealUsers["join 0"] = "part"
<1> DEFINE f == [sjoin |-> "sjoin", mode |-> "mode", privmsg |-> "none", quit |-> "exit",
                 ping |-> "ircd_ping", part |-> "part", join |-> "none"]
           g == [x \in {"join 0"} |-> "part"]
<1>1. /\ DOMAIN f = {"sjoin", "mode", "privmsg", "quit", "ping", "part", "join"}
      /\ f["sjoin"] = "sjoin" /\ f["mode"] = "mode" /\ f["privmsg"] = "none" /\ f["quit"] = "exit"
      /\ f["ping"] = "ircd_ping" /\ f["part"] = "part" /\ f["join"] = "none"
  OBVIOUS
<1>2. DOMAIN g = {"join 0"} /\ g["join 0"] = "part"
  OBVIOUS
<1>3. UnrealUsers = f ++ g
  BY DEF UnrealUsers
<1> HIDE DEF f, g
<1>4. DOMAIN UnrealUsers = DOMAIN f \cup DOMAIN g
      /\ \A x \in DOMAIN f \cup DOMAIN g : UnrealUsers[x] = IF x \in DOMAIN f THEN f[x] ELSE g[x]
  BY <1>3 DEF ++
<1>5. QED
  BY <1>1, <1>2, <1>4

LEMMA HybridServerIs ==
    /\ DOMAIN HybridCommands.server = DOMAIN CharybdisServer \ {"PONG"}
    /\ \A c \in DOMAIN CharybdisServer \ {"PONG"} : HybridCommands.server[c] = CharybdisServer[c]
<1> DEFINE f == [c \in DOMAIN CharybdisServer \ {"PONG"} |-> CharybdisServer[c]]
<1>1. HybridCommands.server = f
  BY DEF HybridCommands
<1>2. QED
  BY <1>1

LEMMA HybridUserIs ==
    /\ DOMAIN HybridCommands.user = DOMAIN CharybdisUser \ {"REHASH", "FORCEJOIN", "FORCEPART", "INVITE"}
    /\ \A c \in DOMAIN HybridCommands.user : HybridCommands.user[c] = CharybdisUser[c]
<1> DEFINE f == [c \in DOMAIN CharybdisUser \ {"REHASH", "FORCEJOIN", "FORCEPART", "INVITE"}
                 |-> CharybdisUser[c]]
<1>1. HybridCommands.user = f
  BY DEF HybridCommands
<1>2. QED
  BY <1>1

RatboxDoing == CharybdisPeople ++ CharybdisChannels ++ CharybdisServers ++ CharybdisMoves ++ CharybdisOrders
LEMMA RatboxMeans ==
    /\ RatboxDoing["encap"] = "none" /\ RatboxDoing["forcejoin"] = "force join"
    /\ RatboxDoing["forcepart"] = "force part" /\ RatboxDoing["invite"] = "invite"
    /\ RatboxDoing["join"] = "enter" /\ RatboxDoing["kill"] = "exit"
    /\ RatboxDoing["mode"] = "none" /\ RatboxDoing["mode_user"] = "mode"
    /\ RatboxDoing["nick"] = "add" /\ RatboxDoing["null"] = "none" /\ RatboxDoing["part"] = "part"
    /\ RatboxDoing["pass"] = "pass" /\ RatboxDoing["ping"] = "ircd_ping"
    /\ RatboxDoing["pong"] = "none" /\ RatboxDoing["privmsg"] = "none"
    /\ RatboxDoing["quit"] = "exit" /\ RatboxDoing["rehash"] = "rehash"
    /\ RatboxDoing["server"] = "server pong" /\ RatboxDoing["sid"] = "leaf"
    /\ RatboxDoing["sjoin"] = "sjoin" /\ RatboxDoing["skill"] = "exit"
    /\ RatboxDoing["squit"] = "exit" /\ RatboxDoing["tmode"] = "none" /\ RatboxDoing["uid"] = "add"
    /\ RatboxDoing["unick"] = "rename" /\ RatboxDoing["join 0"] = "none"
<1>1. Apart(CharybdisPeople, CharybdisChannels, CharybdisServers, CharybdisMoves, CharybdisOrders)
  BY CharybdisPeopleIs, CharybdisChannelsIs, CharybdisServersIs, CharybdisMovesIs,
     CharybdisOrdersIs DEF Apart
<1>2. RatboxDoing = Five(CharybdisPeople, CharybdisChannels, CharybdisServers, CharybdisMoves, CharybdisOrders)
  BY DEF RatboxDoing, Five
<1>3. Holds(RatboxDoing, CharybdisPeople, CharybdisChannels, CharybdisServers, CharybdisMoves, CharybdisOrders)
  BY <1>1, <1>2, FiveTables
<1>4. /\ RatboxDoing["nick"] = "add" /\ RatboxDoing["null"] = "none"
      /\ RatboxDoing["quit"] = "exit" /\ RatboxDoing["uid"] = "add"
      /\ RatboxDoing["unick"] = "rename"
  <2>1. \A h \in DOMAIN CharybdisPeople : RatboxDoing[h] = CharybdisPeople[h]
    BY <1>3 DEF Holds
  <2>2. QED
    BY <2>1, CharybdisPeopleIs
<1>5. /\ RatboxDoing["privmsg"] = "none" /\ RatboxDoing["sjoin"] = "sjoin"
  <2>1. \A h \in DOMAIN CharybdisChannels : RatboxDoing[h] = CharybdisChannels[h]
    BY <1>3 DEF Holds
  <2>2. QED
    BY <2>1, CharybdisChannelsIs
<1>6. /\ RatboxDoing["encap"] = "none" /\ RatboxDoing["mode"] = "none"
      /\ RatboxDoing["pass"] = "pass" /\ RatboxDoing["ping"] = "ircd_ping"
      /\ RatboxDoing["pong"] = "none" /\ RatboxDoing["server"] = "server pong"
      /\ RatboxDoing["sid"] = "leaf" /\ RatboxDoing["squit"] = "exit"
  <2>1. \A h \in DOMAIN CharybdisServers : RatboxDoing[h] = CharybdisServers[h]
    BY <1>3 DEF Holds
  <2>2. QED
    BY <2>1, CharybdisServersIs
<1>7. /\ RatboxDoing["join"] = "enter" /\ RatboxDoing["mode_user"] = "mode"
      /\ RatboxDoing["part"] = "part" /\ RatboxDoing["tmode"] = "none"
      /\ RatboxDoing["join 0"] = "none"
  <2>1. \A h \in DOMAIN CharybdisMoves : RatboxDoing[h] = CharybdisMoves[h]
    BY <1>3 DEF Holds
  <2>2. QED
    BY <2>1, CharybdisMovesIs
<1>8. /\ RatboxDoing["forcejoin"] = "force join" /\ RatboxDoing["forcepart"] = "force part"
      /\ RatboxDoing["invite"] = "invite" /\ RatboxDoing["kill"] = "exit"
      /\ RatboxDoing["rehash"] = "rehash" /\ RatboxDoing["skill"] = "exit"
  <2>1. \A h \in DOMAIN CharybdisOrders : RatboxDoing[h] = CharybdisOrders[h]
    BY <1>3 DEF Holds
  <2>2. QED
    BY <2>1, CharybdisOrdersIs
<1>9. QED
  BY <1>4, <1>5, <1>6, <1>7, <1>8

LEMMA RatboxServerHears ==
    ASSUME NEW d, Dialects[d].server = CharybdisServer, Dialects[d].does = RatboxDoing
    PROVE  /\ Does(d, "server", "NICK") = "add" /\ Does(d, "server", "UID") = "add"
           /\ Does(d, "server", "PING") = "ircd_ping" /\ Does(d, "server", "SJOIN") = "sjoin"
           /\ Does(d, "server", "PASS") = "pass" /\ Does(d, "server", "SQUIT") = "exit"
           /\ Does(d, "server", "SERVER") = "server pong" /\ Does(d, "server", "SID") = "leaf"
           /\ Does(d, "server", "KILL") = "exit"
           /\ \A c : c \notin {"NICK", "UID", "PING", "SJOIN", "PASS", "SQUIT", "SERVER", "SID", "KILL"} => Does(d, "server", c) = "none"
<1> DEFINE table == Dialects[d].server
           does == Dialects[d].does
<1>0. table = CharybdisServer /\ does = RatboxDoing
  OBVIOUS
<1>1. /\ "JOIN" \in DOMAIN table => Does(d, "server", "JOIN 0") = does["join 0"]
      /\ \A c \in DOMAIN table : c # "JOIN 0" => Does(d, "server", c) = does[table[c]]
      /\ \A c : c \notin DOMAIN table /\ (c = "JOIN 0" => "JOIN" \notin DOMAIN table) => Does(d, "server", c) = "none"
  BY DEF Does
<1> HIDE DEF table, does
<1>2. DOMAIN table = {"NICK", "UID", "PING", "PONG", "SJOIN", "PASS", "SQUIT", "SERVER", "SID",
                       "ENCAP", "MODE", "KILL", "SVINFO", "NOTICE"}
  BY <1>0, CharybdisServerIs
<1>3. /\ does["encap"] = "none" /\ does["mode"] = "none" /\ does["nick"] = "add"
      /\ does["null"] = "none" /\ does["pass"] = "pass" /\ does["ping"] = "ircd_ping"
      /\ does["pong"] = "none" /\ does["server"] = "server pong" /\ does["sid"] = "leaf"
      /\ does["sjoin"] = "sjoin" /\ does["skill"] = "exit" /\ does["squit"] = "exit"
      /\ does["uid"] = "add"
  BY <1>0, RatboxMeans
<1>4. /\ table["NICK"] = "nick" /\ table["UID"] = "uid" /\ table["PING"] = "ping"
      /\ table["PONG"] = "pong" /\ table["SJOIN"] = "sjoin" /\ table["PASS"] = "pass"
      /\ table["SQUIT"] = "squit" /\ table["SERVER"] = "server" /\ table["SID"] = "sid"
      /\ table["ENCAP"] = "encap" /\ table["MODE"] = "mode" /\ table["KILL"] = "skill"
      /\ table["SVINFO"] = "null" /\ table["NOTICE"] = "null"
  BY <1>0, CharybdisServerIs
<1>5. /\ Does(d, "server", "NICK") = does[table["NICK"]]
      /\ Does(d, "server", "UID") = does[table["UID"]]
      /\ Does(d, "server", "PING") = does[table["PING"]]
      /\ Does(d, "server", "PONG") = does[table["PONG"]]
      /\ Does(d, "server", "SJOIN") = does[table["SJOIN"]]
      /\ Does(d, "server", "PASS") = does[table["PASS"]]
      /\ Does(d, "server", "SQUIT") = does[table["SQUIT"]]
      /\ Does(d, "server", "SERVER") = does[table["SERVER"]]
      /\ Does(d, "server", "SID") = does[table["SID"]]
      /\ Does(d, "server", "ENCAP") = does[table["ENCAP"]]
      /\ Does(d, "server", "MODE") = does[table["MODE"]]
      /\ Does(d, "server", "KILL") = does[table["KILL"]]
      /\ Does(d, "server", "SVINFO") = does[table["SVINFO"]]
      /\ Does(d, "server", "NOTICE") = does[table["NOTICE"]]
  BY <1>1, <1>2
<1>6. Does(d, "server", "NICK") = "add"
  BY <1>3, <1>4, <1>5
<1>7. Does(d, "server", "UID") = "add"
  BY <1>3, <1>4, <1>5
<1>8. Does(d, "server", "PING") = "ircd_ping"
  BY <1>3, <1>4, <1>5
<1>9. Does(d, "server", "PONG") = "none"
  BY <1>3, <1>4, <1>5
<1>10. Does(d, "server", "SJOIN") = "sjoin"
  BY <1>3, <1>4, <1>5
<1>11. Does(d, "server", "PASS") = "pass"
  BY <1>3, <1>4, <1>5
<1>12. Does(d, "server", "SQUIT") = "exit"
  BY <1>3, <1>4, <1>5
<1>13. Does(d, "server", "SERVER") = "server pong"
  BY <1>3, <1>4, <1>5
<1>14. Does(d, "server", "SID") = "leaf"
  BY <1>3, <1>4, <1>5
<1>15. Does(d, "server", "ENCAP") = "none"
  BY <1>3, <1>4, <1>5
<1>16. Does(d, "server", "MODE") = "none"
  BY <1>3, <1>4, <1>5
<1>17. Does(d, "server", "KILL") = "exit"
  BY <1>3, <1>4, <1>5
<1>18. Does(d, "server", "SVINFO") = "none"
  BY <1>3, <1>4, <1>5
<1>19. Does(d, "server", "NOTICE") = "none"
  BY <1>3, <1>4, <1>5
<1>20. QED
  BY <1>1, <1>2, <1>6, <1>7, <1>8, <1>9, <1>10, <1>11, <1>12, <1>13, <1>14, <1>15, <1>16, <1>17, <1>18,
     <1>19

LEMMA RatboxUserHears ==
    ASSUME NEW d, Dialects[d].user = CharybdisUser, Dialects[d].does = RatboxDoing
    PROVE  /\ Does(d, "user", "QUIT") = "exit" /\ Does(d, "user", "MODE") = "mode"
           /\ Does(d, "user", "PART") = "part" /\ Does(d, "user", "JOIN") = "enter"
           /\ Does(d, "user", "KILL") = "exit" /\ Does(d, "user", "NICK") = "rename"
           /\ Does(d, "user", "REHASH") = "rehash" /\ Does(d, "user", "FORCEJOIN") = "force join"
           /\ Does(d, "user", "FORCEPART") = "force part" /\ Does(d, "user", "INVITE") = "invite"
           /\ \A c : c \notin {"QUIT", "MODE", "PART", "JOIN", "KILL", "NICK", "REHASH", "FORCEJOIN",
                       "FORCEPART", "INVITE"} => Does(d, "user", c) = "none"
<1> DEFINE table == Dialects[d].user
           does == Dialects[d].does
<1>0. table = CharybdisUser /\ does = RatboxDoing
  OBVIOUS
<1>1. /\ "JOIN" \in DOMAIN table => Does(d, "user", "JOIN 0") = does["join 0"]
      /\ \A c \in DOMAIN table : c # "JOIN 0" => Does(d, "user", c) = does[table[c]]
      /\ \A c : c \notin DOMAIN table /\ (c = "JOIN 0" => "JOIN" \notin DOMAIN table) => Does(d, "user", c) = "none"
  BY DEF Does
<1> HIDE DEF table, does
<1>2. DOMAIN table = {"PRIVMSG", "QUIT", "MODE", "TMODE", "PART", "JOIN", "KILL", "NICK",
                       "REHASH", "FORCEJOIN", "FORCEPART", "INVITE"}
  BY <1>0, CharybdisUserIs
<1>3. /\ does["forcejoin"] = "force join" /\ does["forcepart"] = "force part"
      /\ does["invite"] = "invite" /\ does["join"] = "enter" /\ does["kill"] = "exit"
      /\ does["mode_user"] = "mode" /\ does["part"] = "part" /\ does["privmsg"] = "none"
      /\ does["quit"] = "exit" /\ does["rehash"] = "rehash" /\ does["tmode"] = "none"
      /\ does["unick"] = "rename" /\ does["join 0"] = "none"
  BY <1>0, RatboxMeans
<1>4. /\ table["PRIVMSG"] = "privmsg" /\ table["QUIT"] = "quit" /\ table["MODE"] = "mode_user"
      /\ table["TMODE"] = "tmode" /\ table["PART"] = "part" /\ table["JOIN"] = "join"
      /\ table["KILL"] = "kill" /\ table["NICK"] = "unick" /\ table["REHASH"] = "rehash"
      /\ table["FORCEJOIN"] = "forcejoin" /\ table["FORCEPART"] = "forcepart"
      /\ table["INVITE"] = "invite"
  BY <1>0, CharybdisUserIs
<1>5. /\ Does(d, "user", "PRIVMSG") = does[table["PRIVMSG"]]
      /\ Does(d, "user", "QUIT") = does[table["QUIT"]]
      /\ Does(d, "user", "MODE") = does[table["MODE"]]
      /\ Does(d, "user", "TMODE") = does[table["TMODE"]]
      /\ Does(d, "user", "PART") = does[table["PART"]]
      /\ Does(d, "user", "JOIN") = does[table["JOIN"]]
      /\ Does(d, "user", "KILL") = does[table["KILL"]]
      /\ Does(d, "user", "NICK") = does[table["NICK"]]
      /\ Does(d, "user", "REHASH") = does[table["REHASH"]]
      /\ Does(d, "user", "FORCEJOIN") = does[table["FORCEJOIN"]]
      /\ Does(d, "user", "FORCEPART") = does[table["FORCEPART"]]
      /\ Does(d, "user", "INVITE") = does[table["INVITE"]]
      /\ Does(d, "user", "JOIN 0") = does["join 0"]
  BY <1>1, <1>2
<1>6. Does(d, "user", "PRIVMSG") = "none"
  BY <1>3, <1>4, <1>5
<1>7. Does(d, "user", "QUIT") = "exit"
  BY <1>3, <1>4, <1>5
<1>8. Does(d, "user", "MODE") = "mode"
  BY <1>3, <1>4, <1>5
<1>9. Does(d, "user", "TMODE") = "none"
  BY <1>3, <1>4, <1>5
<1>10. Does(d, "user", "PART") = "part"
  BY <1>3, <1>4, <1>5
<1>11. Does(d, "user", "JOIN") = "enter"
  BY <1>3, <1>4, <1>5
<1>12. Does(d, "user", "KILL") = "exit"
  BY <1>3, <1>4, <1>5
<1>13. Does(d, "user", "NICK") = "rename"
  BY <1>3, <1>4, <1>5
<1>14. Does(d, "user", "REHASH") = "rehash"
  BY <1>3, <1>4, <1>5
<1>15. Does(d, "user", "FORCEJOIN") = "force join"
  BY <1>3, <1>4, <1>5
<1>16. Does(d, "user", "FORCEPART") = "force part"
  BY <1>3, <1>4, <1>5
<1>17. Does(d, "user", "INVITE") = "invite"
  BY <1>3, <1>4, <1>5
<1>18. Does(d, "user", "JOIN 0") = "none"
  BY <1>3, <1>4, <1>5
<1>19. QED
  BY <1>1, <1>2, <1>6, <1>7, <1>8, <1>9, <1>10, <1>11, <1>12, <1>13, <1>14, <1>15, <1>16, <1>17, <1>18

DirectDoing == CharybdisPeople ++ CharybdisChannels ++ CharybdisServers ++ DirectMoves ++ CharybdisOrders
LEMMA DirectMeans ==
    /\ DirectDoing["encap"] = "none" /\ DirectDoing["forcejoin"] = "force join"
    /\ DirectDoing["forcepart"] = "force part" /\ DirectDoing["invite"] = "invite"
    /\ DirectDoing["join"] = "enter" /\ DirectDoing["kill"] = "exit"
    /\ DirectDoing["mode"] = "none" /\ DirectDoing["mode_user"] = "none"
    /\ DirectDoing["nick"] = "add" /\ DirectDoing["null"] = "none" /\ DirectDoing["part"] = "part"
    /\ DirectDoing["pass"] = "pass" /\ DirectDoing["ping"] = "ircd_ping"
    /\ DirectDoing["pong"] = "none" /\ DirectDoing["privmsg"] = "none"
    /\ DirectDoing["quit"] = "exit" /\ DirectDoing["rehash"] = "rehash"
    /\ DirectDoing["server"] = "server pong" /\ DirectDoing["sid"] = "leaf"
    /\ DirectDoing["sjoin"] = "sjoin" /\ DirectDoing["skill"] = "exit"
    /\ DirectDoing["squit"] = "exit" /\ DirectDoing["tmode"] = "none" /\ DirectDoing["uid"] = "add"
    /\ DirectDoing["unick"] = "rename" /\ DirectDoing["join 0"] = "none"
<1>1. Apart(CharybdisPeople, CharybdisChannels, CharybdisServers, DirectMoves, CharybdisOrders)
  BY CharybdisPeopleIs, CharybdisChannelsIs, CharybdisServersIs, DirectMovesIs, CharybdisOrdersIs DEF Apart
<1>2. DirectDoing = Five(CharybdisPeople, CharybdisChannels, CharybdisServers, DirectMoves, CharybdisOrders)
  BY DEF DirectDoing, Five
<1>3. Holds(DirectDoing, CharybdisPeople, CharybdisChannels, CharybdisServers, DirectMoves, CharybdisOrders)
  BY <1>1, <1>2, FiveTables
<1>4. /\ DirectDoing["nick"] = "add" /\ DirectDoing["null"] = "none"
      /\ DirectDoing["quit"] = "exit" /\ DirectDoing["uid"] = "add"
      /\ DirectDoing["unick"] = "rename"
  <2>1. \A h \in DOMAIN CharybdisPeople : DirectDoing[h] = CharybdisPeople[h]
    BY <1>3 DEF Holds
  <2>2. QED
    BY <2>1, CharybdisPeopleIs
<1>5. /\ DirectDoing["privmsg"] = "none" /\ DirectDoing["sjoin"] = "sjoin"
  <2>1. \A h \in DOMAIN CharybdisChannels : DirectDoing[h] = CharybdisChannels[h]
    BY <1>3 DEF Holds
  <2>2. QED
    BY <2>1, CharybdisChannelsIs
<1>6. /\ DirectDoing["encap"] = "none" /\ DirectDoing["mode"] = "none"
      /\ DirectDoing["pass"] = "pass" /\ DirectDoing["ping"] = "ircd_ping"
      /\ DirectDoing["pong"] = "none" /\ DirectDoing["server"] = "server pong"
      /\ DirectDoing["sid"] = "leaf" /\ DirectDoing["squit"] = "exit"
  <2>1. \A h \in DOMAIN CharybdisServers : DirectDoing[h] = CharybdisServers[h]
    BY <1>3 DEF Holds
  <2>2. QED
    BY <2>1, CharybdisServersIs
<1>7. /\ DirectDoing["join"] = "enter" /\ DirectDoing["mode_user"] = "none"
      /\ DirectDoing["part"] = "part" /\ DirectDoing["tmode"] = "none"
      /\ DirectDoing["join 0"] = "none"
  <2>1. \A h \in DOMAIN DirectMoves : DirectDoing[h] = DirectMoves[h]
    BY <1>3 DEF Holds
  <2>2. QED
    BY <2>1, DirectMovesIs
<1>8. /\ DirectDoing["forcejoin"] = "force join" /\ DirectDoing["forcepart"] = "force part"
      /\ DirectDoing["invite"] = "invite" /\ DirectDoing["kill"] = "exit"
      /\ DirectDoing["rehash"] = "rehash" /\ DirectDoing["skill"] = "exit"
  <2>1. \A h \in DOMAIN CharybdisOrders : DirectDoing[h] = CharybdisOrders[h]
    BY <1>3 DEF Holds
  <2>2. QED
    BY <2>1, CharybdisOrdersIs
<1>9. QED
  BY <1>4, <1>5, <1>6, <1>7, <1>8

LEMMA DirectServerHears ==
    ASSUME NEW d, Dialects[d].server = CharybdisServer, Dialects[d].does = DirectDoing
    PROVE  /\ Does(d, "server", "NICK") = "add" /\ Does(d, "server", "UID") = "add"
           /\ Does(d, "server", "PING") = "ircd_ping" /\ Does(d, "server", "SJOIN") = "sjoin"
           /\ Does(d, "server", "PASS") = "pass" /\ Does(d, "server", "SQUIT") = "exit"
           /\ Does(d, "server", "SERVER") = "server pong" /\ Does(d, "server", "SID") = "leaf"
           /\ Does(d, "server", "KILL") = "exit"
           /\ \A c : c \notin {"NICK", "UID", "PING", "SJOIN", "PASS", "SQUIT", "SERVER", "SID", "KILL"} => Does(d, "server", c) = "none"
<1> DEFINE table == Dialects[d].server
           does == Dialects[d].does
<1>0. table = CharybdisServer /\ does = DirectDoing
  OBVIOUS
<1>1. /\ "JOIN" \in DOMAIN table => Does(d, "server", "JOIN 0") = does["join 0"]
      /\ \A c \in DOMAIN table : c # "JOIN 0" => Does(d, "server", c) = does[table[c]]
      /\ \A c : c \notin DOMAIN table /\ (c = "JOIN 0" => "JOIN" \notin DOMAIN table) => Does(d, "server", c) = "none"
  BY DEF Does
<1> HIDE DEF table, does
<1>2. DOMAIN table = {"NICK", "UID", "PING", "PONG", "SJOIN", "PASS", "SQUIT", "SERVER", "SID",
                       "ENCAP", "MODE", "KILL", "SVINFO", "NOTICE"}
  BY <1>0, CharybdisServerIs
<1>3. /\ does["encap"] = "none" /\ does["mode"] = "none" /\ does["nick"] = "add"
      /\ does["null"] = "none" /\ does["pass"] = "pass" /\ does["ping"] = "ircd_ping"
      /\ does["pong"] = "none" /\ does["server"] = "server pong" /\ does["sid"] = "leaf"
      /\ does["sjoin"] = "sjoin" /\ does["skill"] = "exit" /\ does["squit"] = "exit"
      /\ does["uid"] = "add"
  BY <1>0, DirectMeans
<1>4. /\ table["NICK"] = "nick" /\ table["UID"] = "uid" /\ table["PING"] = "ping"
      /\ table["PONG"] = "pong" /\ table["SJOIN"] = "sjoin" /\ table["PASS"] = "pass"
      /\ table["SQUIT"] = "squit" /\ table["SERVER"] = "server" /\ table["SID"] = "sid"
      /\ table["ENCAP"] = "encap" /\ table["MODE"] = "mode" /\ table["KILL"] = "skill"
      /\ table["SVINFO"] = "null" /\ table["NOTICE"] = "null"
  BY <1>0, CharybdisServerIs
<1>5. /\ Does(d, "server", "NICK") = does[table["NICK"]]
      /\ Does(d, "server", "UID") = does[table["UID"]]
      /\ Does(d, "server", "PING") = does[table["PING"]]
      /\ Does(d, "server", "PONG") = does[table["PONG"]]
      /\ Does(d, "server", "SJOIN") = does[table["SJOIN"]]
      /\ Does(d, "server", "PASS") = does[table["PASS"]]
      /\ Does(d, "server", "SQUIT") = does[table["SQUIT"]]
      /\ Does(d, "server", "SERVER") = does[table["SERVER"]]
      /\ Does(d, "server", "SID") = does[table["SID"]]
      /\ Does(d, "server", "ENCAP") = does[table["ENCAP"]]
      /\ Does(d, "server", "MODE") = does[table["MODE"]]
      /\ Does(d, "server", "KILL") = does[table["KILL"]]
      /\ Does(d, "server", "SVINFO") = does[table["SVINFO"]]
      /\ Does(d, "server", "NOTICE") = does[table["NOTICE"]]
  BY <1>1, <1>2
<1>6. Does(d, "server", "NICK") = "add"
  BY <1>3, <1>4, <1>5
<1>7. Does(d, "server", "UID") = "add"
  BY <1>3, <1>4, <1>5
<1>8. Does(d, "server", "PING") = "ircd_ping"
  BY <1>3, <1>4, <1>5
<1>9. Does(d, "server", "PONG") = "none"
  BY <1>3, <1>4, <1>5
<1>10. Does(d, "server", "SJOIN") = "sjoin"
  BY <1>3, <1>4, <1>5
<1>11. Does(d, "server", "PASS") = "pass"
  BY <1>3, <1>4, <1>5
<1>12. Does(d, "server", "SQUIT") = "exit"
  BY <1>3, <1>4, <1>5
<1>13. Does(d, "server", "SERVER") = "server pong"
  BY <1>3, <1>4, <1>5
<1>14. Does(d, "server", "SID") = "leaf"
  BY <1>3, <1>4, <1>5
<1>15. Does(d, "server", "ENCAP") = "none"
  BY <1>3, <1>4, <1>5
<1>16. Does(d, "server", "MODE") = "none"
  BY <1>3, <1>4, <1>5
<1>17. Does(d, "server", "KILL") = "exit"
  BY <1>3, <1>4, <1>5
<1>18. Does(d, "server", "SVINFO") = "none"
  BY <1>3, <1>4, <1>5
<1>19. Does(d, "server", "NOTICE") = "none"
  BY <1>3, <1>4, <1>5
<1>20. QED
  BY <1>1, <1>2, <1>6, <1>7, <1>8, <1>9, <1>10, <1>11, <1>12, <1>13, <1>14, <1>15, <1>16, <1>17, <1>18,
     <1>19

LEMMA DirectUserHears ==
    ASSUME NEW d, Dialects[d].user = CharybdisUser, Dialects[d].does = DirectDoing
    PROVE  /\ Does(d, "user", "QUIT") = "exit" /\ Does(d, "user", "PART") = "part"
           /\ Does(d, "user", "JOIN") = "enter" /\ Does(d, "user", "KILL") = "exit"
           /\ Does(d, "user", "NICK") = "rename" /\ Does(d, "user", "REHASH") = "rehash"
           /\ Does(d, "user", "FORCEJOIN") = "force join"
           /\ Does(d, "user", "FORCEPART") = "force part" /\ Does(d, "user", "INVITE") = "invite"
           /\ \A c : c \notin {"QUIT", "PART", "JOIN", "KILL", "NICK", "REHASH", "FORCEJOIN", "FORCEPART",
                       "INVITE"} => Does(d, "user", c) = "none"
<1> DEFINE table == Dialects[d].user
           does == Dialects[d].does
<1>0. table = CharybdisUser /\ does = DirectDoing
  OBVIOUS
<1>1. /\ "JOIN" \in DOMAIN table => Does(d, "user", "JOIN 0") = does["join 0"]
      /\ \A c \in DOMAIN table : c # "JOIN 0" => Does(d, "user", c) = does[table[c]]
      /\ \A c : c \notin DOMAIN table /\ (c = "JOIN 0" => "JOIN" \notin DOMAIN table) => Does(d, "user", c) = "none"
  BY DEF Does
<1> HIDE DEF table, does
<1>2. DOMAIN table = {"PRIVMSG", "QUIT", "MODE", "TMODE", "PART", "JOIN", "KILL", "NICK",
                       "REHASH", "FORCEJOIN", "FORCEPART", "INVITE"}
  BY <1>0, CharybdisUserIs
<1>3. /\ does["forcejoin"] = "force join" /\ does["forcepart"] = "force part"
      /\ does["invite"] = "invite" /\ does["join"] = "enter" /\ does["kill"] = "exit"
      /\ does["mode_user"] = "none" /\ does["part"] = "part" /\ does["privmsg"] = "none"
      /\ does["quit"] = "exit" /\ does["rehash"] = "rehash" /\ does["tmode"] = "none"
      /\ does["unick"] = "rename" /\ does["join 0"] = "none"
  BY <1>0, DirectMeans
<1>4. /\ table["PRIVMSG"] = "privmsg" /\ table["QUIT"] = "quit" /\ table["MODE"] = "mode_user"
      /\ table["TMODE"] = "tmode" /\ table["PART"] = "part" /\ table["JOIN"] = "join"
      /\ table["KILL"] = "kill" /\ table["NICK"] = "unick" /\ table["REHASH"] = "rehash"
      /\ table["FORCEJOIN"] = "forcejoin" /\ table["FORCEPART"] = "forcepart"
      /\ table["INVITE"] = "invite"
  BY <1>0, CharybdisUserIs
<1>5. /\ Does(d, "user", "PRIVMSG") = does[table["PRIVMSG"]]
      /\ Does(d, "user", "QUIT") = does[table["QUIT"]]
      /\ Does(d, "user", "MODE") = does[table["MODE"]]
      /\ Does(d, "user", "TMODE") = does[table["TMODE"]]
      /\ Does(d, "user", "PART") = does[table["PART"]]
      /\ Does(d, "user", "JOIN") = does[table["JOIN"]]
      /\ Does(d, "user", "KILL") = does[table["KILL"]]
      /\ Does(d, "user", "NICK") = does[table["NICK"]]
      /\ Does(d, "user", "REHASH") = does[table["REHASH"]]
      /\ Does(d, "user", "FORCEJOIN") = does[table["FORCEJOIN"]]
      /\ Does(d, "user", "FORCEPART") = does[table["FORCEPART"]]
      /\ Does(d, "user", "INVITE") = does[table["INVITE"]]
      /\ Does(d, "user", "JOIN 0") = does["join 0"]
  BY <1>1, <1>2
<1>6. Does(d, "user", "PRIVMSG") = "none"
  BY <1>3, <1>4, <1>5
<1>7. Does(d, "user", "QUIT") = "exit"
  BY <1>3, <1>4, <1>5
<1>8. Does(d, "user", "MODE") = "none"
  BY <1>3, <1>4, <1>5
<1>9. Does(d, "user", "TMODE") = "none"
  BY <1>3, <1>4, <1>5
<1>10. Does(d, "user", "PART") = "part"
  BY <1>3, <1>4, <1>5
<1>11. Does(d, "user", "JOIN") = "enter"
  BY <1>3, <1>4, <1>5
<1>12. Does(d, "user", "KILL") = "exit"
  BY <1>3, <1>4, <1>5
<1>13. Does(d, "user", "NICK") = "rename"
  BY <1>3, <1>4, <1>5
<1>14. Does(d, "user", "REHASH") = "rehash"
  BY <1>3, <1>4, <1>5
<1>15. Does(d, "user", "FORCEJOIN") = "force join"
  BY <1>3, <1>4, <1>5
<1>16. Does(d, "user", "FORCEPART") = "force part"
  BY <1>3, <1>4, <1>5
<1>17. Does(d, "user", "INVITE") = "invite"
  BY <1>3, <1>4, <1>5
<1>18. Does(d, "user", "JOIN 0") = "none"
  BY <1>3, <1>4, <1>5
<1>19. QED
  BY <1>1, <1>2, <1>6, <1>7, <1>8, <1>9, <1>10, <1>11, <1>12, <1>13, <1>14, <1>15, <1>16, <1>17, <1>18

HybridDoing == CharybdisPeople ++ CharybdisChannels ++ HybridServers ++ HybridMoves ++ HybridOrders
LEMMA HybridMeans ==
    /\ HybridDoing["encap"] = "none" /\ HybridDoing["join"] = "enter"
    /\ HybridDoing["kill"] = "exit" /\ HybridDoing["mode"] = "none"
    /\ HybridDoing["mode_user"] = "mode" /\ HybridDoing["nick"] = "add"
    /\ HybridDoing["null"] = "none" /\ HybridDoing["part"] = "part" /\ HybridDoing["pass"] = "pass"
    /\ HybridDoing["ping"] = "ircd_ping" /\ HybridDoing["privmsg"] = "none"
    /\ HybridDoing["quit"] = "exit" /\ HybridDoing["server"] = "server"
    /\ HybridDoing["sid"] = "leaf" /\ HybridDoing["sjoin"] = "sjoin"
    /\ HybridDoing["skill"] = "exit" /\ HybridDoing["squit"] = "exit"
    /\ HybridDoing["tmode"] = "none" /\ HybridDoing["uid"] = "add"
    /\ HybridDoing["unick"] = "rename" /\ HybridDoing["join 0"] = "null"
<1>1. Apart(CharybdisPeople, CharybdisChannels, HybridServers, HybridMoves, HybridOrders)
  BY CharybdisPeopleIs, CharybdisChannelsIs, HybridServersIs, HybridMovesIs, HybridOrdersIs,
     CharybdisServersIs DEF Apart
<1>2. HybridDoing = Five(CharybdisPeople, CharybdisChannels, HybridServers, HybridMoves, HybridOrders)
  BY DEF HybridDoing, Five
<1>3. Holds(HybridDoing, CharybdisPeople, CharybdisChannels, HybridServers, HybridMoves, HybridOrders)
  BY <1>1, <1>2, FiveTables
<1>4. /\ HybridDoing["nick"] = "add" /\ HybridDoing["null"] = "none"
      /\ HybridDoing["quit"] = "exit" /\ HybridDoing["uid"] = "add"
      /\ HybridDoing["unick"] = "rename"
  <2>1. \A h \in DOMAIN CharybdisPeople : HybridDoing[h] = CharybdisPeople[h]
    BY <1>3 DEF Holds
  <2>2. QED
    BY <2>1, CharybdisPeopleIs
<1>5. /\ HybridDoing["privmsg"] = "none" /\ HybridDoing["sjoin"] = "sjoin"
  <2>1. \A h \in DOMAIN CharybdisChannels : HybridDoing[h] = CharybdisChannels[h]
    BY <1>3 DEF Holds
  <2>2. QED
    BY <2>1, CharybdisChannelsIs
<1>6. /\ HybridDoing["encap"] = "none" /\ HybridDoing["mode"] = "none"
      /\ HybridDoing["pass"] = "pass" /\ HybridDoing["ping"] = "ircd_ping"
      /\ HybridDoing["server"] = "server" /\ HybridDoing["sid"] = "leaf"
      /\ HybridDoing["squit"] = "exit"
  <2>1. \A h \in DOMAIN HybridServers : HybridDoing[h] = HybridServers[h]
    BY <1>3 DEF Holds
  <2>2. QED
    BY <2>1, HybridServersIs, CharybdisServersIs
<1>7. /\ HybridDoing["join"] = "enter" /\ HybridDoing["mode_user"] = "mode"
      /\ HybridDoing["part"] = "part" /\ HybridDoing["tmode"] = "none"
      /\ HybridDoing["join 0"] = "null"
  <2>1. \A h \in DOMAIN HybridMoves : HybridDoing[h] = HybridMoves[h]
    BY <1>3 DEF Holds
  <2>2. QED
    BY <2>1, HybridMovesIs
<1>8. /\ HybridDoing["kill"] = "exit" /\ HybridDoing["skill"] = "exit"
  <2>1. \A h \in DOMAIN HybridOrders : HybridDoing[h] = HybridOrders[h]
    BY <1>3 DEF Holds
  <2>2. QED
    BY <2>1, HybridOrdersIs
<1>9. QED
  BY <1>4, <1>5, <1>6, <1>7, <1>8

LEMMA HybridServerHears ==
    ASSUME NEW d, Dialects[d].server = HybridCommands.server, Dialects[d].does = HybridDoing
    PROVE  /\ Does(d, "server", "NICK") = "add" /\ Does(d, "server", "UID") = "add"
           /\ Does(d, "server", "PING") = "ircd_ping" /\ Does(d, "server", "SJOIN") = "sjoin"
           /\ Does(d, "server", "PASS") = "pass" /\ Does(d, "server", "SQUIT") = "exit"
           /\ Does(d, "server", "SERVER") = "server" /\ Does(d, "server", "SID") = "leaf"
           /\ Does(d, "server", "KILL") = "exit"
           /\ \A c : c \notin {"NICK", "UID", "PING", "SJOIN", "PASS", "SQUIT", "SERVER", "SID", "KILL"} => Does(d, "server", c) = "none"
<1> DEFINE table == Dialects[d].server
           does == Dialects[d].does
<1>0. table = HybridCommands.server /\ does = HybridDoing
  OBVIOUS
<1>1. /\ "JOIN" \in DOMAIN table => Does(d, "server", "JOIN 0") = does["join 0"]
      /\ \A c \in DOMAIN table : c # "JOIN 0" => Does(d, "server", c) = does[table[c]]
      /\ \A c : c \notin DOMAIN table /\ (c = "JOIN 0" => "JOIN" \notin DOMAIN table) => Does(d, "server", c) = "none"
  BY DEF Does
<1> HIDE DEF table, does
<1>2. DOMAIN table = {"NICK", "UID", "PING", "SJOIN", "PASS", "SQUIT", "SERVER", "SID", "ENCAP",
                       "MODE", "KILL", "SVINFO", "NOTICE"}
  BY <1>0, HybridServerIs, CharybdisServerIs
<1>3. /\ does["encap"] = "none" /\ does["mode"] = "none" /\ does["nick"] = "add"
      /\ does["null"] = "none" /\ does["pass"] = "pass" /\ does["ping"] = "ircd_ping"
      /\ does["server"] = "server" /\ does["sid"] = "leaf" /\ does["sjoin"] = "sjoin"
      /\ does["skill"] = "exit" /\ does["squit"] = "exit" /\ does["uid"] = "add"
  BY <1>0, HybridMeans
<1>4. /\ table["NICK"] = "nick" /\ table["UID"] = "uid" /\ table["PING"] = "ping"
      /\ table["SJOIN"] = "sjoin" /\ table["PASS"] = "pass" /\ table["SQUIT"] = "squit"
      /\ table["SERVER"] = "server" /\ table["SID"] = "sid" /\ table["ENCAP"] = "encap"
      /\ table["MODE"] = "mode" /\ table["KILL"] = "skill" /\ table["SVINFO"] = "null"
      /\ table["NOTICE"] = "null"
  BY <1>0, HybridServerIs, CharybdisServerIs
<1>5. /\ Does(d, "server", "NICK") = does[table["NICK"]]
      /\ Does(d, "server", "UID") = does[table["UID"]]
      /\ Does(d, "server", "PING") = does[table["PING"]]
      /\ Does(d, "server", "SJOIN") = does[table["SJOIN"]]
      /\ Does(d, "server", "PASS") = does[table["PASS"]]
      /\ Does(d, "server", "SQUIT") = does[table["SQUIT"]]
      /\ Does(d, "server", "SERVER") = does[table["SERVER"]]
      /\ Does(d, "server", "SID") = does[table["SID"]]
      /\ Does(d, "server", "ENCAP") = does[table["ENCAP"]]
      /\ Does(d, "server", "MODE") = does[table["MODE"]]
      /\ Does(d, "server", "KILL") = does[table["KILL"]]
      /\ Does(d, "server", "SVINFO") = does[table["SVINFO"]]
      /\ Does(d, "server", "NOTICE") = does[table["NOTICE"]]
  BY <1>1, <1>2
<1>6. Does(d, "server", "NICK") = "add"
  BY <1>3, <1>4, <1>5
<1>7. Does(d, "server", "UID") = "add"
  BY <1>3, <1>4, <1>5
<1>8. Does(d, "server", "PING") = "ircd_ping"
  BY <1>3, <1>4, <1>5
<1>9. Does(d, "server", "SJOIN") = "sjoin"
  BY <1>3, <1>4, <1>5
<1>10. Does(d, "server", "PASS") = "pass"
  BY <1>3, <1>4, <1>5
<1>11. Does(d, "server", "SQUIT") = "exit"
  BY <1>3, <1>4, <1>5
<1>12. Does(d, "server", "SERVER") = "server"
  BY <1>3, <1>4, <1>5
<1>13. Does(d, "server", "SID") = "leaf"
  BY <1>3, <1>4, <1>5
<1>14. Does(d, "server", "ENCAP") = "none"
  BY <1>3, <1>4, <1>5
<1>15. Does(d, "server", "MODE") = "none"
  BY <1>3, <1>4, <1>5
<1>16. Does(d, "server", "KILL") = "exit"
  BY <1>3, <1>4, <1>5
<1>17. Does(d, "server", "SVINFO") = "none"
  BY <1>3, <1>4, <1>5
<1>18. Does(d, "server", "NOTICE") = "none"
  BY <1>3, <1>4, <1>5
<1>19. QED
  BY <1>1, <1>2, <1>6, <1>7, <1>8, <1>9, <1>10, <1>11, <1>12, <1>13, <1>14, <1>15, <1>16, <1>17, <1>18

LEMMA HybridUserHears ==
    ASSUME NEW d, Dialects[d].user = HybridCommands.user, Dialects[d].does = HybridDoing
    PROVE  /\ Does(d, "user", "QUIT") = "exit" /\ Does(d, "user", "MODE") = "mode"
           /\ Does(d, "user", "PART") = "part" /\ Does(d, "user", "JOIN") = "enter"
           /\ Does(d, "user", "KILL") = "exit" /\ Does(d, "user", "NICK") = "rename"
           /\ Does(d, "user", "JOIN 0") = "null"
           /\ \A c : c \notin {"QUIT", "MODE", "PART", "JOIN", "KILL", "NICK", "JOIN 0"} => Does(d, "user", c) = "none"
<1> DEFINE table == Dialects[d].user
           does == Dialects[d].does
<1>0. table = HybridCommands.user /\ does = HybridDoing
  OBVIOUS
<1>1. /\ "JOIN" \in DOMAIN table => Does(d, "user", "JOIN 0") = does["join 0"]
      /\ \A c \in DOMAIN table : c # "JOIN 0" => Does(d, "user", c) = does[table[c]]
      /\ \A c : c \notin DOMAIN table /\ (c = "JOIN 0" => "JOIN" \notin DOMAIN table) => Does(d, "user", c) = "none"
  BY DEF Does
<1> HIDE DEF table, does
<1>2. DOMAIN table = {"PRIVMSG", "QUIT", "MODE", "TMODE", "PART", "JOIN", "KILL", "NICK"}
  BY <1>0, HybridUserIs, CharybdisUserIs
<1>3. /\ does["join"] = "enter" /\ does["kill"] = "exit" /\ does["mode_user"] = "mode"
      /\ does["part"] = "part" /\ does["privmsg"] = "none" /\ does["quit"] = "exit"
      /\ does["tmode"] = "none" /\ does["unick"] = "rename" /\ does["join 0"] = "null"
  BY <1>0, HybridMeans
<1>4. /\ table["PRIVMSG"] = "privmsg" /\ table["QUIT"] = "quit" /\ table["MODE"] = "mode_user"
      /\ table["TMODE"] = "tmode" /\ table["PART"] = "part" /\ table["JOIN"] = "join"
      /\ table["KILL"] = "kill" /\ table["NICK"] = "unick"
  BY <1>0, HybridUserIs, CharybdisUserIs
<1>5. /\ Does(d, "user", "PRIVMSG") = does[table["PRIVMSG"]]
      /\ Does(d, "user", "QUIT") = does[table["QUIT"]]
      /\ Does(d, "user", "MODE") = does[table["MODE"]]
      /\ Does(d, "user", "TMODE") = does[table["TMODE"]]
      /\ Does(d, "user", "PART") = does[table["PART"]]
      /\ Does(d, "user", "JOIN") = does[table["JOIN"]]
      /\ Does(d, "user", "KILL") = does[table["KILL"]]
      /\ Does(d, "user", "NICK") = does[table["NICK"]] /\ Does(d, "user", "JOIN 0") = does["join 0"]
  BY <1>1, <1>2
<1>6. Does(d, "user", "PRIVMSG") = "none"
  BY <1>3, <1>4, <1>5
<1>7. Does(d, "user", "QUIT") = "exit"
  BY <1>3, <1>4, <1>5
<1>8. Does(d, "user", "MODE") = "mode"
  BY <1>3, <1>4, <1>5
<1>9. Does(d, "user", "TMODE") = "none"
  BY <1>3, <1>4, <1>5
<1>10. Does(d, "user", "PART") = "part"
  BY <1>3, <1>4, <1>5
<1>11. Does(d, "user", "JOIN") = "enter"
  BY <1>3, <1>4, <1>5
<1>12. Does(d, "user", "KILL") = "exit"
  BY <1>3, <1>4, <1>5
<1>13. Does(d, "user", "NICK") = "rename"
  BY <1>3, <1>4, <1>5
<1>14. Does(d, "user", "JOIN 0") = "null"
  BY <1>3, <1>4, <1>5
<1>15. QED
  BY <1>1, <1>2, <1>6, <1>7, <1>8, <1>9, <1>10, <1>11, <1>12, <1>13, <1>14

PlexusDoing == CharybdisPeople ++ CharybdisChannels ++ Ratbox3Servers ++ CharybdisMoves ++ CharybdisOrders
LEMMA PlexusMeans ==
    /\ PlexusDoing["encap"] = "none" /\ PlexusDoing["forcejoin"] = "force join"
    /\ PlexusDoing["forcepart"] = "force part" /\ PlexusDoing["invite"] = "invite"
    /\ PlexusDoing["join"] = "enter" /\ PlexusDoing["kill"] = "exit"
    /\ PlexusDoing["mode"] = "none" /\ PlexusDoing["mode_user"] = "mode"
    /\ PlexusDoing["nick"] = "add" /\ PlexusDoing["null"] = "none" /\ PlexusDoing["part"] = "part"
    /\ PlexusDoing["pass"] = "pass ts6" /\ PlexusDoing["ping"] = "ircd_ping"
    /\ PlexusDoing["pong"] = "none" /\ PlexusDoing["privmsg"] = "none"
    /\ PlexusDoing["quit"] = "exit" /\ PlexusDoing["rehash"] = "rehash"
    /\ PlexusDoing["server"] = "server pong" /\ PlexusDoing["sid"] = "leaf"
    /\ PlexusDoing["sjoin"] = "sjoin" /\ PlexusDoing["skill"] = "exit"
    /\ PlexusDoing["squit"] = "exit" /\ PlexusDoing["tmode"] = "none" /\ PlexusDoing["uid"] = "add"
    /\ PlexusDoing["unick"] = "rename" /\ PlexusDoing["join 0"] = "none"
<1>1. Apart(CharybdisPeople, CharybdisChannels, Ratbox3Servers, CharybdisMoves, CharybdisOrders)
  BY CharybdisPeopleIs, CharybdisChannelsIs, Ratbox3ServersIs, CharybdisMovesIs, CharybdisOrdersIs,
     CharybdisServersIs DEF Apart
<1>2. PlexusDoing = Five(CharybdisPeople, CharybdisChannels, Ratbox3Servers, CharybdisMoves, CharybdisOrders)
  BY DEF PlexusDoing, Five
<1>3. Holds(PlexusDoing, CharybdisPeople, CharybdisChannels, Ratbox3Servers, CharybdisMoves, CharybdisOrders)
  BY <1>1, <1>2, FiveTables
<1>4. /\ PlexusDoing["nick"] = "add" /\ PlexusDoing["null"] = "none"
      /\ PlexusDoing["quit"] = "exit" /\ PlexusDoing["uid"] = "add"
      /\ PlexusDoing["unick"] = "rename"
  <2>1. \A h \in DOMAIN CharybdisPeople : PlexusDoing[h] = CharybdisPeople[h]
    BY <1>3 DEF Holds
  <2>2. QED
    BY <2>1, CharybdisPeopleIs
<1>5. /\ PlexusDoing["privmsg"] = "none" /\ PlexusDoing["sjoin"] = "sjoin"
  <2>1. \A h \in DOMAIN CharybdisChannels : PlexusDoing[h] = CharybdisChannels[h]
    BY <1>3 DEF Holds
  <2>2. QED
    BY <2>1, CharybdisChannelsIs
<1>6. /\ PlexusDoing["encap"] = "none" /\ PlexusDoing["mode"] = "none"
      /\ PlexusDoing["pass"] = "pass ts6" /\ PlexusDoing["ping"] = "ircd_ping"
      /\ PlexusDoing["pong"] = "none" /\ PlexusDoing["server"] = "server pong"
      /\ PlexusDoing["sid"] = "leaf" /\ PlexusDoing["squit"] = "exit"
  <2>1. \A h \in DOMAIN Ratbox3Servers : PlexusDoing[h] = Ratbox3Servers[h]
    BY <1>3 DEF Holds
  <2>2. QED
    BY <2>1, Ratbox3ServersIs, CharybdisServersIs
<1>7. /\ PlexusDoing["join"] = "enter" /\ PlexusDoing["mode_user"] = "mode"
      /\ PlexusDoing["part"] = "part" /\ PlexusDoing["tmode"] = "none"
      /\ PlexusDoing["join 0"] = "none"
  <2>1. \A h \in DOMAIN CharybdisMoves : PlexusDoing[h] = CharybdisMoves[h]
    BY <1>3 DEF Holds
  <2>2. QED
    BY <2>1, CharybdisMovesIs
<1>8. /\ PlexusDoing["forcejoin"] = "force join" /\ PlexusDoing["forcepart"] = "force part"
      /\ PlexusDoing["invite"] = "invite" /\ PlexusDoing["kill"] = "exit"
      /\ PlexusDoing["rehash"] = "rehash" /\ PlexusDoing["skill"] = "exit"
  <2>1. \A h \in DOMAIN CharybdisOrders : PlexusDoing[h] = CharybdisOrders[h]
    BY <1>3 DEF Holds
  <2>2. QED
    BY <2>1, CharybdisOrdersIs
<1>9. QED
  BY <1>4, <1>5, <1>6, <1>7, <1>8

LEMMA PlexusServerHears ==
    ASSUME NEW d, Dialects[d].server = CharybdisServer, Dialects[d].does = PlexusDoing
    PROVE  /\ Does(d, "server", "NICK") = "add" /\ Does(d, "server", "UID") = "add"
           /\ Does(d, "server", "PING") = "ircd_ping" /\ Does(d, "server", "SJOIN") = "sjoin"
           /\ Does(d, "server", "PASS") = "pass ts6" /\ Does(d, "server", "SQUIT") = "exit"
           /\ Does(d, "server", "SERVER") = "server pong" /\ Does(d, "server", "SID") = "leaf"
           /\ Does(d, "server", "KILL") = "exit"
           /\ \A c : c \notin {"NICK", "UID", "PING", "SJOIN", "PASS", "SQUIT", "SERVER", "SID", "KILL"} => Does(d, "server", c) = "none"
<1> DEFINE table == Dialects[d].server
           does == Dialects[d].does
<1>0. table = CharybdisServer /\ does = PlexusDoing
  OBVIOUS
<1>1. /\ "JOIN" \in DOMAIN table => Does(d, "server", "JOIN 0") = does["join 0"]
      /\ \A c \in DOMAIN table : c # "JOIN 0" => Does(d, "server", c) = does[table[c]]
      /\ \A c : c \notin DOMAIN table /\ (c = "JOIN 0" => "JOIN" \notin DOMAIN table) => Does(d, "server", c) = "none"
  BY DEF Does
<1> HIDE DEF table, does
<1>2. DOMAIN table = {"NICK", "UID", "PING", "PONG", "SJOIN", "PASS", "SQUIT", "SERVER", "SID",
                       "ENCAP", "MODE", "KILL", "SVINFO", "NOTICE"}
  BY <1>0, CharybdisServerIs
<1>3. /\ does["encap"] = "none" /\ does["mode"] = "none" /\ does["nick"] = "add"
      /\ does["null"] = "none" /\ does["pass"] = "pass ts6" /\ does["ping"] = "ircd_ping"
      /\ does["pong"] = "none" /\ does["server"] = "server pong" /\ does["sid"] = "leaf"
      /\ does["sjoin"] = "sjoin" /\ does["skill"] = "exit" /\ does["squit"] = "exit"
      /\ does["uid"] = "add"
  BY <1>0, PlexusMeans
<1>4. /\ table["NICK"] = "nick" /\ table["UID"] = "uid" /\ table["PING"] = "ping"
      /\ table["PONG"] = "pong" /\ table["SJOIN"] = "sjoin" /\ table["PASS"] = "pass"
      /\ table["SQUIT"] = "squit" /\ table["SERVER"] = "server" /\ table["SID"] = "sid"
      /\ table["ENCAP"] = "encap" /\ table["MODE"] = "mode" /\ table["KILL"] = "skill"
      /\ table["SVINFO"] = "null" /\ table["NOTICE"] = "null"
  BY <1>0, CharybdisServerIs
<1>5. /\ Does(d, "server", "NICK") = does[table["NICK"]]
      /\ Does(d, "server", "UID") = does[table["UID"]]
      /\ Does(d, "server", "PING") = does[table["PING"]]
      /\ Does(d, "server", "PONG") = does[table["PONG"]]
      /\ Does(d, "server", "SJOIN") = does[table["SJOIN"]]
      /\ Does(d, "server", "PASS") = does[table["PASS"]]
      /\ Does(d, "server", "SQUIT") = does[table["SQUIT"]]
      /\ Does(d, "server", "SERVER") = does[table["SERVER"]]
      /\ Does(d, "server", "SID") = does[table["SID"]]
      /\ Does(d, "server", "ENCAP") = does[table["ENCAP"]]
      /\ Does(d, "server", "MODE") = does[table["MODE"]]
      /\ Does(d, "server", "KILL") = does[table["KILL"]]
      /\ Does(d, "server", "SVINFO") = does[table["SVINFO"]]
      /\ Does(d, "server", "NOTICE") = does[table["NOTICE"]]
  BY <1>1, <1>2
<1>6. Does(d, "server", "NICK") = "add"
  BY <1>3, <1>4, <1>5
<1>7. Does(d, "server", "UID") = "add"
  BY <1>3, <1>4, <1>5
<1>8. Does(d, "server", "PING") = "ircd_ping"
  BY <1>3, <1>4, <1>5
<1>9. Does(d, "server", "PONG") = "none"
  BY <1>3, <1>4, <1>5
<1>10. Does(d, "server", "SJOIN") = "sjoin"
  BY <1>3, <1>4, <1>5
<1>11. Does(d, "server", "PASS") = "pass ts6"
  BY <1>3, <1>4, <1>5
<1>12. Does(d, "server", "SQUIT") = "exit"
  BY <1>3, <1>4, <1>5
<1>13. Does(d, "server", "SERVER") = "server pong"
  BY <1>3, <1>4, <1>5
<1>14. Does(d, "server", "SID") = "leaf"
  BY <1>3, <1>4, <1>5
<1>15. Does(d, "server", "ENCAP") = "none"
  BY <1>3, <1>4, <1>5
<1>16. Does(d, "server", "MODE") = "none"
  BY <1>3, <1>4, <1>5
<1>17. Does(d, "server", "KILL") = "exit"
  BY <1>3, <1>4, <1>5
<1>18. Does(d, "server", "SVINFO") = "none"
  BY <1>3, <1>4, <1>5
<1>19. Does(d, "server", "NOTICE") = "none"
  BY <1>3, <1>4, <1>5
<1>20. QED
  BY <1>1, <1>2, <1>6, <1>7, <1>8, <1>9, <1>10, <1>11, <1>12, <1>13, <1>14, <1>15, <1>16, <1>17, <1>18,
     <1>19

LEMMA PlexusUserHears ==
    ASSUME NEW d, Dialects[d].user = CharybdisUser, Dialects[d].does = PlexusDoing
    PROVE  /\ Does(d, "user", "QUIT") = "exit" /\ Does(d, "user", "MODE") = "mode"
           /\ Does(d, "user", "PART") = "part" /\ Does(d, "user", "JOIN") = "enter"
           /\ Does(d, "user", "KILL") = "exit" /\ Does(d, "user", "NICK") = "rename"
           /\ Does(d, "user", "REHASH") = "rehash" /\ Does(d, "user", "FORCEJOIN") = "force join"
           /\ Does(d, "user", "FORCEPART") = "force part" /\ Does(d, "user", "INVITE") = "invite"
           /\ \A c : c \notin {"QUIT", "MODE", "PART", "JOIN", "KILL", "NICK", "REHASH", "FORCEJOIN",
                       "FORCEPART", "INVITE"} => Does(d, "user", c) = "none"
<1> DEFINE table == Dialects[d].user
           does == Dialects[d].does
<1>0. table = CharybdisUser /\ does = PlexusDoing
  OBVIOUS
<1>1. /\ "JOIN" \in DOMAIN table => Does(d, "user", "JOIN 0") = does["join 0"]
      /\ \A c \in DOMAIN table : c # "JOIN 0" => Does(d, "user", c) = does[table[c]]
      /\ \A c : c \notin DOMAIN table /\ (c = "JOIN 0" => "JOIN" \notin DOMAIN table) => Does(d, "user", c) = "none"
  BY DEF Does
<1> HIDE DEF table, does
<1>2. DOMAIN table = {"PRIVMSG", "QUIT", "MODE", "TMODE", "PART", "JOIN", "KILL", "NICK",
                       "REHASH", "FORCEJOIN", "FORCEPART", "INVITE"}
  BY <1>0, CharybdisUserIs
<1>3. /\ does["forcejoin"] = "force join" /\ does["forcepart"] = "force part"
      /\ does["invite"] = "invite" /\ does["join"] = "enter" /\ does["kill"] = "exit"
      /\ does["mode_user"] = "mode" /\ does["part"] = "part" /\ does["privmsg"] = "none"
      /\ does["quit"] = "exit" /\ does["rehash"] = "rehash" /\ does["tmode"] = "none"
      /\ does["unick"] = "rename" /\ does["join 0"] = "none"
  BY <1>0, PlexusMeans
<1>4. /\ table["PRIVMSG"] = "privmsg" /\ table["QUIT"] = "quit" /\ table["MODE"] = "mode_user"
      /\ table["TMODE"] = "tmode" /\ table["PART"] = "part" /\ table["JOIN"] = "join"
      /\ table["KILL"] = "kill" /\ table["NICK"] = "unick" /\ table["REHASH"] = "rehash"
      /\ table["FORCEJOIN"] = "forcejoin" /\ table["FORCEPART"] = "forcepart"
      /\ table["INVITE"] = "invite"
  BY <1>0, CharybdisUserIs
<1>5. /\ Does(d, "user", "PRIVMSG") = does[table["PRIVMSG"]]
      /\ Does(d, "user", "QUIT") = does[table["QUIT"]]
      /\ Does(d, "user", "MODE") = does[table["MODE"]]
      /\ Does(d, "user", "TMODE") = does[table["TMODE"]]
      /\ Does(d, "user", "PART") = does[table["PART"]]
      /\ Does(d, "user", "JOIN") = does[table["JOIN"]]
      /\ Does(d, "user", "KILL") = does[table["KILL"]]
      /\ Does(d, "user", "NICK") = does[table["NICK"]]
      /\ Does(d, "user", "REHASH") = does[table["REHASH"]]
      /\ Does(d, "user", "FORCEJOIN") = does[table["FORCEJOIN"]]
      /\ Does(d, "user", "FORCEPART") = does[table["FORCEPART"]]
      /\ Does(d, "user", "INVITE") = does[table["INVITE"]]
      /\ Does(d, "user", "JOIN 0") = does["join 0"]
  BY <1>1, <1>2
<1>6. Does(d, "user", "PRIVMSG") = "none"
  BY <1>3, <1>4, <1>5
<1>7. Does(d, "user", "QUIT") = "exit"
  BY <1>3, <1>4, <1>5
<1>8. Does(d, "user", "MODE") = "mode"
  BY <1>3, <1>4, <1>5
<1>9. Does(d, "user", "TMODE") = "none"
  BY <1>3, <1>4, <1>5
<1>10. Does(d, "user", "PART") = "part"
  BY <1>3, <1>4, <1>5
<1>11. Does(d, "user", "JOIN") = "enter"
  BY <1>3, <1>4, <1>5
<1>12. Does(d, "user", "KILL") = "exit"
  BY <1>3, <1>4, <1>5
<1>13. Does(d, "user", "NICK") = "rename"
  BY <1>3, <1>4, <1>5
<1>14. Does(d, "user", "REHASH") = "rehash"
  BY <1>3, <1>4, <1>5
<1>15. Does(d, "user", "FORCEJOIN") = "force join"
  BY <1>3, <1>4, <1>5
<1>16. Does(d, "user", "FORCEPART") = "force part"
  BY <1>3, <1>4, <1>5
<1>17. Does(d, "user", "INVITE") = "invite"
  BY <1>3, <1>4, <1>5
<1>18. Does(d, "user", "JOIN 0") = "none"
  BY <1>3, <1>4, <1>5
<1>19. QED
  BY <1>1, <1>2, <1>6, <1>7, <1>8, <1>9, <1>10, <1>11, <1>12, <1>13, <1>14, <1>15, <1>16, <1>17, <1>18

LEMMA BahamutMeans ==
    /\ BahamutDoes["nick"] = "add" /\ BahamutDoes["null"] = "none"
    /\ BahamutDoes["ping"] = "ircd_ping" /\ BahamutDoes["server"] = "server"
    /\ BahamutDoes["sjoin"] = "chan" /\ BahamutDoes["unick"] = "rename"
BY BahamutDoesIs

LEMMA BahamutServerHears ==
    ASSUME NEW d, Dialects[d].server = BahamutCommands.server, Dialects[d].does = BahamutDoes
    PROVE  /\ Does(d, "server", "SERVER") = "server" /\ Does(d, "server", "PING") = "ircd_ping"
           /\ Does(d, "server", "NICK") = "add" /\ Does(d, "server", "SJOIN") = "chan"
           /\ \A c : c \notin {"SERVER", "PING", "NICK", "SJOIN"} => Does(d, "server", c) = "none"
<1> DEFINE table == Dialects[d].server
           does == Dialects[d].does
<1>0. table = BahamutCommands.server /\ does = BahamutDoes
  OBVIOUS
<1>1. /\ "JOIN" \in DOMAIN table => Does(d, "server", "JOIN 0") = does["join 0"]
      /\ \A c \in DOMAIN table : c # "JOIN 0" => Does(d, "server", c) = does[table[c]]
      /\ \A c : c \notin DOMAIN table /\ (c = "JOIN 0" => "JOIN" \notin DOMAIN table) => Does(d, "server", c) = "none"
  BY DEF Does
<1> HIDE DEF table, does
<1>2. DOMAIN table = {"SERVER", "PING", "SVINFO", "NICK", "PASS", "GNOTICE", "CAPAB", "SQLINE",
                       "SJOIN", "LUSERSLOCK"}
  BY <1>0, BahamutServerIs
<1>3. /\ does["nick"] = "add" /\ does["null"] = "none" /\ does["ping"] = "ircd_ping"
      /\ does["server"] = "server" /\ does["sjoin"] = "chan"
  BY <1>0, BahamutMeans
<1>4. /\ table["SERVER"] = "server" /\ table["PING"] = "ping" /\ table["SVINFO"] = "null"
      /\ table["NICK"] = "nick" /\ table["PASS"] = "null" /\ table["GNOTICE"] = "null"
      /\ table["CAPAB"] = "null" /\ table["SQLINE"] = "null" /\ table["SJOIN"] = "sjoin"
      /\ table["LUSERSLOCK"] = "null"
  BY <1>0, BahamutServerIs
<1>5. /\ Does(d, "server", "SERVER") = does[table["SERVER"]]
      /\ Does(d, "server", "PING") = does[table["PING"]]
      /\ Does(d, "server", "SVINFO") = does[table["SVINFO"]]
      /\ Does(d, "server", "NICK") = does[table["NICK"]]
      /\ Does(d, "server", "PASS") = does[table["PASS"]]
      /\ Does(d, "server", "GNOTICE") = does[table["GNOTICE"]]
      /\ Does(d, "server", "CAPAB") = does[table["CAPAB"]]
      /\ Does(d, "server", "SQLINE") = does[table["SQLINE"]]
      /\ Does(d, "server", "SJOIN") = does[table["SJOIN"]]
      /\ Does(d, "server", "LUSERSLOCK") = does[table["LUSERSLOCK"]]
  BY <1>1, <1>2
<1>6. Does(d, "server", "SERVER") = "server"
  BY <1>3, <1>4, <1>5
<1>7. Does(d, "server", "PING") = "ircd_ping"
  BY <1>3, <1>4, <1>5
<1>8. Does(d, "server", "SVINFO") = "none"
  BY <1>3, <1>4, <1>5
<1>9. Does(d, "server", "NICK") = "add"
  BY <1>3, <1>4, <1>5
<1>10. Does(d, "server", "PASS") = "none"
  BY <1>3, <1>4, <1>5
<1>11. Does(d, "server", "GNOTICE") = "none"
  BY <1>3, <1>4, <1>5
<1>12. Does(d, "server", "CAPAB") = "none"
  BY <1>3, <1>4, <1>5
<1>13. Does(d, "server", "SQLINE") = "none"
  BY <1>3, <1>4, <1>5
<1>14. Does(d, "server", "SJOIN") = "chan"
  BY <1>3, <1>4, <1>5
<1>15. Does(d, "server", "LUSERSLOCK") = "none"
  BY <1>3, <1>4, <1>5
<1>16. QED
  BY <1>1, <1>2, <1>6, <1>7, <1>8, <1>9, <1>10, <1>11, <1>12, <1>13, <1>14, <1>15

LEMMA BahamutUserHears ==
    ASSUME NEW d, Dialects[d].user = BahamutCommands.user, Dialects[d].does = BahamutDoes
    PROVE  /\ Does(d, "user", "NICK") = "rename"
           /\ \A c : c \notin {"NICK"} => Does(d, "user", c) = "none"
<1> DEFINE table == Dialects[d].user
           does == Dialects[d].does
<1>0. table = BahamutCommands.user /\ does = BahamutDoes
  OBVIOUS
<1>1. /\ "JOIN" \in DOMAIN table => Does(d, "user", "JOIN 0") = does["join 0"]
      /\ \A c \in DOMAIN table : c # "JOIN 0" => Does(d, "user", c) = does[table[c]]
      /\ \A c : c \notin DOMAIN table /\ (c = "JOIN 0" => "JOIN" \notin DOMAIN table) => Does(d, "user", c) = "none"
  BY DEF Does
<1> HIDE DEF table, does
<1>2. DOMAIN table = {"NICK"}
  BY <1>0, BahamutUserIs
<1>3. /\ does["unick"] = "rename"
  BY <1>0, BahamutMeans
<1>4. /\ table["NICK"] = "unick"
  BY <1>0, BahamutUserIs
<1>5. /\ Does(d, "user", "NICK") = does[table["NICK"]]
  BY <1>1, <1>2
<1>6. Does(d, "user", "NICK") = "rename"
  BY <1>3, <1>4, <1>5
<1>7. QED
  BY <1>1, <1>2, <1>6

UnrealDoing == UnrealServers ++ UnrealUsers ++ UnrealKills ++ UnrealOrders
LEMMA UnrealMeans ==
    /\ UnrealDoing["eos"] = "end" /\ UnrealDoing["invite"] = "invite"
    /\ UnrealDoing["join"] = "none" /\ UnrealDoing["kill"] = "bring back"
    /\ UnrealDoing["mode"] = "mode" /\ UnrealDoing["netinfo"] = "none"
    /\ UnrealDoing["nick"] = "add" /\ UnrealDoing["part"] = "part"
    /\ UnrealDoing["ping"] = "ircd_ping" /\ UnrealDoing["pong"] = "none"
    /\ UnrealDoing["privmsg"] = "none" /\ UnrealDoing["quit"] = "exit"
    /\ UnrealDoing["rehash"] = "rehash" /\ UnrealDoing["sajoin"] = "force join"
    /\ UnrealDoing["sapart"] = "force part" /\ UnrealDoing["serv_null"] = "none"
    /\ UnrealDoing["server"] = "server pong" /\ UnrealDoing["sjoin"] = "sjoin"
    /\ UnrealDoing["skick"] = "part" /\ UnrealDoing["skill"] = "count and bring back"
    /\ UnrealDoing["squit"] = "exit" /\ UnrealDoing["svskill"] = "count and bring back"
    /\ UnrealDoing["svsmode"] = "none" /\ UnrealDoing["ukick"] = "part"
    /\ UnrealDoing["unick"] = "rename" /\ UnrealDoing["join 0"] = "part"
<1>1. FourApart(UnrealServers, UnrealUsers, UnrealKills, UnrealOrders)
  BY UnrealServersIs, UnrealUsersIs, UnrealKillsIs, UnrealOrdersIs DEF FourApart
<1>2. UnrealDoing = Four(UnrealServers, UnrealUsers, UnrealKills, UnrealOrders)
  BY DEF UnrealDoing, Four
<1>3. FourHold(UnrealDoing, UnrealServers, UnrealUsers, UnrealKills, UnrealOrders)
  BY <1>1, <1>2, FourTables
<1>4. /\ UnrealDoing["eos"] = "end" /\ UnrealDoing["netinfo"] = "none"
      /\ UnrealDoing["nick"] = "add" /\ UnrealDoing["server"] = "server pong"
  <2>1. \A h \in DOMAIN UnrealServers : UnrealDoing[h] = UnrealServers[h]
    BY <1>3 DEF FourHold
  <2>2. QED
    BY <2>1, UnrealServersIs
<1>5. /\ UnrealDoing["join"] = "none" /\ UnrealDoing["mode"] = "mode"
      /\ UnrealDoing["part"] = "part" /\ UnrealDoing["ping"] = "ircd_ping"
      /\ UnrealDoing["privmsg"] = "none" /\ UnrealDoing["quit"] = "exit"
      /\ UnrealDoing["sjoin"] = "sjoin" /\ UnrealDoing["join 0"] = "part"
  <2>1. \A h \in DOMAIN UnrealUsers : UnrealDoing[h] = UnrealUsers[h]
    BY <1>3 DEF FourHold
  <2>2. QED
    BY <2>1, UnrealUsersIs
<1>6. /\ UnrealDoing["kill"] = "bring back" /\ UnrealDoing["skill"] = "count and bring back"
      /\ UnrealDoing["squit"] = "exit" /\ UnrealDoing["svskill"] = "count and bring back"
      /\ UnrealDoing["svsmode"] = "none"
  <2>1. \A h \in DOMAIN UnrealKills : UnrealDoing[h] = UnrealKills[h]
    BY <1>3 DEF FourHold
  <2>2. QED
    BY <2>1, UnrealKillsIs
<1>7. /\ UnrealDoing["invite"] = "invite" /\ UnrealDoing["pong"] = "none"
      /\ UnrealDoing["rehash"] = "rehash" /\ UnrealDoing["sajoin"] = "force join"
      /\ UnrealDoing["sapart"] = "force part" /\ UnrealDoing["serv_null"] = "none"
      /\ UnrealDoing["skick"] = "part" /\ UnrealDoing["ukick"] = "part"
      /\ UnrealDoing["unick"] = "rename"
  <2>1. \A h \in DOMAIN UnrealOrders : UnrealDoing[h] = UnrealOrders[h]
    BY <1>3 DEF FourHold
  <2>2. QED
    BY <2>1, UnrealOrdersIs
<1>8. QED
  BY <1>4, <1>5, <1>6, <1>7

LEMMA UnrealServerHears ==
    ASSUME NEW d, Dialects[d].server = UnrealCommands.server, Dialects[d].does = UnrealDoing
    PROVE  /\ Does(d, "server", "KICK") = "part" /\ Does(d, "server", "SJOIN") = "sjoin"
           /\ Does(d, "server", "NICK") = "add" /\ Does(d, "server", "EOS") = "end"
           /\ Does(d, "server", "SERVER") = "server pong"
           /\ Does(d, "server", "PING") = "ircd_ping" /\ Does(d, "server", "SQUIT") = "exit"
           /\ Does(d, "server", "SVSKILL") = "count and bring back"
           /\ Does(d, "server", "KILL") = "count and bring back"
           /\ \A c : c \notin {"KICK", "SJOIN", "NICK", "EOS", "SERVER", "PING", "SQUIT", "SVSKILL", "KILL"} => Does(d, "server", c) = "none"
<1> DEFINE table == Dialects[d].server
           does == Dialects[d].does
<1>0. table = UnrealCommands.server /\ does = UnrealDoing
  OBVIOUS
<1>1. /\ "JOIN" \in DOMAIN table => Does(d, "server", "JOIN 0") = does["join 0"]
      /\ \A c \in DOMAIN table : c # "JOIN 0" => Does(d, "server", c) = does[table[c]]
      /\ \A c : c \notin DOMAIN table /\ (c = "JOIN 0" => "JOIN" \notin DOMAIN table) => Does(d, "server", c) = "none"
  BY DEF Does
<1> HIDE DEF table, does
<1>2. DOMAIN table = {"KICK", "NETINFO", "SJOIN", "NICK", "EOS", "SERVER", "PING", "SQUIT",
                       "SVSMODE", "SVSKILL", "KILL", "PONG", "SWHOIS", "SENDSNO"}
  BY <1>0, UnrealServerIs
<1>3. /\ does["eos"] = "end" /\ does["netinfo"] = "none" /\ does["nick"] = "add"
      /\ does["ping"] = "ircd_ping" /\ does["pong"] = "none" /\ does["serv_null"] = "none"
      /\ does["server"] = "server pong" /\ does["sjoin"] = "sjoin" /\ does["skick"] = "part"
      /\ does["skill"] = "count and bring back" /\ does["squit"] = "exit"
      /\ does["svskill"] = "count and bring back" /\ does["svsmode"] = "none"
  BY <1>0, UnrealMeans
<1>4. /\ table["KICK"] = "skick" /\ table["NETINFO"] = "netinfo" /\ table["SJOIN"] = "sjoin"
      /\ table["NICK"] = "nick" /\ table["EOS"] = "eos" /\ table["SERVER"] = "server"
      /\ table["PING"] = "ping" /\ table["SQUIT"] = "squit" /\ table["SVSMODE"] = "svsmode"
      /\ table["SVSKILL"] = "svskill" /\ table["KILL"] = "skill" /\ table["PONG"] = "pong"
      /\ table["SWHOIS"] = "serv_null" /\ table["SENDSNO"] = "serv_null"
  BY <1>0, UnrealServerIs
<1>5. /\ Does(d, "server", "KICK") = does[table["KICK"]]
      /\ Does(d, "server", "NETINFO") = does[table["NETINFO"]]
      /\ Does(d, "server", "SJOIN") = does[table["SJOIN"]]
      /\ Does(d, "server", "NICK") = does[table["NICK"]]
      /\ Does(d, "server", "EOS") = does[table["EOS"]]
      /\ Does(d, "server", "SERVER") = does[table["SERVER"]]
      /\ Does(d, "server", "PING") = does[table["PING"]]
      /\ Does(d, "server", "SQUIT") = does[table["SQUIT"]]
      /\ Does(d, "server", "SVSMODE") = does[table["SVSMODE"]]
      /\ Does(d, "server", "SVSKILL") = does[table["SVSKILL"]]
      /\ Does(d, "server", "KILL") = does[table["KILL"]]
      /\ Does(d, "server", "PONG") = does[table["PONG"]]
      /\ Does(d, "server", "SWHOIS") = does[table["SWHOIS"]]
      /\ Does(d, "server", "SENDSNO") = does[table["SENDSNO"]]
  BY <1>1, <1>2
<1>6. Does(d, "server", "KICK") = "part"
  BY <1>3, <1>4, <1>5
<1>7. Does(d, "server", "NETINFO") = "none"
  BY <1>3, <1>4, <1>5
<1>8. Does(d, "server", "SJOIN") = "sjoin"
  BY <1>3, <1>4, <1>5
<1>9. Does(d, "server", "NICK") = "add"
  BY <1>3, <1>4, <1>5
<1>10. Does(d, "server", "EOS") = "end"
  BY <1>3, <1>4, <1>5
<1>11. Does(d, "server", "SERVER") = "server pong"
  BY <1>3, <1>4, <1>5
<1>12. Does(d, "server", "PING") = "ircd_ping"
  BY <1>3, <1>4, <1>5
<1>13. Does(d, "server", "SQUIT") = "exit"
  BY <1>3, <1>4, <1>5
<1>14. Does(d, "server", "SVSMODE") = "none"
  BY <1>3, <1>4, <1>5
<1>15. Does(d, "server", "SVSKILL") = "count and bring back"
  BY <1>3, <1>4, <1>5
<1>16. Does(d, "server", "KILL") = "count and bring back"
  BY <1>3, <1>4, <1>5
<1>17. Does(d, "server", "PONG") = "none"
  BY <1>3, <1>4, <1>5
<1>18. Does(d, "server", "SWHOIS") = "none"
  BY <1>3, <1>4, <1>5
<1>19. Does(d, "server", "SENDSNO") = "none"
  BY <1>3, <1>4, <1>5
<1>20. QED
  BY <1>1, <1>2, <1>6, <1>7, <1>8, <1>9, <1>10, <1>11, <1>12, <1>13, <1>14, <1>15, <1>16, <1>17, <1>18,
     <1>19

LEMMA UnrealUserHears ==
    ASSUME NEW d, Dialects[d].user = UnrealCommands.user, Dialects[d].does = UnrealDoing
    PROVE  /\ Does(d, "user", "QUIT") = "exit" /\ Does(d, "user", "MODE") = "mode"
           /\ Does(d, "user", "PART") = "part" /\ Does(d, "user", "KILL") = "bring back"
           /\ Does(d, "user", "SAJOIN") = "force join" /\ Does(d, "user", "SAPART") = "force part"
           /\ Does(d, "user", "NICK") = "rename" /\ Does(d, "user", "KICK") = "part"
           /\ Does(d, "user", "INVITE") = "invite" /\ Does(d, "user", "REHASH") = "rehash"
           /\ Does(d, "user", "JOIN 0") = "part"
           /\ \A c : c \notin {"QUIT", "MODE", "PART", "KILL", "SAJOIN", "SAPART", "NICK", "KICK",
                       "INVITE", "REHASH", "JOIN 0"} => Does(d, "user", c) = "none"
<1> DEFINE table == Dialects[d].user
           does == Dialects[d].does
<1>0. table = UnrealCommands.user /\ does = UnrealDoing
  OBVIOUS
<1>1. /\ "JOIN" \in DOMAIN table => Does(d, "user", "JOIN 0") = does["join 0"]
      /\ \A c \in DOMAIN table : c # "JOIN 0" => Does(d, "user", c) = does[table[c]]
      /\ \A c : c \notin DOMAIN table /\ (c = "JOIN 0" => "JOIN" \notin DOMAIN table) => Does(d, "user", c) = "none"
  BY DEF Does
<1> HIDE DEF table, does
<1>2. DOMAIN table = {"PRIVMSG", "QUIT", "MODE", "PART", "JOIN", "KILL", "SAJOIN", "SAPART",
                       "NICK", "KICK", "INVITE", "REHASH"}
  BY <1>0, UnrealUserIs
<1>3. /\ does["invite"] = "invite" /\ does["join"] = "none" /\ does["kill"] = "bring back"
      /\ does["mode"] = "mode" /\ does["part"] = "part" /\ does["privmsg"] = "none"
      /\ does["quit"] = "exit" /\ does["rehash"] = "rehash" /\ does["sajoin"] = "force join"
      /\ does["sapart"] = "force part" /\ does["ukick"] = "part" /\ does["unick"] = "rename"
      /\ does["join 0"] = "part"
  BY <1>0, UnrealMeans
<1>4. /\ table["PRIVMSG"] = "privmsg" /\ table["QUIT"] = "quit" /\ table["MODE"] = "mode"
      /\ table["PART"] = "part" /\ table["JOIN"] = "join" /\ table["KILL"] = "kill"
      /\ table["SAJOIN"] = "sajoin" /\ table["SAPART"] = "sapart" /\ table["NICK"] = "unick"
      /\ table["KICK"] = "ukick" /\ table["INVITE"] = "invite" /\ table["REHASH"] = "rehash"
  BY <1>0, UnrealUserIs
<1>5. /\ Does(d, "user", "PRIVMSG") = does[table["PRIVMSG"]]
      /\ Does(d, "user", "QUIT") = does[table["QUIT"]]
      /\ Does(d, "user", "MODE") = does[table["MODE"]]
      /\ Does(d, "user", "PART") = does[table["PART"]]
      /\ Does(d, "user", "JOIN") = does[table["JOIN"]]
      /\ Does(d, "user", "KILL") = does[table["KILL"]]
      /\ Does(d, "user", "SAJOIN") = does[table["SAJOIN"]]
      /\ Does(d, "user", "SAPART") = does[table["SAPART"]]
      /\ Does(d, "user", "NICK") = does[table["NICK"]]
      /\ Does(d, "user", "KICK") = does[table["KICK"]]
      /\ Does(d, "user", "INVITE") = does[table["INVITE"]]
      /\ Does(d, "user", "REHASH") = does[table["REHASH"]]
      /\ Does(d, "user", "JOIN 0") = does["join 0"]
  BY <1>1, <1>2
<1>6. Does(d, "user", "PRIVMSG") = "none"
  BY <1>3, <1>4, <1>5
<1>7. Does(d, "user", "QUIT") = "exit"
  BY <1>3, <1>4, <1>5
<1>8. Does(d, "user", "MODE") = "mode"
  BY <1>3, <1>4, <1>5
<1>9. Does(d, "user", "PART") = "part"
  BY <1>3, <1>4, <1>5
<1>10. Does(d, "user", "JOIN") = "none"
  BY <1>3, <1>4, <1>5
<1>11. Does(d, "user", "KILL") = "bring back"
  BY <1>3, <1>4, <1>5
<1>12. Does(d, "user", "SAJOIN") = "force join"
  BY <1>3, <1>4, <1>5
<1>13. Does(d, "user", "SAPART") = "force part"
  BY <1>3, <1>4, <1>5
<1>14. Does(d, "user", "NICK") = "rename"
  BY <1>3, <1>4, <1>5
<1>15. Does(d, "user", "KICK") = "part"
  BY <1>3, <1>4, <1>5
<1>16. Does(d, "user", "INVITE") = "invite"
  BY <1>3, <1>4, <1>5
<1>17. Does(d, "user", "REHASH") = "rehash"
  BY <1>3, <1>4, <1>5
<1>18. Does(d, "user", "JOIN 0") = "part"
  BY <1>3, <1>4, <1>5
<1>19. QED
  BY <1>1, <1>2, <1>6, <1>7, <1>8, <1>9, <1>10, <1>11, <1>12, <1>13, <1>14, <1>15, <1>16, <1>17, <1>18

InspircdDoing == Inspircd12Servers ++ Inspircd12Channels ++ Inspircd12Users ++ Inspircd12Orders
LEMMA InspircdMeans ==
    /\ InspircdDoing["burst"] = "none" /\ InspircdDoing["capab"] = "none"
    /\ InspircdDoing["encap"] = "enter quietly" /\ InspircdDoing["endburst"] = "end"
    /\ InspircdDoing["error"] = "error" /\ InspircdDoing["fhost"] = "none"
    /\ InspircdDoing["fident"] = "none" /\ InspircdDoing["fjoin"] = "sjoin"
    /\ InspircdDoing["fmode"] = "none" /\ InspircdDoing["fname"] = "none"
    /\ InspircdDoing["invite"] = "invite quietly" /\ InspircdDoing["kick"] = "kick"
    /\ InspircdDoing["kill"] = "exit" /\ InspircdDoing["mode"] = "mode"
    /\ InspircdDoing["null"] = "none" /\ InspircdDoing["opertype"] = "mode"
    /\ InspircdDoing["part"] = "part" /\ InspircdDoing["ping"] = "pong"
    /\ InspircdDoing["pong"] = "none" /\ InspircdDoing["privmsg"] = "none"
    /\ InspircdDoing["quit"] = "exit" /\ InspircdDoing["server"] = "server first"
    /\ InspircdDoing["squit"] = "exit" /\ InspircdDoing["svsnick"] = "set nick"
    /\ InspircdDoing["uid"] = "add" /\ InspircdDoing["unick"] = "rename"
    /\ InspircdDoing["version"] = "none"
<1>1. FourApart(Inspircd12Servers, Inspircd12Channels, Inspircd12Users, Inspircd12Orders)
  BY Inspircd12ServersIs, Inspircd12ChannelsIs, Inspircd12UsersIs, Inspircd12OrdersIs DEF FourApart
<1>2. InspircdDoing = Four(Inspircd12Servers, Inspircd12Channels, Inspircd12Users, Inspircd12Orders)
  BY DEF InspircdDoing, Four
<1>3. FourHold(InspircdDoing, Inspircd12Servers, Inspircd12Channels, Inspircd12Users, Inspircd12Orders)
  BY <1>1, <1>2, FourTables
<1>4. /\ InspircdDoing["burst"] = "none" /\ InspircdDoing["capab"] = "none"
      /\ InspircdDoing["endburst"] = "end" /\ InspircdDoing["null"] = "none"
      /\ InspircdDoing["ping"] = "pong" /\ InspircdDoing["server"] = "server first"
      /\ InspircdDoing["uid"] = "add"
  <2>1. \A h \in DOMAIN Inspircd12Servers : InspircdDoing[h] = Inspircd12Servers[h]
    BY <1>3 DEF FourHold
  <2>2. QED
    BY <2>1, Inspircd12ServersIs
<1>5. /\ InspircdDoing["error"] = "error" /\ InspircdDoing["fjoin"] = "sjoin"
      /\ InspircdDoing["pong"] = "none"
  <2>1. \A h \in DOMAIN Inspircd12Channels : InspircdDoing[h] = Inspircd12Channels[h]
    BY <1>3 DEF FourHold
  <2>2. QED
    BY <2>1, Inspircd12ChannelsIs
<1>6. /\ InspircdDoing["encap"] = "enter quietly" /\ InspircdDoing["fmode"] = "none"
      /\ InspircdDoing["invite"] = "invite quietly" /\ InspircdDoing["kill"] = "exit"
      /\ InspircdDoing["mode"] = "mode" /\ InspircdDoing["part"] = "part"
      /\ InspircdDoing["privmsg"] = "none" /\ InspircdDoing["quit"] = "exit"
      /\ InspircdDoing["squit"] = "exit" /\ InspircdDoing["svsnick"] = "set nick"
      /\ InspircdDoing["version"] = "none"
  <2>1. \A h \in DOMAIN Inspircd12Users : InspircdDoing[h] = Inspircd12Users[h]
    BY <1>3 DEF FourHold
  <2>2. QED
    BY <2>1, Inspircd12UsersIs
<1>7. /\ InspircdDoing["fhost"] = "none" /\ InspircdDoing["fident"] = "none"
      /\ InspircdDoing["fname"] = "none" /\ InspircdDoing["kick"] = "kick"
      /\ InspircdDoing["opertype"] = "mode" /\ InspircdDoing["unick"] = "rename"
  <2>1. \A h \in DOMAIN Inspircd12Orders : InspircdDoing[h] = Inspircd12Orders[h]
    BY <1>3 DEF FourHold
  <2>2. QED
    BY <2>1, Inspircd12OrdersIs
<1>8. QED
  BY <1>4, <1>5, <1>6, <1>7

LEMMA InspircdServerHears ==
    ASSUME NEW d, Dialects[d].server = Inspircd12Commands.server, Dialects[d].does = InspircdDoing
    PROVE  /\ Does(d, "server", "PING") = "pong" /\ Does(d, "server", "SERVER") = "server first"
           /\ Does(d, "server", "ENDBURST") = "end" /\ Does(d, "server", "UID") = "add"
           /\ Does(d, "server", "FJOIN") = "sjoin" /\ Does(d, "server", "SQUIT") = "exit"
           /\ Does(d, "server", "SVSNICK") = "set nick" /\ Does(d, "server", "ERROR") = "error"
           /\ \A c : c \notin {"PING", "SERVER", "ENDBURST", "UID", "FJOIN", "SQUIT", "SVSNICK", "ERROR"} => Does(d, "server", c) = "none"
<1> DEFINE table == Dialects[d].server
           does == Dialects[d].does
<1>0. table = Inspircd12Commands.server /\ does = InspircdDoing
  OBVIOUS
<1>1. /\ "JOIN" \in DOMAIN table => Does(d, "server", "JOIN 0") = does["join 0"]
      /\ \A c \in DOMAIN table : c # "JOIN 0" => Does(d, "server", c) = does[table[c]]
      /\ \A c : c \notin DOMAIN table /\ (c = "JOIN 0" => "JOIN" \notin DOMAIN table) => Does(d, "server", c) = "none"
  BY DEF Does
<1> HIDE DEF table, does
<1>2. DOMAIN table = {"PING", "CAPAB", "SERVER", "BURST", "ENDBURST", "UID", "PONG", "FJOIN",
                       "SQUIT", "SVSNICK", "VERSION", "ERROR", "METADATA", "FTOPIC"}
  BY <1>0, Inspircd12ServerIs
<1>3. /\ does["burst"] = "none" /\ does["capab"] = "none" /\ does["endburst"] = "end"
      /\ does["error"] = "error" /\ does["fjoin"] = "sjoin" /\ does["null"] = "none"
      /\ does["ping"] = "pong" /\ does["pong"] = "none" /\ does["server"] = "server first"
      /\ does["squit"] = "exit" /\ does["svsnick"] = "set nick" /\ does["uid"] = "add"
      /\ does["version"] = "none"
  BY <1>0, InspircdMeans
<1>4. /\ table["PING"] = "ping" /\ table["CAPAB"] = "capab" /\ table["SERVER"] = "server"
      /\ table["BURST"] = "burst" /\ table["ENDBURST"] = "endburst" /\ table["UID"] = "uid"
      /\ table["PONG"] = "pong" /\ table["FJOIN"] = "fjoin" /\ table["SQUIT"] = "squit"
      /\ table["SVSNICK"] = "svsnick" /\ table["VERSION"] = "version" /\ table["ERROR"] = "error"
      /\ table["METADATA"] = "null" /\ table["FTOPIC"] = "null"
  BY <1>0, Inspircd12ServerIs
<1>5. /\ Does(d, "server", "PING") = does[table["PING"]]
      /\ Does(d, "server", "CAPAB") = does[table["CAPAB"]]
      /\ Does(d, "server", "SERVER") = does[table["SERVER"]]
      /\ Does(d, "server", "BURST") = does[table["BURST"]]
      /\ Does(d, "server", "ENDBURST") = does[table["ENDBURST"]]
      /\ Does(d, "server", "UID") = does[table["UID"]]
      /\ Does(d, "server", "PONG") = does[table["PONG"]]
      /\ Does(d, "server", "FJOIN") = does[table["FJOIN"]]
      /\ Does(d, "server", "SQUIT") = does[table["SQUIT"]]
      /\ Does(d, "server", "SVSNICK") = does[table["SVSNICK"]]
      /\ Does(d, "server", "VERSION") = does[table["VERSION"]]
      /\ Does(d, "server", "ERROR") = does[table["ERROR"]]
      /\ Does(d, "server", "METADATA") = does[table["METADATA"]]
      /\ Does(d, "server", "FTOPIC") = does[table["FTOPIC"]]
  BY <1>1, <1>2
<1>6. Does(d, "server", "PING") = "pong"
  BY <1>3, <1>4, <1>5
<1>7. Does(d, "server", "CAPAB") = "none"
  BY <1>3, <1>4, <1>5
<1>8. Does(d, "server", "SERVER") = "server first"
  BY <1>3, <1>4, <1>5
<1>9. Does(d, "server", "BURST") = "none"
  BY <1>3, <1>4, <1>5
<1>10. Does(d, "server", "ENDBURST") = "end"
  BY <1>3, <1>4, <1>5
<1>11. Does(d, "server", "UID") = "add"
  BY <1>3, <1>4, <1>5
<1>12. Does(d, "server", "PONG") = "none"
  BY <1>3, <1>4, <1>5
<1>13. Does(d, "server", "FJOIN") = "sjoin"
  BY <1>3, <1>4, <1>5
<1>14. Does(d, "server", "SQUIT") = "exit"
  BY <1>3, <1>4, <1>5
<1>15. Does(d, "server", "SVSNICK") = "set nick"
  BY <1>3, <1>4, <1>5
<1>16. Does(d, "server", "VERSION") = "none"
  BY <1>3, <1>4, <1>5
<1>17. Does(d, "server", "ERROR") = "error"
  BY <1>3, <1>4, <1>5
<1>18. Does(d, "server", "METADATA") = "none"
  BY <1>3, <1>4, <1>5
<1>19. Does(d, "server", "FTOPIC") = "none"
  BY <1>3, <1>4, <1>5
<1>20. QED
  BY <1>1, <1>2, <1>6, <1>7, <1>8, <1>9, <1>10, <1>11, <1>12, <1>13, <1>14, <1>15, <1>16, <1>17, <1>18,
     <1>19

LEMMA InspircdUserHears ==
    ASSUME NEW d, Dialects[d].user = Inspircd12Commands.user, Dialects[d].does = InspircdDoing
    PROVE  /\ Does(d, "user", "PART") = "part" /\ Does(d, "user", "INVITE") = "invite quietly"
           /\ Does(d, "user", "QUIT") = "exit" /\ Does(d, "user", "KILL") = "exit"
           /\ Does(d, "user", "ENCAP") = "enter quietly" /\ Does(d, "user", "MODE") = "mode"
           /\ Does(d, "user", "OPERTYPE") = "mode" /\ Does(d, "user", "KICK") = "kick"
           /\ Does(d, "user", "NICK") = "rename"
           /\ \A c : c \notin {"PART", "INVITE", "QUIT", "KILL", "ENCAP", "MODE", "OPERTYPE", "KICK", "NICK"} => Does(d, "user", c) = "none"
<1> DEFINE table == Dialects[d].user
           does == Dialects[d].does
<1>0. table = Inspircd12Commands.user /\ does = InspircdDoing
  OBVIOUS
<1>1. /\ "JOIN" \in DOMAIN table => Does(d, "user", "JOIN 0") = does["join 0"]
      /\ \A c \in DOMAIN table : c # "JOIN 0" => Does(d, "user", c) = does[table[c]]
      /\ \A c : c \notin DOMAIN table /\ (c = "JOIN 0" => "JOIN" \notin DOMAIN table) => Does(d, "user", c) = "none"
  BY DEF Does
<1> HIDE DEF table, does
<1>2. DOMAIN table = {"FMODE", "PRIVMSG", "PART", "INVITE", "QUIT", "KILL", "ENCAP", "MODE",
                       "OPERTYPE", "KICK", "FHOST", "FNAME", "FIDENT", "NICK"}
  BY <1>0, Inspircd12UserIs
<1>3. /\ does["encap"] = "enter quietly" /\ does["fhost"] = "none" /\ does["fident"] = "none"
      /\ does["fmode"] = "none" /\ does["fname"] = "none" /\ does["invite"] = "invite quietly"
      /\ does["kick"] = "kick" /\ does["kill"] = "exit" /\ does["mode"] = "mode"
      /\ does["opertype"] = "mode" /\ does["part"] = "part" /\ does["privmsg"] = "none"
      /\ does["quit"] = "exit" /\ does["unick"] = "rename"
  BY <1>0, InspircdMeans
<1>4. /\ table["FMODE"] = "fmode" /\ table["PRIVMSG"] = "privmsg" /\ table["PART"] = "part"
      /\ table["INVITE"] = "invite" /\ table["QUIT"] = "quit" /\ table["KILL"] = "kill"
      /\ table["ENCAP"] = "encap" /\ table["MODE"] = "mode" /\ table["OPERTYPE"] = "opertype"
      /\ table["KICK"] = "kick" /\ table["FHOST"] = "fhost" /\ table["FNAME"] = "fname"
      /\ table["FIDENT"] = "fident" /\ table["NICK"] = "unick"
  BY <1>0, Inspircd12UserIs
<1>5. /\ Does(d, "user", "FMODE") = does[table["FMODE"]]
      /\ Does(d, "user", "PRIVMSG") = does[table["PRIVMSG"]]
      /\ Does(d, "user", "PART") = does[table["PART"]]
      /\ Does(d, "user", "INVITE") = does[table["INVITE"]]
      /\ Does(d, "user", "QUIT") = does[table["QUIT"]]
      /\ Does(d, "user", "KILL") = does[table["KILL"]]
      /\ Does(d, "user", "ENCAP") = does[table["ENCAP"]]
      /\ Does(d, "user", "MODE") = does[table["MODE"]]
      /\ Does(d, "user", "OPERTYPE") = does[table["OPERTYPE"]]
      /\ Does(d, "user", "KICK") = does[table["KICK"]]
      /\ Does(d, "user", "FHOST") = does[table["FHOST"]]
      /\ Does(d, "user", "FNAME") = does[table["FNAME"]]
      /\ Does(d, "user", "FIDENT") = does[table["FIDENT"]]
      /\ Does(d, "user", "NICK") = does[table["NICK"]]
  BY <1>1, <1>2
<1>6. Does(d, "user", "FMODE") = "none"
  BY <1>3, <1>4, <1>5
<1>7. Does(d, "user", "PRIVMSG") = "none"
  BY <1>3, <1>4, <1>5
<1>8. Does(d, "user", "PART") = "part"
  BY <1>3, <1>4, <1>5
<1>9. Does(d, "user", "INVITE") = "invite quietly"
  BY <1>3, <1>4, <1>5
<1>10. Does(d, "user", "QUIT") = "exit"
  BY <1>3, <1>4, <1>5
<1>11. Does(d, "user", "KILL") = "exit"
  BY <1>3, <1>4, <1>5
<1>12. Does(d, "user", "ENCAP") = "enter quietly"
  BY <1>3, <1>4, <1>5
<1>13. Does(d, "user", "MODE") = "mode"
  BY <1>3, <1>4, <1>5
<1>14. Does(d, "user", "OPERTYPE") = "mode"
  BY <1>3, <1>4, <1>5
<1>15. Does(d, "user", "KICK") = "kick"
  BY <1>3, <1>4, <1>5
<1>16. Does(d, "user", "FHOST") = "none"
  BY <1>3, <1>4, <1>5
<1>17. Does(d, "user", "FNAME") = "none"
  BY <1>3, <1>4, <1>5
<1>18. Does(d, "user", "FIDENT") = "none"
  BY <1>3, <1>4, <1>5
<1>19. Does(d, "user", "NICK") = "rename"
  BY <1>3, <1>4, <1>5
<1>20. QED
  BY <1>1, <1>2, <1>6, <1>7, <1>8, <1>9, <1>10, <1>11, <1>12, <1>13, <1>14, <1>15, <1>16, <1>17, <1>18,
     <1>19

\* What no command of a dialect does unless it is one of a few, and what a
\* dialect can be ended by at least.
Tame(d) ==
    /\ \A c : Does(d, "server", c) = "add" => c \in {"NICK", "UID"}
    /\ \A c : Does(d, "user", c) # "add"
    /\ \A c : Does(d, "server", c) # "enter"
    /\ \A c : Does(d, "user", c) = "enter" => c = "JOIN"
    /\ \A c : Does(d, "user", c) \in Orders => c \notin {"JOIN", "QUIT", "SQUIT"}
    /\ \A s \in {"server", "user"} : \A c : Does(d, s, c) = "null" \/ Does(d, s, c) = "pass ts6" => "argv" \in Ends[d]
    /\ \A s \in {"server", "user"} : \A c :
          Does(d, s, c) = "rehash" => "guardian" \in Ends[d] \/ d \in {"unreal32", "bahamut"}
    /\ \A s \in {"server", "user"} : \A c :
          Does(d, s, c) = "error" \/ Does(d, s, c) = "server first" => "uplink" \in Ends[d] /\ Dialects[d].form = "uid"
    /\ \A s \in {"server", "user"} : \A c :
          Does(d, s, c) = "bring back" \/ Does(d, s, c) = "count and bring back" => d = "unreal32"
    /\ d \in {"unreal32", "bahamut"} =>
          /\ \A c : Does(d, "server", c) = "exit" => c = "SQUIT"
          /\ \A c : Does(d, "user", c) = "exit" => c = "QUIT"
    /\ Dialects[d].resv = "never" \/ "guardian" \in Ends[d]
    /\ d = "unreal32" => "exit" \in Ends[d]

\* The modules there are.
LEMMA DialectNames ==
    DOMAIN Dialects = {"charybdis", "elemental", "ratbox", "directircd", "hybrid", "kcircd", "ratbox3",
                       "plexus", "bahamut", "unreal32", "inspircd12", "inspircd20"}
BY DEF Dialects

LEMMA RatboxSpeech ==
    ASSUME NEW d, d \in {"charybdis", "elemental", "ratbox"}
    PROVE  /\ Dialects[d].server = CharybdisServer /\ Dialects[d].user = CharybdisUser
           /\ Dialects[d].does = RatboxDoing
           /\ Dialects[d].form = "flag" /\ Dialects[d].resv = "names"
           /\ Ends[d] = {"guardian"}
<1>1. CASE d = "charybdis"
  BY <1>1 DEF Ends, CharybdisCommands, CharybdisSends, Dialects, HybridSends, RatboxDoing, Sends, Table
<1>2. CASE d = "elemental"
  BY <1>2 DEF Ends, CharybdisCommands, CharybdisSends, Dialects, ElementalChannels, ElementalCommands,
     ElementalMoves, ElementalOrders, ElementalPeople, ElementalSends, ElementalServers, HybridSends,
     RatboxDoing, Sends, Table
<1>3. CASE d = "ratbox"
  BY <1>3 DEF Ends, CharybdisCommands, CharybdisSends, Dialects, HybridSends, RatboxChannels,
     RatboxCommands, RatboxDoing, RatboxMoves, RatboxOrders, RatboxPeople, RatboxSends, RatboxServers,
     Sends, Table
<1>4. QED
  BY <1>1, <1>2, <1>3

LEMMA RatboxTame ==
    ASSUME NEW d, d \in {"charybdis", "elemental", "ratbox"}
    PROVE  Tame(d)
<1>1. /\ Dialects[d].server = CharybdisServer /\ Dialects[d].user = CharybdisUser /\ Dialects[d].does = RatboxDoing
      /\ Ends[d] = {"guardian"} /\ Dialects[d].form = "flag" /\ Dialects[d].resv = "names"
  BY RatboxSpeech
<1>2. /\ Does(d, "server", "NICK") = "add" /\ Does(d, "server", "UID") = "add"
      /\ Does(d, "server", "PING") = "ircd_ping" /\ Does(d, "server", "SJOIN") = "sjoin"
      /\ Does(d, "server", "PASS") = "pass" /\ Does(d, "server", "SQUIT") = "exit"
      /\ Does(d, "server", "SERVER") = "server pong" /\ Does(d, "server", "SID") = "leaf"
      /\ Does(d, "server", "KILL") = "exit"
      /\ \A c : c \notin {"NICK", "UID", "PING", "SJOIN", "PASS", "SQUIT", "SERVER", "SID", "KILL"} => Does(d, "server", c) = "none"
  BY <1>1, RatboxServerHears
<1>3. /\ Does(d, "user", "QUIT") = "exit" /\ Does(d, "user", "MODE") = "mode"
      /\ Does(d, "user", "PART") = "part" /\ Does(d, "user", "JOIN") = "enter"
      /\ Does(d, "user", "KILL") = "exit" /\ Does(d, "user", "NICK") = "rename"
      /\ Does(d, "user", "REHASH") = "rehash" /\ Does(d, "user", "FORCEJOIN") = "force join"
      /\ Does(d, "user", "FORCEPART") = "force part" /\ Does(d, "user", "INVITE") = "invite"
      /\ \A c : c \notin {"QUIT", "MODE", "PART", "JOIN", "KILL", "NICK", "REHASH", "FORCEJOIN",
                  "FORCEPART", "INVITE"} => Does(d, "user", c) = "none"
  BY <1>1, RatboxUserHears
<1>4. \A c : Does(d, "server", c) = "add" => c \in {"NICK", "UID"}
  BY <1>1, <1>2, <1>3
<1>5. \A c : Does(d, "user", c) # "add"
  BY <1>1, <1>2, <1>3
<1>6. \A c : Does(d, "server", c) # "enter"
  BY <1>1, <1>2, <1>3
<1>7. \A c : Does(d, "user", c) = "enter" => c = "JOIN"
  BY <1>1, <1>2, <1>3
<1>8. \A c : Does(d, "user", c) \in Orders => c \notin {"JOIN", "QUIT", "SQUIT"}
  <2>1. \A c : Does(d, "user", c) \in Orders =>
           c \in {"QUIT", "MODE", "PART", "JOIN", "KILL", "NICK", "REHASH", "FORCEJOIN",
                   "FORCEPART", "INVITE"}
    BY <1>3 DEF Orders
  <2>2. \A c \in {"QUIT", "MODE", "PART", "JOIN", "KILL", "NICK", "REHASH"} : Does(d, "user", c) \notin Orders
    BY <1>3 DEF Orders
  <2>3. QED
    BY <2>1, <2>2
<1>9. \A s \in {"server", "user"} : \A c : Does(d, s, c) = "null" \/ Does(d, s, c) = "pass ts6" => "argv" \in Ends[d]
  BY <1>1, <1>2, <1>3
<1>10. \A s \in {"server", "user"} : \A c :
         Does(d, s, c) = "rehash" => "guardian" \in Ends[d] \/ d \in {"unreal32", "bahamut"}
  BY <1>1, <1>2, <1>3
<1>11. \A s \in {"server", "user"} : \A c :
         Does(d, s, c) = "error" \/ Does(d, s, c) = "server first" => "uplink" \in Ends[d] /\ Dialects[d].form = "uid"
  BY <1>1, <1>2, <1>3
<1>12. \A s \in {"server", "user"} : \A c :
         Does(d, s, c) = "bring back" \/ Does(d, s, c) = "count and bring back" => d = "unreal32"
  BY <1>1, <1>2, <1>3
<1>13. d \in {"unreal32", "bahamut"} =>
         /\ \A c : Does(d, "server", c) = "exit" => c = "SQUIT"
         /\ \A c : Does(d, "user", c) = "exit" => c = "QUIT"
  BY <1>1, <1>2, <1>3
<1>14. Dialects[d].resv = "never" \/ "guardian" \in Ends[d]
  BY <1>1, <1>2, <1>3
<1>15. d = "unreal32" => "exit" \in Ends[d]
  BY <1>1, <1>2, <1>3
<1>16. QED
  BY <1>4, <1>5, <1>6, <1>7, <1>8, <1>9, <1>10, <1>11, <1>12, <1>13, <1>14, <1>15 DEF Tame

LEMMA DirectSpeech ==
    ASSUME NEW d, d \in {"directircd"}
    PROVE  /\ Dialects[d].server = CharybdisServer /\ Dialects[d].user = CharybdisUser
           /\ Dialects[d].does = DirectDoing
           /\ Dialects[d].form = "flag" /\ Dialects[d].resv = "names"
           /\ Ends[d] = {"guardian"}
<1>1. CASE d = "directircd"
  BY <1>1 DEF Ends, CharybdisCommands, CharybdisSends, Dialects, DirectChannels, DirectCommands,
     DirectDoing, DirectOrders, DirectPeople, DirectSends, DirectServers, HybridSends, Sends, Table
<1>2. QED
  BY <1>1

LEMMA DirectTame ==
    ASSUME NEW d, d \in {"directircd"}
    PROVE  Tame(d)
<1>1. /\ Dialects[d].server = CharybdisServer /\ Dialects[d].user = CharybdisUser /\ Dialects[d].does = DirectDoing
      /\ Ends[d] = {"guardian"} /\ Dialects[d].form = "flag" /\ Dialects[d].resv = "names"
  BY DirectSpeech
<1>2. /\ Does(d, "server", "NICK") = "add" /\ Does(d, "server", "UID") = "add"
      /\ Does(d, "server", "PING") = "ircd_ping" /\ Does(d, "server", "SJOIN") = "sjoin"
      /\ Does(d, "server", "PASS") = "pass" /\ Does(d, "server", "SQUIT") = "exit"
      /\ Does(d, "server", "SERVER") = "server pong" /\ Does(d, "server", "SID") = "leaf"
      /\ Does(d, "server", "KILL") = "exit"
      /\ \A c : c \notin {"NICK", "UID", "PING", "SJOIN", "PASS", "SQUIT", "SERVER", "SID", "KILL"} => Does(d, "server", c) = "none"
  BY <1>1, DirectServerHears
<1>3. /\ Does(d, "user", "QUIT") = "exit" /\ Does(d, "user", "PART") = "part"
      /\ Does(d, "user", "JOIN") = "enter" /\ Does(d, "user", "KILL") = "exit"
      /\ Does(d, "user", "NICK") = "rename" /\ Does(d, "user", "REHASH") = "rehash"
      /\ Does(d, "user", "FORCEJOIN") = "force join" /\ Does(d, "user", "FORCEPART") = "force part"
      /\ Does(d, "user", "INVITE") = "invite"
      /\ \A c : c \notin {"QUIT", "PART", "JOIN", "KILL", "NICK", "REHASH", "FORCEJOIN", "FORCEPART",
                  "INVITE"} => Does(d, "user", c) = "none"
  BY <1>1, DirectUserHears
<1>4. \A c : Does(d, "server", c) = "add" => c \in {"NICK", "UID"}
  BY <1>1, <1>2, <1>3
<1>5. \A c : Does(d, "user", c) # "add"
  BY <1>1, <1>2, <1>3
<1>6. \A c : Does(d, "server", c) # "enter"
  BY <1>1, <1>2, <1>3
<1>7. \A c : Does(d, "user", c) = "enter" => c = "JOIN"
  BY <1>1, <1>2, <1>3
<1>8. \A c : Does(d, "user", c) \in Orders => c \notin {"JOIN", "QUIT", "SQUIT"}
  <2>1. \A c : Does(d, "user", c) \in Orders =>
           c \in {"QUIT", "PART", "JOIN", "KILL", "NICK", "REHASH", "FORCEJOIN", "FORCEPART",
                   "INVITE"}
    BY <1>3 DEF Orders
  <2>2. \A c \in {"QUIT", "PART", "JOIN", "KILL", "NICK", "REHASH"} : Does(d, "user", c) \notin Orders
    BY <1>3 DEF Orders
  <2>3. QED
    BY <2>1, <2>2
<1>9. \A s \in {"server", "user"} : \A c : Does(d, s, c) = "null" \/ Does(d, s, c) = "pass ts6" => "argv" \in Ends[d]
  BY <1>1, <1>2, <1>3
<1>10. \A s \in {"server", "user"} : \A c :
         Does(d, s, c) = "rehash" => "guardian" \in Ends[d] \/ d \in {"unreal32", "bahamut"}
  BY <1>1, <1>2, <1>3
<1>11. \A s \in {"server", "user"} : \A c :
         Does(d, s, c) = "error" \/ Does(d, s, c) = "server first" => "uplink" \in Ends[d] /\ Dialects[d].form = "uid"
  BY <1>1, <1>2, <1>3
<1>12. \A s \in {"server", "user"} : \A c :
         Does(d, s, c) = "bring back" \/ Does(d, s, c) = "count and bring back" => d = "unreal32"
  BY <1>1, <1>2, <1>3
<1>13. d \in {"unreal32", "bahamut"} =>
         /\ \A c : Does(d, "server", c) = "exit" => c = "SQUIT"
         /\ \A c : Does(d, "user", c) = "exit" => c = "QUIT"
  BY <1>1, <1>2, <1>3
<1>14. Dialects[d].resv = "never" \/ "guardian" \in Ends[d]
  BY <1>1, <1>2, <1>3
<1>15. d = "unreal32" => "exit" \in Ends[d]
  BY <1>1, <1>2, <1>3
<1>16. QED
  BY <1>4, <1>5, <1>6, <1>7, <1>8, <1>9, <1>10, <1>11, <1>12, <1>13, <1>14, <1>15 DEF Tame

LEMMA HybridSpeech ==
    ASSUME NEW d, d \in {"hybrid", "kcircd"}
    PROVE  /\ Dialects[d].server = HybridCommands.server /\ Dialects[d].user = HybridCommands.user
           /\ Dialects[d].does = HybridDoing
           /\ Dialects[d].form = "flag" /\ Dialects[d].resv = "always"
           /\ Ends[d] = {"guardian", "argv"}
<1>1. CASE d = "hybrid"
  BY <1>1 DEF Ends, CharybdisCommands, CharybdisSends, Dialects, HybridChannels, HybridCommands,
     HybridDoing, HybridPeople, HybridSends, Sends, Table
<1>2. CASE d = "kcircd"
  BY <1>2 DEF Ends, CharybdisCommands, CharybdisSends, Dialects, HybridDoing, HybridSends,
     KcircdChannels, KcircdCommands, KcircdMoves, KcircdOrders, KcircdPeople, KcircdSends, KcircdServers,
     Sends, Table
<1>3. QED
  BY <1>1, <1>2

LEMMA HybridTame ==
    ASSUME NEW d, d \in {"hybrid", "kcircd"}
    PROVE  Tame(d)
<1>1. /\ Dialects[d].server = HybridCommands.server /\ Dialects[d].user = HybridCommands.user /\ Dialects[d].does = HybridDoing
      /\ Ends[d] = {"guardian", "argv"} /\ Dialects[d].form = "flag" /\ Dialects[d].resv = "always"
  BY HybridSpeech
<1>2. /\ Does(d, "server", "NICK") = "add" /\ Does(d, "server", "UID") = "add"
      /\ Does(d, "server", "PING") = "ircd_ping" /\ Does(d, "server", "SJOIN") = "sjoin"
      /\ Does(d, "server", "PASS") = "pass" /\ Does(d, "server", "SQUIT") = "exit"
      /\ Does(d, "server", "SERVER") = "server" /\ Does(d, "server", "SID") = "leaf"
      /\ Does(d, "server", "KILL") = "exit"
      /\ \A c : c \notin {"NICK", "UID", "PING", "SJOIN", "PASS", "SQUIT", "SERVER", "SID", "KILL"} => Does(d, "server", c) = "none"
  BY <1>1, HybridServerHears
<1>3. /\ Does(d, "user", "QUIT") = "exit" /\ Does(d, "user", "MODE") = "mode"
      /\ Does(d, "user", "PART") = "part" /\ Does(d, "user", "JOIN") = "enter"
      /\ Does(d, "user", "KILL") = "exit" /\ Does(d, "user", "NICK") = "rename"
      /\ Does(d, "user", "JOIN 0") = "null"
      /\ \A c : c \notin {"QUIT", "MODE", "PART", "JOIN", "KILL", "NICK", "JOIN 0"} => Does(d, "user", c) = "none"
  BY <1>1, HybridUserHears
<1>4. \A c : Does(d, "server", c) = "add" => c \in {"NICK", "UID"}
  BY <1>1, <1>2, <1>3
<1>5. \A c : Does(d, "user", c) # "add"
  BY <1>1, <1>2, <1>3
<1>6. \A c : Does(d, "server", c) # "enter"
  BY <1>1, <1>2, <1>3
<1>7. \A c : Does(d, "user", c) = "enter" => c = "JOIN"
  BY <1>1, <1>2, <1>3
<1>8. \A c : Does(d, "user", c) \in Orders => c \notin {"JOIN", "QUIT", "SQUIT"}
  <2>1. \A c : Does(d, "user", c) \in Orders =>
           c \in {"QUIT", "MODE", "PART", "JOIN", "KILL", "NICK", "JOIN 0"}
    BY <1>3 DEF Orders
  <2>2. \A c \in {"QUIT", "MODE", "PART", "JOIN", "KILL", "NICK", "JOIN 0"} : Does(d, "user", c) \notin Orders
    BY <1>3 DEF Orders
  <2>3. QED
    BY <2>1, <2>2
<1>9. \A s \in {"server", "user"} : \A c : Does(d, s, c) = "null" \/ Does(d, s, c) = "pass ts6" => "argv" \in Ends[d]
  BY <1>1, <1>2, <1>3
<1>10. \A s \in {"server", "user"} : \A c :
         Does(d, s, c) = "rehash" => "guardian" \in Ends[d] \/ d \in {"unreal32", "bahamut"}
  BY <1>1, <1>2, <1>3
<1>11. \A s \in {"server", "user"} : \A c :
         Does(d, s, c) = "error" \/ Does(d, s, c) = "server first" => "uplink" \in Ends[d] /\ Dialects[d].form = "uid"
  BY <1>1, <1>2, <1>3
<1>12. \A s \in {"server", "user"} : \A c :
         Does(d, s, c) = "bring back" \/ Does(d, s, c) = "count and bring back" => d = "unreal32"
  BY <1>1, <1>2, <1>3
<1>13. d \in {"unreal32", "bahamut"} =>
         /\ \A c : Does(d, "server", c) = "exit" => c = "SQUIT"
         /\ \A c : Does(d, "user", c) = "exit" => c = "QUIT"
  BY <1>1, <1>2, <1>3
<1>14. Dialects[d].resv = "never" \/ "guardian" \in Ends[d]
  BY <1>1, <1>2, <1>3
<1>15. d = "unreal32" => "exit" \in Ends[d]
  BY <1>1, <1>2, <1>3
<1>16. QED
  BY <1>4, <1>5, <1>6, <1>7, <1>8, <1>9, <1>10, <1>11, <1>12, <1>13, <1>14, <1>15 DEF Tame

LEMMA PlexusSpeech ==
    ASSUME NEW d, d \in {"ratbox3", "plexus"}
    PROVE  /\ Dialects[d].server = CharybdisServer /\ Dialects[d].user = CharybdisUser
           /\ Dialects[d].does = PlexusDoing
           /\ Dialects[d].form = "ts6"
           /\ Ends[d] = {"guardian", "argv"}
<1>1. CASE d = "ratbox3"
  BY <1>1 DEF Ends, CharybdisCommands, CharybdisSends, Dialects, PlexusDoing, Ratbox3Channels,
     Ratbox3Commands, Ratbox3Moves, Ratbox3Orders, Ratbox3People, Ratbox3Sends, Sends, Table
<1>2. CASE d = "plexus"
  BY <1>2 DEF Ends, CharybdisCommands, CharybdisSends, Dialects, HybridSends, PlexusChannels,
     PlexusCommands, PlexusDoing, PlexusMoves, PlexusOrders, PlexusPeople, PlexusSends, PlexusServers,
     Sends, Table
<1>3. QED
  BY <1>1, <1>2

LEMMA PlexusTame ==
    ASSUME NEW d, d \in {"ratbox3", "plexus"}
    PROVE  Tame(d)
<1>1. /\ Dialects[d].server = CharybdisServer /\ Dialects[d].user = CharybdisUser /\ Dialects[d].does = PlexusDoing
      /\ Ends[d] = {"guardian", "argv"} /\ Dialects[d].form = "ts6"
  BY PlexusSpeech
<1>2. /\ Does(d, "server", "NICK") = "add" /\ Does(d, "server", "UID") = "add"
      /\ Does(d, "server", "PING") = "ircd_ping" /\ Does(d, "server", "SJOIN") = "sjoin"
      /\ Does(d, "server", "PASS") = "pass ts6" /\ Does(d, "server", "SQUIT") = "exit"
      /\ Does(d, "server", "SERVER") = "server pong" /\ Does(d, "server", "SID") = "leaf"
      /\ Does(d, "server", "KILL") = "exit"
      /\ \A c : c \notin {"NICK", "UID", "PING", "SJOIN", "PASS", "SQUIT", "SERVER", "SID", "KILL"} => Does(d, "server", c) = "none"
  BY <1>1, PlexusServerHears
<1>3. /\ Does(d, "user", "QUIT") = "exit" /\ Does(d, "user", "MODE") = "mode"
      /\ Does(d, "user", "PART") = "part" /\ Does(d, "user", "JOIN") = "enter"
      /\ Does(d, "user", "KILL") = "exit" /\ Does(d, "user", "NICK") = "rename"
      /\ Does(d, "user", "REHASH") = "rehash" /\ Does(d, "user", "FORCEJOIN") = "force join"
      /\ Does(d, "user", "FORCEPART") = "force part" /\ Does(d, "user", "INVITE") = "invite"
      /\ \A c : c \notin {"QUIT", "MODE", "PART", "JOIN", "KILL", "NICK", "REHASH", "FORCEJOIN",
                  "FORCEPART", "INVITE"} => Does(d, "user", c) = "none"
  BY <1>1, PlexusUserHears
<1>4. \A c : Does(d, "server", c) = "add" => c \in {"NICK", "UID"}
  BY <1>1, <1>2, <1>3
<1>5. \A c : Does(d, "user", c) # "add"
  BY <1>1, <1>2, <1>3
<1>6. \A c : Does(d, "server", c) # "enter"
  BY <1>1, <1>2, <1>3
<1>7. \A c : Does(d, "user", c) = "enter" => c = "JOIN"
  BY <1>1, <1>2, <1>3
<1>8. \A c : Does(d, "user", c) \in Orders => c \notin {"JOIN", "QUIT", "SQUIT"}
  <2>1. \A c : Does(d, "user", c) \in Orders =>
           c \in {"QUIT", "MODE", "PART", "JOIN", "KILL", "NICK", "REHASH", "FORCEJOIN",
                   "FORCEPART", "INVITE"}
    BY <1>3 DEF Orders
  <2>2. \A c \in {"QUIT", "MODE", "PART", "JOIN", "KILL", "NICK", "REHASH"} : Does(d, "user", c) \notin Orders
    BY <1>3 DEF Orders
  <2>3. QED
    BY <2>1, <2>2
<1>9. \A s \in {"server", "user"} : \A c : Does(d, s, c) = "null" \/ Does(d, s, c) = "pass ts6" => "argv" \in Ends[d]
  BY <1>1, <1>2, <1>3
<1>10. \A s \in {"server", "user"} : \A c :
         Does(d, s, c) = "rehash" => "guardian" \in Ends[d] \/ d \in {"unreal32", "bahamut"}
  BY <1>1, <1>2, <1>3
<1>11. \A s \in {"server", "user"} : \A c :
         Does(d, s, c) = "error" \/ Does(d, s, c) = "server first" => "uplink" \in Ends[d] /\ Dialects[d].form = "uid"
  BY <1>1, <1>2, <1>3
<1>12. \A s \in {"server", "user"} : \A c :
         Does(d, s, c) = "bring back" \/ Does(d, s, c) = "count and bring back" => d = "unreal32"
  BY <1>1, <1>2, <1>3
<1>13. d \in {"unreal32", "bahamut"} =>
         /\ \A c : Does(d, "server", c) = "exit" => c = "SQUIT"
         /\ \A c : Does(d, "user", c) = "exit" => c = "QUIT"
  BY <1>1, <1>2, <1>3
<1>14. Dialects[d].resv = "never" \/ "guardian" \in Ends[d]
  BY <1>1, <1>2, <1>3
<1>15. d = "unreal32" => "exit" \in Ends[d]
  BY <1>1, <1>2, <1>3
<1>16. QED
  BY <1>4, <1>5, <1>6, <1>7, <1>8, <1>9, <1>10, <1>11, <1>12, <1>13, <1>14, <1>15 DEF Tame

LEMMA BahamutSpeech ==
    ASSUME NEW d, d \in {"bahamut"}
    PROVE  /\ Dialects[d].server = BahamutCommands.server /\ Dialects[d].user = BahamutCommands.user
           /\ Dialects[d].does = BahamutDoes
           /\ Dialects[d].form = "names" /\ Dialects[d].resv = "never"
           /\ Ends[d] = {}
<1>1. CASE d = "bahamut"
  BY <1>1 DEF Ends, BahamutCommands, BahamutSends, Dialects, Sends, Table
<1>2. QED
  BY <1>1

LEMMA BahamutTame ==
    ASSUME NEW d, d \in {"bahamut"}
    PROVE  Tame(d)
<1>1. /\ Dialects[d].server = BahamutCommands.server /\ Dialects[d].user = BahamutCommands.user /\ Dialects[d].does = BahamutDoes
      /\ Ends[d] = {} /\ Dialects[d].form = "names" /\ Dialects[d].resv = "never"
  BY BahamutSpeech
<1>2. /\ Does(d, "server", "SERVER") = "server" /\ Does(d, "server", "PING") = "ircd_ping"
      /\ Does(d, "server", "NICK") = "add" /\ Does(d, "server", "SJOIN") = "chan"
      /\ \A c : c \notin {"SERVER", "PING", "NICK", "SJOIN"} => Does(d, "server", c) = "none"
  BY <1>1, BahamutServerHears
<1>3. /\ Does(d, "user", "NICK") = "rename"
      /\ \A c : c \notin {"NICK"} => Does(d, "user", c) = "none"
  BY <1>1, BahamutUserHears
<1>4. \A c : Does(d, "server", c) = "add" => c \in {"NICK", "UID"}
  BY <1>1, <1>2, <1>3
<1>5. \A c : Does(d, "user", c) # "add"
  BY <1>1, <1>2, <1>3
<1>6. \A c : Does(d, "server", c) # "enter"
  BY <1>1, <1>2, <1>3
<1>7. \A c : Does(d, "user", c) = "enter" => c = "JOIN"
  BY <1>1, <1>2, <1>3
<1>8. \A c : Does(d, "user", c) \in Orders => c \notin {"JOIN", "QUIT", "SQUIT"}
  <2>1. \A c : Does(d, "user", c) \in Orders =>
           c \in {"NICK"}
    BY <1>3 DEF Orders
  <2>2. \A c \in {"NICK"} : Does(d, "user", c) \notin Orders
    BY <1>3 DEF Orders
  <2>3. QED
    BY <2>1, <2>2
<1>9. \A s \in {"server", "user"} : \A c : Does(d, s, c) = "null" \/ Does(d, s, c) = "pass ts6" => "argv" \in Ends[d]
  BY <1>1, <1>2, <1>3
<1>10. \A s \in {"server", "user"} : \A c :
         Does(d, s, c) = "rehash" => "guardian" \in Ends[d] \/ d \in {"unreal32", "bahamut"}
  BY <1>1, <1>2, <1>3
<1>11. \A s \in {"server", "user"} : \A c :
         Does(d, s, c) = "error" \/ Does(d, s, c) = "server first" => "uplink" \in Ends[d] /\ Dialects[d].form = "uid"
  BY <1>1, <1>2, <1>3
<1>12. \A s \in {"server", "user"} : \A c :
         Does(d, s, c) = "bring back" \/ Does(d, s, c) = "count and bring back" => d = "unreal32"
  BY <1>1, <1>2, <1>3
<1>13. d \in {"unreal32", "bahamut"} =>
         /\ \A c : Does(d, "server", c) = "exit" => c = "SQUIT"
         /\ \A c : Does(d, "user", c) = "exit" => c = "QUIT"
  BY <1>1, <1>2, <1>3
<1>14. Dialects[d].resv = "never" \/ "guardian" \in Ends[d]
  BY <1>1, <1>2, <1>3
<1>15. d = "unreal32" => "exit" \in Ends[d]
  BY <1>1, <1>2, <1>3
<1>16. QED
  BY <1>4, <1>5, <1>6, <1>7, <1>8, <1>9, <1>10, <1>11, <1>12, <1>13, <1>14, <1>15 DEF Tame

LEMMA UnrealSpeech ==
    ASSUME NEW d, d \in {"unreal32"}
    PROVE  /\ Dialects[d].server = UnrealCommands.server /\ Dialects[d].user = UnrealCommands.user
           /\ Dialects[d].does = UnrealDoing
           /\ Dialects[d].form = "names" /\ Dialects[d].resv = "never"
           /\ Ends[d] = {"exit"}
<1>1. CASE d = "unreal32"
  BY <1>1 DEF Ends, Dialects, Sends, Table, UnrealCommands, UnrealDoing, UnrealSends
<1>2. QED
  BY <1>1

LEMMA UnrealTame ==
    ASSUME NEW d, d \in {"unreal32"}
    PROVE  Tame(d)
<1>1. /\ Dialects[d].server = UnrealCommands.server /\ Dialects[d].user = UnrealCommands.user /\ Dialects[d].does = UnrealDoing
      /\ Ends[d] = {"exit"} /\ Dialects[d].form = "names" /\ Dialects[d].resv = "never"
  BY UnrealSpeech
<1>2. /\ Does(d, "server", "KICK") = "part" /\ Does(d, "server", "SJOIN") = "sjoin"
      /\ Does(d, "server", "NICK") = "add" /\ Does(d, "server", "EOS") = "end"
      /\ Does(d, "server", "SERVER") = "server pong" /\ Does(d, "server", "PING") = "ircd_ping"
      /\ Does(d, "server", "SQUIT") = "exit"
      /\ Does(d, "server", "SVSKILL") = "count and bring back"
      /\ Does(d, "server", "KILL") = "count and bring back"
      /\ \A c : c \notin {"KICK", "SJOIN", "NICK", "EOS", "SERVER", "PING", "SQUIT", "SVSKILL", "KILL"} => Does(d, "server", c) = "none"
  BY <1>1, UnrealServerHears
<1>3. /\ Does(d, "user", "QUIT") = "exit" /\ Does(d, "user", "MODE") = "mode"
      /\ Does(d, "user", "PART") = "part" /\ Does(d, "user", "KILL") = "bring back"
      /\ Does(d, "user", "SAJOIN") = "force join" /\ Does(d, "user", "SAPART") = "force part"
      /\ Does(d, "user", "NICK") = "rename" /\ Does(d, "user", "KICK") = "part"
      /\ Does(d, "user", "INVITE") = "invite" /\ Does(d, "user", "REHASH") = "rehash"
      /\ Does(d, "user", "JOIN 0") = "part"
      /\ \A c : c \notin {"QUIT", "MODE", "PART", "KILL", "SAJOIN", "SAPART", "NICK", "KICK", "INVITE",
                  "REHASH", "JOIN 0"} => Does(d, "user", c) = "none"
  BY <1>1, UnrealUserHears
<1>4. \A c : Does(d, "server", c) = "add" => c \in {"NICK", "UID"}
  BY <1>1, <1>2, <1>3
<1>5. \A c : Does(d, "user", c) # "add"
  BY <1>1, <1>2, <1>3
<1>6. \A c : Does(d, "server", c) # "enter"
  BY <1>1, <1>2, <1>3
<1>7. \A c : Does(d, "user", c) = "enter" => c = "JOIN"
  BY <1>1, <1>2, <1>3
<1>8. \A c : Does(d, "user", c) \in Orders => c \notin {"JOIN", "QUIT", "SQUIT"}
  <2>1. \A c : Does(d, "user", c) \in Orders =>
           c \in {"QUIT", "MODE", "PART", "KILL", "SAJOIN", "SAPART", "NICK", "KICK", "INVITE",
                   "REHASH", "JOIN 0"}
    BY <1>3 DEF Orders
  <2>2. \A c \in {"QUIT", "MODE", "PART", "KILL", "NICK", "KICK", "REHASH", "JOIN 0"} : Does(d, "user", c) \notin Orders
    BY <1>3 DEF Orders
  <2>3. QED
    BY <2>1, <2>2
<1>9. \A s \in {"server", "user"} : \A c : Does(d, s, c) = "null" \/ Does(d, s, c) = "pass ts6" => "argv" \in Ends[d]
  BY <1>1, <1>2, <1>3
<1>10. \A s \in {"server", "user"} : \A c :
         Does(d, s, c) = "rehash" => "guardian" \in Ends[d] \/ d \in {"unreal32", "bahamut"}
  BY <1>1, <1>2, <1>3
<1>11. \A s \in {"server", "user"} : \A c :
         Does(d, s, c) = "error" \/ Does(d, s, c) = "server first" => "uplink" \in Ends[d] /\ Dialects[d].form = "uid"
  BY <1>1, <1>2, <1>3
<1>12. \A s \in {"server", "user"} : \A c :
         Does(d, s, c) = "bring back" \/ Does(d, s, c) = "count and bring back" => d = "unreal32"
  BY <1>1, <1>2, <1>3
<1>13. d \in {"unreal32", "bahamut"} =>
         /\ \A c : Does(d, "server", c) = "exit" => c = "SQUIT"
         /\ \A c : Does(d, "user", c) = "exit" => c = "QUIT"
  BY <1>1, <1>2, <1>3
<1>14. Dialects[d].resv = "never" \/ "guardian" \in Ends[d]
  BY <1>1, <1>2, <1>3
<1>15. d = "unreal32" => "exit" \in Ends[d]
  BY <1>1, <1>2, <1>3
<1>16. QED
  BY <1>4, <1>5, <1>6, <1>7, <1>8, <1>9, <1>10, <1>11, <1>12, <1>13, <1>14, <1>15 DEF Tame

LEMMA InspircdSpeech ==
    ASSUME NEW d, d \in {"inspircd12", "inspircd20"}
    PROVE  /\ Dialects[d].server = Inspircd12Commands.server /\ Dialects[d].user = Inspircd12Commands.user
           /\ Dialects[d].does = InspircdDoing
           /\ Dialects[d].form = "uid" /\ Dialects[d].resv = "never"
           /\ Ends[d] = {"uplink"}
<1>1. CASE d = "inspircd12"
  BY <1>1 DEF Ends, Dialects, Inspircd12Commands, Inspircd12Sends, InspircdDoing, Sends, Table
<1>2. CASE d = "inspircd20"
  BY <1>2 DEF Ends, Dialects, Inspircd12Sends, Inspircd20Channels, Inspircd20Commands, Inspircd20Orders,
     Inspircd20Sends, Inspircd20Servers, Inspircd20Users, InspircdDoing, Sends, Table
<1>3. QED
  BY <1>1, <1>2

LEMMA InspircdTame ==
    ASSUME NEW d, d \in {"inspircd12", "inspircd20"}
    PROVE  Tame(d)
<1>1. /\ Dialects[d].server = Inspircd12Commands.server /\ Dialects[d].user = Inspircd12Commands.user /\ Dialects[d].does = InspircdDoing
      /\ Ends[d] = {"uplink"} /\ Dialects[d].form = "uid" /\ Dialects[d].resv = "never"
  BY InspircdSpeech
<1>2. /\ Does(d, "server", "PING") = "pong" /\ Does(d, "server", "SERVER") = "server first"
      /\ Does(d, "server", "ENDBURST") = "end" /\ Does(d, "server", "UID") = "add"
      /\ Does(d, "server", "FJOIN") = "sjoin" /\ Does(d, "server", "SQUIT") = "exit"
      /\ Does(d, "server", "SVSNICK") = "set nick" /\ Does(d, "server", "ERROR") = "error"
      /\ \A c : c \notin {"PING", "SERVER", "ENDBURST", "UID", "FJOIN", "SQUIT", "SVSNICK", "ERROR"} => Does(d, "server", c) = "none"
  BY <1>1, InspircdServerHears
<1>3. /\ Does(d, "user", "PART") = "part" /\ Does(d, "user", "INVITE") = "invite quietly"
      /\ Does(d, "user", "QUIT") = "exit" /\ Does(d, "user", "KILL") = "exit"
      /\ Does(d, "user", "ENCAP") = "enter quietly" /\ Does(d, "user", "MODE") = "mode"
      /\ Does(d, "user", "OPERTYPE") = "mode" /\ Does(d, "user", "KICK") = "kick"
      /\ Does(d, "user", "NICK") = "rename"
      /\ \A c : c \notin {"PART", "INVITE", "QUIT", "KILL", "ENCAP", "MODE", "OPERTYPE", "KICK", "NICK"} => Does(d, "user", c) = "none"
  BY <1>1, InspircdUserHears
<1>4. \A c : Does(d, "server", c) = "add" => c \in {"NICK", "UID"}
  BY <1>1, <1>2, <1>3
<1>5. \A c : Does(d, "user", c) # "add"
  BY <1>1, <1>2, <1>3
<1>6. \A c : Does(d, "server", c) # "enter"
  BY <1>1, <1>2, <1>3
<1>7. \A c : Does(d, "user", c) = "enter" => c = "JOIN"
  BY <1>1, <1>2, <1>3
<1>8. \A c : Does(d, "user", c) \in Orders => c \notin {"JOIN", "QUIT", "SQUIT"}
  <2>1. \A c : Does(d, "user", c) \in Orders =>
           c \in {"PART", "INVITE", "QUIT", "KILL", "ENCAP", "MODE", "OPERTYPE", "KICK", "NICK"}
    BY <1>3 DEF Orders
  <2>2. \A c \in {"PART", "QUIT", "KILL", "MODE", "OPERTYPE", "KICK", "NICK"} : Does(d, "user", c) \notin Orders
    BY <1>3 DEF Orders
  <2>3. QED
    BY <2>1, <2>2
<1>9. \A s \in {"server", "user"} : \A c : Does(d, s, c) = "null" \/ Does(d, s, c) = "pass ts6" => "argv" \in Ends[d]
  BY <1>1, <1>2, <1>3
<1>10. \A s \in {"server", "user"} : \A c :
         Does(d, s, c) = "rehash" => "guardian" \in Ends[d] \/ d \in {"unreal32", "bahamut"}
  BY <1>1, <1>2, <1>3
<1>11. \A s \in {"server", "user"} : \A c :
         Does(d, s, c) = "error" \/ Does(d, s, c) = "server first" => "uplink" \in Ends[d] /\ Dialects[d].form = "uid"
  BY <1>1, <1>2, <1>3
<1>12. \A s \in {"server", "user"} : \A c :
         Does(d, s, c) = "bring back" \/ Does(d, s, c) = "count and bring back" => d = "unreal32"
  BY <1>1, <1>2, <1>3
<1>13. d \in {"unreal32", "bahamut"} =>
         /\ \A c : Does(d, "server", c) = "exit" => c = "SQUIT"
         /\ \A c : Does(d, "user", c) = "exit" => c = "QUIT"
  BY <1>1, <1>2, <1>3
<1>14. Dialects[d].resv = "never" \/ "guardian" \in Ends[d]
  BY <1>1, <1>2, <1>3
<1>15. d = "unreal32" => "exit" \in Ends[d]
  BY <1>1, <1>2, <1>3
<1>16. QED
  BY <1>4, <1>5, <1>6, <1>7, <1>8, <1>9, <1>10, <1>11, <1>12, <1>13, <1>14, <1>15 DEF Tame

\* Every dialect is tame.
LEMMA DialectsTame == \A d \in DOMAIN Dialects : Tame(d)
BY DialectNames, RatboxTame, DirectTame, HybridTame, PlexusTame, BahamutTame, UnrealTame, InspircdTame

-----------------------------------------------------------------------------
(* The link in the words of a dialect: what its steps keep *)

Names == People \cup {""}
Records ==
    [list : Seq(People), joined : SUBSET People, named : SUBSET Names, opers : SUBSET Names,
     chan : BOOLEAN, sync : {"STARTUP", "BURSTING", "IS_CON"}, ts6 : BOOLEAN,
     sid : Peers \cup {""}, uplink : {"NULL", "live", "freed"}, its : Peers \cup {""}]
Held == [there : SUBSET People, joined : SUBSET People, named : SUBSET People, opers : SUBSET People]
Links == [up : BOOLEAN, open : BOOLEAN, peer : Peers \cup {""}, ids : BOOLEAN, done : BOOLEAN]

\* The lines that can be under way: those that make a user known name one, those
\* by which a user joins or quits name that user, and none is an SQUIT.
Words ==
    DOMAIN Speech.user \cup
    {"NICK", "UID", "SJOIN", "FJOIN", "JOIN", "PART", "JOIN 0", "QUIT", "MODE", "OPERTYPE", "KILL",
     "KICK", "SVSNICK", "REHASH", "ENDBURST", "EOS", "PING", "ERROR", "PASS", "SERVER"}
Lines ==
    {l \in [src : {"server", "user"}, cmd : Words, who : Names, by : Users \cup {"peer", ""}, oper : BOOLEAN] :
        /\ l.src = "server" /\ l.cmd \in {"NICK", "UID"} => l.who \in Users
        /\ l.src = "user" /\ l.cmd \in {"JOIN", "QUIT"} => l.who \in Users /\ l.by = l.who
        /\ l.cmd # "SQUIT"}

\* Nobody is in the channel, holds a nick or is an oper who is not there, on
\* our side and on that of the ircd; the Guardian stays where nothing removes
\* it; and only an ERROR that ends us later leaves Uplink dangling.
RecordsRight(o) ==
    /\ o \in Records /\ IsInjective(o.list) /\ o.joined \subseteq ToSet(o.list)
    /\ dialect \in {"unreal32", "bahamut"} => Guardian \in ToSet(o.list)
    /\ o.uplink = "freed" => "uplink" \in Ends[dialect]
HeldRight(n) == n \in Held /\ n.joined \subseteq n.there /\ n.named \subseteq n.there /\ n.opers \subseteq n.there
Raising(burst) == IF burst THEN <<"CONNECT">> ELSE <<"CONNECT", "BURST">>
Raises == {<<>>, <<"CONNECT">>, <<"CONNECT", "BURST">>}
WorldRight(w) ==
    /\ w \in [ours : Records, net : Held, fault : {"none"} \cup Ends[dialect], raised : Raises]
    /\ RecordsRight(w.ours) /\ HeldRight(w.net)
    /\ link.up => w.raised = Raising(w.ours.sync = "BURSTING")

\* The inductive invariant of a link.
LinkInv ==
    /\ dialect \in Spoken /\ WorldRight(World)
    /\ link \in Links /\ inbox \in Seq(Lines)
    /\ attempts \in [n : 0..Most + 1, window : {"none", "open", "past"}]
    /\ past \in [raised : Raises, odd : SUBSET ({"crossed", "misspoken"} \cup Lost[dialect]),
                 acts : 0..MaxActs[dialect], links : 0..MaxLinks[dialect]]

LEMMA ServerLine ==
    ASSUME NEW c \in Words \ {"SQUIT"}, NEW p \in Users, NEW o \in BOOLEAN
    PROVE  [src |-> "server", cmd |-> c, who |-> p, by |-> "peer", oper |-> o] \in Lines
BY DEF Lines, Names, People

LEMMA PairIsList ==
    ASSUME NEW S, NEW a \in S, NEW b \in S
    PROVE  <<a, b>> \in Seq(S)
OBVIOUS

\* The dialect of a link is one of the modules, and tame.
LEMMA SpeaksTame ==
    ASSUME dialect \in Spoken
    PROVE  Tame(dialect) /\ MaxActs[dialect] \in Nat /\ MaxLinks[dialect] \in Nat
BY DialectsTame, SpokenAssumption, LimitsAreNat

\* The list of users without some of them.
LEMMA WithoutIs ==
    ASSUME NEW l \in Seq(People), IsInjective(l), NEW gone
    PROVE  /\ Without(l, gone) \in Seq(People) /\ IsInjective(Without(l, gone))
           /\ ToSet(Without(l, gone)) = ToSet(l) \ gone
<1> DEFINE I == {i \in DOMAIN l : l[i] \notin gone}
<1>1. I \in SUBSET (1..Len(l)) /\ DOMAIN l = 1..Len(l)
  OBVIOUS
<1>2. Without(l, gone) = Picked(l, I)
  BY DEF Without
<1>3. ToSet(l) \ gone = {l[i] : i \in I}
  BY DEF ToSet
<1> HIDE DEF I
<1>4. Picked(l, I) \in Seq(People)
  BY <1>1, PickedKeeps
<1>5. IsInjective(Picked(l, I)) /\ ToSet(Picked(l, I)) = {l[i] : i \in I}
  BY <1>1, PickedInjective
<1>6. QED
  BY <1>2, <1>3, <1>4, <1>5

\* A user that is added at the end of the list.
LEMMA AddedIs ==
    ASSUME NEW l \in Seq(People), IsInjective(l), NEW p \in People, p \notin ToSet(l)
    PROVE  /\ Append(l, p) \in Seq(People) /\ IsInjective(Append(l, p))
           /\ ToSet(Append(l, p)) = ToSet(l) \cup {p}
BY AppendKeeps

\* A set laid out as a list.
LEMMA LaidOut ==
    ASSUME NEW T, NEW S \in SUBSET T, IsFiniteSet(S)
    PROVE  SetToSeq(S) \in Seq(T)
<1>1. Cardinality(S) \in Nat /\ ExistsBijection(1..Cardinality(S), S)
  BY FS_CardinalityType
<1>2. \E x \in [1..Cardinality(S) -> S] : IsInjective(x)
  BY <1>1 DEF ExistsBijection, Bijection, Injection, IsInjective
<1>3. SetToSeq(S) \in [1..Cardinality(S) -> S]
  BY <1>2 DEF SetToSeq
<1>4. QED
  BY <1>1, <1>3

LEMMA AppendSecond ==
    ASSUME NEW a, NEW b
    PROVE  Append(<<a>>, b) = <<a, b>>
<1> DEFINE l == Append(<<a>>, b)
           m == <<a, b>>
<1>1. l \in Seq({a, b}) /\ Len(l) = 2 /\ l[1] = a /\ l[2] = b
  OBVIOUS
<1>2. m \in Seq({a, b}) /\ Len(m) = 2 /\ m[1] = a /\ m[2] = b
  OBVIOUS
<1> HIDE DEF l, m
<1>3. l = m
  BY <1>1, <1>2
<1>4. QED
  BY <1>3 DEF l, m

LEMMA KnownPeople ==
    ASSUME NEW l \in Seq(People)
    PROVE  ToSet(l) \subseteq People
BY InList

-----------------------------------------------------------------------------
(* The functions of IRCd and of user.c and channel.c *)

LEMMA FaultyRight ==
    ASSUME NEW w, WorldRight(w), NEW why \in Ends[dialect]
    PROVE  WorldRight(Faulty(w, why))
BY DEF WorldRight, Faulty

LEMMA SentRight ==
    ASSUME NEW w, WorldRight(w), NEW n, HeldRight(n)
    PROVE  WorldRight(Sent(w, n)) /\ Sent(w, n).ours = w.ours
BY DEF WorldRight, Sent, HeldRight

LEMMA IrcdAddUserRight ==
    ASSUME NEW w, WorldRight(w), dialect \in Spoken, NEW p \in People
    PROVE  WorldRight(IrcdAddUser(w, p)) /\ IrcdAddUser(w, p).ours = w.ours
<1> DEFINE n == [w.net EXCEPT !.there = @ \cup {p}, !.named = @ \cup (w.ours.named \cap {p})]
<1>1. HeldRight(n)
  BY DEF WorldRight, HeldRight, Held
<1> HIDE DEF n
<1>2. WorldRight(Sent(w, n)) /\ Sent(w, n).ours = w.ours
  BY <1>1, SentRight
<1>3. CASE link.open /\ ReadsGuardian(w) /\ ~Knows(w, Guardian)
  <2>1. "guardian" \in Ends[dialect]
    BY <1>3, SpeaksTame DEF ReadsGuardian, Tame, Speech
  <2>2. IrcdAddUser(w, p) = Faulty(w, "guardian")
    BY <1>3 DEF IrcdAddUser
  <2>3. Faulty(w, "guardian").ours = w.ours
    BY DEF Faulty, WorldRight
  <2>4. QED
    BY <2>1, <2>2, <2>3, FaultyRight
<1>4. CASE ~(link.open /\ ReadsGuardian(w) /\ ~Knows(w, Guardian))
  <2>1. IrcdAddUser(w, p) = Sent(w, n)
    BY <1>4 DEF IrcdAddUser, n
  <2>2. QED
    BY <1>2, <2>1
<1>5. QED
  BY <1>3, <1>4

LEMMA IrcdJoinRight ==
    ASSUME NEW w, WorldRight(w), NEW p
    PROVE  WorldRight(IrcdJoin(w, p)) /\ IrcdJoin(w, p).ours = w.ours
<1> DEFINE n == [w.net EXCEPT !.joined = @ \cup {p}]
<1>1. CASE p \in w.net.there
  <2>1. HeldRight(n)
    BY <1>1 DEF WorldRight, HeldRight, Held
  <2> HIDE DEF n
  <2>2. IrcdJoin(w, p) = Sent(w, n)
    BY <1>1 DEF IrcdJoin, n
  <2>3. QED
    BY <2>1, <2>2, SentRight
<1>2. QED
  BY <1>1 DEF IrcdJoin

LEMMA NetGoneRight ==
    ASSUME NEW n, HeldRight(n), NEW p
    PROVE  HeldRight(NetGone(n, p))
BY DEF HeldRight, Held, NetGone, Away

LEMMA IrcdPartRight ==
    ASSUME NEW w, WorldRight(w), NEW p
    PROVE  WorldRight(IrcdPart(w, p)) /\ IrcdPart(w, p).ours = w.ours
<1> DEFINE n == [w.net EXCEPT !.joined = @ \ {p}]
<1>1. HeldRight(n)
  BY DEF WorldRight, HeldRight, Held
<1> HIDE DEF n
<1>2. WorldRight(Sent(w, n)) /\ Sent(w, n).ours = w.ours
  BY <1>1, SentRight
<1>3. QED
  BY <1>2 DEF IrcdPart, n

LEMMA IrcdKillRight ==
    ASSUME NEW w, WorldRight(w), NEW p
    PROVE  WorldRight(IrcdKill(w, p)) /\ IrcdKill(w, p).ours = w.ours
<1>1. HeldRight(NetGone(w.net, p))
  BY NetGoneRight DEF WorldRight
<1>2. WorldRight(Sent(w, NetGone(w.net, p))) /\ Sent(w, NetGone(w.net, p)).ours = w.ours
  BY <1>1, SentRight
<1>3. QED
  BY <1>2 DEF IrcdKill

LEMMA AddToChannelRight ==
    ASSUME NEW w, WorldRight(w), NEW p \in ToSet(w.ours.list)
    PROVE  WorldRight(AddToChannelU(w, p))
<1> DEFINE w1 == [w EXCEPT !.ours.joined = @ \cup {p}, !.ours.chan = TRUE]
<1>0. p \in People
  BY KnownPeople DEF WorldRight, Records
<1>1. WorldRight(w1)
  BY <1>0 DEF WorldRight, RecordsRight, Records
<1> HIDE DEF w1
<1>2. WorldRight(IrcdJoin(w1, p))
  BY <1>1, IrcdJoinRight
<1>3. AddToChannelU(w, p) \in {w, w1, IrcdJoin(w1, p)}
  BY DEF AddToChannelU, w1
<1>4. QED
  BY <1>1, <1>2, <1>3

LEMMA DelFromChannelRight ==
    ASSUME NEW w, WorldRight(w), NEW p
    PROVE  /\ WorldRight(DelFromChannel(w, p)) /\ DelFromChannel(w, p).ours.list = w.ours.list
           /\ p \notin DelFromChannel(w, p).ours.joined /\ DelFromChannel(w, p).net = w.net
<1> DEFINE w1 == [w EXCEPT !.ours.joined = @ \ {p}, !.ours.chan = w.ours.joined # {p}]
<1>1. WorldRight(w1) /\ w1.ours.list = w.ours.list /\ p \notin w1.ours.joined /\ w1.net = w.net
  BY DEF WorldRight, RecordsRight, Records
<1> HIDE DEF w1
<1>2. DelFromChannel(w, p) = IF p \notin w.ours.joined THEN w ELSE w1
  BY DEF DelFromChannel, w1
<1>3. QED
  BY <1>1, <1>2

LEMMA KickFromChannelRight ==
    ASSUME NEW w, WorldRight(w), NEW p
    PROVE  WorldRight(KickFromChannel(w, p))
BY DEF KickFromChannel, WorldRight, RecordsRight, Records

LEMMA ExitUserRight ==
    ASSUME NEW w, WorldRight(w), NEW p, p = Guardian => dialect \notin {"unreal32", "bahamut"}
    PROVE  WorldRight(ExitUser(w, p))
<1> DEFINE w1 == DelFromChannel(w, p)
           l == Without(w1.ours.list, {p})
           a == Away(w1.ours, p)
           w2 == [w1 EXCEPT !.ours = [a EXCEPT !.list = Without(a.list, {p})]]
<1>1. WorldRight(w1) /\ p \notin w1.ours.joined /\ w1.net = w.net
  BY DelFromChannelRight
<1> HIDE DEF w1
<1>2. l \in Seq(People) /\ IsInjective(l) /\ ToSet(l) = ToSet(w1.ours.list) \ {p}
  BY <1>1, WithoutIs DEF WorldRight, RecordsRight, Records
<1> DEFINE o == [a EXCEPT !.list = l]
<1>3. w2 = [w1 EXCEPT !.ours = o]
  <2>1. a.list = w1.ours.list
    BY <1>1 DEF Away, WorldRight, Records
  <2> HIDE DEF a
  <2>2. QED
    BY <2>1
<1> HIDE DEF l, w2
<1>4. RecordsRight(o)
  BY <1>1, <1>2 DEF WorldRight, RecordsRight, Records, Away
<1>5. o.sync = w1.ours.sync
  BY <1>1 DEF WorldRight, Records, Away
<1> HIDE DEF o
<1>6. WorldRight(w2)
  BY <1>1, <1>3, <1>4, <1>5 DEF WorldRight, RecordsRight
<1>7. WorldRight(Sent(w2, NetGone(w.net, p)))
  <2>1. HeldRight(NetGone(w.net, p))
    BY NetGoneRight DEF WorldRight
  <2>2. QED
    BY <1>6, <2>1, SentRight
<1>8. ExitUser(w, p) \in {w2, Sent(w2, NetGone(w.net, p))}
  BY DEF ExitUser, w2, w1
<1>9. QED
  BY <1>6, <1>7, <1>8

LEMMA BurstLocalUsersRight ==
    ASSUME NEW w, WorldRight(w)
    PROVE  WorldRight(BurstLocalUsers(w)) /\ BurstLocalUsers(w).ours = w.ours
<1> DEFINE n == [w.net EXCEPT !.joined = @ \cup (Walked(w.ours.list) \cap w.ours.joined \cap w.net.there)]
<1>1. HeldRight(n)
  BY DEF WorldRight, HeldRight, Held
<1> HIDE DEF n
<1>2. BurstLocalUsers(w) = Sent(w, n)
  BY DEF BurstLocalUsers, n
<1>3. QED
  BY <1>1, <1>2, SentRight

LEMMA IntroduceUsersRight ==
    ASSUME NEW w, WorldRight(w), dialect \in Spoken
    PROVE  WorldRight(IntroduceUsers(w)) /\ IntroduceUsers(w).ours = w.ours
<1>1. CASE w.ours.list # <<>> /\ ReadsGuardian(w) /\ ~Knows(w, Guardian)
  <2>1. "guardian" \in Ends[dialect]
    BY <1>1, SpeaksTame DEF ReadsGuardian, Tame, Speech
  <2>2. IntroduceUsers(w) = Faulty(w, "guardian")
    BY <1>1 DEF IntroduceUsers
  <2>3. Faulty(w, "guardian").ours = w.ours
    BY DEF Faulty, WorldRight
  <2>4. QED
    BY <2>1, <2>2, <2>3, FaultyRight
<1>2. CASE ~(w.ours.list # <<>> /\ ReadsGuardian(w) /\ ~Knows(w, Guardian))
  <2> DEFINE ppl == ToSet(w.ours.list)
             w1 == [w EXCEPT !.net.there = @ \cup ppl, !.net.named = w.ours.named \cap ppl]
  <2>1. ppl \subseteq People
    BY KnownPeople DEF WorldRight, Records
  <2>2. IntroduceUsers(w) = w1
    BY <1>2 DEF IntroduceUsers
  <2> HIDE DEF ppl
  <2>3. WorldRight(w1) /\ w1.ours = w.ours
    BY <2>1 DEF WorldRight, HeldRight, Held
  <2>4. QED
    BY <2>2, <2>3
<1>3. QED
  BY <1>1, <1>2

LEMMA EndBurstRight ==
    ASSUME NEW w, WorldRight(w), link.up, Bursts(w)
    PROVE  WorldRight(EndBurst(w))
<1> DEFINE b == BurstLocalUsers(w)
           r == Append(b.raised, "BURST")
           e == [b EXCEPT !.raised = Append(@, "BURST"), !.ours.sync = "IS_CON"]
<1>1. WorldRight(b) /\ b.ours = w.ours
  BY BurstLocalUsersRight
<1>2. EndBurst(w) = e
  BY DEF EndBurst
<1> HIDE DEF b
<1>3. b.raised = <<"CONNECT">>
  BY <1>1 DEF WorldRight, Bursts, Raising
<1>4. r = <<"CONNECT", "BURST">>
  BY <1>3, AppendSecond
<1>5. e = [b EXCEPT !.raised = r, !.ours.sync = "IS_CON"]
  BY DEF r
<1> HIDE DEF r, e
<1>6. WorldRight(e)
  BY <1>1, <1>4, <1>5 DEF WorldRight, RecordsRight, Records, Raising, Raises
<1>7. QED
  BY <1>2, <1>6

LEMMA PingsRight ==
    ASSUME WorldRight(World), link.up
    PROVE  WorldRight(Pings(World))
<1>1. Pings(World) = IF RaisesBurst THEN EndBurst(World) ELSE World
  BY DEF Pings
<1>2. RaisesBurst => WorldRight(EndBurst(World))
  BY EndBurstRight DEF RaisesBurst
<1>3. QED
  BY <1>1, <1>2

LEMMA BringBackRight ==
    ASSUME NEW w, WorldRight(w), dialect \in Spoken, NEW p
    PROVE  WorldRight(BringBack(w, p))
<1> DEFINE back == IrcdAddUser(w, p)
<1>1. CASE p \in Services /\ Knows(w, p)
  <2>1. WorldRight(back)
    BY <1>1, IrcdAddUserRight DEF People
  <2>2. WorldRight(IrcdJoin(back, p))
    BY <2>1, IrcdJoinRight
  <2>3. BringBack(w, p) = IF p \in ours.joined THEN IrcdJoin(back, p) ELSE back
    BY <1>1 DEF BringBack
  <2>4. QED
    BY <2>1, <2>2, <2>3
<1>2. CASE ~(p \in Services /\ Knows(w, p))
  <2>1. CASE Knows(w, p)
    <3>1. p # Guardian
      BY <1>2, <2>1 DEF Services
    <3>2. WorldRight(ExitUser(w, p))
      BY <3>1, ExitUserRight
    <3>3. BringBack(w, p) = ExitUser(w, p)
      BY <1>2, <2>1 DEF BringBack
    <3>4. QED
      BY <3>2, <3>3
  <2>2. CASE ~Knows(w, p)
    BY <1>2, <2>2 DEF BringBack
  <2>3. QED
    BY <2>1, <2>2
<1>3. QED
  BY <1>1, <1>2

LEMMA GoneFromRight ==
    ASSUME NEW o, RecordsRight(o), NEW gone, dialect \in {"unreal32", "bahamut"} => Guardian \notin gone
    PROVE  RecordsRight(GoneFrom(o, gone)) /\ GoneFrom(o, gone).joined = o.joined \ gone
           /\ GoneFrom(o, gone).sync = o.sync /\ GoneFrom(o, gone).uplink = o.uplink
<1> DEFINE l == Without(o.list, gone)
           c == IF gone \cap o.joined = {} THEN o.chan ELSE o.joined \ gone # {}
           r == [o EXCEPT !.list = l, !.joined = @ \ gone, !.named = @ \ gone, !.opers = @ \ gone, !.chan = c]
<1>1. l \in Seq(People) /\ IsInjective(l) /\ ToSet(l) = ToSet(o.list) \ gone
  BY WithoutIs DEF RecordsRight, Records
<1>2. c \in BOOLEAN
  BY DEF RecordsRight, Records
<1>3. GoneFrom(o, gone) = r
  BY DEF GoneFrom
<1> HIDE DEF l, c
<1>4. RecordsRight(r) /\ r.joined = o.joined \ gone /\ r.sync = o.sync /\ r.uplink = o.uplink
  BY <1>1, <1>2 DEF RecordsRight, Records
<1>5. QED
  BY <1>3, <1>4

-----------------------------------------------------------------------------
(* The steps *)

\* What the history says of a difference is always one of the excuses.
LEMMA CrossedIs ==
    ASSUME NEW changed, NEW rest
    PROVE  Crossed(changed, rest) \subseteq {"crossed"}
BY DEF Crossed

LEMMA LinkInit == InitLink => LinkInv
<1> SUFFICES ASSUME InitLink PROVE LinkInv
  OBVIOUS
<1>1. dialect \in Spoken
  BY DEF InitLink
<1>2. <<Guardian>> \in Seq(People) /\ IsInjective(<<Guardian>>) /\ ToSet(<<Guardian>>) = {Guardian}
  BY DEF People, Services, IsInjective, ToSet
<1>3. RecordsRight(ours) /\ ours.sync = "STARTUP"
  BY <1>2 DEF InitLink, RecordsRight, Records, Names, People, Services
<1>4. HeldRight(net)
  BY DEF InitLink, HeldRight, Held, Silent
<1>5. link \in Links /\ ~link.up
  BY DEF InitLink, Links
<1>6. inbox \in Seq(Lines)
  <2>1. inbox = <<>>
    BY DEF InitLink
  <2>2. QED
    BY <2>1
<1>7. attempts \in [n : 0..Most + 1, window : {"none", "open", "past"}]
  <2>1. Most \in Nat
    BY LimitsAreNat
  <2>2. attempts \in Counts
    BY DEF InitLink, Counts
  <2>3. 0 \in 0..Most + 1 /\ 1 \in 0..Most + 1 /\ Most + 1 \in 0..Most + 1
    BY <2>1
  <2>4. QED
    BY <2>2, <2>3 DEF Counts, Uncounted
<1>8. /\ past \in [raised : Raises, odd : SUBSET ({"crossed", "misspoken"} \cup Lost[dialect]),
                   acts : 0..MaxActs[dialect], links : 0..MaxLinks[dialect]]
      /\ past.raised = <<>>
  <2>1. past = [raised |-> <<>>, odd |-> {}, acts |-> 0, links |-> 0]
    BY DEF InitLink, Fresh
  <2>2. 0 \in 0..MaxActs[dialect] /\ 0 \in 0..MaxLinks[dialect]
    BY <1>1, SpeaksTame
  <2>3. QED
    BY <2>1, <2>2 DEF Raises
<1>9. WorldRight(World)
  BY <1>3, <1>4, <1>5, <1>8 DEF InitLink, WorldRight, World, RecordsRight, HeldRight
<1>10. QED
  BY <1>1, <1>5, <1>6, <1>7, <1>8, <1>9 DEF LinkInv

\* A step that leaves a right world leaves a right link.
LEMMA BecomesRight ==
    ASSUME LinkInv, NEW w, WorldRight(w), NEW rest \in Seq(Lines), NEW changed,
           Becomes(w, rest, changed), UNCHANGED <<dialect, link>>,
           attempts' \in [n : 0..Most + 1, window : {"none", "open", "past"}]
    PROVE  LinkInv'
<1>1. Speech' = Speech /\ Words' = Words /\ Lines' = Lines
  BY DEF Speech, Words, Lines
<1>2. WorldRight(World)'
  BY DEF Becomes, WorldRight, World, RecordsRight, HeldRight, LinkInv
<1>3. past' \in [raised : Raises, odd : SUBSET ({"crossed", "misspoken"} \cup Lost[dialect]),
                 acts : 0..MaxActs[dialect], links : 0..MaxLinks[dialect]]
  BY CrossedIs DEF Becomes, LinkInv, WorldRight
<1>4. inbox' \in Seq(Lines')
  BY <1>1 DEF Becomes
<1>5. QED
  BY <1>2, <1>3, <1>4 DEF LinkInv

LEMMA ActRight ==
    ASSUME LinkInv, NEW w, WorldRight(w), NEW kind, Act(w, kind)
    PROVE  LinkInv'
<1>1. Speech' = Speech /\ Words' = Words /\ Lines' = Lines
  BY DEF Speech, Words, Lines, Act
<1>2. WorldRight(World)'
  BY DEF Act, WorldRight, World, RecordsRight, HeldRight, LinkInv
<1>3. past' \in [raised : Raises, odd : SUBSET ({"crossed", "misspoken"} \cup Lost[dialect]),
                 acts : 0..MaxActs[dialect], links : 0..MaxLinks[dialect]]
  <2>1. past.acts + 1 \in 0..MaxActs[dialect]
    BY SpeaksTame DEF Act, LinkInv
  <2>2. QED
    BY <2>1, CrossedIs DEF Act, LinkInv, WorldRight
<1>4. QED
  BY <1>1, <1>2, <1>3 DEF LinkInv, Act

\* What we do of our own accord, with a world that is right.
LEMMA HeardRight ==
    ASSUME LinkInv, NEW w, WorldRight(w), inbox # <<>>, Heard(w) \/ Obeyed(w)
    PROVE  LinkInv'
<1>1. Tail(inbox) \in Seq(Lines)
  BY DEF LinkInv
<1>2. attempts' \in [n : 0..Most + 1, window : {"none", "open", "past"}]
  BY DEF LinkInv, Heard, Obeyed
<1>3. UNCHANGED <<dialect, link>>
  BY DEF Heard, Obeyed
<1>4. CASE Heard(w)
  BY <1>1, <1>2, <1>3, <1>4, BecomesRight DEF Heard
<1>5. CASE Obeyed(w)
  BY <1>1, <1>2, <1>3, <1>5, BecomesRight DEF Obeyed
<1>6. QED
  BY <1>4, <1>5

LEMMA ConnectRight ==
    ASSUME LinkInv, NEW peer \in Peers, NEW here \in SUBSET Users, NEW on \in SUBSET here, NEW opers \in SUBSET here,
           Connect(peer, here, on, opers)
    PROVE  LinkInv'
<1> DEFINE w == [World EXCEPT !.ours.sync = "BURSTING",
                              !.net = [Silent EXCEPT !.there = here, !.joined = on, !.opers = opers]]
           v == [w EXCEPT !.raised = <<"CONNECT">>]
           n == [Silent EXCEPT !.there = here, !.joined = on, !.opers = opers]
<1>1. dialect \in Spoken /\ WorldRight(World) /\ ~link.up
  BY DEF LinkInv, Connect
<1>2. HeldRight(n)
  BY DEF HeldRight, Held, People, Silent
<1>3. w = [World EXCEPT !.ours.sync = "BURSTING", !.net = n]
  OBVIOUS
<1> HIDE DEF w, n
<1>4. WorldRight(w) /\ w.ours.sync = "BURSTING"
  BY <1>1, <1>2, <1>3 DEF WorldRight, RecordsRight, Records, HeldRight
<1> DEFINE opened == IF Misspoken(peer) THEN w ELSE IntroduceUsers(w)
<1>5. WorldRight(opened) /\ opened.ours = w.ours
  BY <1>1, <1>4, IntroduceUsersRight
<1>6. ours' = opened.ours /\ net' = opened.net /\ fault' = opened.fault
  BY DEF Connect, w
<1> HIDE DEF opened
<1>7. dialect' = dialect /\ past'.raised = <<"CONNECT">> /\ Speech' = Speech /\ Words' = Words /\ Lines' = Lines
  BY DEF Connect, LinkInv, Speech, Words, Lines
<1>8. WorldRight(World)'
  BY <1>4, <1>5, <1>6, <1>7 DEF WorldRight, World, RecordsRight, HeldRight, Raising, Raises
<1>9. link' \in Links
  BY DEF Connect, Links, IdsTo
<1>10. inbox' \in Seq(Lines)
  <2> DEFINE ins == {[Line("server", IntroCommand(IdsTo(peer)), p, "peer") EXCEPT !.oper = p \in opers] : p \in here}
             ons == {Line("server", FirstJoin, p, "peer") : p \in on}
             first == <<Line("server", "PASS", "", ""), Line("server", "SERVER", "", "")>>
  <2>1. inbox' = first \o SetToSeq(ins) \o SetToSeq(ons)
    BY DEF Connect
  <2>2. first \in Seq(Lines)
    <3>1. Line("server", "PASS", "", "") \in Lines /\ Line("server", "SERVER", "", "") \in Lines
      BY DEF Line, Lines, Words, Names
    <3>2. QED
      BY <3>1, PairIsList
  <2>3. IsFiniteSet(ins) /\ ins \subseteq Lines
    <3>1. \A p \in here : [Line("server", IntroCommand(IdsTo(peer)), p, "peer") EXCEPT !.oper = p \in opers] \in Lines
      <4> SUFFICES ASSUME NEW p \in here
                   PROVE  [Line("server", IntroCommand(IdsTo(peer)), p, "peer") EXCEPT !.oper = p \in opers] \in Lines
        OBVIOUS
      <4> DEFINE c == IntroCommand(IdsTo(peer))
      <4>1. c \in {"UID", "NICK"}
        BY DEF IntroCommand
      <4>2. [Line("server", c, p, "peer") EXCEPT !.oper = p \in opers]
            = [src |-> "server", cmd |-> c, who |-> p, by |-> "peer", oper |-> p \in opers]
        BY DEF Line
      <4> DEFINE o == p \in opers
      <4> HIDE DEF c
      <4>3. [src |-> "server", cmd |-> c, who |-> p, by |-> "peer", oper |-> p \in opers] \in Lines
        <5>1. o \in BOOLEAN /\ p \in Users
          OBVIOUS
        <5>2. c \in Words \ {"SQUIT"}
          BY <4>1 DEF Words
        <5> HIDE DEF o
        <5>3. [src |-> "server", cmd |-> c, who |-> p, by |-> "peer", oper |-> o] \in Lines
          BY <5>1, <5>2, ServerLine
        <5>4. QED
          BY <5>3 DEF o
      <4>4. QED
        BY <4>2, <4>3 DEF c
    <3>2. IsFiniteSet(here)
      BY PeopleAssumption, FS_Subset
    <3> DEFINE f == [p \in here |-> [Line("server", IntroCommand(IdsTo(peer)), p, "peer") EXCEPT !.oper = p \in opers]]
    <3>3. IsFiniteSet(ins)
      <4>1. f \in Surjection(here, ins)
        BY DEF Surjection
      <4> HIDE DEF f, ins
      <4>2. QED
        BY <3>2, <4>1, FS_Surjection
    <3>4. QED
      BY <3>1, <3>3
  <2>4. IsFiniteSet(ons) /\ ons \subseteq Lines
    <3>1. \A p \in on : Line("server", FirstJoin, p, "peer") \in Lines
      BY DEF Line, Lines, Words, Names, People, FirstJoin
    <3>2. IsFiniteSet(on)
      BY PeopleAssumption, FS_Subset
    <3> DEFINE f == [p \in on |-> Line("server", FirstJoin, p, "peer")]
    <3>3. IsFiniteSet(ons)
      <4>1. f \in Surjection(on, ons)
        BY DEF Surjection
      <4> HIDE DEF f, ons
      <4>2. QED
        BY <3>2, <4>1, FS_Surjection
    <3>4. QED
      BY <3>1, <3>3
  <2> HIDE DEF ins, ons, first
  <2>5. SetToSeq(ins) \in Seq(Lines) /\ SetToSeq(ons) \in Seq(Lines)
    BY <2>3, <2>4, LaidOut
  <2>6. QED
    BY <2>1, <2>2, <2>5
<1>11. past' \in [raised : Raises, odd : SUBSET ({"crossed", "misspoken"} \cup Lost[dialect]),
                  acts : 0..MaxActs[dialect], links : 0..MaxLinks[dialect]]
  <2>1. past.links + 1 \in 0..MaxLinks[dialect]
    <3>1. past.links \in 0..MaxLinks[dialect] /\ past.links < MaxLinks[dialect] /\ MaxLinks[dialect] \in Nat
      BY SpeaksTame DEF Connect, LinkInv
    <3>2. QED
      BY <3>1
  <2>2. QED
    BY <2>1 DEF Connect, LinkInv, Raises
<1>12. attempts' = attempts
  BY DEF Connect
<1>13. QED
  BY <1>7, <1>8, <1>9, <1>10, <1>11, <1>12 DEF LinkInv

\* The loss of the link, in the two ways it is lost.
LEMMA UnlinkRight ==
    ASSUME LinkInv, NEW o, RecordsRight(o), ours' = o, net' = Silent, link' = Unlinked, inbox' = <<>>,
           past' = [past EXCEPT !.raised = <<>>, !.odd = {}], UNCHANGED <<dialect, attempts, fault>>
    PROVE  LinkInv'
<1>1. HeldRight(net') /\ link' \in Links /\ ~link'.up
  BY DEF HeldRight, Held, Silent, Links, Unlinked
<1>2. past' \in [raised : Raises, odd : SUBSET ({"crossed", "misspoken"} \cup Lost[dialect]),
                 acts : 0..MaxActs[dialect], links : 0..MaxLinks[dialect]]
  BY DEF LinkInv, Raises
<1>3. past'.raised \in Raises /\ net' \in Held
  BY <1>1, <1>2 DEF HeldRight
<1>4. o \in Records /\ fault' \in {"none"} \cup Ends[dialect]
  BY DEF RecordsRight, LinkInv, WorldRight, World
<1>5. WorldRight(World)'
  BY <1>1, <1>3, <1>4 DEF WorldRight, World, RecordsRight, HeldRight
<1>6. inbox' \in Seq(Lines')
  OBVIOUS
<1>7. QED
  BY <1>1, <1>2, <1>5, <1>6 DEF LinkInv

LEMMA RemoteGoneRight ==
    ASSUME LinkInv
    PROVE  /\ RecordsRight(RemoteGone(ours)) /\ RemoteGone(ours).joined = ours.joined \cap Services
           /\ RemoteGone(ours).uplink = ours.uplink
<1>1. RecordsRight(ours) /\ ours.joined \subseteq ToSet(ours.list) /\ ToSet(ours.list) \subseteq People
  BY KnownPeople DEF LinkInv, WorldRight, World, RecordsRight, Records
<1> DEFINE gone == Users \cap ToSet(ours.list)
<1>2. Guardian \notin gone
  BY PeopleAssumption
<1>3. ours.joined \ gone = ours.joined \cap Services
  BY <1>1, PeopleAssumption DEF People, Services
<1>4. RemoteGone(ours) = GoneFrom(ours, gone)
  BY DEF RemoteGone
<1> HIDE DEF gone
<1>5. QED
  BY <1>1, <1>2, <1>3, <1>4, GoneFromRight

LEMMA LoseLinkRight ==
    ASSUME LinkInv, LoseLink
    PROVE  LinkInv' /\ ours'.joined = ours.joined \cap Services
<1> DEFINE g == RemoteGone(ours)
           o == [g EXCEPT !.uplink = "NULL", !.its = ""]
<1>1. RecordsRight(g) /\ g.joined = ours.joined \cap Services
  BY RemoteGoneRight
<1>2. ours' = o
  BY DEF LoseLink
<1> HIDE DEF g
<1>3. RecordsRight(o) /\ o.joined = g.joined
  BY <1>1 DEF RecordsRight, Records
<1> HIDE DEF o
<1>4. LinkInv'
  BY <1>2, <1>3, UnlinkRight DEF LoseLink
<1>5. QED
  BY <1>1, <1>2, <1>3, <1>4

LEMMA HearErrorRight ==
    ASSUME LinkInv, HearError
    PROVE  LinkInv' /\ Speech.form = "uid"
<1>1. Does(dialect, Head1.src, Head1.cmd) = "error"
  BY DEF HearError, Hears, Effect
<1>2. Head1 \in Lines
  BY DEF HearError, Hears, LinkInv, Head1
<1>3. "uplink" \in Ends[dialect] /\ Dialects[dialect].form = "uid"
  <2>1. Head1.src \in {"server", "user"}
    BY <1>2 DEF Lines
  <2>2. Tame(dialect)
    BY SpeaksTame DEF LinkInv
  <2>3. QED
    BY <1>1, <2>1, <2>2 DEF Tame
<1> DEFINE g == RemoteGone(ours)
           o == [g EXCEPT !.joined = {}, !.chan = FALSE, !.its = "",
                          !.uplink = IF @ = "live" THEN "freed" ELSE @]
<1>4. RecordsRight(g)
  BY RemoteGoneRight
<1>5. ours' = o
  BY DEF HearError
<1> HIDE DEF g
<1>6. RecordsRight(o)
  BY <1>3, <1>4 DEF RecordsRight, Records
<1> HIDE DEF o
<1>7. LinkInv'
  BY <1>5, <1>6, UnlinkRight DEF HearError
<1>8. QED
  BY <1>3, <1>7 DEF Speech

LEMMA TellsRight ==
    ASSUME LinkInv, NEW l \in Lines, NEW n, HeldRight(n), NEW kind, Tells(l, n, kind)
    PROVE  LinkInv'
<1>1. Speech' = Speech /\ Words' = Words /\ Lines' = Lines
  BY DEF Speech, Words, Lines, Tells
<1>2. net' = n /\ UNCHANGED <<dialect, ours, link, attempts, fault>> /\ past'.raised = past.raised
  BY DEF Tells, LinkInv
<1>3. WorldRight(World)'
  BY <1>2 DEF WorldRight, World, RecordsRight, HeldRight, LinkInv
<1>4. past' \in [raised : Raises, odd : SUBSET ({"crossed", "misspoken"} \cup Lost[dialect]),
                 acts : 0..MaxActs[dialect], links : 0..MaxLinks[dialect]]
  <2>1. past.acts \in 0..MaxActs[dialect] /\ past.acts < MaxActs[dialect] /\ MaxActs[dialect] \in Nat
    BY SpeaksTame DEF Tells, LinkInv
  <2>2. past.acts + 1 \in 0..MaxActs[dialect]
    BY <2>1
  <2>3. QED
    BY <2>2 DEF Tells, LinkInv
<1>5. inbox' \in Seq(Lines)
  BY DEF Tells, LinkInv
<1>6. QED
  BY <1>1, <1>2, <1>3, <1>4, <1>5 DEF LinkInv

\* Lines of users and of the uplink that no rule of Lines is about.
LEMMA OtherLine ==
    ASSUME NEW c \in Words, NEW p \in Names, NEW u \in Users
    PROVE  /\ c \notin {"JOIN", "QUIT", "SQUIT"} => ByUser(c, p, u) \in Lines
           /\ c \notin {"NICK", "UID", "SQUIT"} => ByServer(c, p) \in Lines
           /\ c \notin {"NICK", "UID", "SQUIT"} => Line("server", c, p, "") \in Lines
           /\ c # "SQUIT" => ByUser(c, u, u) \in Lines /\ ByServer(c, u) \in Lines
<1>1. u \in Names
  BY DEF Names, People
<1>2. QED
  BY <1>1 DEF ByUser, ByServer, Line, Lines

LEMMA HeldOf == ASSUME LinkInv PROVE HeldRight(net) /\ net.there \subseteq People
  BY DEF LinkInv, WorldRight, World, HeldRight, Held

LEMMA PersonRight ==
    ASSUME LinkInv, NEW u \in Users,
           Intro(u) \/ Enter(u) \/ Part(u) \/ JoinZero(u) \/ Quit(u) \/ Rename(u) \/ Oper(u) \/ Rehash(u)
    PROVE  LinkInv'
<1>0. HeldRight(net) /\ u \in People /\ u \in Names
  BY HeldOf DEF People, Names
<1>1. CASE Intro(u)
  <2> DEFINE n == [net EXCEPT !.there = @ \cup {u}]
             c == IntroCommand(link.ids)
  <2>1. HeldRight(n)
    BY <1>0 DEF HeldRight, Held
  <2>2. c \in Words /\ c # "SQUIT"
    BY DEF IntroCommand, Words
  <2>3. Tells(ByServer(c, u), n, "intro")
    BY <1>1 DEF Intro
  <2> HIDE DEF n, c
  <2>4. QED
    BY <1>0, <2>1, <2>2, <2>3, OtherLine, TellsRight
<1>2. CASE Enter(u)
  <2> DEFINE n == [net EXCEPT !.joined = @ \cup {u}]
             l == IF Speech.form \in {"flag", "ts6"} /\ net.joined # {} THEN ByUser("JOIN", u, u) ELSE ByServer(FirstJoin, u)
  <2>1. HeldRight(n)
    BY <1>0, <1>2 DEF HeldRight, Held, Enter
  <2>2. l \in Lines
    <3>1. "JOIN" \in Words /\ FirstJoin \in Words /\ FirstJoin # "SQUIT"
      BY DEF FirstJoin, Words
    <3>2. QED
      BY <1>0, <3>1, OtherLine
  <2>3. Tells(l, n, "enter")
    BY <1>2 DEF Enter
  <2> HIDE DEF n, l
  <2>4. QED
    BY <2>1, <2>2, <2>3, TellsRight
<1>3. CASE Part(u) \/ JoinZero(u)
  <2> DEFINE n == [net EXCEPT !.joined = @ \ {u}]
  <2>1. HeldRight(n)
    BY <1>0 DEF HeldRight, Held
  <2>2. ByUser("PART", u, u) \in Lines /\ ByUser("JOIN 0", u, u) \in Lines
    BY <1>0, OtherLine DEF Words
  <2>3. Tells(ByUser("PART", u, u), n, "part") \/ Tells(ByUser("JOIN 0", u, u), n, "join 0")
    BY <1>3 DEF Part, JoinZero
  <2> HIDE DEF n
  <2>4. QED
    BY <2>1, <2>2, <2>3, TellsRight
<1>4. CASE Quit(u)
  <2>1. HeldRight(NetGone(net, u))
    BY <1>0, NetGoneRight
  <2>2. ByUser("QUIT", u, u) \in Lines
    BY <1>0, OtherLine DEF Words
  <2>3. Tells(ByUser("QUIT", u, u), NetGone(net, u), "quit")
    BY <1>4 DEF Quit
  <2>4. QED
    BY <2>1, <2>2, <2>3, TellsRight
<1>5. CASE Rename(u)
  <2> DEFINE n == [net EXCEPT !.named = @ \cup {u}]
  <2>1. HeldRight(n)
    BY <1>0, <1>5 DEF HeldRight, Held, Rename
  <2>2. ByUser("NICK", u, u) \in Lines
    BY <1>0, OtherLine DEF Words
  <2>3. Tells(ByUser("NICK", u, u), n, "rename")
    BY <1>5 DEF Rename
  <2> HIDE DEF n
  <2>4. QED
    BY <2>1, <2>2, <2>3, TellsRight
<1>6. CASE Oper(u)
  <2> DEFINE n == [net EXCEPT !.opers = @ \cup {u}]
             c == IF Speech.form = "uid" THEN "OPERTYPE" ELSE "MODE"
  <2>1. HeldRight(n)
    BY <1>0, <1>6 DEF HeldRight, Held, Oper
  <2>2. c \in Words /\ c # "SQUIT"
    BY DEF Words
  <2>3. Tells(ByUser(c, u, u), n, "oper")
    BY <1>6 DEF Oper
  <2> HIDE DEF n, c
  <2>4. QED
    BY <1>0, <2>1, <2>2, <2>3, OtherLine, TellsRight
<1>7. CASE Rehash(u)
  <2>1. ByUser("REHASH", u, u) \in Lines
    BY <1>0, OtherLine DEF Words
  <2>2. Tells(ByUser("REHASH", u, u), net, "rehash")
    BY <1>7 DEF Rehash
  <2>3. QED
    BY <1>0, <2>1, <2>2, TellsRight
<1>8. QED
  BY <1>1, <1>2, <1>3, <1>4, <1>5, <1>6, <1>7

LEMMA RemovalRight ==
    ASSUME LinkInv, NEW u \in Users, NEW p \in People, OperKills(u, p) \/ UserKicks(u, p)
    PROVE  LinkInv'
<1> DEFINE n == [net EXCEPT !.joined = @ \ {p}]
<1>0. HeldRight(net) /\ p \in Names
  BY HeldOf DEF Names
<1>1. HeldRight(n) /\ HeldRight(NetGone(net, p))
  BY <1>0, NetGoneRight DEF HeldRight, Held
<1>2. ByUser("KILL", p, u) \in Lines /\ ByUser("KICK", p, u) \in Lines
  BY <1>0, OtherLine DEF Words
<1>3. Tells(ByUser("KILL", p, u), NetGone(net, p), "kill") \/ Tells(ByUser("KICK", p, u), n, "kick")
  BY DEF OperKills, UserKicks
<1> HIDE DEF n
<1>4. QED
  BY <1>1, <1>2, <1>3, TellsRight

LEMMA ServerRemovalRight ==
    ASSUME LinkInv, NEW p \in People, ServerKills(p) \/ ServerKicks(p)
    PROVE  LinkInv'
<1> DEFINE n == [net EXCEPT !.joined = @ \ {p}]
<1>0. HeldRight(net) /\ p \in Names
  BY HeldOf DEF Names
<1>1. HeldRight(n) /\ HeldRight(NetGone(net, p))
  BY <1>0, NetGoneRight DEF HeldRight, Held
<1>2. ByServer("KILL", p) \in Lines /\ ByServer("KICK", p) \in Lines
  BY <1>0 DEF ByServer, Line, Lines, Words
<1>3. Tells(ByServer("KILL", p), NetGone(net, p), "skill") \/ Tells(ByServer("KICK", p), n, "skick")
  BY DEF ServerKills, ServerKicks
<1> HIDE DEF n
<1>4. QED
  BY <1>1, <1>2, <1>3, TellsRight

LEMMA OrderRight ==
    ASSUME LinkInv, NEW u \in Users, NEW p \in Services, NEW cmd \in DOMAIN Speech.user, Order(cmd, u, p)
    PROVE  LinkInv'
<1>1. HeldRight(net) /\ p \in Names /\ cmd \in Words
  BY HeldOf DEF Names, People, Words
<1>2. cmd \notin {"JOIN", "QUIT", "SQUIT"}
  <2>1. Does(dialect, "user", cmd) \in Orders
    BY DEF Order
  <2>2. Tame(dialect)
    BY SpeaksTame DEF LinkInv
  <2>3. QED
    BY <2>1, <2>2 DEF Tame
<1>3. ByUser(cmd, p, u) \in Lines
  BY <1>1, <1>2, OtherLine
<1>4. Tells(ByUser(cmd, p, u), net, "order")
  BY DEF Order
<1>5. QED
  BY <1>1, <1>3, <1>4, TellsRight

LEMMA SvsNickRight ==
    ASSUME LinkInv, NEW p \in Services, SvsNick(p)
    PROVE  LinkInv'
<1>1. HeldRight(net) /\ p \in Names
  BY HeldOf DEF Names, People
<1>2. ByServer("SVSNICK", p) \in Lines
  BY <1>1 DEF ByServer, Line, Lines, Words
<1>3. Tells(ByServer("SVSNICK", p), net, "svsnick")
  BY DEF SvsNick
<1>4. QED
  BY <1>1, <1>2, <1>3, TellsRight

LEMMA ErrorOutRight == ASSUME LinkInv, ErrorOut PROVE LinkInv'
<1>1. Speech' = Speech /\ Words' = Words /\ Lines' = Lines
  BY DEF Speech, Words, Lines, ErrorOut
<1>2. HeldRight(net') /\ net' \in Held
  BY DEF ErrorOut, HeldRight, Held, Silent
<1>3. link' \in Links /\ link'.up = link.up
  BY DEF ErrorOut, LinkInv, Links
<1>4. past' \in [raised : Raises, odd : SUBSET ({"crossed", "misspoken"} \cup Lost[dialect]),
                 acts : 0..MaxActs[dialect], links : 0..MaxLinks[dialect]]
      /\ past'.raised = past.raised
  <2>1. past.acts \in 0..MaxActs[dialect] /\ past.acts < MaxActs[dialect] /\ MaxActs[dialect] \in Nat
    BY SpeaksTame DEF ErrorOut, LinkInv
  <2>2. past.acts + 1 \in 0..MaxActs[dialect]
    BY <2>1
  <2>3. QED
    BY <2>2 DEF ErrorOut, LinkInv
<1>5. WorldRight(World)'
  BY <1>2, <1>3, <1>4 DEF ErrorOut, WorldRight, World, RecordsRight, HeldRight, LinkInv
<1>6. inbox' \in Seq(Lines)
  <2> DEFINE l == Line("server", "ERROR", "", "")
  <2>1. l \in Lines
    BY DEF Line, Lines, Words, Names
  <2>2. inbox' = Append(inbox, l)
    BY DEF ErrorOut
  <2> HIDE DEF l
  <2>3. inbox \in Seq(Lines)
    BY DEF LinkInv
  <2>4. QED
    BY <2>1, <2>2, <2>3
<1>7. QED
  BY <1>1, <1>3, <1>4, <1>5, <1>6 DEF LinkInv, ErrorOut

LEMMA UplinkSyncedRight == ASSUME LinkInv, UplinkSynced PROVE LinkInv'
<1>1. Speech' = Speech /\ Words' = Words /\ Lines' = Lines
  BY DEF Speech, Words, Lines, UplinkSynced
<1>2. link' \in Links /\ link'.up = link.up
  BY DEF UplinkSynced, LinkInv, Links
<1>3. WorldRight(World)'
  BY <1>2 DEF UplinkSynced, WorldRight, World, RecordsRight, HeldRight, LinkInv
<1>4. inbox' \in Seq(Lines)
  <2>1. EndCommand \in Lines
    BY DEF EndCommand, ByServer, Line, Lines, Words, Names
  <2>2. QED
    BY <2>1 DEF UplinkSynced, LinkInv
<1>5. QED
  BY <1>1, <1>2, <1>3, <1>4 DEF LinkInv, UplinkSynced

LEMMA WorldOf == ASSUME LinkInv
    PROVE  /\ WorldRight(World) /\ dialect \in Spoken /\ inbox \in Seq(Lines)
           /\ attempts \in [n : 0..Most + 1, window : {"none", "open", "past"}]
           /\ World.ours = ours /\ World.net = net /\ ToSet(ours.list) \subseteq People
<1>1. WorldRight(World) /\ World.ours = ours /\ World.net = net
  BY DEF LinkInv, World
<1>2. ToSet(ours.list) \subseteq People
  BY <1>1, KnownPeople DEF WorldRight, RecordsRight, Records
<1>3. QED
  BY <1>1, <1>2 DEF LinkInv

\* What we do of our own accord.
LEMMA OwnRight ==
    ASSUME LinkInv, NEW p \in Services, NewClient(p) \/ DelClient(p) \/ JoinOwn(p) \/ PartOwn(p)
    PROVE  LinkInv'
<1>0. WorldRight(World) /\ dialect \in Spoken /\ World.ours = ours /\ p \in People
  BY WorldOf DEF People
<1>1. CASE NewClient(p)
  <2> DEFINE l == Append(ours.list, p)
             w == [World EXCEPT !.ours.list = Append(@, p)]
  <2>1. ours.list \in Seq(People) /\ IsInjective(ours.list) /\ p \notin ToSet(ours.list)
    BY <1>0, <1>1 DEF NewClient, Knows, WorldRight, RecordsRight, Records
  <2>2. l \in Seq(People) /\ IsInjective(l) /\ ToSet(l) = ToSet(ours.list) \cup {p}
    BY <1>0, <2>1, AddedIs
  <2>3. w = [World EXCEPT !.ours.list = l]
    BY <1>0
  <2> HIDE DEF l, w
  <2>4. WorldRight(w)
    BY <1>0, <2>2, <2>3 DEF WorldRight, RecordsRight, Records
  <2>5. WorldRight(IrcdAddUser(w, p))
    BY <1>0, <2>4, IrcdAddUserRight
  <2>6. Act(w, "late") \/ Act(IrcdAddUser(w, p), "new")
    BY <1>1 DEF NewClient, w
  <2>7. QED
    BY <2>4, <2>5, <2>6, ActRight
<1>2. CASE DelClient(p)
  <2>1. p # Guardian
    BY <1>2, PeopleAssumption DEF DelClient
  <2>2. WorldRight(ExitUser(World, p))
    BY <1>0, <2>1, ExitUserRight
  <2>3. Act(ExitUser(World, p), "own quit")
    BY <1>2 DEF DelClient
  <2>4. QED
    BY <2>2, <2>3, ActRight
<1>3. CASE JoinOwn(p)
  <2>1. p \in ToSet(World.ours.list)
    BY <1>3 DEF JoinOwn, Knows
  <2>2. WorldRight(AddToChannelU(World, p))
    BY <1>0, <2>1, AddToChannelRight
  <2>3. QED
    BY <1>3, <2>2, ActRight DEF JoinOwn
<1>4. CASE PartOwn(p)
  <2> DEFINE w == IF ours.sync = "IS_CON" THEN IrcdPart(World, p) ELSE World
             k == IF ours.sync = "IS_CON" THEN "own part" ELSE "burst part"
  <2>1. WorldRight(w)
    BY <1>0, IrcdPartRight
  <2>2. Act(DelFromChannel(w, p), k)
    BY <1>4 DEF PartOwn
  <2> HIDE DEF w, k
  <2>3. WorldRight(DelFromChannel(w, p))
    BY <2>1, DelFromChannelRight
  <2>4. QED
    BY <2>2, <2>3, ActRight
<1>5. QED
  BY <1>1, <1>2, <1>3, <1>4

LEMMA KillRight == ASSUME LinkInv, NEW u \in Users, Kill(u) PROVE LinkInv'
<1> DEFINE w == IrcdKill(World, u)
<1>1. WorldRight(w)
  BY WorldOf, IrcdKillRight
<1>2. Act(ExitUser(w, u), "own kill") /\ u # Guardian
  BY PeopleAssumption DEF Kill
<1> HIDE DEF w
<1>3. WorldRight(ExitUser(w, u))
  BY <1>1, <1>2, ExitUserRight
<1>4. QED
  BY <1>2, <1>3, ActRight

LEMMA EvPingRight == ASSUME LinkInv, EvPing PROVE LinkInv'
<1>0. WorldRight(World) /\ inbox \in Seq(Lines) /\ attempts \in [n : 0..Most + 1, window : {"none", "open", "past"}]
      /\ link.up /\ UNCHANGED <<dialect, link, attempts>>
  BY WorldOf DEF EvPing
<1>1. CASE ours.uplink = "freed"
  <2>1. "uplink" \in Ends[dialect]
    BY <1>0, <1>1, WorldOf DEF WorldRight, RecordsRight
  <2>2. WorldRight(Faulty(World, "uplink"))
    BY <1>0, <2>1, FaultyRight
  <2>3. Becomes(Faulty(World, "uplink"), inbox, {})
    BY <1>1 DEF EvPing
  <2>4. QED
    BY <1>0, <2>2, <2>3, BecomesRight
<1>2. CASE ours.uplink # "freed"
  <2>1. Becomes(Pings(World), inbox, ChangedThere(Pings(World)))
    BY <1>2 DEF EvPing
  <2>2. WorldRight(Pings(World))
    BY <1>0, PingsRight
  <2>3. QED
    BY <1>0, <2>1, <2>2, BecomesRight
<1>3. QED
  BY <1>1, <1>2

LEMMA LaterRight == ASSUME LinkInv, Later PROVE LinkInv'
<1>1. Speech' = Speech /\ Words' = Words /\ Lines' = Lines
  BY DEF Speech, Words, Lines, Later
<1>2. attempts' \in [n : 0..Most + 1, window : {"none", "open", "past"}]
  BY DEF Later, LinkInv
<1>3. WorldRight(World)'
  BY DEF Later, WorldRight, World, RecordsRight, HeldRight, LinkInv
<1>4. QED
  BY <1>1, <1>2, <1>3 DEF LinkInv, Later

\* What the rules of Lines and the tables of the dialect say of the line we hear.
LEMMA HeadRight ==
    ASSUME LinkInv, NEW e, Hears(e)
    PROVE  /\ inbox # <<>> /\ link.up /\ Head1 \in Lines /\ Head1.who \in Names
           /\ Effect = "add" => Head1.who \in Users
           /\ Effect = "enter" => Head1.who \in Users /\ Head1.who \in ToSet(ours.list)
           /\ Effect = "exit" /\ dialect \in {"unreal32", "bahamut"} => Head1.who # Guardian
           /\ Effect = "null" \/ Effect = "pass ts6" => "argv" \in Ends[dialect]
           /\ Effect = "rehash" => "guardian" \in Ends[dialect] \/ dialect \in {"unreal32", "bahamut"}
           /\ Effect = "error" \/ Effect = "server first" => "uplink" \in Ends[dialect]
           /\ Effect = "bring back" \/ Effect = "count and bring back" => dialect = "unreal32"
           /\ dialect = "unreal32" => "exit" \in Ends[dialect]
<1> DEFINE s == Head1.src
           c == Head1.cmd
<1>1. inbox # <<>> /\ link.up /\ Head1 \in Lines
  BY DEF Hears, LinkInv, Head1
<1>2. s \in {"server", "user"} /\ Head1.who \in Names
  BY <1>1 DEF Lines
<1>3. /\ s = "server" /\ c \in {"NICK", "UID"} => Head1.who \in Users
      /\ s = "user" /\ c \in {"JOIN", "QUIT"} => Head1.who \in Users /\ Head1.by = Head1.who
      /\ c # "SQUIT"
  BY <1>1 DEF Lines
<1>4. Tame(dialect)
  BY SpeaksTame DEF LinkInv
<1>5. Effect = "none" \/ (PrefixKnown /\ Effect = Does(dialect, s, c))
  BY DEF Effect
<1> HIDE DEF s, c
<1>6. Effect = "add" => Head1.who \in Users
  <2>1. Does(dialect, s, c) = "add" => s = "server" /\ c \in {"NICK", "UID"}
    BY <1>2, <1>4 DEF Tame
  <2>2. QED
    BY <1>3, <1>5, <2>1
<1>7. Effect = "enter" => Head1.who \in Users /\ Head1.who \in ToSet(ours.list)
  <2>1. Does(dialect, s, c) = "enter" => s = "user" /\ c = "JOIN"
    BY <1>2, <1>4 DEF Tame
  <2>2. Head1.by \in Users /\ PrefixKnown => Head1.by \in ToSet(ours.list)
    BY PeopleAssumption DEF PrefixKnown, Knows, World
  <2>3. QED
    BY <1>3, <1>5, <2>1, <2>2
<1>8. Effect = "exit" /\ dialect \in {"unreal32", "bahamut"} => Head1.who # Guardian
  <2>1. Does(dialect, s, c) = "exit" /\ dialect \in {"unreal32", "bahamut"} => c = "SQUIT" \/ (s = "user" /\ c = "QUIT")
    BY <1>2, <1>4 DEF Tame
  <2>2. Guardian \notin Users
    BY PeopleAssumption
  <2>3. QED
    BY <1>3, <1>5, <2>1, <2>2
<1>9. Effect = "null" \/ Effect = "pass ts6" => "argv" \in Ends[dialect]
  BY <1>2, <1>4, <1>5 DEF Tame
<1>10. Effect = "rehash" => "guardian" \in Ends[dialect] \/ dialect \in {"unreal32", "bahamut"}
  BY <1>2, <1>4, <1>5 DEF Tame
<1>11. Effect = "error" \/ Effect = "server first" => "uplink" \in Ends[dialect]
  BY <1>2, <1>4, <1>5 DEF Tame
<1>12. Effect = "bring back" \/ Effect = "count and bring back" => dialect = "unreal32"
  BY <1>2, <1>4, <1>5 DEF Tame
<1>13. dialect = "unreal32" => "exit" \in Ends[dialect]
  BY <1>4 DEF Tame
<1>14. QED
  BY <1>1, <1>2, <1>6, <1>7, <1>8, <1>9, <1>10, <1>11, <1>12, <1>13

LEMMA HearUserRight == ASSUME LinkInv, HearUser PROVE LinkInv'
<1> DEFINE p == Head1.who
           l == Append(ours.list, p)
           w1 == [World EXCEPT !.ours.list = Append(@, p), !.ours.opers = @ \cup {q \in {p} : Head1.oper}]
           w2 == [World EXCEPT !.ours.named = @ \cup {p}]
           w3 == [World EXCEPT !.ours.opers = @ \cup {p}]
           w == CASE Effect = "add" /\ ~Knows(World, p) -> w1
                  [] Effect = "rename" -> w2
                  [] Effect = "mode" -> w3
                  [] Effect = "exit" /\ Knows(World, p) -> ExitUser(World, p)
                  [] OTHER -> World
<1>1. Heard(w)
  BY DEF HearUser
<1>2. WorldRight(World) /\ World.ours = ours
  BY WorldOf
<1>3. /\ inbox # <<>> /\ p \in Names /\ (Effect = "add" => p \in People)
      /\ Effect = "exit" /\ dialect \in {"unreal32", "bahamut"} => p # Guardian
  <2>1. inbox # <<>> /\ p \in Names /\ (Effect = "add" => p \in Users)
    BY HeadRight DEF HearUser
  <2>2. Effect = "exit" /\ dialect \in {"unreal32", "bahamut"} => p # Guardian
    BY HeadRight DEF HearUser
  <2>3. QED
    BY <2>1, <2>2 DEF People
<1>4. ASSUME Effect = "add", ~Knows(World, p) PROVE WorldRight(w1)
  <2>1. ours.list \in Seq(People) /\ IsInjective(ours.list) /\ p \notin ToSet(ours.list) /\ p \in People
    BY <1>2, <1>3, <1>4 DEF Knows, WorldRight, RecordsRight, Records
  <2>2. l \in Seq(People) /\ IsInjective(l) /\ ToSet(l) = ToSet(ours.list) \cup {p}
    BY <2>1, AddedIs
  <2> DEFINE op == {q \in {p} : Head1.oper}
  <2>3. w1 = [World EXCEPT !.ours.list = l, !.ours.opers = @ \cup op]
    BY <1>2
  <2>4. op \subseteq Names
    BY <1>3
  <2> HIDE DEF l, w1, op
  <2>5. QED
    BY <1>2, <2>2, <2>3, <2>4 DEF WorldRight, RecordsRight, Records
<1>5. WorldRight(w2)
  <2> HIDE DEF p
  <2>1. QED
    BY <1>2, <1>3 DEF WorldRight, RecordsRight, Records
<1>6. WorldRight(w3)
  <2> HIDE DEF p
  <2>1. QED
    BY <1>2, <1>3 DEF WorldRight, RecordsRight, Records
<1>7. ASSUME Effect = "exit" PROVE WorldRight(ExitUser(World, p))
  BY <1>2, <1>3, <1>7, ExitUserRight
<1> HIDE DEF p, w1, w2, w3
<1>8. WorldRight(w)
  BY <1>2, <1>4, <1>5, <1>6, <1>7
<1> HIDE DEF w
<1>9. QED
  BY <1>1, <1>3, <1>8, HeardRight

LEMMA HearMemberRight == ASSUME LinkInv, HearMember PROVE LinkInv'
<1> DEFINE p == Head1.who
           w1 == [World EXCEPT !.ours.chan = TRUE]
           w2 == [w1 EXCEPT !.ours.joined = @ \cup {p}]
           w == CASE Effect = "chan" -> w1
                  [] Effect = "sjoin" -> IF Knows(w1, p) THEN w2 ELSE w1
                  [] Effect = "enter" /\ ours.chan -> AddToChannelU(World, p)
                  [] Effect = "part" -> DelFromChannel(World, p)
                  [] Effect = "kick" -> KickFromChannel(World, p)
                  [] OTHER -> World
<1>1. Heard(w)
  BY DEF HearMember
<1>2. WorldRight(World) /\ World.ours = ours /\ ToSet(ours.list) \subseteq People
  BY WorldOf
<1>3. inbox # <<>> /\ (Effect = "enter" => p \in ToSet(World.ours.list))
  BY <1>2, HeadRight DEF HearMember
<1> HIDE DEF p
<1>4. WorldRight(w1) /\ w1.ours.list = ours.list
  BY <1>2 DEF WorldRight, RecordsRight, Records
<1> HIDE DEF w1
<1>5. Knows(w1, p) => WorldRight(w2)
  BY <1>2, <1>4 DEF Knows, WorldRight, RecordsRight, Records
<1> HIDE DEF w2
<1>6. Effect = "enter" => WorldRight(AddToChannelU(World, p))
  BY <1>2, <1>3, AddToChannelRight
<1>7. WorldRight(DelFromChannel(World, p)) /\ WorldRight(KickFromChannel(World, p))
  BY <1>2, DelFromChannelRight, KickFromChannelRight
<1>8. WorldRight(w)
  BY <1>2, <1>4, <1>5, <1>6, <1>7
<1> HIDE DEF w
<1>9. QED
  BY <1>1, <1>3, <1>8, HeardRight

LEMMA HearOrderRight == ASSUME LinkInv, HearOrder PROVE LinkInv'
<1> DEFINE p == Head1.who
           v == AddToChannelU(World, p)
           allowed == Knows(World, p) /\ (Effect # "enter quietly" => ours.chan)
                      /\ (Effect \in {"invite", "invite quietly"} => Head1.by \in ours.opers)
           w1 == [World EXCEPT !.ours.named = @ \cup {p}]
           parted == DelFromChannel(World, p)
           n == [net EXCEPT !.joined = @ \ {p}]
           w == CASE Effect = "set nick" /\ Knows(World, p) -> w1
                  [] Effect \in {"force join", "invite"} /\ allowed -> IrcdJoin(v, p)
                  [] Effect \in {"invite quietly", "enter quietly"} /\ allowed -> v
                  [] Effect = "force part" /\ allowed -> Sent(parted, n)
                  [] OTHER -> World
<1>1. Obeyed(w)
  BY DEF HearOrder
<1>2. WorldRight(World) /\ World.ours = ours /\ HeldRight(net)
  BY WorldOf, HeldOf
<1>3. inbox # <<>> /\ p \in Names
  BY HeadRight DEF HearOrder
<1> HIDE DEF p
<1>4. WorldRight(w1)
  BY <1>2, <1>3 DEF WorldRight, RecordsRight, Records
<1>5. allowed => WorldRight(v)
  BY <1>2, AddToChannelRight DEF Knows
<1>6. HeldRight(n)
  BY <1>2 DEF HeldRight, Held
<1> HIDE DEF w1, v, n
<1>7. allowed => WorldRight(IrcdJoin(v, p))
  BY <1>5, IrcdJoinRight
<1>8. WorldRight(parted)
  BY <1>2, DelFromChannelRight
<1> HIDE DEF parted, allowed
<1>9. WorldRight(Sent(parted, n))
  BY <1>6, <1>8, SentRight
<1>10. WorldRight(w)
  BY <1>2, <1>4, <1>5, <1>7, <1>9
<1> HIDE DEF w
<1>11. QED
  BY <1>1, <1>3, <1>10, HeardRight

LEMMA HearLinkRight ==
    ASSUME LinkInv, HearNothing \/ HearRehash \/ HearJoinZero \/ HearPass \/ HearServer \/ HearEnd \/ HearKill
    PROVE  LinkInv'
<1>0. WorldRight(World) /\ World.ours = ours /\ dialect \in Spoken
  BY WorldOf
<1>1. CASE HearNothing
  BY <1>0, <1>1, HeadRight, HeardRight DEF HearNothing
<1>2. CASE HearRehash
  <2> DEFINE w == IF Knows(World, Guardian) THEN World ELSE Faulty(World, "guardian")
  <2>1. inbox # <<>> /\ ("guardian" \in Ends[dialect] \/ dialect \in {"unreal32", "bahamut"})
    BY <1>2, HeadRight DEF HearRehash, Hears
  <2>2. WorldRight(w)
    BY <1>0, <2>1, FaultyRight DEF WorldRight, RecordsRight, Knows
  <2>3. Heard(w)
    BY <1>2 DEF HearRehash
  <2> HIDE DEF w
  <2>4. QED
    BY <2>1, <2>2, <2>3, HeardRight
<1>3. CASE HearJoinZero
  <2>1. inbox # <<>> /\ "argv" \in Ends[dialect]
    BY <1>3, HeadRight DEF HearJoinZero, Hears
  <2>2. WorldRight(Faulty(World, "argv"))
    BY <1>0, <2>1, FaultyRight
  <2>3. QED
    BY <1>3, <2>1, <2>2, HeardRight DEF HearJoinZero
<1>4. CASE HearPass
  <2> DEFINE w1 == [World EXCEPT !.ours.sid = IF @ = "" THEN link.peer ELSE @]
             w2 == [World EXCEPT !.ours.ts6 = FALSE]
             w == IF link.peer \notin Old THEN w1 ELSE IF Effect = "pass ts6" THEN Faulty(World, "argv") ELSE w2
  <2>1. inbox # <<>> /\ (Effect = "pass ts6" => "argv" \in Ends[dialect])
    BY <1>4, HeadRight DEF HearPass, Hears
  <2>2. link.peer \in Peers \cup {""}
    BY DEF LinkInv, Links
  <2> DEFINE i == IF ours.sid = "" THEN link.peer ELSE ours.sid
  <2>3. WorldRight(w1) /\ WorldRight(w2)
    <3>1. i \in Peers \cup {""}
      BY <1>0, <2>2 DEF WorldRight, RecordsRight, Records
    <3>2. w1 = [World EXCEPT !.ours.sid = i]
      BY <1>0
    <3> HIDE DEF i, w1
    <3>3. WorldRight(w1)
      BY <1>0, <3>1, <3>2 DEF WorldRight, RecordsRight, Records
    <3>4. WorldRight(w2)
      <4> DEFINE no == FALSE
      <4>1. no \in BOOLEAN /\ w2 = [World EXCEPT !.ours.ts6 = no]
        OBVIOUS
      <4> HIDE DEF no, w2
      <4>2. QED
        BY <1>0, <4>1 DEF WorldRight, RecordsRight, Records
    <3>5. QED
      BY <3>3, <3>4
  <2>4. Heard(w)
    BY <1>4 DEF HearPass
  <2> HIDE DEF w1, w2
  <2>5. WorldRight(w)
    BY <1>0, <2>1, <2>3, FaultyRight
  <2> HIDE DEF w
  <2>6. QED
    BY <2>1, <2>4, <2>5, HeardRight
<1>5. CASE HearServer
  <2> DEFINE i == IF Effect = "server first" THEN link.peer ELSE ours.sid
             w1 == [World EXCEPT !.ours.uplink = "live", !.ours.its = i]
             w == IF Effect = "server first" /\ ours.uplink = "freed" THEN Faulty(World, "uplink") ELSE w1
  <2>1. inbox # <<>> /\ (Effect = "server first" => "uplink" \in Ends[dialect])
    BY <1>5, HeadRight DEF HearServer, Hears
  <2>2. i \in Peers \cup {""}
    BY <1>0 DEF LinkInv, Links, WorldRight, RecordsRight, Records
  <2>3. Heard(w)
    BY <1>5 DEF HearServer
  <2> HIDE DEF i
  <2>4. WorldRight(w1)
    BY <1>0, <2>2 DEF WorldRight, RecordsRight, Records
  <2> HIDE DEF w1
  <2>5. WorldRight(w)
    BY <1>0, <2>1, <2>4, FaultyRight
  <2> HIDE DEF w
  <2>6. QED
    BY <2>1, <2>3, <2>5, HeardRight
<1>6. CASE HearEnd
  <2> DEFINE w == CASE Effect = "ircd_ping" -> Pings(World)
                    [] Effect = "end" /\ Bursts(World) -> EndBurst(World)
                    [] OTHER -> World
  <2>1. inbox # <<>> /\ link.up
    BY <1>6, HeadRight DEF HearEnd
  <2>2. WorldRight(Pings(World)) /\ (Bursts(World) => WorldRight(EndBurst(World)))
    BY <1>0, <2>1, PingsRight, EndBurstRight
  <2>3. WorldRight(w)
    BY <1>0, <2>2
  <2>4. Heard(w)
    BY <1>6 DEF HearEnd
  <2> HIDE DEF w
  <2>5. QED
    BY <2>1, <2>3, <2>4, HeardRight
<1>7. CASE HearKill
  <2>1. WorldRight(BringBack(World, Head1.who))
    BY <1>0, BringBackRight
  <2>2. QED
    BY <1>7, <2>1, HeadRight, HeardRight DEF HearKill
<1>8. QED
  BY <1>1, <1>2, <1>3, <1>4, <1>5, <1>6, <1>7

LEMMA HearCountedRight == ASSUME LinkInv, HearCounted PROVE LinkInv'
<1>0. /\ WorldRight(World) /\ dialect \in Spoken /\ inbox \in Seq(Lines)
      /\ attempts \in [n : 0..Most + 1, window : {"none", "open", "past"}] /\ Most \in Nat
  BY WorldOf, LimitsAreNat
<1>1. inbox # <<>> /\ "exit" \in Ends[dialect]
  BY HeadRight DEF HearCounted, Hears
<1>2. Tail(inbox) \in Seq(Lines) /\ UNCHANGED <<dialect, link>>
  <2>1. Tail(inbox) \in Seq(Lines)
    BY <1>0, <1>1
  <2>2. QED
    BY <2>1 DEF HearCounted
<1>3. CASE attempts.n <= Most
  <2> DEFINE b == BringBack(World, Head1.who)
  <2>1. WorldRight(b)
    BY <1>0, BringBackRight
  <2>2. Becomes(b, Tail(inbox), ChangedThere(b)) /\ attempts' = Counted
    BY <1>3 DEF HearCounted
  <2>3. attempts' \in [n : 0..Most + 1, window : {"none", "open", "past"}]
    BY <1>0, <1>3, <2>2 DEF Counted
  <2> HIDE DEF b
  <2>4. QED
    BY <1>2, <2>1, <2>2, <2>3, BecomesRight
<1>4. CASE ~(attempts.n <= Most)
  <2>1. Becomes(Faulty(World, "exit"), Tail(inbox), {}) /\ attempts' = attempts
    BY <1>4 DEF HearCounted
  <2>2. WorldRight(Faulty(World, "exit"))
    BY <1>0, <1>1, FaultyRight
  <2>3. QED
    BY <1>0, <1>2, <2>1, <2>2, BecomesRight
<1>5. QED
  BY <1>3, <1>4

-----------------------------------------------------------------------------

\* Every step of a link keeps it right.
LEMMA LinkStep == LinkInv /\ [NextLink]_linkVars => LinkInv'
<1> SUFFICES ASSUME LinkInv, [NextLink]_linkVars PROVE LinkInv'
  OBVIOUS
<1>1. CASE \E peer \in Peers, here \in SUBSET Users : \E on, opers \in SUBSET here : Connect(peer, here, on, opers)
  BY <1>1, ConnectRight
<1>2. CASE LoseLink \/ EvPing \/ EvPingCuts \/ Later
  BY <1>2, LoseLinkRight, EvPingRight, LaterRight DEF EvPingCuts
<1>3. CASE \E p \in Services : NewClient(p) \/ DelClient(p) \/ JoinOwn(p) \/ PartOwn(p)
  BY <1>3, OwnRight
<1>4. CASE \E u \in Users : Kill(u)
  BY <1>4, KillRight
<1>5. CASE Ircd
  <2>1. CASE \E u \in Users : Intro(u) \/ Enter(u) \/ Part(u) \/ JoinZero(u) \/ Quit(u) \/ Rename(u) \/ Oper(u) \/ Rehash(u)
    BY <2>1, PersonRight
  <2>2. CASE \/ \E u \in Users, p \in People : OperKills(u, p) \/ UserKicks(u, p)
             \/ \E p \in People : ServerKills(p) \/ ServerKicks(p)
    BY <2>2, RemovalRight, ServerRemovalRight
  <2>3. CASE \E u \in Users, p \in Services, cmd \in DOMAIN Speech.user : Order(cmd, u, p)
    BY <2>3, OrderRight
  <2>4. CASE \E p \in Services : SvsNick(p)
    BY <2>4, SvsNickRight
  <2>5. CASE ErrorOut
    BY <2>5, ErrorOutRight
  <2>6. QED
    BY <1>5, <2>1, <2>2, <2>3, <2>4, <2>5 DEF Ircd
<1>6. CASE UplinkSynced
  BY <1>6, UplinkSyncedRight
<1>7. CASE Hear
  BY <1>7, HearLinkRight, HearUserRight, HearMemberRight, HearOrderRight, HearErrorRight,
     HearCountedRight DEF Hear
<1>8. CASE UNCHANGED linkVars
  <2>1. Speech' = Speech /\ Words' = Words /\ Lines' = Lines
    BY <1>8 DEF Speech, Words, Lines, linkVars
  <2>2. WorldRight(World)'
    BY <1>8 DEF linkVars, WorldRight, World, RecordsRight, HeldRight, LinkInv
  <2>3. QED
    BY <1>8, <2>1, <2>2 DEF LinkInv, linkVars
<1>9. QED
  BY <1>1, <1>2, <1>3, <1>4, <1>5, <1>6, <1>7, <1>8 DEF NextLink

LEMMA LinkAlways == LinkSpec => []LinkInv
  BY LinkInit, LinkStep, PTL DEF LinkSpec

\* A link raises CONNECT and BURST once each; the process ends only in the ways
\* of its dialect; where a killed Guardian is brought back, or a kill is not
\* heard, s_Guardian never dangles (ircd_connect, omega_ping, the handlers of
\* protocol/), whatever users, opers and servers say, in however many links.
THEOREM LinkRightHolds == LinkSpec => []LinkRight
<1>1. LinkInv => LinkRight
  BY DEF LinkInv, WorldRight, World, RecordsRight, LinkRight, BurstOnce, EndsOnlySo, GuardianKept, Knows,
     Bursts, Raising
<1>2. QED
  BY <1>1, LinkAlways, PTL

\* The types of a link, with who is in the channel among those who are there.
THEOREM LinkTypeOKHolds == LinkSpec => []LinkTypeOK
<1>1. LinkInv => LinkTypeOK
  <2> SUFFICES ASSUME LinkInv PROVE LinkTypeOK
    OBVIOUS
  <2>1. ToSet(ours.list) \subseteq People /\ ours.joined \subseteq ToSet(ours.list)
    BY WorldOf DEF WorldRight, RecordsRight
  <2>2. /\ ours.sync \in {"STARTUP", "BURSTING", "IS_CON"} /\ ours.uplink \in {"NULL", "live", "freed"}
        /\ ours.sid \in Peers \cup {""} /\ ours.its \in Peers \cup {""}
    BY WorldOf DEF WorldRight, RecordsRight, Records
  <2>3. net.joined \cup net.named \cup net.opers \subseteq net.there
    BY HeldOf DEF HeldRight
  <2>4. link.peer \in Peers \cup {""}
    BY DEF LinkInv, Links
  <2>5. /\ past.acts \in 0..MaxActs[dialect] /\ past.links \in 0..MaxLinks[dialect]
        /\ attempts.n \in 0..Most + 1 /\ dialect \in Spoken
    BY DEF LinkInv
  <2>6. QED
    BY <2>1, <2>2, <2>3, <2>4, <2>5 DEF LinkTypeOK
<1>2. QED
  BY <1>1, LinkAlways, PTL

\* Our users keep their channels over the loss of a link (uplink_cleanup, which
\* removes the users of the network one by one): only the ERROR of the inspircd
\* modules empties them.
THEOREM ChannelsKeptHolds == LinkSpec => ChannelsKept
<1> DEFINE Kept == link.up /\ ~link'.up /\ Speech.form # "uid" => ours'.joined = ours.joined \cap Services
<1>1. LinkInv /\ [NextLink]_linkVars => [Kept]_linkVars
  <2> SUFFICES ASSUME LinkInv, NextLink, link.up, ~link'.up, Speech.form # "uid"
               PROVE  ours'.joined = ours.joined \cap Services
    BY DEF Kept
  <2>1. /\ ~\E peer \in Peers, here \in SUBSET Users : \E on, opers \in SUBSET here : Connect(peer, here, on, opers)
        /\ ~EvPing /\ ~Later
        /\ ~\E p \in Services : NewClient(p) \/ DelClient(p) \/ JoinOwn(p) \/ PartOwn(p)
        /\ ~\E u \in Users : Kill(u)
    <3>1. ~\E peer \in Peers, here \in SUBSET Users : \E on, opers \in SUBSET here : Connect(peer, here, on, opers)
      BY DEF Connect
    <3>2. ~EvPing /\ ~Later
      BY DEF EvPing, Later
    <3>3. \A w, kind : ~Act(w, kind)
      BY DEF Act
    <3>4. QED
      BY <3>1, <3>2, <3>3 DEF NewClient, DelClient, JoinOwn, PartOwn, Kill
  <2>2. CASE Ircd \/ UplinkSynced
    BY <2>2 DEF LinkInv, Links, UplinkSynced, Ircd, Intro, Enter, Part, JoinZero, Quit, Rename, Oper,
       Rehash,
       OperKills, UserKicks, ServerKills, ServerKicks, Order, SvsNick, ErrorOut, Tells
  <2>3. CASE Hear
    <3>1. CASE HearError
      BY <3>1, HearErrorRight
    <3>2. CASE ~HearError
      BY <2>3, <3>2 DEF Hear, HearNothing, HearUser, HearMember, HearOrder, HearRehash, HearJoinZero,
         HearPass,
         HearServer, HearEnd, HearKill, HearCounted, Heard, Obeyed
    <3>3. QED
      BY <3>1, <3>2
  <2>4. CASE LoseLink \/ EvPingCuts
    BY <2>4, LoseLinkRight DEF EvPingCuts
  <2>5. QED
    BY <2>1, <2>2, <2>3, <2>4 DEF NextLink
<1>2. QED
  BY <1>1, LinkAlways, PTL DEF LinkSpec, ChannelsKept
=============================================================================
