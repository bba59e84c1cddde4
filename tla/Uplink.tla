------------------------------- MODULE Uplink -------------------------------
(***************************************************************************)
(* The socket to the IRC server: send_line with its queue of unsent rests, *)
(* the line reader, the loss of the link and the timer that connects again *)
(* (socketengine.c, eventhandler.c).                                       *)
(*                                                                         *)
(* A line is two bytes: a first one, and the one that ends it.  The byte   *)
(* <<l, 2>> ends the line l we send, and <<c, i>> is the i-th byte of what *)
(* the peer says on the c-th connection, which ends a line when i is even. *)
(* Descriptors matter, because the queue remembers the number of the       *)
(* descriptor a line was meant for, not the connection.                    *)
(***************************************************************************)
EXTENDS Integers, Sequences, SequencesExt, FiniteSetsExt

CONSTANTS
    Fds,       \* descriptor numbers socket() may return
    NoFd,      \* servsock->sd = -1
    Outcomes,  \* what write may do besides writing everything
    MaxConn,   \* bound: connections made
    MaxLine,   \* bound: lines sent besides the first of each connection
    MaxHear    \* bound: bytes the peer sends on one connection

ASSUME FdsAreNumbers   == Fds \subseteq Nat /\ NoFd \notin Fds
ASSUME OutcomesOfWrite == Outcomes \subseteq {"some", "again", "error"}
ASSUME BoundsAreNat    == {MaxConn, MaxLine, MaxHear} \subseteq Nat

VARIABLES
    sd,      \* servsock->sd
    sendq,   \* servsock->sendq: what is left of lines, with their descriptor
    timers,  \* how many "Connect Uplink" timers there are
    failed,  \* the last Connect returned -1
    mode,    \* where the main loop is: "boot", "idle", "read", "parse"
    greet,   \* ircd_connect has not sent its first line yet
    buf,     \* servsock->read_buffer: the start of a line
    lines,   \* servsock->mbuffer: whole lines to parse
    other,   \* descriptors other sockets hold
    \* What happened, for the properties:
    conn,    \* connections made so far
    next,    \* lines handed to send_line so far
    wire,    \* bytes written to the present connection
    left,    \* bytes the queue held for its descriptor when it was made
    said,    \* bytes of the lines send_line took since then
    told,    \* bytes the peer has sent on it
    read     \* bytes of those we have read

sendVars == <<sendq, next, wire, left, said>>
readVars == <<buf, lines, told, read>>
vars == <<sd, timers, failed, mode, greet, other, conn, sendVars, readVars>>

Byte == Nat \X Nat
Entry == [line : Nat, pos : {0, 1}, fd : Fds]

TypeOK ==
    /\ sd \in Fds \cup {NoFd}
    /\ sendq \in Seq(Entry)
    /\ timers \in Nat
    /\ failed \in BOOLEAN /\ greet \in BOOLEAN
    /\ mode \in {"boot", "idle", "read", "parse"}
    /\ buf \in Seq(Byte) /\ lines \in Seq(Seq(Byte))
    /\ other \in SUBSET Fds
    /\ conn \in Nat /\ next \in Nat /\ told \in Nat /\ read \in 0..told
    /\ wire \in Seq(Byte) /\ left \in Seq(Byte) /\ said \in Seq(Byte)

Init ==
    /\ sd = NoFd /\ sendq = <<>> /\ timers = 0 /\ failed = FALSE
    /\ mode = "boot" /\ greet = FALSE
    /\ buf = <<>> /\ lines = <<>> /\ other = {}
    /\ conn = 0 /\ next = 0 /\ told = 0 /\ read = 0
    /\ wire = <<>> /\ left = <<>> /\ said = <<>>

Up == sd # NoFd

LineBytes(l) == <<<<l, 1>>, <<l, 2>>>>

\* What an entry of the queue still has to write: sq->len bytes from sq->pos.
Rest(e) == SubSeq(LineBytes(e.line), e.pos + 1, 2)

\* What a queue still has to write to the descriptor fd.
Bytes(fd, q) == FlattenSeq([i \in 1..Len(q) |-> IF q[i].fd = fd THEN Rest(q[i]) ELSE <<>>])

\* socket() returns the lowest free descriptor.
Free == Fds \ (other \cup {sd})
Lowest == CHOOSE f \in Free : \A g \in Free : f <= g

-----------------------------------------------------------------------------
(* Losing and making the connection *)

\* A wrong variant of Lose: the timer is forgotten.
LoseUnarmed ==
    /\ sd' = NoFd
    /\ wire' = <<>> /\ left' = <<>> /\ said' = <<>>
    /\ UNCHANGED timers

\* uplink_cleanup and the AddTimedEvent that follows it wherever it is
\* called on an error.  Queue and buffers stay as they are.
Lose ==
    /\ sd' = NoFd
    /\ timers' = timers + 1
    /\ wire' = <<>> /\ left' = <<>> /\ said' = <<>>

\* Connect: a new socket, or -1.  Both count as success to the callers, which
\* enter ircd_connect; without a socket its lines go nowhere.
Connected ==
    \/ /\ conn < MaxConn /\ Free # {}
       /\ sd' = Lowest
       /\ conn' = conn + 1
       /\ failed' = FALSE /\ greet' = TRUE
       /\ left' = Bytes(Lowest, sendq)
       /\ told' = 0 /\ read' = 0
    \/ /\ failed' = TRUE
       /\ UNCHANGED <<sd, conn, greet, left, told, read>>

\* Run (main.c): the first attempt.
Boot ==
    /\ mode = "boot"
    /\ mode' = "idle"
    /\ Connected
    /\ UNCHANGED <<timers, other, sendq, next, wire, said, buf, lines>>

\* A wrong variant of ConnectUplink: the timer stays.
ConnectUplinkKeeps ==
    /\ mode = "idle" /\ ~Up /\ timers > 0
    /\ Connected
    /\ UNCHANGED <<timers, mode, other, sendq, next, wire, said, buf, lines>>

\* ev_connectuplink: the timer is deleted before ircd_connect runs.
ConnectUplink ==
    /\ mode = "idle" /\ ~Up /\ timers > 0
    /\ timers' = timers - 1
    /\ Connected
    /\ UNCHANGED <<mode, other, sendq, next, wire, said, buf, lines>>

\* Other sockets come and go (statistics, blacklists): they take descriptors.
OtherOpen ==
    /\ mode = "idle" /\ ~greet
    /\ Free # {}
    /\ other' = other \cup {Lowest}
    /\ UNCHANGED <<sd, timers, failed, mode, greet, conn, sendVars, readVars>>

OtherClose(f) ==
    /\ mode = "idle" /\ ~greet
    /\ f \in other
    /\ other' = other \ {f}
    /\ UNCHANGED <<sd, timers, failed, mode, greet, conn, sendVars, readVars>>

-----------------------------------------------------------------------------
(* Sending *)

\* A write to a descriptor nobody holds fails with EBADF.
Writable(e) == e.fd = sd \/ e.fd \in other

\* sendq_flush, for every way the writes may go: k entries are written whole,
\* then the queue is empty, or a write takes one byte of two, or would block,
\* or fails.  `out' is what reaches our connection, `rest' what stays.
Flushes ==
    LET n == Len(sendq)
        Out(k) == Bytes(sd, SubSeq(sendq, 1, k))
        Tail1(k) == SubSeq(sendq, k + 1, n)
        Whole == {k \in 0..n : \A i \in 1..k : Writable(sendq[i])}
        Stopped == {k \in Whole : k < n}
        Half(k) == [sendq[k + 1] EXCEPT !.pos = 1]
    IN  {[res |-> "done", out |-> Out(n), rest |-> <<>>] : k \in Whole \cap {n}}
        \cup
        {[res |-> "wait",
          out |-> Out(k) \o (IF sendq[k + 1].fd = sd
                             THEN <<Head(Rest(sendq[k + 1]))>> ELSE <<>>),
          rest |-> <<Half(k)>> \o SubSeq(sendq, k + 2, n)] :
            k \in {k \in Stopped : /\ "some" \in Outcomes
                                   /\ sendq[k + 1].pos = 0
                                   /\ Writable(sendq[k + 1])}}
        \cup
        {[res |-> "wait", out |-> Out(k), rest |-> Tail1(k)] :
            k \in {k \in Stopped : "again" \in Outcomes /\ Writable(sendq[k + 1])}}
        \cup
        {[res |-> "error", out |-> Out(k), rest |-> Tail1(k)] :
            k \in {k \in Stopped : "error" \in Outcomes \/ ~Writable(sendq[k + 1])}}

\* send_line takes a line: `out' is written and q is the queue after it.
Take(out, q) ==
    /\ wire' = wire \o out
    /\ sendq' = q
    /\ said' = said \o LineBytes(next + 1)
    /\ UNCHANGED <<sd, timers, left>>

\* A wrong variant of Unsent: the rest is queued from the start of the line.
UnsentWhole(l, n) ==
    IF n = 2 THEN <<>> ELSE <<[line |-> l, pos |-> 0, fd |-> sd]>>

\* What sendq_add appends: the rest of line l after n bytes.
Unsent(l, n) == IF n = 2 THEN <<>> ELSE <<[line |-> l, pos |-> n, fd |-> sd]>>

\* send_line: flush the queue first; behind a queue that stays, the line is
\* queued whole; else it is written and its rest queued.  A write error loses
\* the link, and the line.
SendLine ==
    /\ Up /\ mode # "read"
    /\ greet \/ next < MaxLine
    /\ next' = next + 1
    /\ greet' = FALSE
    /\ \E f \in Flushes :
          \/ f.res = "error" /\ Lose /\ sendq' = f.rest
          \/ f.res = "wait" /\ Take(f.out, f.rest \o Unsent(next + 1, 0))
          \/ /\ f.res = "done"
             /\ \/ "error" \in Outcomes /\ Lose /\ sendq' = <<>>
                \/ \E n \in 0..2 :
                      /\ n = 0 => "again" \in Outcomes
                      /\ n = 1 => "some" \in Outcomes
                      /\ Take(f.out \o SubSeq(LineBytes(next + 1), 1, n),
                              Unsent(next + 1, n))
    /\ UNCHANGED <<failed, mode, other, conn, readVars>>

-----------------------------------------------------------------------------
(* Reading *)

\* The peer sends a byte.
Tell ==
    /\ Up /\ mode = "idle" /\ ~greet /\ told < MaxHear
    /\ told' = told + 1
    /\ UNCHANGED <<sd, timers, failed, mode, greet, other, conn, sendVars,
                   buf, lines, read>>

\* select found the socket readable: sock_readline begins.
Receive ==
    /\ Up /\ mode = "idle" /\ ~greet /\ read < told
    /\ mode' = "read"
    /\ UNCHANGED <<sd, timers, failed, greet, other, conn, sendVars, readVars>>

\* A wrong variant of ReadByte: the start of the line is not cleared.
ReadByteKeeps ==
    /\ mode = "read" /\ read < told
    /\ read' = read + 1
    /\ LET line == Append(buf, <<conn, read + 1>>)
       IN  /\ buf' = line
           /\ lines' = IF (read + 1) % 2 = 0 THEN Append(lines, line) ELSE lines
    /\ UNCHANGED <<sd, timers, failed, mode, greet, other, conn, sendVars, told>>

\* sock_getbyte and one turn of sock_readline's loop.
ReadByte ==
    /\ mode = "read" /\ read < told
    /\ read' = read + 1
    /\ LET line == Append(buf, <<conn, read + 1>>)
       IN  IF (read + 1) % 2 = 0
           THEN buf' = <<>> /\ lines' = Append(lines, line)
           ELSE buf' = line /\ lines' = lines
    /\ UNCHANGED <<sd, timers, failed, mode, greet, other, conn, sendVars, told>>

\* The bytes of one read are used up; psr_HandleEvent is called.
EndRead ==
    /\ mode = "read" /\ read = told
    /\ mode' = "parse"
    /\ UNCHANGED <<sd, timers, failed, greet, other, conn, sendVars, readVars>>

\* read returned 0 or an error: uplink_cleanup.  It clears SOCK_DEAD, so that
\* sock_readline saves the start of the line as if more of it would come.
ReadError ==
    /\ Up /\ mode = "idle" /\ ~greet
    /\ Lose
    /\ UNCHANGED <<failed, mode, greet, other, conn, sendq, next, readVars>>

\* psr_HandleEvent parses the next line, or is done.  What its handler sends
\* is SendLine steps after it; the link may be lost in them, and the lines
\* that are left are parsed all the same.
ParseLine ==
    /\ mode = "parse" /\ ~greet
    /\ IF lines # <<>> THEN lines' = Tail(lines) /\ UNCHANGED mode
                       ELSE mode' = "idle" /\ UNCHANGED lines
    /\ UNCHANGED <<sd, timers, failed, greet, other, conn, sendVars,
                   buf, told, read>>

Next ==
    \/ Boot
    \/ ConnectUplink
    \/ OtherOpen
    \/ \E f \in Fds : OtherClose(f)
    \/ SendLine
    \/ Tell
    \/ Receive
    \/ ReadByte
    \/ EndRead
    \/ ReadError
    \/ ParseLine

\* The only thread goes on: it starts, drains what it has read, and its loop
\* comes round to the timers.
Fairness ==
    /\ WF_vars(Boot)
    /\ WF_vars(ReadByte) /\ WF_vars(EndRead) /\ WF_vars(ParseLine)
    /\ WF_vars(ConnectUplink)

Spec == Init /\ [][Next]_vars /\ Fairness

-----------------------------------------------------------------------------
(* Correctness *)

\* Nothing is lost, repeated or reordered on a connection: what was written
\* to it, followed by what the queue holds for its descriptor, is what the
\* queue held when it was made followed by the lines send_line took since.
\* sendq_flush and send_line must agree on pos, len and the order of the
\* queue through every series of short, blocked and failing writes.  (The
\* types of the variables with it.)
StreamKept ==
    /\ TypeOK
    /\ Up => wire \o Bytes(sd, sendq) = left \o said

\* There is one reconnect timer while there is no link, and none while there
\* is: every way to lose the link arms it once (a handler that fails in the
\* middle of ircd_connect included), and ev_connectuplink takes it off.
\* After a Connect that failed there is none.
OneTimer ==
    mode # "boot" => timers = IF Up \/ failed THEN 0 ELSE 1

\* While there is no link a timer is armed, as main.c:360 promises ("if we
\* don't connect Add an event to connect").
AlwaysArmed ==
    mode # "boot" /\ ~Up => timers > 0

\* A line that is parsed came in on the latest connection: none is kept over
\* a reconnect, although lines are parsed after the link they came in on was
\* lost.
NoneOlder ==
    /\ \A i \in 1..Len(lines) : Last(lines[i])[1] = conn
    /\ mode = "idle" => lines = <<>>

\* A whole line, maybe behind the starts of lines that broke off before.
Whole(m) ==
    LET n == Len(m)
    IN  /\ n >= 2
        /\ m[n][2] % 2 = 0 /\ m[n - 1] = <<m[n][1], m[n][2] - 1>>
        /\ \A j \in 1..(n - 2) : m[j][1] < m[j + 1][1] /\ m[j][2] % 2 = 1

\* A line that is parsed is a whole line of the latest connection; the start
\* of a line that an earlier connection broke off in may stand before it, and
\* nothing else.
WholeLines ==
    /\ NoneOlder
    /\ \A i \in 1..Len(lines) : Whole(lines[i])

\* A lost link is followed by an attempt to connect again, whatever is still
\* being parsed or sent.
Retried == (mode # "boot" /\ ~Up /\ ~failed) ~> (Up \/ failed)

=============================================================================
