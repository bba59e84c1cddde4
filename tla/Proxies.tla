------------------------------ MODULE Proxies ------------------------------
(***************************************************************************)
(* libopm: scans of remotes, each with one connection per protocol, under  *)
(* a limit of descriptors.  A scan waits in the queue until all its        *)
(* connections fit; opm_cycle then connects, polls and reaps.  The client  *)
(* is test.c: its OPENPROXY callback may call opm_end, its END callback    *)
(* frees the remote, which may then be made and scanned anew: a scan is    *)
(* named by its remote, a connection by the remote and the protocol.       *)
(***************************************************************************)
EXTENDS Integers, Sequences, SequencesExt, FiniteSetsExt

CONSTANTS
    Remote,    \* OPM_REMOTE_T structs
    Protos,    \* remote -> connections of a scan of it: the scanner's protocols and its own
    FdLimit,   \* OPM_CONFIG_FD_LIMIT
    Timeout    \* OPM_CONFIG_TIMEOUT

ASSUME ProtosAssumption ==
    IsFiniteSet(Remote) /\ FdLimit \in Nat /\ Timeout \in Nat /\ Protos \in [Remote -> 1..FdLimit]

VARIABLES
    queue,   \* scans that wait
    scans,   \* live scans
    conn,    \* each connection: its state ("none": there is none), how long it has been
             \* established, and what the client was told of it
    fduse,   \* fd_use
    phase,   \* where opm_cycle is
    at,      \* the connection check_poll comes to, or the scan check_closed comes to
    given    \* remotes of the client that END was not called for

proxyVars == <<queue, scans, conn, fduse, phase, at, given>>

Conns(r) == {r} \X (1..Protos[r])
Slot     == UNION {Conns(r) : r \in Remote}

NoConn == [st |-> "none", age |-> 0, said |-> <<>>]
Conn   == [NoConn EXCEPT !.st = "new"]
Live(p) == p[1] \in ToSet(scans)

InitProxies ==
    /\ queue = <<>> /\ scans = <<>> /\ fduse = 0
    /\ conn = [p \in Slot |-> NoConn]
    /\ phase = "idle" /\ at = <<1, 1>> /\ given = {}

----------------------------------------------------------------------------
(* The client. *)

\* opm_scan
OpmScan(r) ==
    /\ phase = "idle" /\ r \notin given
    /\ given' = given \cup {r}
    /\ queue' = Append(queue, r)
    /\ conn' = [p \in Slot |-> IF p \in Conns(r) THEN Conn ELSE conn[p]]
    /\ UNCHANGED <<scans, fduse, phase, at>>

\* opm_end: the connections of a live scan close, and check_closed will find them; END is called
\* at once for a scan that is queued, whose connections are freed.
OpmEndscan(r, c) == IF c.st = "none" THEN c ELSE [c EXCEPT !.st = "closed"]

OpmEnd(r, told) ==
    /\ conn' = [p \in Slot |-> IF p \notin Conns(r) THEN told[p]
                               ELSE IF r \in ToSet(queue) THEN NoConn
                               ELSE IF Live(p) THEN OpmEndscan(r, told[p]) ELSE told[p]]
    /\ queue' = RemoveFirst(queue, r)
    /\ given' = IF r \in ToSet(queue) THEN given \ {r} ELSE given

EndBetween(r) ==
    /\ phase = "idle" /\ r \in given
    /\ OpmEnd(r, conn)
    /\ UNCHANGED <<scans, fduse, phase, at>>

----------------------------------------------------------------------------
(* opm_cycle *)

\* The descriptors used once the first n scans of the queue are connected.
Need(n) == fduse + Cardinality(UNION {Conns(queue[i]) : i \in 1..n})

\* libopm_check_queue: scans go live up to the first that does not fit.
CheckQueue ==
    /\ phase = "idle" /\ given # {}
    /\ \E n \in 0..Len(queue) :
          /\ \A k \in 1..n : Need(k) <= FdLimit
          /\ n < Len(queue) => Need(n + 1) > FdLimit
          /\ scans' = scans \o SubSeq(queue, 1, n)
          /\ queue' = SubSeq(queue, n + 1, Len(queue))
    /\ phase' = "establish"
    /\ UNCHANGED <<conn, fduse, at, given>>

New == {p \in Slot : Live(p) /\ conn[p].st = "new"}

\* The walk comes to the connection p before q.
Before(p, q) ==
    \/ p[1] = q[1] /\ p[2] < q[2]
    \/ \E i, j \in DOMAIN scans : i < j /\ scans[i] = p[1] /\ scans[j] = q[1]

\* libopm_check_establish and do_connect: those refused (no descriptor, bind) are
\* told and closed, but counted.
CheckEstablish ==
    /\ phase = "establish"
    /\ LET now == {p \in New : fduse + Cardinality({q \in New : Before(q, p)}) < FdLimit}
       IN  /\ \E refused \in SUBSET now :
                 conn' = [p \in Slot |-> IF p \in refused THEN [conn[p] EXCEPT !.st = "closed", !.said = <<"error">>]
                                         ELSE IF p \in now THEN [conn[p] EXCEPT !.st = "out"]
                                         ELSE conn[p]]
           /\ fduse' = fduse + Cardinality(now)
    /\ phase' = "poll" /\ at' = <<1, 1>>
    /\ UNCHANGED <<queue, scans, given>>

(* What the handlers of one connection may come to: its state, and callbacks. *)

\* Each protocol's write function: whether send fails is not looked at.
Written == <<"sent", <<>>>>
Hup(told) == <<"closed", told \o <<"negfail">>>>

\* libopm_do_readready: nothing to match yet, the end, too much read, or a target string.
Read == {<<"sent", <<>>>>, Hup(<<>>), <<"closed", <<"error">>>>, <<"closed", <<"open">>>>}

\* Hanging up is looked at even if reading has just closed the connection.
Outcomes(st) ==
    IF st = "out" THEN {<<"out", <<>>>>, Written, Hup(<<>>)}
    ELSE Read \cup {Hup(x[2]) : x \in Read}

\* A wrong variant of Polled: closed connections are looked at as well.
PolledAll(c) == c.st \notin {"none", "new"}

Polled(c) == c.st \in {"out", "sent"}

\* libopm_check_poll, one connection.
PollConn ==
    /\ phase = "poll" /\ at[1] \in DOMAIN scans /\ at[2] <= Protos[scans[at[1]]]
    /\ LET p == <<scans[at[1]], at[2]>>
           c == conn[p]
       IN  \/ /\ Polled(c)
              /\ \E o \in Outcomes(c.st), ends \in BOOLEAN :
                    LET told == [conn EXCEPT ![p] = [st |-> o[1], age |-> c.age, said |-> c.said \o o[2]]]
                    IN  IF ends
                        THEN "open" \in ToSet(o[2]) /\ OpmEnd(p[1], told)
                        ELSE conn' = told /\ UNCHANGED <<queue, given>>
           \/ ~Polled(c) /\ UNCHANGED <<queue, conn, given>>
    /\ at' = <<at[1], at[2] + 1>>
    /\ UNCHANGED <<scans, fduse, phase>>

NextScan ==
    /\ phase = "poll" /\ at[1] \in DOMAIN scans /\ at[2] > Protos[scans[at[1]]]
    /\ at' = <<at[1] + 1, 1>>
    /\ UNCHANGED <<queue, scans, conn, fduse, phase, given>>

PollDone ==
    /\ phase = "poll" /\ at[1] \notin DOMAIN scans
    /\ phase' = "close" /\ at' = <<1, 1>>
    /\ UNCHANGED <<queue, scans, conn, fduse, given>>

\* A wrong variant of Reaped: connections that are waited for do not time out.
ReapedClosed(c) == c.st = "closed"

Reaped(c) == c.st = "closed" \/ (c.st \in {"out", "sent"} /\ c.age >= Timeout)

\* A wrong variant of CloseScan: descriptors that time out stay counted.
CloseScanLeaks ==
    /\ phase = "close" /\ at[1] \in DOMAIN scans
    /\ LET r    == scans[at[1]]
           reap == {p \in Conns(r) : Reaped(conn[p])}
       IN  /\ conn' = [p \in Slot |-> IF p \in reap THEN NoConn ELSE conn[p]]
           /\ fduse' = fduse - Cardinality({p \in reap : conn[p].st = "closed"})
           /\ \/ /\ \A p \in Conns(r) : conn'[p].st = "none"
                 /\ given' = given \ {r} /\ scans' = RemoveFirst(scans, r)
                 /\ UNCHANGED at
              \/ /\ \E p \in Conns(r) : conn'[p].st # "none"
                 /\ at' = <<at[1] + 1, 1>>
                 /\ UNCHANGED <<given, scans>>
    /\ UNCHANGED <<queue, phase>>

\* libopm_check_closed, one scan: END is called if it has no connections left.
CloseScan ==
    /\ phase = "close" /\ at[1] \in DOMAIN scans
    /\ LET r    == scans[at[1]]
           reap == {p \in Conns(r) : Reaped(conn[p])}
       IN  /\ conn' = [p \in Slot |-> IF p \in reap THEN NoConn ELSE conn[p]]
           /\ fduse' = fduse - Cardinality(reap)
           /\ \/ /\ \A p \in Conns(r) : conn'[p].st = "none"
                 /\ given' = given \ {r} /\ scans' = RemoveFirst(scans, r)
                 /\ UNCHANGED at
              \/ /\ \E p \in Conns(r) : conn'[p].st # "none"
                 /\ at' = <<at[1] + 1, 1>>
                 /\ UNCHANGED <<given, scans>>
    /\ UNCHANGED <<queue, phase>>

CycleDone ==
    /\ phase = "close" /\ at[1] \notin DOMAIN scans
    /\ phase' = "idle" /\ at' = <<1, 1>>
    /\ UNCHANGED <<queue, scans, conn, fduse, given>>

\* Time passes; check_closed has read the clock before its walk.
Age ==
    /\ phase # "close"
    /\ LET waits == {p \in Slot : Polled(conn[p]) /\ conn[p].age < Timeout}
       IN  /\ waits # {}
           /\ conn' = [p \in Slot |-> IF p \in waits THEN [conn[p] EXCEPT !.age = @ + 1] ELSE conn[p]]
    /\ UNCHANGED <<queue, scans, fduse, phase, at, given>>

Cycle == CheckQueue \/ CheckEstablish \/ PollConn \/ NextScan \/ PollDone \/ CloseScan \/ CycleDone

NextProxies ==
    \/ \E r \in Remote : OpmScan(r) \/ EndBetween(r)
    \/ Cycle \/ Age

----------------------------------------------------------------------------
(* Correctness *)

Told == {<<>>, <<"error">>, <<"open">>, <<"negfail">>, <<"error", "negfail">>, <<"open", "negfail">>,
         <<"negfail", "negfail">>}

Shape == [st : {"none", "new", "out", "sent", "closed"}, age : 0..Timeout, said : Told]

ProxiesTypeOK ==
    /\ queue \in Seq(Remote) /\ scans \in Seq(Remote) /\ given \subseteq Remote
    /\ conn \in [Slot -> Shape]
    /\ fduse \in Nat /\ phase \in {"idle", "establish", "poll", "close"}
    /\ at \in (Nat \ {0}) \X (Nat \ {0})

\* fd_use is what is connected, whoever ends or refuses what: a count that stays
\* above would block the queue for ever, one below would overrun the limit and
\* wrap around at zero.
FdsExact ==
    /\ fduse = Cardinality({p \in Slot : conn[p].st \in {"out", "sent", "closed"}})
    /\ fduse <= FdLimit

\* What goes live is connected in the same cycle.  A connection left behind would
\* never time out, and opm_end would count it down without it having been counted.
ConnectedAtOnce == phase # "establish" => New = {}

\* Whatever is queued or live belongs to a remote that the client has not freed, and has
\* connections left to work on: END is the last callback, and comes once, also after opm_end.
RemotesLive ==
    /\ given = ToSet(queue) \cup ToSet(scans)
    /\ IsInjective(queue) /\ IsInjective(scans) /\ ToSet(queue) \cap ToSet(scans) = {}
    /\ \A r \in Remote : r \in given <=> \E p \in Conns(r) : conn[p].st # "none"

\* An open proxy is never reported of a connection that was reported of before,
\* though hang-ups may be reported after that.
OpenFirst == \A p \in Slot : \A k \in DOMAIN conn[p].said : conn[p].said[k] = "open" => k = 1

\* The descriptors in use are counted exactly, all of them connected, on behalf
\* of clients that are still there.
ScansRight == ProxiesTypeOK /\ FdsExact /\ ConnectedAtOnce /\ RemotesLive

\* Every scan ends: opm_cycle called again and again ("while(!complete)") works off
\* the queue, however many wait, whatever the peers do or leave undone.
ScanEnds == \A r \in Remote : r \in given ~> r \notin given

=============================================================================
