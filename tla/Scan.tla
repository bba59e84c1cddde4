-------------------------------- MODULE Scan --------------------------------
(***************************************************************************)
(* g_scan.c: every new user is asked for a version, those of the burst     *)
(* through a queue of pointers that a timer works off.  Entries of users   *)
(* that quit in the meantime point to freed memory: Freed.                 *)
(*                                                                         *)
(* The switch in scan_nick has no case labels, so that the score it is     *)
(* there to count stays zero: HandleResult always returns at once and the  *)
(* other queue, ScanQ, stays empty.                                        *)
(***************************************************************************)
EXTENDS Visitors

CONSTANTS
    PerRun,   \* entries of VersionQ that one run takes
    MaxTimers \* bound: timers of one name

ASSUME ScanAssumption == PerRun \in Nat \ {0} /\ MaxTimers \in Nat

VARIABLES
    versionq,  \* VersionQ
    vtimers,   \* timers "VersionQueue" in the event list
    stimers,   \* timers "SCANQ"
    asked,     \* the users that were asked for their version, or were there before us
    met        \* history: the last BURST met a remote user and so left no timer

scanVars == <<versionq, vtimers, stimers, asked, met>>

InitScan == versionq = <<>> /\ vtimers = 0 /\ stimers = 0 /\ asked = {} /\ met = FALSE

\* Pointers to the users S dangle from now on.
ScanLoses(S) ==
    /\ versionq' = [i \in DOMAIN versionq |-> IF versionq[i] \in S THEN Freed ELSE versionq[i]]
    /\ asked' = asked \ S
    /\ UNCHANGED <<vtimers, stimers, met>>

AskVersion(a) ==
    IF sync = "running"
    THEN asked' = asked \cup {a} /\ UNCHANGED versionq
    ELSE versionq' = Append(versionq, a) /\ UNCHANGED asked

ScanNick ==
    /\ Handling("g_scan") /\ guest \in Live
    /\ Handled
    /\ AskVersion(guest)
    /\ UNCHANGED <<vtimers, stimers, met>>

\* SCAN: scan_nick for a user that is there.
CmdScan(a) ==
    /\ Calm /\ Loaded("g_scan") /\ a \in Live /\ a \notin ToSet(versionq)
    /\ AskVersion(a)
    /\ UNCHANGED <<visitorVars, vtimers, stimers, met>>

\* BURST, if the chain gets here.
InitEvents ==
    /\ vtimers < MaxTimers /\ stimers < MaxTimers
    /\ LET more == IF Loaded("g_scan") /\ ~BurstStopped THEN 1 ELSE 0
       IN  vtimers' = vtimers + more /\ stimers' = stimers + more
    /\ met' = (BurstStopped /\ vtimers = 0)
    /\ UNCHANGED <<versionq, asked>>

\* A wrong variant of VersionQue: the timer goes after one run.
VersionQueOnce ==
    /\ Calm /\ vtimers > 0 /\ sync = "running"
    /\ LET n == Min({PerRun, Len(versionq)})
       IN  IF Freed \in ToSet(SubSeq(versionq, 1, n))
           THEN fault' = "freed user" /\ UNCHANGED scanVars
           ELSE /\ asked' = asked \cup ToSet(SubSeq(versionq, 1, n))
                /\ versionq' = SubSeq(versionq, n + 1, Len(versionq))
                /\ vtimers' = vtimers - 1
                /\ UNCHANGED <<fault, stimers, met>>
    /\ UNCHANGED <<setup, loaded, user, members, sync, linked, chain, guest>>

\* One run takes PerRun entries; the run that empties the queue deletes the timer.
VersionQue ==
    /\ Calm /\ vtimers > 0 /\ sync = "running"
    /\ LET n == Min({PerRun, Len(versionq)})
       IN  IF Freed \in ToSet(SubSeq(versionq, 1, n))
           THEN fault' = "freed user" /\ UNCHANGED scanVars
           ELSE /\ asked' = asked \cup ToSet(SubSeq(versionq, 1, n))
                /\ versionq' = SubSeq(versionq, n + 1, Len(versionq))
                /\ vtimers' = IF n = Len(versionq) THEN vtimers - 1 ELSE vtimers
                /\ UNCHANGED <<fault, stimers, met>>
    /\ UNCHANGED <<setup, loaded, user, members, sync, linked, chain, guest>>

\* ScanQ is empty: the timer only deletes itself.
ScanQue ==
    /\ Calm /\ stimers > 0 /\ sync = "running"
    /\ stimers' = stimers - 1
    /\ UNCHANGED <<visitorVars, versionq, vtimers, asked, met>>

LoadScan ==
    /\ LoadModule("g_scan")
    /\ versionq' = <<>> /\ asked' = Live
    /\ UNCHANGED <<setup, user, members, sync, linked, chain, guest, fault, vtimers, stimers, met>>

\* Module_Close deletes one timer of each name.  A second one would be left to
\* run in unmapped code, which is the subject of module Modules.
UnloadScan ==
    /\ UnloadModule("g_scan")
    /\ vtimers <= 1 /\ stimers <= 1
    /\ vtimers' = 0 /\ stimers' = 0 /\ versionq' = <<>> /\ asked' = {}
    /\ UNCHANGED <<setup, user, members, sync, linked, chain, guest, fault, met>>

----------------------------------------------------------------------------
(* Correctness *)

\* While we run, entries wait in the version queue without a timer only if the
\* BURST chain was stopped by a remote user before it came to init_events, and
\* no timer was left from an earlier one.
QueueTimed == sync = "running" /\ versionq # <<>> /\ vtimers = 0 => met

\* Everyone on the network has been asked for a version or waits in the queue:
\* also who connected while the burst or a reload was under way.
EveryoneAsked ==
    fault = "none" /\ Loaded("g_scan") =>
        \A a \in Live : a \in asked \/ a \in ToSet(versionq) \/ (a = guest /\ "g_scan" \in ToSet(chain))

=============================================================================
