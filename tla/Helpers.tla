------------------------------ MODULE Helpers ------------------------------
(***************************************************************************)
(* What g_bl and g_opm use beside the main loop: threads, and the proxy    *)
(* scanner.  g_opm as it is compiled only makes a scanner and frees it, so *)
(* that the two do not meet: a job is one or the other.                    *)
(***************************************************************************)
EXTENDS Threads, Proxies

CONSTANT Jobs
VARIABLE job

vars == <<job, threadVars, proxyVars>>

Init == job \in Jobs /\ InitThreads /\ InitProxies

Next ==
    \/ job = "threads" /\ NextThreads /\ UNCHANGED <<job, proxyVars>>
    \/ job = "proxies" /\ NextProxies /\ UNCHANGED <<job, threadVars>>

\* A thread runs until it has to wait; the client of libopm calls opm_cycle again
\* and again, and time passes, though a walk of opm_cycle goes by the time it began at.
Fairness ==
    /\ \A t \in Tid : WF_vars(job = "threads" /\ Dest(t) /\ UNCHANGED <<job, proxyVars>>)
    /\ WF_vars(job = "proxies" /\ Cycle /\ UNCHANGED <<job, threadVars>>)
    /\ SF_vars(job = "proxies" /\ Age /\ UNCHANGED <<job, threadVars>>)

Spec == Init /\ [][Next]_vars /\ Fairness

----------------------------------------------------------------------------
(* Correctness *)

\* Every thread that is done leaves, and every scan ends.
HelpersEnd == AllLeave /\ ScanEnds

=============================================================================
