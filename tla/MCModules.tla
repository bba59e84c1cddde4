----------------------------- MODULE MCModules -----------------------------
(* Instances of Modules for TLC. *)
EXTENDS Modules

Entries(files) == [name : files, load : {"pre", "std", "post"}]

\* Every queue of up to three entries, a module named twice included.
AllQueues(files) == UNION {[1..n -> Entries(files)] : n \in 0..3}

\* Start-up and the operators' commands.
Queueing ==
    LET files == {"g_core", "g_update", "g_watch", "g_sessions"}
    IN  [files |-> files, core |-> <<"m_fantasy">>, queues |-> AllQueues(files), names |-> {}, room |-> 0]

\* Modules whose handlers share a name.
Sharing ==
    [files |-> {"g_core", "g_update", "g_watch", "g_sessions"}, core |-> <<"m_fantasy">>,
     queues |-> {<<[name |-> "g_watch", load |-> "post"], [name |-> "g_core", load |-> "std"]>>},
     names |-> {"REHASH", "SHUTDOWN", "USERCONN"}, room |-> 11]

\* Timers that come and go.
Timing ==
    [files |-> {"g_core", "g_scan", "m_omegastats"}, core |-> <<>>,
     queues |-> {<<[name |-> "g_core", load |-> "std"]>>},
     names |-> {"BURST", "SCANQ", "Omega Stats First Run", "Omega Statistical Post", "Connect Uplink"},
     room |-> 4]

AllSetups == {Queueing, Sharing, Timing}

=============================================================================
