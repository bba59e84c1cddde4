----------------------------- MODULE MCClients ------------------------------
(* Instances of Clients for TLC. *)
EXTENDS Clients

CONSTANTS a1, a2, a3, c1, c2, c3, n1, n2

What(host, service, is, odd) == [host |-> host, service |-> service, is |-> is, odd |-> odd]
Plain == What("h1", FALSE, {}, {})
Want(pattern, action, ignores) == [pattern |-> pattern, action |-> action, ignores |-> ignores]
Idle == [modules |-> {}, addr |-> {a1, a2}, users |-> {Plain}, chans |-> {}, exempts |-> <<>>, exrows |-> <<>>,
         watches |-> <<>>, wants |-> {}, actions |-> {}, patterns |-> {}, names |-> {}]

\* Users on two hosts, a service among them.
Counting == [Idle EXCEPT !.modules = {"g_sessions"},
                         !.users = {Plain, What("h1", TRUE, {}, {}), What("h2", FALSE, {}, {})}]
\* Exemptions: one in the database, one in the configuration.
Exempting == [Idle EXCEPT !.modules = {"g_sessions"}, !.users = {}, !.patterns = {"h1", "h2", "*"},
                          !.exrows = <<[host |-> "h2", count |-> 9]>>,
                          !.exempts = <<[host |-> "h1", count |-> 6]>>]
Scanning == [Idle EXCEPT !.modules = {"g_scan"}]
\* A watched channel, with opers on it.
Watching == [Idle EXCEPT !.modules = {"g_watch"}, !.chans = {c1},
                         !.users = {Plain, What("h1", FALSE, {"oper"}, {})},
                         !.wants = {Want(c1, "kick", {"oper"}), Want(c1, "gline", {})}]
\* A channel of the configuration, with users, and beside one of an operator.
Rehashing == [Idle EXCEPT !.modules = {"g_watch"}, !.addr = {a1}, !.chans = {c1, c2},
                          !.watches = <<Want(c2, "kick", {})>>]
Mixing == [Rehashing EXCEPT !.users = {}, !.wants = {Want(c1, "kick", {})}]
\* A watched nick, whose users are killed in the chain that counts them.
Killing == [Idle EXCEPT !.modules = {"g_sessions", "g_watch"},
                        !.users = {Plain, What("h1", FALSE, {}, {n1})},
                        !.wants = {Want(n1, "kick", {})}]
\* A nick that two patterns match, with rules that may be set.
Overlapping == [Idle EXCEPT !.modules = {"g_watch"}, !.addr = {a1},
                            !.users = {Plain, What("h1", FALSE, {}, {n1, n2})},
                            !.wants = {Want(n1, "kick", {}), Want(n2, "none", {})},
                            !.actions = {"kill", "none"}]
\* A channel whose name is cut to the other's.
Shortening == [Rehashing EXCEPT !.chans = {c1, c3}, !.wants = {Want(c1, "kick", {})},
                                !.watches = <<Want(c3, "kick", {})>>]
\* Two channels, or one and a longer name that is cut to its name.
Flooding == [Idle EXCEPT !.modules = {"g_joinflood"}, !.users = {}, !.names = {"f1", "f3"}]
Cutting == [Flooding EXCEPT !.names = {"f1", "f2"}]

AllSetups == {Counting, Exempting, Scanning, Watching, Rehashing, Mixing, Killing, Overlapping, Shortening,
              Flooding, Cutting}
Wildcards == {<<"*", "h1">>, <<"*", "h2">>}
CutName == [c \in FloodChans |-> IF c = "f2" THEN "f1" ELSE c]
ShortName == [c \in {c1, c2, c3} |-> IF c = c3 THEN c1 ELSE c]

=============================================================================
