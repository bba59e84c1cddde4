------------------------------ MODULE Dialects ------------------------------
(***************************************************************************)
(* The protocol modules of src/modules/protocol as tables: the commands    *)
(* each registers and the handler of each, the functions it puts in IRCd,  *)
(* how it introduces us and our users, and what each of its handlers does. *)
(* Protocol gives the tables their meaning.  A handler is named as in the  *)
(* source, without its omega_ prefix; "join 0" is the case of omega_join   *)
(* for a JOIN 0.  Twelve modules are built and accepted by the loader:     *)
(* nefarious.c is not in the Makefile, inspircd.c refuses to be loaded.    *)
(***************************************************************************)

\* The entries of two tables, those of the first where both have one.
f ++ g == [x \in DOMAIN f \cup DOMAIN g |-> IF x \in DOMAIN f THEN f[x] ELSE g[x]]

\* The way a link is opened and our users are introduced:
\*   form   which names PASS and the introduction use: "ts6", "names", or
\*          "flag", which is the one that IRCd.ts6 says
\*   resv   whether the introduction of a user dereferences s_Guardian:
\*          "always", "names" (when it uses names), "never"
\*   ping   what ircd_ping does: "burst" raises BURST when it is still due
Sends(form, resv, ping) == [form |-> form, resv |-> resv, ping |-> ping]

-----------------------------------------------------------------------------
(* The family of ratbox: charybdis, elemental, ratbox, directircd, hybrid,  *)
(* kcircd, ratbox3, plexus                                                 *)

CharybdisServer ==
    [NICK |-> "nick", UID |-> "uid", PING |-> "ping", PONG |-> "pong",
     SJOIN |-> "sjoin", PASS |-> "pass", SQUIT |-> "squit",
     SERVER |-> "server", SID |-> "sid", ENCAP |-> "encap", MODE |-> "mode",
     KILL |-> "skill", SVINFO |-> "null", NOTICE |-> "null"]
CharybdisUser ==
    [PRIVMSG |-> "privmsg", QUIT |-> "quit", MODE |-> "mode_user",
     TMODE |-> "tmode", PART |-> "part", JOIN |-> "join", KILL |-> "kill",
     NICK |-> "unick", REHASH |-> "rehash", FORCEJOIN |-> "forcejoin",
     FORCEPART |-> "forcepart", INVITE |-> "invite"]
CharybdisCommands ==
    [server |-> CharybdisServer, user |-> CharybdisUser,
     says |-> {"connect", "ping", "wallop", "add_user", "join", "xline", "numeric"}]
CharybdisSends == Sends("flag", "names", "burst")
CharybdisPeople ==
    [nick |-> "add", unick |-> "rename", uid |-> "add", quit |-> "exit",
     null |-> "none"]
CharybdisChannels == [sjoin |-> "sjoin", privmsg |-> "none"]
CharybdisServers ==
    [server |-> "server pong", sid |-> "leaf", mode |-> "none",
     ping |-> "ircd_ping", pong |-> "none", pass |-> "pass",
     squit |-> "exit", encap |-> "none"]
CharybdisMoves ==
    [mode_user |-> "mode", tmode |-> "none", part |-> "part", join |-> "enter"]
    ++ [x \in {"join 0"} |-> "none"]
CharybdisOrders ==
    [kill |-> "exit", skill |-> "exit", forcejoin |-> "force join",
     forcepart |-> "force part", invite |-> "invite", rehash |-> "rehash"]

\* elemental.c and ratbox.c are charybdis.c under other names.
ElementalCommands == CharybdisCommands
ElementalSends == CharybdisSends
ElementalPeople == CharybdisPeople
ElementalChannels == CharybdisChannels
ElementalServers == CharybdisServers
ElementalMoves == CharybdisMoves
ElementalOrders == CharybdisOrders
RatboxCommands == CharybdisCommands
RatboxSends == CharybdisSends
RatboxPeople == CharybdisPeople
RatboxChannels == CharybdisChannels
RatboxServers == CharybdisServers
RatboxMoves == CharybdisMoves
RatboxOrders == CharybdisOrders

\* directircd.c adds the function for channel modes and ignores user modes.
DirectCommands ==
    [CharybdisCommands EXCEPT !.says = @ \cup {"mode"}]
DirectSends == CharybdisSends
DirectPeople == CharybdisPeople
DirectChannels == CharybdisChannels
DirectServers == CharybdisServers
DirectMoves == [CharybdisMoves EXCEPT !.mode_user = "none"]
DirectOrders == CharybdisOrders

\* hybrid.c knows no PONG and none of the orders of operators; it leaves
\* lastpong as malloc gave it, and a JOIN 0 makes it compare a parameter that
\* is NULL.
HybridCommands ==
    [server |-> [c \in DOMAIN CharybdisServer \ {"PONG"} |-> CharybdisServer[c]],
     user |-> [c \in DOMAIN CharybdisUser
                     \ {"REHASH", "FORCEJOIN", "FORCEPART", "INVITE"}
               |-> CharybdisUser[c]],
     says |-> {"connect", "ping", "wallop", "add_user", "join", "xline"}]
HybridSends == Sends("flag", "always", "burst")
HybridPeople == CharybdisPeople
HybridChannels == CharybdisChannels
HybridServers == [CharybdisServers EXCEPT !.server = "server"]
HybridMoves == [CharybdisMoves EXCEPT !["join 0"] = "null"]
HybridOrders == [kill |-> "exit", skill |-> "exit"]

KcircdCommands ==
    [HybridCommands EXCEPT
        !.says = {"connect", "ping", "wallop", "add_user", "join", "numeric"}]
KcircdSends == HybridSends
KcircdPeople == CharybdisPeople
KcircdChannels == CharybdisChannels
KcircdServers == HybridServers
KcircdMoves == HybridMoves
KcircdOrders == HybridOrders

\* ratbox3.c and plexus.c insist on TS6: a PASS without a SID is a NULL copied.
Ratbox3Commands ==
    [CharybdisCommands EXCEPT !.says = @ \cup {"part", "server", "kill"}]
Ratbox3Sends == Sends("ts6", "never", "burst")
Ratbox3People == CharybdisPeople
Ratbox3Channels == CharybdisChannels
Ratbox3Servers == [CharybdisServers EXCEPT !.pass = "pass ts6"]
Ratbox3Moves == CharybdisMoves
Ratbox3Orders == CharybdisOrders

PlexusCommands == [CharybdisCommands EXCEPT !.says = @ \cup {"part"}]
PlexusSends == Sends("ts6", "always", "burst")
PlexusPeople == CharybdisPeople
PlexusChannels == CharybdisChannels
PlexusServers == Ratbox3Servers
PlexusMoves == CharybdisMoves
PlexusOrders == CharybdisOrders

-----------------------------------------------------------------------------
(* bahamut: users come and change nicks, and never leave *)

BahamutCommands ==
    [server |-> [SERVER |-> "server", PING |-> "ping", SVINFO |-> "null",
                 NICK |-> "nick", PASS |-> "null", GNOTICE |-> "null",
                 CAPAB |-> "null", SQLINE |-> "null", SJOIN |-> "sjoin",
                 LUSERSLOCK |-> "null"],
     user |-> [NICK |-> "unick"],
     says |-> {"connect", "add_user", "join", "ping"}]
BahamutSends == Sends("names", "never", "burst")
BahamutDoes ==
    [null |-> "none", server |-> "server", ping |-> "ircd_ping",
     nick |-> "add", unick |-> "rename", sjoin |-> "chan"]

-----------------------------------------------------------------------------
(* unreal32: the module that brings its killed users back *)

UnrealCommands ==
    [server |-> [KICK |-> "skick", NETINFO |-> "netinfo", SJOIN |-> "sjoin",
                 NICK |-> "nick", EOS |-> "eos", SERVER |-> "server",
                 PING |-> "ping", SQUIT |-> "squit", SVSMODE |-> "svsmode",
                 SVSKILL |-> "svskill", KILL |-> "skill", PONG |-> "pong",
                 SWHOIS |-> "serv_null", SENDSNO |-> "serv_null"],
     user |-> [PRIVMSG |-> "privmsg", QUIT |-> "quit", MODE |-> "mode",
               PART |-> "part", JOIN |-> "join", KILL |-> "kill",
               SAJOIN |-> "sajoin", SAPART |-> "sapart", NICK |-> "unick",
               KICK |-> "ukick", INVITE |-> "invite", REHASH |-> "rehash"],
     says |-> {"connect", "ping", "wallop", "add_user", "xline", "version",
               "join", "kill", "numeric"}]
UnrealSends == Sends("names", "never", "pong")
\* A wrong variant of UnrealServers: the EOS of the uplink is not heeded.
UnrealServersDeaf ==
    [nick |-> "add", netinfo |-> "none", server |-> "server pong", eos |-> "none"]
UnrealServers ==
    [nick |-> "add", netinfo |-> "none", server |-> "server pong", eos |-> "end"]
UnrealUsers ==
    [sjoin |-> "sjoin", mode |-> "mode", privmsg |-> "none", quit |-> "exit",
     ping |-> "ircd_ping", part |-> "part", join |-> "none"]
    ++ [x \in {"join 0"} |-> "part"]
UnrealKills ==
    [squit |-> "exit", svsmode |-> "none", kill |-> "bring back",
     svskill |-> "count and bring back", skill |-> "count and bring back"]
UnrealOrders ==
    [sajoin |-> "force join", sapart |-> "force part", unick |-> "rename",
     pong |-> "none", ukick |-> "part", skick |-> "part", invite |-> "invite",
     rehash |-> "rehash", serv_null |-> "none"]

-----------------------------------------------------------------------------
(* inspircd12 and inspircd20 *)

Inspircd12Commands ==
    [server |-> [PING |-> "ping", CAPAB |-> "capab", SERVER |-> "server",
                 BURST |-> "burst", ENDBURST |-> "endburst", UID |-> "uid",
                 PONG |-> "pong", FJOIN |-> "fjoin", SQUIT |-> "squit",
                 SVSNICK |-> "svsnick", VERSION |-> "version",
                 ERROR |-> "error", METADATA |-> "null", FTOPIC |-> "null"],
     user |-> [FMODE |-> "fmode", PRIVMSG |-> "privmsg", PART |-> "part",
               INVITE |-> "invite", QUIT |-> "quit", KILL |-> "kill",
               ENCAP |-> "encap", MODE |-> "mode", OPERTYPE |-> "opertype",
               KICK |-> "kick", FHOST |-> "fhost", FNAME |-> "fname",
               FIDENT |-> "fident", NICK |-> "unick"],
     says |-> {"connect", "ping", "add_user", "join", "part", "wallop",
               "server", "xline", "numeric", "kill"}]
Inspircd12Sends == Sends("uid", "never", "pong")
Inspircd12Servers ==
    [null |-> "none", ping |-> "pong", capab |-> "none", server |-> "server first",
     burst |-> "none", endburst |-> "end", uid |-> "add"]
Inspircd12Channels == [pong |-> "none", fjoin |-> "sjoin", error |-> "error"]
Inspircd12Users ==
    [fmode |-> "none", squit |-> "exit", svsnick |-> "set nick",
     version |-> "none", privmsg |-> "none", part |-> "part",
     invite |-> "invite quietly", quit |-> "exit", kill |-> "exit",
     encap |-> "enter quietly", mode |-> "mode"]
Inspircd12Orders ==
    [opertype |-> "mode", kick |-> "kick", fhost |-> "none", fname |-> "none",
     fident |-> "none", unick |-> "rename"]

Inspircd20Commands ==
    [Inspircd12Commands EXCEPT !.says = (@ \ {"xline"}) \cup {"mode"}]
Inspircd20Sends == Inspircd12Sends
Inspircd20Servers == Inspircd12Servers
Inspircd20Channels == Inspircd12Channels
Inspircd20Users == Inspircd12Users
Inspircd20Orders == Inspircd12Orders

-----------------------------------------------------------------------------

Table(commands, sends, does) ==
    [server |-> commands.server, user |-> commands.user, says |-> commands.says,
     form |-> sends.form, resv |-> sends.resv, ping |-> sends.ping, does |-> does]

Dialects ==
    [charybdis |-> Table(CharybdisCommands, CharybdisSends,
        CharybdisPeople ++ CharybdisChannels ++ CharybdisServers
        ++ CharybdisMoves ++ CharybdisOrders),
     elemental |-> Table(ElementalCommands, ElementalSends,
        ElementalPeople ++ ElementalChannels ++ ElementalServers
        ++ ElementalMoves ++ ElementalOrders),
     ratbox |-> Table(RatboxCommands, RatboxSends,
        RatboxPeople ++ RatboxChannels ++ RatboxServers
        ++ RatboxMoves ++ RatboxOrders),
     directircd |-> Table(DirectCommands, DirectSends,
        DirectPeople ++ DirectChannels ++ DirectServers
        ++ DirectMoves ++ DirectOrders),
     hybrid |-> Table(HybridCommands, HybridSends,
        HybridPeople ++ HybridChannels ++ HybridServers
        ++ HybridMoves ++ HybridOrders),
     kcircd |-> Table(KcircdCommands, KcircdSends,
        KcircdPeople ++ KcircdChannels ++ KcircdServers
        ++ KcircdMoves ++ KcircdOrders),
     ratbox3 |-> Table(Ratbox3Commands, Ratbox3Sends,
        Ratbox3People ++ Ratbox3Channels ++ Ratbox3Servers
        ++ Ratbox3Moves ++ Ratbox3Orders),
     plexus |-> Table(PlexusCommands, PlexusSends,
        PlexusPeople ++ PlexusChannels ++ PlexusServers
        ++ PlexusMoves ++ PlexusOrders),
     bahamut |-> Table(BahamutCommands, BahamutSends, BahamutDoes),
     unreal32 |-> Table(UnrealCommands, UnrealSends,
        UnrealServers ++ UnrealUsers ++ UnrealKills ++ UnrealOrders),
     inspircd12 |-> Table(Inspircd12Commands, Inspircd12Sends,
        Inspircd12Servers ++ Inspircd12Channels ++ Inspircd12Users
        ++ Inspircd12Orders),
     inspircd20 |-> Table(Inspircd20Commands, Inspircd20Sends,
        Inspircd20Servers ++ Inspircd20Channels ++ Inspircd20Users
        ++ Inspircd20Orders)]

\* What a line of the ircd does: an unregistered command does nothing.
Does(d, source, command) ==
    LET registered == Dialects[d][source]
    IN  IF command = "JOIN 0" /\ "JOIN" \in DOMAIN registered
        THEN Dialects[d].does["join 0"]
        ELSE IF command \in DOMAIN registered
        THEN Dialects[d].does[registered[command]] ELSE "none"
=============================================================================
