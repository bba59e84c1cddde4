# A formal model of Omega Services

Omega Services is a security-services daemon for IRC networks, written in C.  It links to an
IRC server as if it were a server itself, learns the network's servers, users and channels
from that one link, and runs clients of its own (Guardian and others) through which modules
watch, count, scan and ban.  This directory holds TLA+ modules of its core, the TLC
configurations that check them, and proofs that TLAPS checks.

Run from this directory: `tlc -config MCNetwork_servers.cfg MCNetwork`,
`tlapm NetworkProofs.tla`.  PROJECT.json lists every run, the line of source each definition
stands for, the wrong variant each property is known to reject, and the theorems.

## 1. The system

One process, one main thread (`src/main.c`, `OneTimeAround`): set the time, run the timers
that are due, run the queue of modules to load, and `select` over the sockets.  Whatever the
uplink sends is read into lines, and each line is parsed and handled to its end before the
next.  Handlers call each other directly; a handler raises an event and the event's handlers
run inside it.  Some modules spawn threads, and signal handlers do real work.

| Component | State | Operations | What is hard, and what makes it correct |
|---|---|---|---|
| Network state: `user.c`, `channel.c`, `links.c`, `dlink.c` | `userlist`, `channels`, `servlist`; each user's channels and server, each channel's users and `usercnt`, each server's uplink | add, rename, exit a user; join, part, kick; introduce, exit a server; lose everything | Lists of pointers into each other, freed from many places.  Both sides of a membership agree, `usercnt` never frees a channel under its users, no pointer to a freed server, netsplits take exactly what is behind them |
| Protocol: `modules/protocol/*.c`, `protocol.c` | `sync_state`, per-protocol tables | one handler per message | 14 near copies of one file, which differ in what they register, answer and call; our records and the ircd's must agree although lines cross |
| Uplink: `socketengine.c`, `send.c`, `m_ping.c` | the socket, its read buffer, its lines, its send queue, the reconnect timer | connect, read, send, lose | Short writes, a loss in the middle of a handler, what is left from the old connection |
| Parser: `parser.c`, `cmds.c` | hash tables of handler lists | add, delete, dispatch | A handler that removes handlers during the dispatch |
| Events: `eventhandler.c` | one list of named events and timers | add, delete, raise, run timers | A handler that deletes its own or other registrations during the walk; a handler that stops the chain |
| Modules: `module.c`, `g_mod*.c` | the list of modules, the start-up queue | open, close, reload, three passes at start-up | Dependencies out of order, failure after half an initialisation |
| Threads: `threads.c`, `g_bl.c` | a list of threads | spawn, end, cancel, end all | The list is shared, and spawning takes no lock.  A thread that ends early, a user that quits under its thread |
| Sessions: `g_sessions.c` | counts per host, exemptions as a list and as rows | connect, exit, exempt, rehash, reload | Counts against `userlist` over kills in the middle of an event, services and reloads; list against rows |
| Scan: `g_scan.c` | a queue of user pointers, timers | connect, burst, timer, SCAN | The user may be freed while queued; the timer is armed only if the BURST chain gets that far |
| Watch: `g_watch.c` | rules, a queue from the burst, rows | join, connect, timer, commands, rehash | User and rule may be freed while queued; Guardian must stay where the rules are |
| Join flood: `g_joinflood.c` | a counter per channel | join, timer | A flood is seen in time, a lock-down ends; the end time is not set at first, names are cut, and an unlock is lost when the link is down |
| Access: `access.c`, `g_access.c`, `match.c` | entries with masks and flags, the rights each user was given | add, delete, rehash, connect, oper mode | Entries of two origins; rights are copies that every change must refresh |
| Database: `dbmanager.c`, `flatfile.c` | containers of rows, one file | add, delete, save, load | Save unlinks before it writes; load stops at the first short line |
| Configuration: `config.c`, `configparse.c` | a tree of directives, an include stack | load, get, destroy | Includes and their limit over many rehashes |
| Process: `main.c`, `sig.c` | `sync_state`, what the files bring back | start, rehash, save, restart, exit, be killed | What was saved is there again; what a rehash reads is what a start reads |
| Split tracking: `contrib/m_splitserv.c` | servers that split | server events, timer, commands, database | Follows `servlist` by events only, and not all of them are raised |
| libopm: `libopm/src/libopm.c` | a queue of scans, live connections, `fd_use` | scan, end, cycle | One count over many ways to close; callbacks that end other scans |
| Blacklists and statistics over HTTP; operator commands; log; string tools | | | see the notes in PROJECT.json |

How they meet: the uplink's lines drive the protocol handlers, which change the network
state and raise events (`USERCONN`, `USEREXIT`, `SERVERCONN`, `SERVEREXIT`, `CHANJOIN`,
`BURST`, ...) that the client modules listen to; any handler may call `send_line`, and a
`send_line` that fails runs `uplink_cleanup` on the spot, which frees the network state.

## 2. Modules

    Lists             a list of dlink.c without some of its nodes
    ServerTree        Subtree and friends: what exit_serv takes with it
    NetTree           abstract: a tree of servers with users, netsplits in one step
    Network           the network state; one action per message handler
    Netsplit          exit_serv itself, one step of its recursive walk at a time
    Uplink            the socket to the server: queue, reader, loss, reconnect
    Events            the event list and the two walks over it
    Modules           extends Events: the module loader, and what handlers do to the list
    Dialects          the twelve protocol modules as tables
    Protocol          extends Dialects: a link with the ircd of one dialect
    Visitors          what Guardian's modules see of the network
    Sessions, Scan, Watch    extend Visitors: one module each
    JoinFlood         g_joinflood, with its clock
    Clients           composes Sessions, Scan, Watch and JoinFlood on one network
    Threads           threads.c with the threads of g_bl
    Proxies           libopm
    Helpers           Threads and Proxies in one specification
    Config, Database  the files, and what is read from them
    Access, Splits    the access list (over both), the split list (over Database)
    Daemon            composes them: the life of the process
    ListProofs        lemmas on lists, numbers and folds, which the others use
    NetworkProofs     invariants of Network, the exact count without kicks, NetTree
    NetsplitProofs    the walk of exit_serv, and that it is the netsplit of NetTree
    UplinkProofs      the reconnect timer, the stream of bytes and the lines that are parsed; what a
                      link keeps right in each of the twelve dialects
    ModulesProofs     what start-up loads and what stays loaded; what walks of the event list find
    ClientsProofs     sessions, exemptions, the version scan, join floods, the watch
    HelpersProofs     the registry of threads, the scans of libopm
    DaemonProofs      rights follow the access list; lists and their tables go together; what was
                      saved is restored, and a rehash reads what a start would read
    MC*               instances for TLC

`Network` and `Netsplit` both implement `NetTree`: the first with a netsplit as one step
(the handler is not interruptible), the second showing that the walk over `servlist` with
its recursive calls comes to that one step.

### Network

An action is a message handler with everything it calls, after `ratbox3.c`; `RecvKick` is
the `KickFromChannel` of the inspircd modules.  Users are the addresses of their structs,
because the lists hold pointers and an address can be used again; channels and servers are
their names, because `new_chan` and `new_serv` return the struct that has the name already.
`members`/`chans` are the two lists of a membership.  `fault` becomes TRUE where the code
touches memory that is freed, NULL or uninitialised: the step is modelled, what follows is
not.  Faults the model has: a SQUIT of our own server followed by anything that writes
`Omega->me`, a SQUIT whose walk steps on a freed node (that is `Netsplit`), a new user on an
unknown server (`exit_user` logs its unset server), a FORCEPART of the last user of a channel
(its PART reads the name of the channel that has just been freed).

Assumption: lines are handled while the link they came in on is up.  `Uplink` shows where
the code breaks this (a handler whose own `send_line` fails: the lines of the batch that
are left are still parsed), and `WholeLines` that this ends with the batch.

| Code | Model |
|---|---|
| `userlist`, `u->nick`, `u->serv`, `u->myconnect`, `u->channels` | `users`, `nick`, `home`, `mine`, `chans` |
| `channels`, `c->users`, `c->usercnt` | `channels`, `members`, `usercnt` |
| `servlist`, `li->uplink` | `servs`, `up` |
| `servsock->sd != -1` | `linked` |

Left out of `Network`: modes, topics, bans, away, umodes, hosts (payload), `CmdTable` of the
clients, events (their handlers change other components' state).

### Netsplit

`exit_serv(s)` walks `servlist` with `DLINK_FOREACH_SAFE`, calls itself for each child of
`s`, then exits the users of `s` and frees `s`.  `stack` holds one frame per active call: its
server, the node its loop is at and the node it remembers as next.  A recursive call frees
nodes the outer loops may remember; stepping on one is `fault = "freed"`.

### Uplink

A line is two bytes, so that a write can be short.  `sendq` entries carry the number of the
descriptor, not the connection, as in the code, and other sockets compete for numbers.
`mode` is where the main loop is: idle, reading, parsing the batch.  The sends of a handler
are `SendLine` steps after its `ParseLine`.  `wire`, `left`, `said` are history: what was
written to the present connection, what the queue held for it when it was made, what was
said on it.  Not modelled: TLS, the error paths of `socket` and `malloc`, the 512-byte limit.

### Events and Modules

`Events` has the list of `eventhandler.c` and its walks, one node at a time.  The pointers
`dl` and `tdl` of `DLINK_FOREACH_SAFE` are marks on the nodes they point to: a node that is
deleted takes the mark along, and a walk that goes on where no node is marked "next" any more
has stepped on freed memory: it is `Lost`, which `NextLives` excludes.  Both walks look at
`ev->recall` of the node they have called, after its handler.  The timers that delete themselves
(`WorkOff`, `FirstRun`, `ConnectUplink`) have freed it by then: the walk goes on if the memory
still holds what it held, and is `Misread` otherwise, after which the model says nothing.
`Modules` says what the handlers do: `Info` is, for each module, what its init
function registers and its close function deletes, and `WorkOff`, `InitEvents`, `FirstRun`,
`ConnectUplink` and `Purge` are the handlers that change the list.  `AddEventEx` is always
called without a limit (its one other call, in `Run`, cannot be reached), so `recall` is -1 in
every node that is in the list, and is left out.  Start-up works the queue off entry by entry; a file may turn out bad at any time.
After start-up nothing fills the queue again, so the passes that the main loop and the
REHASH handler make over it find nothing (`QueueDrained`).

A run of `Modules` looks at one member of `Setups`: which modules there are, what the
configuration asks for, which event names matter.  `setup` is chosen at the start and stays.

Left out: events raised inside a handler (none of their handlers changes the list, but for
a lost link, which any sending handler may bring about here too), signals, which raise
REHASH and SHUTDOWN in the middle of a walk, and unloading the protocol module.  Handlers
with no return value may stop their chain; so may the two that stop at a remote user.

### Dialects and Protocol

Eight of the protocol modules are copies of one file, four are their own.  `Dialects` has for
each what a reader would compare by hand: the commands it registers with the handler of
each, the functions it puts into `IRCd`, how it introduces us, and what each handler does to
our records, by kind.  `Protocol` gives the kinds their meaning and adds the ircd: users that
come, join, part, oper and quit; opers and servers that kill and kick, us too; relinks to
another uplink, with or without TS6.  Each thing it does is one line, which arrives in order
and at any later time.  Our own lines arrive at once: of two lines that cross, one may be
taken to arrive at once, and the model takes ours.

In sync (no line under way, the burst over) both sides agree (`Agreement`), but for the
losses that `Lost` lists for each dialect, each read from its source: the ratbox family
handles no KICK and reads JOIN 0 as no part at all or, in four of its modules, dereferences a
parameter that is not there; bahamut hears of no QUIT, PART or KILL; directircd ignores
opers; no module tells of an SVSNICK it carries out.  `past.odd` notes which of these
happened, so that the invariant is about all the other behaviours.  Two more excuses are
general: what we change, of our own accord or by carrying out an order of the ircd (`Obeyed`),
while a line about the same person is under way, and an uplink whose SID is not the one the last
PASS left behind.

`LinkRight` says that every link raises CONNECT and then BURST, each once, that only the
listed things end the process, and that `s_Guardian` never dangles in the two dialects that
take care of it.  `ChannelsKept` says that our users keep their channels when the link is lost,
to join them again on the next, and that those of the network leave them; `BurstEnds`, that a burst
the uplink ends is over for us too, whatever else arrives before.

Not in it: `nefarious.c` (the Makefile does not build it), `inspircd.c` (refuses to load),
channel modes, topics and bans, and the timeout of `ev_ping`, whose comparison is reversed
(`m_ping.c:87`) so that it can only fire early.

### Visitors, Sessions, Scan, Watch, JoinFlood and Clients

`Visitors` is the network as events: users of the uplink come and go, join and part, the link
is lost, the burst ends.  AddUser's USERCONN is a chain of handlers, one step each, in the
order the modules were loaded, for a handler may kill the user whom the next are called with
(`fault` is then "freed user", and nothing follows).  Each module adds its state, its handlers
and its commands; `Clients` joins each event with what every module does about it.  Pointers in
queues become `Freed` when their struct is freed; reading one is a fault.

Where the code counts or remembers unevenly, a history variable says exactly when, and the
invariants hold otherwise: `blind` (hosts with users that were never counted: services, users
older than the module, users killed in the chain), `wild` (an EXEMPT DEL whose wildcard took
other entries off the list but not their rows), `met` (a BURST that met a remote user), `ousted`
(channels Guardian was kicked from), `missed` (users under a rule that `g_watch` passed by),
`wiped` (a flood count that `chk_floods` threw away because of the end time that was never set)
and `orphans` (channels left locked).  `g_scan` counts nothing in its score, because the switch
in `scan_nick` has no case labels, so the queue of suspects is always empty.

`Watch`.  Users change their nick and their oper mode (`UserChanges`), which `g_watch` does not
hear of.  A nick may match several patterns; `evh_user` heeds the first rule that matches,
whatever its action.  A watched channel's name is cut (`Cut`): REMOVE, SET, the rows and the
removals of a rehash (`ConfigGoes`) go by what is left of it, which may be another channel's name.
The timer of the queue deletes itself when the queue is empty; what is queued after that
stays there.  `missed` has exactly the pairs of user and rule that these leave behind, each as long as
the rule would apply, so that `NoneEscapes` is about all others: whoever a rule is for was dealt
with, or waits in a queue whose timer is there.  Where a configuration rule's channel was freed
because Guardian had been kicked, the rehash reads it: a fault.

`JoinFlood`.  An entry keeps 33 characters of its channel's name and is looked for by the whole
name; `Kept` gives the name that is kept, which may be another channel's.  `chk_floods` frees the entry
of a lock that is over and sends the unlock by `send_line`, which sends nothing when the link is
down (`socketengine.c:780`): the channel is then an orphan, locked for good.

### Threads, Proxies and Helpers

`Threads` splits `spawn_thread`, `dest_thread` and `dest_all_threads` at every access to what
they share: `threadlist`, `thread_count` and the structs.  The main thread takes no mutex.  A
thread of `g_bl` asks a blacklist (one step), looks at the user it was given, which may be gone,
and ends.  `overlap` notes what breaks the registry: a thread that comes to `dest_thread`
while `spawn_thread` has not inserted it, or the two at the counter or the list in the same
moment.

`Proxies` is libopm's cycle: establish what fits under the limit, poll, reap what is closed or
too old, report.  A peer may accept, refuse, hang up, answer as an open proxy or say nothing, in
any order over the connections of a scan; callbacks may end other scans.

### Config, Database, Access, Splits and Daemon

The disk holds configuration files (an administrator changes them between steps) and the lines
of the database.  `Config` reads files with their includes, the limit and the loop check;
`Database` is tables of rows, written whole and read up to the first line of a one-word
value.  `Access` has the entries from both, and the rights of the network's users (not of our own
clients) as the copies they are.  `find_access` matches nick, ident and address, so a mask is the
set of `<<user, nick, ident>>` it matches; `AddUser` reads the modes, and may set rights from them,
before it knows the address.  FIDENT, NICK and the service mode change what would be found and set no
rights (`unnoticed`); services are left alone by `setAccess` and keep what they had.
`Splits` is the list of `m_splitserv`.  `Daemon` starts, rehashes, saves, restarts, exits and is
killed, at any moment and in the middle of a write; sets of moves (`Scopes`) keep the parts
that do not meet apart.  The purge at exit and at a restart closes the database, which frees
it, before `m_splitserv` saves to it: the process may go on (`AtExit`, `DoRestart`) or end there
(`RestartFaults`).

Left out: `<die>` and malformed files, hash collisions of the configuration tree, modules
that are reloaded over their rows (`g_access`), the table "I", and signals that interrupt a
handler.

## 3. Runs

| Run | Instance | Shows |
|---|---|---|
| `kicks` | 3 users, 2 channels, 2 servers, `usercnt` may run ahead by 2 | lists agree, no channel freed under users, our clients keep their channels over a loss |
| `servers` | 3 users, 1 channel, 5 servers, no kicks | the inductive invariant; `usercnt` is exact, the last user out destroys the channel, no dangling server pointers, `Network` implements `NetTree` |
| `netsplit` | 5 servers in every tree and list order, 2 users | the recursive walk implements the one-step netsplit, uplinks stay readable, it returns, and a freed node needs a grandchild |
| `uplink` | 3 connections, 2 descriptors, 4 more lines out, 3 bytes in | each connection's stream is kept, one timer exactly when needed, whole lines of the latest connection but for torn heads, a loss is followed by an attempt |
| `modules` | three set-ups: every start-up queue of up to 3 entries; 4 modules that share event names; timers of `g_scan` and `m_omegastats` over several bursts | nothing stays queued; who asks for `g_core` in time is loaded if it is, and `g_core` stays; a walk's next node lives, through the purge at exit, and nothing due is passed over; which handlers outlive their module |
| `clients` | eleven set-ups of up to two users | counts, exemptions and rows, the version queue, rules and their queue, floods, what locks a channel and that the lock ends |
| `helpers` | 3 threads; 3 remotes with 1 or 2 protocols under a limit of 2 descriptors | the registry and `fd_use` are exact, an open proxy is reported before anything else of its connection, every thread and every scan ends |
| `protocol` | all twelve dialects, two clients of ours, one user, one or two links and acts | agreement in sync, events of a link, how the process can end, channels outlive the link, the burst ends |
| `daemon` | five scopes over files with includes, loops and missing parts | rows and list, rights and list, splits and links, what a start and a rehash bring back |
| `uplink_retry` | violation | a `Connect` that fails is never tried again |
| `helpers_stale` | violation | a thread that ends early leaves its entry for ever |
| `daemon_rehash` | violation | a rehash beyond the include limit empties the configuration |

Bounds.  Three users: one to stay, one to leave, one whose address is used again; a channel
needs two to tell "last" from "not last".  Two channels: leaving one must not touch the
other.  Five servers: us, the hub, and three behind it, enough for a chain of three, a fork,
and a grandchild's node between two others in the list.  `MaxGhost` bounds how far kicks let
`usercnt` run ahead (it is the only unbounded counter); two is enough to tell "one too many"
from "growing".  Three connections: a leftover that passes through a second connection into
a third, on another number.  Three bytes in: a whole line and a torn one.  Addresses, nicks
and channels are symmetric in `Network` (no property tells two apart); liveness is checked
without symmetry.

`Uplink` is checked with writes that would block as well, although the uplink's descriptor
is a blocking one: the code handles them.  The violation run leaves them out.

`Modules` names the events of interest in each set-up, because every registered node is a
step of every walk.  `room` bounds the list where a module is opened or a burst ends: handlers
that outlive their module pile up without it.  Four leaves room for a second scan
timer, eleven for all the modules with handlers left behind.

`Clients`: two users on one host and one on another tell a count from the count of a host; two
entries in a queue and one per run of the timer leave one for the next run; two rules, of two
origins, or of two patterns that match one nick; a channel whose name is another's cut; windows of
2 seconds with 2 joins and a lock of more than 1 let windows follow and overlap a lock, on two channels
at once or on one beside a longer name.  A rule has the first address that neither the old list nor the new one uses
(`FreeAddr`), so that in a rehash a replaced rule is never taken for its successor, and an
address is used again as soon as it can be.

`Helpers`: with three threads one may be in `dest_thread`, one spawning and one in between;
a limit of two makes a scan of two connections wait for one of one, and the other way round.
`opm_scan` takes a scan with more protocols than FD_LIMIT, which would wait for ever and hold up the
rest; `ProtosAssumption` leaves it out, because the client sets both numbers.

`Protocol`: one act on one link shows what each line does to both sides; two acts and two
links, for the two dialects that stand for those that keep something between links
(`charybdis` a SID, `inspircd12` an Uplink), show what crosses and what is stale.  `Counts`
starts `unreal32` with its counter at the edge, as a longer life would leave it.

`Daemon`: `MaxInclude` is 2 instead of 10, so that one start with an include uses it up, as ten
files do; one user with two nicks and two idents, one flag and two masks, one of them by
address, since entries are matched in order.

Fairness.  `Netsplit` assumes WF of the walk: it is a call on the only thread, which goes on
once begun.  `Uplink` assumes WF of the start, of draining what was read (the same argument)
and of `ConnectUplink`: `OneTimeAround` comes back to the timers at least every 250 ms, the
timeout of its `select`.  `Clients` assumes WF of the timer `chk_floods` and of time.
`Helpers` assumes that a thread runs until it waits, that the client calls `opm_cycle` again (as
`test.c` does), and time, which passes whenever it can again and again (SF: a walk over the
scans goes by the time it began at); nothing of the peers.  `Protocol` assumes WF of handling a line that
has arrived, and of the uplink ending its burst.  `Modules` and `Daemon` state no fairness: their
properties are safety.

Deadlock is checked but in `modules`, `clients`, `helpers` and `protocol`, where the daemon ends,
a fault stops the behaviour, or a bound is used up.

## 4. What is proved

Every theorem holds for every value of the constants that satisfies the named assumptions of
the modules; TLC evaluates these on each run.  An inductive invariant was given to TLC before
it was proved.

`NetworkProofs`, for every number of users, nicks, channels and servers.  Assumptions: `Addr`
is finite, `Me` and `Hub` are different servers, the "none" values are not names, `MaxGhost` is
a number.

The inductive invariant is `NetInv`, which the run `servers` checks: types with `usercnt`
in `Nat`, membership, counts, nicks, live links, `OnlyOursUnlinked`, that our clients sit on
our own server, and that a name not in `servlist` has no
uplink left.  The last two are what the other parts lack to be inductive:
`OnlyOursUnlinked` needs to know where our clients sit when the servers are freed, and
`LinksLive` that a server that comes back under an old name starts without an uplink.
`CountCovers` is what makes a freed channel empty: `Leave` frees a channel when the count is
used up, and with the count at least the list, the list is used up too; that is a fact about
cardinalities, stated as lemmas once.  Each action has its lemma, `NextInv` puts them
together and `NetInvHolds` makes them a theorem of `Spec`; the theorems for the single
properties follow from it.  `CountExact` and `LastOneOut` hold under `MaxGhost = 0` (no module
that kicks).  Every step of `Network` is a step of `NetTree` or a stutter; this one needs
`HomeInv` as well.

`NetsplitProofs`, for any number of users and servers and any tree, from `Me` and `Hub` being
two servers and `NoServ` none.  The invariant `IInv` of `UplinksReadable` orders everything by
`servlist`: a server stands behind its uplink
(`Ordered`), so the calls in progress stand behind each other (`Nested`, which makes the
servers being exited different ones), and each loop has its remaining children at its own
node or from the remembered node on (`Covered`), unless that node is freed.  A loop that has
come to the end without a fault has then met all its children, so the server it frees is
nobody's uplink.  Our own server is the exception to the order: it is first in the list and its
uplink comes later, but no server is linked to it.

`StaleNeedsGrandchild` and `ImplementsTree` need `WalkInv`: the present lists are those of the
beginning without what is gone, what is gone lies in the subtree and took along what hung
below it (`Walked`); a loop never remembers the node it is at, and a remembered node that is
gone was not linked to the server exited first (`Loops`).  When the first call returns its
server is gone, and the subtree, the least set closed under "below", is then neither more nor
less than what is gone.

`UplinkProofs`, for any descriptors, any outcomes of `write` and any bounds.  `OneTimer` needs
`TimerInv`: the loss of the link adds one to the timers there are, so there must be none
while it is up, no failed `Connect` may be remembered then, and the first `Connect` must find
none.  That a new socket is up at all (its number is never -1) rests on the least element of
a set of numbers, taken from the well-foundedness of `<` on `Nat`.  `WholeLines` needs to
know what the read buffer may hold (`BufInv`): starts of lines in the order of their
connections, and behind them the first byte of the line the latest connection is in exactly
when an odd number of bytes was read on it; and that no line waits when a connection is made
(`LinesInv`).  `StreamKept` is inductive together with the types and with the ghosts being
empty while the link is down (`StreamInv`).  Its argument is about one flush: what a flush
writes to the connection and what it leaves make up what the queue held (`Flushed`), wherever it
stops, in the middle of an entry too; and what is written of a line and what `sendq_add` keeps of
it make up the line (`UnsentFits`).

The same module proves `LinkRight`, `ChannelsKept` and the types (`LinkTypeOK`) of `Protocol`, for all
twelve dialects, any users of ours and of the network, any uplinks and any bounds
(`PeopleAssumption`: people are told apart, and the network has finitely many; `SpokenAssumption`,
`LimitsAreNat`).  The invariant is `LinkInv`:

* `RecordsRight` and `HeldRight`: whoever is in the channel is known, on both sides, and nobody is
  listed twice; Guardian is known in unreal32 and bahamut; `Uplink` dangles only in a dialect where
  that may end the process.
* `Raising`: what the link has raised is determined by whether it is still in its burst.  The burst
  is ended from two handlers and a timer, and each looks at `sync_state` first.
* `Lines`: which lines may be under way.  A line that makes a user known names a user of the network,
  and one by which somebody quits or joins names its own sender, so that no QUIT can take
  Guardian.

What the dialects' handlers do is in tables, and the invariant needs a few facts about each of them
for every command (`Tame`: what adds a user is NICK or UID from a server, what reads a missing
parameter is in a dialect that may end so, only unreal32 counts kills, and so on).
`DialectsTame` proves them table by table, the five copies that share one together.
After that no proof looks into a table: each function of `IRCd`, `user.c` and `channel.c` has a lemma
that it takes a right world to a right world, and each action follows from those.

`ModulesProofs`, for any core directory whose modules ask for nothing, any start-up queue and
files that turn out bad at any time (`SetupsAssumption`).  `LoaderRight` is a part of `LoadInv`,
which follows the passes: what is left in the queue behind the present position is for a later
pass, and what is before it is not for an earlier one (`Passes`), so that the last pass leaves
nothing.  `Asked` says that what was asked for is loaded or still waits, provided `g_core` is or
does, and that `g_core` never waits for the last pass: so whoever is put off to the last pass
for want of `g_core` finds it there (`DependentsLoaded`).  Nothing is assumed of the event list.

`NextLives`, `OnlyForgotten` and `NoneSkipped` are about that list, for any set-up whose names of
interest hold REHASH if they hold SHUTDOWN (`SetupsAssumption`; the real list holds both), and
modules none of which is called `Gone` (`GoneAssumption`).  The invariant is `EventInv`:

* a node belongs to the core, to a module that is loaded, or to a closed one that forgot it;
  what its module will delete stands once in the list (`Homely`, `Once`), because modules are
  opened only when they are not loaded and closed before they are opened again.  Hence the first
  node that a close function finds is the one it means;
* behind the SHUTDOWN hook stands the REHASH hook of the loader (`Hooked`), which no module deletes:
  the next node of the walk in which `purge_modules` closes all modules;
* a walk stands before one node, holds the one right behind it exactly if there is one, and has
  yet to call nothing that is before it (`Stands`).

A handler may leave any list in which the next node is still marked and everything left to call
is not before it (`Ready`); a lemma for each operation on the list says that it keeps `Listed`
and `Ready`: nodes taken off, nodes added behind, nodes disowned.  A handler that deletes does so by the
name of its own node, and the first of that name is not behind it (`DeletedKeeps`).  The list at
the start is a fold over the core directory, followed module by module (`CoreAdded`).

`ClientsProofs`, for any set-ups, users, rules and limits, with all modules together and in any
order of loading (`FloodAssumption`, `ScanAssumption`, `VisitorsAssumption`, `WatchAssumption`:
limits are positive numbers, the rows of a set-up come in an order; `GuardianAssumption`: Guardian is
none of the network's users; `RulesAssumption`: rules are for channels of the instance or the nick, with
the actions `take_action` has).

* `FloodsRight` and `LockedForCause`, from `FloodInv`.  The count of an entry is compared with
  the history of SJOINs: those of the present window are counted, before it lies one window with
  fewer than `Most`, and nothing counted is older than the window (`Tallied`).  Hence `2 * Most
  - 1` SJOINs within `Dur` seconds must have filled one of two windows.  Where the module was
  closed or the entry thrown away the same holds up to that moment (`Untallied`, `wiped`).  A name
  that others are cut to may have its entry from one of them, which counts one SJOIN that was none
  of its own (`Shared`).
* `ScanReaches`, from `ScanInv`: the chain of handlers is a part of the modules loaded, in
  their order and each once, so that a guest whose handler is still to be called is told from
  one that was left out.
* `ExemptsRight`, from `ExemptInv`: the invariant itself and the range of the list.  What ADD,
  DEL, LOAD and a rehash do with list and rows in one fold is followed stage by stage.
* `SessionsRight`, from `SessionsInv`, which joins the types of all variables, `ScanInv`, the
  queues' pointers (`Pointers`) and the counts.  The counts need a sharper statement than the
  property: the guest is not counted while the handler that counts him has yet to be called
  (`CountsRight` speaks of the users of a host without those `Waiting`).  `Pointers` needs that a rule's
  address is new, for which there must be an address that no rule uses: a list of `n` rules
  uses at most `n` addresses.
* `WatchHolds`, from `WatchInv`, which rests on `SessionsInv` for the queue's pointers.  No two rules
  have one address, nor one name unless it is cut (`RulesRight`), so that a pair in the queue is of
  one rule and only of that.  Whoever a rule is for waits for the handler that has yet to be called
  for him (`Due`), or is excused: passed by, or queued while the timer is there (`Caught`).  Guardian
  is on every watched channel whose name is kept whole and that he was not kicked from (`WatchedKept`), and rows
  are what `take_action` knows (`RowsRight`).  Every step is taken through one lemma about the list
  of rules it leaves, before pointers are lost (`WatchFrom`, `Follows`); those that make the list in
  a fold, ADD, REHASH and `Module_Init`, are followed one rule at a time (`SoFar`, `AddedRight`).
  Names may be cut in any way: the property says itself which rules it is not about (`Apart`).

`HelpersProofs`, for finitely many threads and remotes and a descriptor limit that no scan alone
exceeds (`ThreadsAssumption`, `ProtosAssumption`).  `RegistryRight`, from `ThreadsInv`: while
nothing has overlapped, list, count and freed structs are determined by what each thread is at
and by the step of `spawn_thread` in progress (`Exact`), and the thread being spawned has not
come to the mutex; after an overlap only the bounds are left, of which the one on the counter
needs that it is never above the number of threads ever counted.  `ScansRight` and `OpenFirst`,
from `ScansInv`: `fd_use` is the number of connections that hold a descriptor, scans that wait
have no connection begun, outside `check_establish` no live scan has one left to begin (what was
taken from the queue fitted under the limit together), and only a closed connection has been
reported.

`DaemonProofs`, for any users, masks, flags, servers, access lists and files on the disk, as long
as what a file includes is a file, maybe an empty one, no file has the name that stands for a free
slot, and what a file gives as a host is a mask (`DisksAssumption`; `ScopesAssumption` says the
instances choose among these).

* `RightsFollowList`.  The proof never looks into a list or a file, only at who is refreshed and
  when.  The case that needs an argument is `refresh_access`, which skips those who are no opers
  while only opers have rights: they have none under the old list and would have none under the
  new (`Refreshed`).  The start, the end of the process and the loss of the link leave nobody
  whose rights could be wrong.
* `RowsRight` and `SplitsApart`, from `DaemonInv`: what tables, rows, lines of the file,
  directives, entries and splits may be, next to the two properties.  Each operation on the
  database has its lemma (`RowAdded`, `RowDeleted`: one table changes, by one key, the others
  stay), each loop over rows or directives one that follows the fold (`RowsLoaded`,
  `SplitsLoaded`, `ListBuilt`, `ListLoaded`: the keys of the rows become the names that are the
  database's own).  A file cut anywhere is still made of whole lines, so that what a kill leaves
  behind can be read.  `past.early` is what the property of the rows needs to be inductive: a
  rehash before the end of the burst drops entries whose rows stay.
* `ConfigLoad` follows includes into includes, as a recursive function on states and files.  That
  there is such a function, and that it stays within the states of the files it reads, is an
  induction on the number of includes left until the limit: an include is entered with a higher
  count, and nothing takes a count back (`LoadExists`, `LoadCounts`).  The limit, not the check
  for loops, is what ends it.
* `FilesRestored`, its half about the database.  `FileInv` says that a file written whole is the
  lines of some database with a row for each entry that was saved and, if splits were tracked,
  with exactly their rows in their order; a start of the process, an edit or a command leave that
  alone, a failed or cut write gives it up.  It needs that an entry of ours has its row even
  after an early rehash (the first half of `RowsInv`), that `SaveDb` leaves the rows of the list
  and no others (`SplitRowsGone`, `SplitRowsWritten`), and that reading undoes writing: the
  lines of a table stand together (`LinesStand`), those of other tables leave it alone, so the
  rows come back one by one in their order (`RowsComeBack`).  `RowsGiven` follows one row through
  the building of the list, `SplitsInOrder` the order of the splits.
* `FilesRestored`, its half about the configuration.  Two readings that stay below the limit have
  the same directives because each has those of the least closed set of files, one that has
  what it includes: every file that was entered is complete at the end (`Grown`), and nothing
  outside a closed set is entered (`Keeps`).  That the fresh start stays below the limit
  when the rehash does follows from the loop check, which sees every file there: entered files
  are different ones of a set that fits in the stack (`Packed`, `RoomLeft`).  At a rehash the check
  sees nothing, since the first slots are free, and files may be read twice; the directives are
  the same.  `ReadsRight` is all of that, by the same induction on the limit.

Lists in proofs.  `SelectSeq` is defined by recursion, which the provers cannot look into.  The
models that are proved about use `Picked` of `Lists` instead, what stands at a set of places in
the order of the list; `PickedKeeps` says that it is a list that keeps the order.  A fold is
a function on the sets of numbers `1..n` by its definition; `FoldExists` says there is one,
and a proof defines its stages and goes from each to the next; `FlattenJoin` does the same for
`FlattenSeq`, over two lists of lists one behind the other.  `CountedUp` is induction on
numbers for a set in place of a predicate, from the well-foundedness of `<`.

Only model-checked:

* all liveness (`Returns`, `Retried`, `LocksEnd`, `HelpersEnd`, `BurstEnds`), which needs
  fairness and ENABLED;
* `Agreement` of `Protocol`, but for its types.  An invariant for it must say, for every list of
  lines under way, that our records with those lines applied one by one are what the ircd holds,
  unless something in `past.odd` excuses it: a fold over the lines whose every stage depends on
  the dialect.

No module uses a RECURSIVE operator: `Subtree` is the least closed set, `ConfigLoad` a recursive
function.

## 5. What the checks found

Runs that expect a violation show three disagreements between the code and what it says of
itself:

* A failed `Connect` counts as success (`uplink_retry`).
* A thread that ends before `spawn_thread` has inserted it leaves a stale entry and frees
  another thread's struct (`helpers_stale`).
* The include counter is never reset, so that after ten files a rehash loses the whole
  configuration (`daemon_rehash`).

Others appear as the exceptions that properties must make, or as faults of the models:

* `KickFromChannel` does not decrement `usercnt`: with kicks only `CountCovers` holds, not
  `CountExact` or `LastOneOut`, and a channel whose last user is kicked stays for ever.
* `exit_serv`'s loop can go on with a node its recursion freed; `StaleNeedsGrandchild` says
  when it cannot.
* The send queue survives the connection it was for: `StreamKept` starts the stream of a
  connection with `left`, the unsent rest for the same descriptor number.
* Two bursts leave `g_scan` with two timers of each kind; it deletes one of each when it is
  unloaded.  `g_sessions`, `m_fantasy` and `m_omegastats` leave handlers behind, too
  (`OnlyForgotten` lists them all).
* `g_watch` asked for before `g_core` is not tried again, unlike the modules that use
  `module_dependency` (the exception in `DependentsLoaded`).
* `burst_local_users` stops the BURST chain at the first remote user it meets
  (`user.c:360`), so that `g_scan` may arm no timer (`met`).
* An event handler of `g_watch` that kills a user leaves the handlers after it with freed
  memory (`ReadFreed` of `Visitors`).
* A watched channel's name is copied with the size of a pointer (`g_watch.c:442`).  A rule for a longer
  name hears of no JOIN, may be removed or edited as another channel's, and what its row brings back
  is a rule for the cut name (`Apart`, `missed`).
* `g_watch` hears of no change of nick or mode; the first of two nick rules hides the second; and the
  timer of its queue is gone by the time of a later burst (`missed`).
* An unlock that falls due while the link is down is never sent (`orphans`).
* The walks of the event list read a node that its own handler has freed (`Misread`).
* A KILL of Guardian, a JOIN 0, an inspircd ERROR and the unreal32 counter end the process
  (`EndsOnlySo`); the ratbox family misses every KICK (`Lost`).
* A rehash before the end of the burst drops accesses whose rows stay (`early`); a change of
  nick or ident and the loss of the service mode leave old rights (`unnoticed`), and a service keeps
  those of an entry that is gone; `m_splitserv` saves to a database that is freed; a failed or
  interrupted save loses what was in the file (`whole`); a row of one word, as every exemption's is,
  hides the rows after it from the next start (`Readable`).
* `Protocol` took an order that we carry out for the ircd's own doing, which crosses nothing.  Told to
  part Guardian while a user's JOIN is under way, we empty and free our channel, and drop the
  JOIN as one for a channel that is not there.  The bounds of the run are too small for it; it came up
  when `Agreement` was to be proved, and `Obeyed` now counts it with what crosses.

## 6. Not modelled, and what is left

TLS, DCC and listening sockets, the text of configuration files and messages, wildcard matching
(a relation in the models), reply formatting, operator commands beyond those named above, the
HTTP posts of the blacklist modules, build scripts.  Signals that run Rehash or Exit in
the middle of a handler, and a handler whose own `send_line` loses the link, would need a
program counter for every handler.
