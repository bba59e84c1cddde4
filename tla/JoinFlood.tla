----------------------------- MODULE JoinFlood -----------------------------
(***************************************************************************)
(* g_joinflood.c: SJOINs are counted per channel in windows of Dur         *)
(* seconds; a channel with Most of them in one window is locked down for   *)
(* Hold seconds.  Times are kept as what is left of them.                  *)
(*                                                                         *)
(* join_floodend is not set when an entry is made: what malloc returns may *)
(* be a time in the past (-1) or one that never comes (Never).  A name     *)
(* longer than 33 characters is cut: every SJOIN of it makes another entry *)
(* of the shorter name, which may be another channel's.                    *)
(***************************************************************************)
EXTENDS Integers, Sequences, SequencesExt, FiniteSetsExt, Lists

CONSTANTS
    FloodChans, \* names of channels
    Kept,       \* name -> what of it an entry keeps
    Dur, Most, Hold,
    Never,      \* a time that does not come while the daemon runs
    MaxFloods   \* bound: entries in the list

\* A limit of one SJOIN, or of none, would lock at the second as a limit of two does.
ASSUME FloodAssumption ==
    /\ Kept \in [FloodChans -> FloodChans] /\ \A c \in FloodChans : Kept[Kept[c]] = Kept[c]
    /\ Dur \in Nat \ {0} /\ Most \in Nat \ {0, 1}
    /\ Hold \in Nat /\ Never \in Int /\ MaxFloods \in Nat

VARIABLES
    floods,  \* floodchans: [chan, left of the window, joins, locked, ends: left of the lock]
    held,    \* channels we have set +iRsm on
    recent,  \* history: per channel, how long ago its last SJOINs were
    wiped,   \* history: per channel, how long ago an entry of it was removed
    orphans  \* history: channels left locked, as the module was closed or the unlock not sent

floodVars == <<floods, held, recent, wiped, orphans>>

Past == -1
Short == {c \in FloodChans : Kept[c] = c}
\* Find_FloodChan compares the whole name with the ones that were kept.
FindFloodChan(c) == SelectInSeq(floods, LAMBDA f : f.chan = c)

InitFlood ==
    /\ floods = <<>> /\ held = {} /\ orphans = {}
    /\ recent = [c \in Short |-> <<>>]
    /\ wiped = [c \in Short |-> Dur]

\* The SJOINs of the last Dur seconds, as many as it takes to fill two windows.
OneMore(ages) == SubSeq(Append(ages, 0), Max({1, Len(ages) + 3 - 2 * Most}), Len(ages) + 1)
Remember(c) == recent' = [x \in Short |-> IF x = c THEN OneMore(recent[x]) ELSE recent[x]]

NewFlood(c, junk) ==
    Append(floods, [chan |-> Kept[c], left |-> Dur, joins |-> 1, locked |-> FALSE, ends |-> junk])

\* A wrong variant of MSjoin: the count is kept when a new window begins.
MSjoinKeeps(c, junk) ==
    LET i == FindFloodChan(c)
    IN  /\ IF i = 0
           THEN Len(floods) < MaxFloods /\ floods' = NewFlood(c, junk) /\ UNCHANGED <<held, orphans>>
           ELSE IF floods[i].locked THEN UNCHANGED <<floods, held, orphans>>
           ELSE IF floods[i].joins + 1 >= Most
           THEN /\ floods' = [floods EXCEPT ![i] = [@ EXCEPT !.joins = floods[i].joins + 1, !.locked = TRUE, !.ends = Hold]]
                /\ held' = held \cup {c} /\ orphans' = orphans \ {c}
           ELSE /\ floods' = [floods EXCEPT ![i] = [@ EXCEPT !.joins = floods[i].joins + 1,
                                                    !.left = IF @ = 0 THEN Dur ELSE @]]
                /\ UNCHANGED <<held, orphans>>
        /\ Remember(c) /\ UNCHANGED wiped

\* A wrong variant of MSjoin: it takes more than Most SJOINs.
MSjoinMore(c, junk) ==
    LET i == FindFloodChan(c)
    IN  /\ IF i = 0
           THEN Len(floods) < MaxFloods /\ floods' = NewFlood(c, junk) /\ UNCHANGED <<held, orphans>>
           ELSE IF floods[i].locked THEN UNCHANGED <<floods, held, orphans>>
           ELSE IF floods[i].left = 0
           THEN /\ floods' = [floods EXCEPT ![i] = [@ EXCEPT !.left = Dur, !.joins = 1]]
                /\ UNCHANGED <<held, orphans>>
           ELSE IF floods[i].joins + 1 <= Most
           THEN floods' = [floods EXCEPT ![i].joins = @ + 1] /\ UNCHANGED <<held, orphans>>
           ELSE /\ floods' = [floods EXCEPT ![i] = [@ EXCEPT !.joins = floods[i].joins + 1, !.locked = TRUE, !.ends = Hold]]
                /\ held' = held \cup {c} /\ orphans' = orphans \ {c}
        /\ Remember(c) /\ UNCHANGED wiped

\* m_sjoin
MSjoin(c, junk) ==
    LET i == FindFloodChan(c)
    IN  /\ IF i = 0
           THEN Len(floods) < MaxFloods /\ floods' = NewFlood(c, junk) /\ UNCHANGED <<held, orphans>>
           ELSE IF floods[i].locked THEN UNCHANGED <<floods, held, orphans>>
           ELSE IF floods[i].left = 0
           THEN /\ floods' = [floods EXCEPT ![i] = [@ EXCEPT !.left = Dur, !.joins = 1]]
                /\ UNCHANGED <<held, orphans>>
           ELSE IF floods[i].joins + 1 < Most
           THEN floods' = [floods EXCEPT ![i].joins = @ + 1] /\ UNCHANGED <<held, orphans>>
           ELSE /\ floods' = [floods EXCEPT ![i] = [@ EXCEPT !.joins = floods[i].joins + 1, !.locked = TRUE, !.ends = Hold]]
                /\ held' = held \cup {c} /\ orphans' = orphans \ {c}
        /\ Remember(c) /\ UNCHANGED wiped

\* -iRsm for these channels: send_line sends nothing when the link is down, and
\* nothing sends it later.
Unlock(chans, sent) ==
    IF sent THEN held' = held \ chans /\ UNCHANGED orphans
            ELSE orphans' = orphans \cup chans /\ UNCHANGED held

\* A wrong variant of ChkFloods: only the first entry is looked at.
ChkFloodsHead(sent) ==
    /\ floods # <<>>
    /\ LET f == Head(floods)
       IN  /\ f.locked /\ f.ends = Past
           /\ floods' = Tail(floods) /\ Unlock({f.chan}, sent)
           /\ wiped' = [wiped EXCEPT ![f.chan] = 0]
    /\ UNCHANGED recent

\* chk_floods: the locks that are over are released, up to the first unlocked
\* entry whose end is past, which is removed and ends the run.
ChkFloods(sent) ==
    LET stale == SelectInSeq(floods, LAMBDA f : ~f.locked /\ f.ends = Past)
        upto  == IF stale = 0 THEN Len(floods) ELSE stale
        over  == {i \in 1..upto : floods[i].ends = Past}
        rest  == DOMAIN floods \ over
    IN  /\ floods' = Picked(floods, rest)
        /\ Unlock({floods[i].chan : i \in {k \in over : floods[k].locked}}, sent)
        /\ wiped' = [c \in Short |-> IF \E i \in over : floods[i].chan = c THEN 0 ELSE wiped[c]]
        /\ UNCHANGED recent

\* joinflood_load and joinflood_close: the list is forgotten, locks and all.
JoinfloodLoad == floods' = <<>> /\ wiped' = [c \in Short |-> 0] /\ UNCHANGED <<held, recent, orphans>>
JoinfloodClose == floods' = <<>> /\ orphans' = orphans \cup held /\ UNCHANGED <<held, recent, wiped>>

\* The SJOINs that a second later are still within the last Dur seconds; the
\* oldest come first.
Older(ages) ==
    LET aged  == [i \in DOMAIN ages |-> ages[i] + 1]
        young == {i \in DOMAIN ages : ages[i] + 1 < Dur}
    IN  SubSeq(aged, IF young = {} THEN Len(aged) + 1 ELSE Min(young), Len(aged))

\* A second passes.
Second ==
    /\ floods' = [i \in DOMAIN floods |->
          [floods[i] EXCEPT !.left = Max({0, @ - 1}),
                            !.ends = IF @ = Never THEN Never ELSE Max({Past, @ - 1})]]
    /\ recent' = [c \in Short |-> Older(recent[c])]
    /\ wiped' = [c \in Short |-> Min({Dur, wiped[c] + 1})]
    /\ UNCHANGED <<held, orphans>>

----------------------------------------------------------------------------
(* Correctness *)

\* A longer name is cut to this one.
Shared(c) == \E d \in FloodChans \ {c} : Kept[d] = c

\* A channel is locked down only after Most SJOINs in less than Dur seconds,
\* though windows follow each other and entries come and go in between; one of
\* them may be an SJOIN of a longer name, which made the entry.
LockedForCause ==
    [][\A c \in held' \ held : Len(recent'[c]) + (IF Shared(c) THEN 1 ELSE 0) >= Most]_floodVars

\* 2 * Most - 1 SJOINs within Dur seconds, which is more than two windows let
\* pass, lock the channel down, unless its name is too long or chk_floods has
\* thrown its count away within that time, for the end that was never set.
FloodsSeen ==
    \A c \in Short : Len(recent[c]) = 2 * Most - 1 /\ wiped[c] = Dur => c \in held

\* What we hold locked is known to the list, or the module was closed or the link
\* down when it should have been released.
LocksKnown ==
    \A c \in held : c \in orphans \/ \E i \in DOMAIN floods : floods[i].chan = c /\ floods[i].locked

=============================================================================
