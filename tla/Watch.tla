------------------------------- MODULE Watch --------------------------------
(***************************************************************************)
(* g_watch.c: rules for channels and nicks, what is done to users that     *)
(* match one, and the queue of matches of the burst, which holds pointers  *)
(* to users and rules and is worked off by a timer that then deletes       *)
(* itself.  A rule for a channel puts Guardian on it.                      *)
(*                                                                         *)
(* The name of a watched channel is copied with the size of a pointer: of  *)
(* a name longer than seven characters the rule keeps the first seven, and *)
(* every search for a rule is one for that name.                           *)
(***************************************************************************)
EXTENDS Visitors

CONSTANTS
    Nicks,    \* nick patterns; user.odd are those that his nick matches
    Cut,      \* channel -> the channel with the name that is kept of its name
    Batch,    \* entries of watchqueue that one run takes
    MaxRules  \* bound: rules there when an operator adds one

ASSUME WatchAssumption == Batch \in Nat \ {0} /\ MaxRules \in Nat

\* What take_action does; "none" also stands for a number that it does not know.  A pattern is a
\* channel of the instance or of nicks.
Actions == {"none", "kick", "kill", "gline"}
ASSUME RulesAssumption ==
    \A s \in Setups :
        /\ Nicks \cap s.chans = {} /\ s.actions \subseteq Actions /\ \A c \in s.chans : Cut[c] \in s.chans
        /\ \A w \in s.wants \cup ToSet(s.watches) : w.pattern \in s.chans \cup Nicks /\ w.action \in Actions

VARIABLES
    rules,    \* watchlist
    watchq,   \* watchqueue: users and rules, as pointers
    wtimer,   \* the timer WatchQueue is there
    taken,    \* entries the present run of evh_watchqueue has taken
    wrows,    \* the rows "WATCH" of the database: name -> action and exceptions
    ousted,   \* history: channels Guardian was kicked from
    missed    \* history: users and rules that g_watch has not brought together and never will

watchVars == <<rules, watchq, wtimer, taken, wrows, ousted, missed>>

Quiet == Calm /\ taken = 0

NameOf(pattern) == IF pattern \in Nicks THEN pattern ELSE Cut[pattern]
IsWatched(list, name) == SelectInSeq(list, LAMBDA r : r.name = name)

\* The rule add_watch makes: a nick pattern spares opers, and a user that is on
\* no channel of ours can only be killed.
Rule(id, want, config, existing) ==
    [id |-> id, name |-> NameOf(want.pattern), chan |-> want.pattern,
     action |-> IF want.pattern \in Nicks /\ want.action = "kick" THEN "kill" ELSE want.action,
     ignores |-> want.ignores \cup (IF want.pattern \in Nicks THEN {"oper"} ELSE {}),
     config |-> config, existing |-> existing, lost |-> FALSE]

----------------------------------------------------------------------------
(* take_action *)

\* The users of S the rule r is applied to.
Hit(S, r) == {a \in S \cap Live : user[a].is \cap r.ignores = {}}
Killed(S, r) == IF r.action \in {"kill", "gline"} THEN Hit(S, r) ELSE {}

\* The users that all the actions <<users, rule>> of acts take off channel c.
Kicked(acts, c) ==
    UNION {IF x[2].action = "kick" /\ x[2].chan = c THEN Hit(x[1], x[2]) ELSE {} : x \in acts}
Deaths(acts) == UNION {Killed(x[1], x[2]) : x \in acts}

\* A gline reads the host of the user it has just freed; a kick writes the name
\* of the rule's channel, which may have been freed.
Misread(acts) ==
    IF \E x \in acts : x[2].action = "gline" /\ Hit(x[1], x[2]) # {} THEN "freed host"
    ELSE IF \E x \in acts : x[2].action = "kick" /\ x[2].lost /\ Hit(x[1], x[2]) # {} THEN "freed channel"
    ELSE fault

\* What take_action does to users and channels, Guardian on the channels ours.
Strike(acts, ours) ==
    /\ user' = Restrict(user, Live \ Deaths(acts))
    /\ members' = [c \in Chans |->
          ((members[c] \ {Guardian}) \ (Deaths(acts) \cup Kicked(acts, c)))
              \cup (IF c \in ours THEN {Guardian} ELSE {})]

Ours == {c \in Chans : Guardian \in members[c]}

\* What becomes of the rules' pointers when the last user leaves a channel, and
\* of the queue's when users or rules go.
Orphaned(list) ==
    [i \in DOMAIN list |->
        IF list[i].chan \notin Nicks /\ members[list[i].chan] # {} /\ members'[list[i].chan] = {}
        THEN [list[i] EXCEPT !.lost = TRUE] ELSE list[i]]
Dangling(queue) ==
    [i \in DOMAIN queue |->
        [user |-> IF queue[i].user \in DOMAIN user' THEN queue[i].user ELSE Freed,
         rule |-> IF \E r \in ToSet(rules') : r.id = queue[i].rule THEN queue[i].rule ELSE Freed]]

\* Whom a rule applies to: those on its channel, or with its nick, services included.
Present(r) == IF r.chan \in Nicks THEN {a \in Live : r.chan \in user[a].odd} ELSE members[r.chan] \cap Live

\* The rule r says to do something about the user a, where he is.
Wanted(a, r) == a \in Hit(Present(r), r) /\ r.action # "none" /\ ~user[a].service
Matches == {m \in Live \X ToSet(rules) : Wanted(m[1], m[2])}
Owed == {[user |-> m[1], rule |-> m[2].id] : m \in Matches}

\* Those of new that are owed something are passed over, like the ones that were.
Missing(new) == missed' = (missed \cup new) \cap Owed'

\* The watch list while others change users and channels.
WatchFollows ==
    /\ rules' = Orphaned(rules)
    /\ watchq' = Dangling(watchq)
    /\ Missing({})
    /\ UNCHANGED <<wtimer, taken, wrows, ousted>>

----------------------------------------------------------------------------
(* Rules are added and removed. *)

\* The address of a new struct watch_: one that neither the list nor watchlist as it was uses.
FreeAddr(list) ==
    CHOOSE id \in 1..(Len(list) + Len(rules) + 1) : \A r \in ToSet(list) \cup ToSet(rules) : r.id # id

\* The rules after those wanted have been added, each unless its name is there;
\* ours are the channels Guardian was on.
Added(list, wants, config, ours) ==
    FoldLeft(LAMBDA l, w :
                 IF IsWatched(l, w.pattern) # 0 THEN l
                 ELSE Append(l, Rule(FreeAddr(l), w, config,
                                     \/ w.pattern \in ours
                                     \/ \E r \in ToSet(l) \ ToSet(list) : r.chan = w.pattern)),
             list, wants)

SavedAs(rs) == [n \in {r.name : r \in rs} |->
                  LET r == CHOOSE x \in rs : x.name = n
                  IN  [action |-> r.action, ignores |-> r.ignores]]
\* addto_db_entry: a row of that name is replaced.
Written(rs, rows) ==
    [n \in DOMAIN SavedAs(rs) \cup DOMAIN rows |-> IF n \in DOMAIN SavedAs(rs) THEN SavedAs(rs)[n] ELSE rows[n]]

\* The rules kept are joined by those wanted; ours are the channels Guardian is
\* on by then, rows what the database has.  Rows are only written for rules that are not
\* from the configuration.
AddWatch(kept, wants, config, ours, rows, before) ==
    LET list == Added(kept, wants, config, ours)
        new  == ToSet(list) \ ToSet(kept)
        acts == {<<Present(r), r>> : r \in new}
    IN  /\ Strike(acts, ours \cup {r.chan : r \in new})
        /\ fault' = IF Misread(acts) # fault THEN Misread(acts) ELSE before
        /\ rules' = Orphaned(list)
        /\ wrows' = IF config THEN rows ELSE Written(new, rows)

\* The channels Guardian is still on when the rules rs are removed, and what removing
\* them reads.
Staying(rs) == Ours \ {r.chan : r \in {x \in rs : x.chan \notin Nicks /\ ~x.existing}}
Fallen(rs)  == IF \E r \in rs : r.lost THEN "freed channel" ELSE fault

OwnRules == Picked(rules, {i \in DOMAIN rules : ~rules[i].config})
\* The rules that go when each rule of the configuration is removed by its name: the
\* first of that name does, whosever it is.
NamedAlike(i) == {k \in DOMAIN rules : rules[k].name = rules[i].name}
ConfigGoes ==
    {i \in DOMAIN rules :
        Cardinality({k \in NamedAlike(i) : k <= i}) <= Cardinality({k \in NamedAlike(i) : rules[k].config})}
RowsAsWants == SetToSeq({[pattern |-> n, action |-> wrows[n].action, ignores |-> wrows[n].ignores]
                            : n \in DOMAIN wrows})

InitWatch ==
    /\ rules = <<>> /\ watchq = <<>> /\ wtimer = FALSE /\ taken = 0
    /\ wrows = <<>> /\ ousted = {} /\ missed = {}

\* WATCH ADD
WatchAdd(want) ==
    /\ Quiet /\ Loaded("g_watch")
    /\ Len(rules) < MaxRules /\ IsWatched(rules, want.pattern) = 0
    /\ AddWatch(rules, <<want>>, FALSE, Ours, wrows, fault)
    /\ watchq' = Dangling(watchq) /\ Missing({})
    /\ UNCHANGED <<setup, loaded, sync, linked, chain, guest, wtimer, taken, ousted>>

\* WATCH REMOVE; Guardian leaves a channel it came to for the rule.
WatchRemove(name) ==
    /\ Quiet /\ Loaded("g_watch") /\ IsWatched(rules, name) # 0
    /\ LET r == rules[IsWatched(rules, name)]
       IN  /\ fault' = Fallen({r})
           /\ Strike({}, Staying({r}))
           /\ rules' = Orphaned(RemoveFirst(rules, r))
           /\ wrows' = IF r.config THEN wrows ELSE Restrict(wrows, DOMAIN wrows \ {name})
    /\ watchq' = Dangling(watchq) /\ Missing({})
    /\ UNCHANGED <<setup, loaded, sync, linked, chain, guest, wtimer, taken, ousted>>

\* WATCH SET ACTION returns before the row is written; nobody is looked at again.
WatchSet(name, action) ==
    /\ Quiet /\ Loaded("g_watch") /\ IsWatched(rules, name) # 0
    /\ rules' = [rules EXCEPT ![IsWatched(rules, name)] =
                    [@ EXCEPT !.action = IF name \in Nicks /\ action = "kick" THEN "kill" ELSE action]]
    /\ UNCHANGED visitorVars /\ Missing(Owed' \ Owed)
    /\ UNCHANGED <<watchq, wtimer, taken, wrows, ousted>>

\* A change of nick, or of what the exceptions are about: no handler of g_watch hears of it.
UserChanges(a, what) ==
    /\ Quiet /\ Change(a, what)
    /\ UNCHANGED <<rules, watchq, wtimer, taken, wrows, ousted>> /\ Missing(Owed' \ Owed)

\* save_watchdb, on SAVEDB.
SaveWatchdb ==
    /\ Quiet /\ Loaded("g_watch")
    /\ wrows' = Written(ToSet(OwnRules), wrows)
    /\ UNCHANGED <<visitorVars, rules, watchq, wtimer, taken, ousted, missed>>

\* load_watch, on REHASH: the rules of the configuration are removed and added again; the
\* row of an operator's rule that goes with them goes too.
WatchRehash ==
    /\ Quiet /\ Loaded("g_watch")
    /\ LET gone == {rules[i] : i \in ConfigGoes}
       IN  AddWatch(Picked(rules, DOMAIN rules \ ConfigGoes), setup.watches, TRUE, Staying(gone),
                    Restrict(wrows, DOMAIN wrows \ {r.name : r \in {x \in gone : ~x.config}}), Fallen(gone))
    /\ watchq' = Dangling(watchq) /\ Missing({})
    /\ UNCHANGED <<setup, loaded, sync, linked, chain, guest, wtimer, taken, ousted>>

\* Module_Init: the rows first, then the configuration.
LoadWatch ==
    /\ LoadModule("g_watch")
    /\ LET own  == Added(<<>>, RowsAsWants, FALSE, Ours)
           list == Added(own, setup.watches, TRUE, Ours \cup {r.chan : r \in ToSet(own)})
           acts == {<<Present(r), r>> : r \in ToSet(list)}
       IN  /\ Strike(acts, Ours \cup {r.chan : r \in ToSet(list)})
           /\ fault' = Misread(acts)
           /\ rules' = Orphaned(list)
    /\ wtimer' = TRUE /\ watchq' = <<>> /\ missed' = {}
    /\ UNCHANGED <<setup, sync, linked, chain, guest, taken, wrows, ousted>>

\* Module_Close: the rules are saved, and go; the rows stay.
UnloadWatch ==
    /\ taken = 0 /\ UnloadModule("g_watch")
    /\ wrows' = Written(ToSet(OwnRules), wrows)
    /\ fault' = Fallen(ToSet(rules))
    /\ Strike({}, Staying(ToSet(rules)))
    /\ rules' = <<>> /\ watchq' = <<>> /\ wtimer' = FALSE /\ missed' = {}
    /\ UNCHANGED <<setup, sync, linked, chain, guest, taken, ousted>>

----------------------------------------------------------------------------
(* Users. *)

\* A wrong variant of Queue: it holds one entry.
QueueOne(a, r) ==
    watchq' = IF watchq = <<>> THEN <<[user |-> a, rule |-> r.id]>> ELSE watchq

Queue(a, r) == watchq' = Append(watchq, [user |-> a, rule |-> r.id])

\* The user a has met the rule r, and passed by others.  What is queued when the timer has
\* deleted itself stays in the queue.
Meets(a, r, others) ==
    IF sync = "bursting"
    THEN /\ Queue(a, r) /\ UNCHANGED <<user, fault, rules>>
         /\ Missing([user : {a}, rule : {x.id : x \in others \cup (IF wtimer THEN {} ELSE {r})}])
    ELSE /\ user' = Restrict(user, Live \ Deaths({<<{a}, r>>}))
         /\ fault' = Misread({<<{a}, r>>})
         /\ rules' = Orphaned(rules)
         /\ watchq' = Dangling(watchq)
         /\ Missing([user : {a}, rule : {x.id : x \in others}])

\* The members of the channels, list as they would be, when the user a meets the rule r.
Left(list, a, r) ==
    IF sync = "bursting" THEN list
    ELSE [c \in Chans |-> list[c] \ (Deaths({<<{a}, r>>}) \cup Kicked({<<{a}, r>>}, c))]

\* evh_user: the first nick rule that matches, whatever it says.
EvhUser ==
    /\ Handling("g_watch") /\ guest \in Live
    /\ Handled
    /\ LET i == SelectInSeq(rules, LAMBDA r : r.chan \in user[guest].odd)
       IN  IF i = 0 \/ user[guest].service
           THEN UNCHANGED <<user, members, fault, rules, watchq, missed>>
           ELSE /\ members' = Left(members, guest, rules[i])
                /\ Meets(guest, rules[i], {r \in ToSet(rules) : r.chan \in Nicks} \ {rules[i]})
    /\ UNCHANGED <<setup, loaded, sync, linked, guest, wtimer, taken, wrows, ousted>>

\* AddToChannel, and evh_chan_join on the CHANJOIN it raises: the first rule of the
\* channel's name, which may be one for a longer name that was cut to it.
Join(a, c) ==
    /\ Quiet /\ a \in Live \ members[c]
    /\ LET i  == IsWatched(rules, c)
           on == [members EXCEPT ![c] = @ \cup {a}]
           its == {r \in ToSet(rules) : r.chan = c}
       IN  IF ~Loaded("g_watch") \/ i = 0 \/ user[a].service
           THEN /\ members' = on /\ UNCHANGED <<user, fault, rules, watchq>>
                /\ Missing([user : {a}, rule : {r.id : r \in its}])
           ELSE /\ members' = Left(on, a, rules[i])
                /\ Meets(a, rules[i], its \ {rules[i]})
    /\ UNCHANGED <<setup, loaded, sync, linked, chain, guest, wtimer, taken, wrows, ousted>>

Part(a, c) ==
    /\ Quiet /\ a \in members[c] \ {Guardian}
    /\ members' = [members EXCEPT ![c] = @ \ {a}]
    /\ UNCHANGED <<setup, loaded, user, sync, linked, chain, guest, fault>>
    /\ WatchFollows

\* Somebody kicks Guardian; nothing makes it come back.
KickGuardian(c) ==
    /\ Quiet /\ Guardian \in members[c]
    /\ members' = [members EXCEPT ![c] = @ \ {Guardian}]
    /\ ousted' = ousted \cup {c}
    /\ rules' = Orphaned(rules) /\ watchq' = watchq /\ missed' = missed
    /\ UNCHANGED <<setup, loaded, user, sync, linked, chain, guest, fault, wtimer, taken, wrows>>

\* evh_watchqueue, one entry at a time; nothing else happens until it returns.
EvhWatchqueue ==
    /\ Calm /\ wtimer /\ sync # "bursting"
    /\ \/ /\ watchq = <<>>
          /\ wtimer' = FALSE /\ taken' = 0
          /\ UNCHANGED <<user, members, fault, rules, watchq, missed>>
       \/ /\ watchq # <<>> /\ taken = Batch
          /\ taken' = 0
          /\ UNCHANGED <<user, members, fault, rules, watchq, wtimer, missed>>
       \/ /\ watchq # <<>> /\ taken < Batch
          /\ taken' = taken + 1
          /\ LET q == Head(watchq)
                 r == rules[SelectInSeq(rules, LAMBDA x : x.id = q.rule)]
             IN  IF q.rule = Freed \/ q.user = Freed
                 THEN /\ fault' = IF q.rule = Freed THEN "freed rule" ELSE "freed user"
                      /\ UNCHANGED <<user, members, rules, watchq, missed>>
                 ELSE /\ Strike({<<{q.user}, r>>}, Ours)
                      /\ fault' = Misread({<<{q.user}, r>>})
                      /\ rules' = Orphaned(rules)
                      /\ watchq' = Dangling(Tail(watchq))
                      /\ Missing({})
          /\ UNCHANGED wtimer
    /\ UNCHANGED <<setup, loaded, sync, linked, chain, guest, wrows, ousted>>

----------------------------------------------------------------------------
(* Correctness *)

\* A name that a rule keeps whole and that no other channel's is cut to.
Apart(name) == name \in Nicks \/ (Cut[name] = name /\ \A c \in Chans : Cut[c] = name => c = name)

\* Guardian is on every channel a rule watches, and so keeps the channel and the
\* rule's pointer to it alive, unless it was kicked: over removals, rehashes and
\* reloads that make it leave and come back.
GuardianStays ==
    fault = "none" =>
        \A r \in ToSet(rules) :
            r.chan \notin Nicks \cup ousted /\ Apart(r.chan) => Guardian \in members[r.chan] /\ ~r.lost

\* Nobody a rule says to kick or kill is left where it watches, or under a nick it watches,
\* unless he waits in the queue and its timer is there.  Those whom g_watch passes by are
\* known: they came under a rule by a change of nick or mode or of the rule; another rule was
\* found for them first; the rule's name was cut; or they were queued when the timer had gone.
NoneEscapes ==
    Quiet => Owed \subseteq missed \cup (IF wtimer THEN ToSet(watchq) ELSE {})

\* The rules of operators survive a reload and a crash after it: each has its row,
\* and each row its rule.
RulesKept ==
    Loaded("g_watch") =>
        \A name \in Chans \cup Nicks :
            Apart(name) => (name \in DOMAIN wrows <=> \E r \in ToSet(OwnRules) : r.name = name)

=============================================================================
