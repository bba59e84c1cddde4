------------------------------- MODULE Events -------------------------------
(***************************************************************************)
(* The event list of eventhandler.c: named events and timers in one linked *)
(* list, and the two walks over it, RunTimedEvents and EventEx.  A walk    *)
(* reads the successor of a node before it calls the node's handler, and a *)
(* handler may add to the list and delete from it.  What handlers do is    *)
(* left to the module that uses this one.                                  *)
(*                                                                         *)
(* The two pointers of a walk are marks on the nodes they point to: "cur"  *)
(* and "next".  A node that is deleted takes its marks with it, and leaves *)
(* the pointer dangling.  "todo" marks the nodes the walk has yet to call. *)
(***************************************************************************)
EXTENDS Lists, SequencesExt, FiniteSetsExt

CONSTANT Gone  \* the owner of a handler whose module has been unmapped

VARIABLES
    events,  \* the list events
    walk,    \* the walk under way; more: its next pointer is not NULL
    halted   \* the last walk was cut short by EVENT_STOP

eventVars == <<events, walk, halted>>

Idle == [kind |-> "none", name |-> "", more |-> FALSE]
Lost == [kind |-> "freed", name |-> "", more |-> FALSE]  \* it stepped on a freed node
Misread == [kind |-> "recall", name |-> "", more |-> FALSE]  \* it was misled by a freed one

Marked(mark) == {i \in DOMAIN events : mark \in events[i].marks}
Current == events[CHOOSE i \in Marked("cur") : TRUE]

\* A timer first runs one interval after it was added.
AddEventEx(name, owner, fn, timed) ==
    [name |-> name, owner |-> owner, fn |-> fn, timed |-> timed, due |-> FALSE, marks |-> {}]

\* The place of the node DelEvent deletes, or 0: with a handler the name is
\* not looked at, without one only the name is.
DelEvent(list, owner, fn) == SelectInSeq(list, LAMBDA n : n.owner = owner /\ n.fn = fn)
DelTimedEvent(list, name) == SelectInSeq(list, LAMBDA n : n.name = name)

Without(list, places) == Picked(list, DOMAIN list \ places)

----------------------------------------------------------------------------
Calls(w, n) ==
    CASE w.kind = "timed" -> n.timed /\ n.due
      [] w.kind = "emit"  -> ~n.timed /\ n.name = w.name
      [] OTHER            -> FALSE

\* The walk w stands before node i and holds the next one; 0 ends it.
StandAt(list, w, i) ==
    /\ walk' = IF i = 0 THEN Idle ELSE [w EXCEPT !.more = i < Len(list)]
    /\ events' = [k \in DOMAIN list |->
          [list[k] EXCEPT !.marks =
              (IF "cur" \in @ THEN {} ELSE @ \ {"next"})
              \cup (IF k = i THEN {"cur"} ELSE {})
              \cup (IF i # 0 /\ k = i + 1 THEN {"next"} ELSE {})]]

Begin(w) ==
    /\ walk = Idle
    /\ halted' = FALSE
    /\ StandAt([k \in DOMAIN events |->
                   [events[k] EXCEPT !.marks = IF Calls(w, events[k]) THEN {"todo"} ELSE {}]],
               w, Min({1, Len(events)}))

RunTimedEvents == Begin([Idle EXCEPT !.kind = "timed"])
EventEx(name)  == Begin([Idle EXCEPT !.kind = "emit", !.name = name])

\* What the list is when the handler is called: the timer is set again first.
Armed == [i \in DOMAIN events |->
             IF "cur" \in events[i].marks /\ walk.kind = "timed"
             THEN [events[i] EXCEPT !.due = FALSE] ELSE events[i]]

\* A wrong variant of Advance: the next node is read after the handler ran.
AdvanceLate(list) ==
    LET here == SelectInSeq(list, LAMBDA n : "cur" \in n.marks)
    IN  StandAt(list, walk, IF here # 0 /\ here < Len(list) THEN here + 1 ELSE 0)

Unmarked(list) == [k \in DOMAIN list |-> [list[k] EXCEPT !.marks = {}]]

\* The walk goes on in the list the handler left, which may have freed the
\* node it goes to.
GoOn(list) ==
    LET there == SelectInSeq(list, LAMBDA n : "next" \in n.marks)
    IN  IF walk.more /\ there = 0
        THEN walk' = Lost /\ events' = Unmarked(list)
        ELSE StandAt(list, walk, there)

\* First the walk looks at ev->recall of the node it has called.  If the
\* handler has freed that node the memory may still hold the -1 it held, with
\* which the walk goes on, or something else: it is counted down there, or the
\* node is freed once more, and what follows is undefined.
Advance(list) ==
    \/ GoOn(list)
    \/ /\ \A i \in DOMAIN list : "cur" \notin list[i].marks
       /\ walk' = Misread /\ events' = Unmarked(list)

Skip ==
    /\ walk # Idle /\ Marked("cur") # {}
    /\ ~Calls(walk, Current)
    /\ Advance(events)
    /\ UNCHANGED halted

\* The handler has run, left list and returned EVENT_STOP or not.  Only
\* EventEx looks at what it returned.
Called(list, stop) ==
    IF stop /\ walk.kind = "emit"
    THEN /\ halted' = TRUE /\ walk' = Idle
         /\ events' = Unmarked(list)
    ELSE UNCHANGED halted /\ Advance(list)

\* Time passes: a timer reaches its time.
Tick ==
    /\ walk = Idle
    /\ \E i \in DOMAIN events :
          /\ events[i].timed /\ ~events[i].due
          /\ events' = [events EXCEPT ![i].due = TRUE]
    /\ UNCHANGED <<walk, halted>>

=============================================================================
