------------------------------ MODULE Threads ------------------------------
(***************************************************************************)
(* threads.c with the threads g_bl spawns, one for each user that          *)
(* connects: the list of threads is changed by the main thread when it     *)
(* spawns and when the daemon exits, and by every thread that ends;        *)
(* exit_mutex keeps only the last of these apart.  Each struct is named by *)
(* its thread.  One operation on the list is one step.                     *)
(*                                                                         *)
(* fault is set where freed or unset memory is used: that step is          *)
(* modelled, what follows is not.                                          *)
(***************************************************************************)
EXTENDS Integers, Sequences, SequencesExt, FiniteSets

CONSTANTS
    Tid,   \* threads
    Nobody \* no thread

ASSUME ThreadsAssumption == IsFiniteSet(Tid) /\ Nobody \notin Tid

VARIABLES
    thread,   \* what each thread is at
    list,     \* threadlist
    freed,    \* Thread structs that were freed
    count,    \* thread_count
    mutex,    \* who holds exit_mutex
    found,    \* the struct its walk over the list ended with
    main,     \* what the main thread is at: "loop", "exit", "over", or a step of spawn_thread
    spawning, \* the thread it is about
    absent,   \* threads whose User has been freed
    cancelled,\* threads pthread_cancel was called for
    wrong,    \* "none", or the memory that was wrongly used
    overlap   \* history: a thread came to dest_thread before spawn_thread was done with it, or
              \* the two used the counter or the list at the same moment

threadVars == <<thread, list, freed, count, mutex, found, main, spawning, absent, cancelled, wrong, overlap>>

InitThreads ==
    /\ thread = [t \in Tid |-> "none"]
    /\ list = <<>> /\ freed = {} /\ count = 0
    /\ mutex = Nobody /\ found = Nobody
    /\ main = "loop" /\ spawning = Nobody
    /\ absent = {} /\ cancelled = {}
    /\ wrong = "none" /\ overlap = FALSE

Runs == wrong = "none" /\ main # "over"

----------------------------------------------------------------------------
(* spawn_thread, on USERCONN; a create that fails leaves nothing behind. *)

PthreadCreate(t) ==
    /\ Runs /\ main = "loop" /\ thread[t] = "none"
    /\ thread' = [thread EXCEPT ![t] = "started"]
    /\ main' = "created" /\ spawning' = t
    /\ UNCHANGED <<list, freed, count, mutex, found, absent, cancelled, wrong, overlap>>

CountThread ==
    /\ Runs /\ main = "created"
    /\ count' = count + 1
    /\ main' = "counted"
    /\ overlap' = (overlap \/ \E t \in Tid : thread[t] = "walked")
    /\ UNCHANGED <<thread, list, freed, mutex, spawning, found, absent, cancelled, wrong>>

InsertThread ==
    /\ Runs /\ main = "counted"
    /\ list' = Append(list, spawning)
    /\ main' = "inserted"
    /\ overlap' = (overlap \/ \E t \in Tid : thread[t] = "locked")
    /\ UNCHANGED <<thread, freed, count, mutex, spawning, found, absent, cancelled, wrong>>

\* pthread_detach reads the struct once more.
PthreadDetach ==
    /\ Runs /\ main = "inserted"
    /\ wrong' = IF spawning \in freed THEN "freed thread" ELSE wrong
    /\ main' = "loop" /\ spawning' = Nobody
    /\ UNCHANGED <<thread, list, freed, count, mutex, found, absent, cancelled, overlap>>

\* The User a thread was given quits before the thread has read its host.
UserQuits(t) ==
    /\ Runs /\ main = "loop" /\ thread[t] = "started"
    /\ absent' = absent \cup {t}
    /\ UNCHANGED <<thread, list, freed, count, mutex, found, main, spawning, cancelled, wrong, overlap>>

----------------------------------------------------------------------------
(* bl_thread_entry and dest_thread *)

\* The thread reads u->host.
ReadHost(t) ==
    /\ Runs /\ thread[t] = "started"
    /\ thread' = [thread EXCEPT ![t] = "asking"]
    /\ wrong' = IF t \in absent THEN "freed user" ELSE wrong
    /\ UNCHANGED <<list, freed, count, mutex, main, spawning, found, absent, cancelled, overlap>>

\* The zones have answered, with or without a hit.
Answered(t) ==
    /\ Runs /\ thread[t] = "asking"
    /\ thread' = [thread EXCEPT ![t] = "leaving"]
    /\ UNCHANGED <<list, freed, count, mutex, main, spawning, found, absent, cancelled, wrong, overlap>>

LockExit(t) ==
    /\ Runs /\ thread[t] = "leaving" /\ mutex = Nobody
    /\ mutex' = t
    /\ thread' = [thread EXCEPT ![t] = "locked"]
    /\ overlap' = (overlap \/ t = spawning)
    /\ UNCHANGED <<list, freed, count, main, spawning, found, absent, cancelled, wrong>>

\* The structs the walk looks at before it comes to the thread's own.
Passed(t) == {list[i] : i \in {i \in DOMAIN list : \A j \in 1..i : list[j] # t}}

Deleted(t) == RemoveFirst(list, t)

\* The walk of dest_thread: a thread that is not in the list ends up with the
\* last struct of those that are, and with none at all if the list is empty.
Walk(t) ==
    /\ Runs /\ thread[t] = "locked"
    /\ wrong' = IF Passed(t) \cap freed # {} THEN "freed thread"
                ELSE IF list = <<>> THEN "unset pointer" ELSE wrong
    /\ thread' = [thread EXCEPT ![t] = "walked"]
    /\ found' = IF t \in ToSet(list) \/ list = <<>> THEN t ELSE Last(list)
    /\ list' = Deleted(t)
    /\ overlap' = (overlap \/ main = "counted")
    /\ UNCHANGED <<freed, count, mutex, main, spawning, absent, cancelled>>

\* A wrong variant of FreeOwn: the thread is not counted down.
FreeOwnUncounted(t) ==
    /\ Runs /\ thread[t] = "walked"
    /\ freed' = freed \cup {found}
    /\ wrong' = IF found \in freed THEN "double free" ELSE wrong
    /\ thread' = [thread EXCEPT ![t] = "freed"]
    /\ overlap' = (overlap \/ main = "created")
    /\ UNCHANGED <<list, count, mutex, main, spawning, found, absent, cancelled>>

\* The struct the walk ended with is freed.
FreeOwn(t) ==
    /\ Runs /\ thread[t] = "walked"
    /\ freed' = freed \cup {found}
    /\ wrong' = IF found \in freed THEN "double free" ELSE wrong
    /\ count' = IF count > 0 THEN count - 1 ELSE 0
    /\ thread' = [thread EXCEPT ![t] = "freed"]
    /\ overlap' = (overlap \/ main = "created")
    /\ UNCHANGED <<list, mutex, main, spawning, found, absent, cancelled>>

UnlockExit(t) ==
    /\ Runs /\ thread[t] = "freed"
    /\ mutex' = Nobody
    /\ thread' = [thread EXCEPT ![t] = "gone"]
    /\ UNCHANGED <<list, freed, count, main, spawning, found, absent, cancelled, wrong, overlap>>

----------------------------------------------------------------------------
(* dest_all_threads, at exit: no mutex, and cleanup, which spawn_thread does *)
(* not set when it is given none, as it always is.                          *)

Exit ==
    /\ Runs /\ main = "loop"
    /\ main' = "exit"
    /\ UNCHANGED <<thread, list, freed, count, mutex, spawning, found, absent, cancelled, wrong, overlap>>

DestFirst ==
    /\ Runs /\ main = "exit" /\ list # <<>>
    /\ LET t == Head(list)
       IN  /\ wrong' \in (IF t \in freed THEN {"freed thread"} ELSE {"none", "unset cleanup"})
           /\ cancelled' = cancelled \cup {t}
           /\ freed' = freed \cup {t}
           /\ list' = Tail(list)
    /\ count' = IF count > 0 THEN count - 1 ELSE 0
    /\ UNCHANGED <<thread, mutex, main, spawning, found, absent, overlap>>

\* A cancelled thread ends where it waits: for an answer or for the mutex.
Cancelled(t) ==
    /\ Runs /\ t \in cancelled /\ thread[t] \in {"started", "asking", "leaving"}
    /\ thread' = [thread EXCEPT ![t] = "gone"]
    /\ UNCHANGED <<list, freed, count, mutex, main, spawning, found, absent, cancelled, wrong, overlap>>

Over ==
    /\ Runs /\ main = "exit" /\ list = <<>>
    /\ main' = "over"
    /\ UNCHANGED <<thread, list, freed, count, mutex, spawning, found, absent, cancelled, wrong, overlap>>

----------------------------------------------------------------------------
Dest(t) == LockExit(t) \/ Walk(t) \/ FreeOwn(t) \/ UnlockExit(t)
Step(t) == ReadHost(t) \/ Answered(t) \/ Dest(t)
Spawn   == CountThread \/ InsertThread \/ PthreadDetach

NextThreads ==
    \/ \E t \in Tid : PthreadCreate(t) \/ UserQuits(t) \/ Step(t) \/ Cancelled(t)
    \/ Spawn \/ Exit \/ DestFirst \/ Over

(* Correctness *)

ThreadsTypeOK ==
    /\ thread \in [Tid -> {"none", "started", "asking", "leaving", "locked", "walked", "freed", "gone"}]
    /\ list \in Seq(Tid) /\ freed \subseteq Tid /\ count \in 0..Cardinality(Tid)
    /\ {mutex, found, spawning} \subseteq Tid \cup {Nobody}
    /\ main \in {"loop", "created", "counted", "inserted", "exit", "over"}
    /\ absent \subseteq Tid /\ cancelled \subseteq Tid
    /\ wrong \in {"none", "freed user", "freed thread", "double free", "unset pointer", "unset cleanup"}
    /\ overlap \in BOOLEAN

Alive(t) == thread[t] \in {"started", "asking", "leaving", "locked"}

\* exit_mutex is held by the one thread that is in dest_thread, and by nobody when none is.
OneLeaves == \A t \in Tid : thread[t] \in {"locked", "walked", "freed"} <=> mutex = t

\* As long as spawn_thread is done with every thread before it ends, and up to the exit, the
\* list holds exactly the threads that are there, and the counter their number.
RegistryExact ==
    ~overlap /\ main = "loop" /\ wrong = "none" =>
        /\ ToSet(list) = {t \in Tid : Alive(t)} /\ IsInjective(list)
        /\ count = Cardinality({t \in Tid : Alive(t) \/ thread[t] = "walked"})

\* The structs are used after they were freed, or freed twice, only if a thread came to
\* dest_thread while spawn_thread was at work, or while the exit destroys them all without
\* taking the mutex.
SafeUnlessOverlap ==
    wrong \in {"freed thread", "double free", "unset pointer"} => overlap \/ main = "exit"

\* The list and the count of threads are exact and their memory is used safely.
RegistryRight == ThreadsTypeOK /\ OneLeaves /\ RegistryExact /\ SafeUnlessOverlap

\* Whoever comes to dest_thread gets the mutex and leaves, however many are there.
AllLeave == \A t \in Tid : thread[t] = "leaving" ~> (thread[t] = "gone" \/ ~Runs)

\* "all threads are required to call this function before exiting as it insures
\* cleanup and prevents stale thread entries" (threads.c)
NoStaleEntry == main = "loop" /\ wrong = "none" => \A t \in ToSet(list) : thread[t] # "gone"

=============================================================================
