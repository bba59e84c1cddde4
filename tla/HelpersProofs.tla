--------------------------- MODULE HelpersProofs ---------------------------
(***************************************************************************)
(* Proofs about Helpers, for any number of threads and of remotes.         *)
(***************************************************************************)
EXTENDS Helpers, ListProofs

-----------------------------------------------------------------------------
(* The invariant of the threads *)

InSpawn == main \in {"created", "counted", "inserted"}

\* The thread that spawn_thread has not counted, or not inserted, yet.
Uncounted == IF main = "created" THEN {spawning} ELSE {}
Unlisted  == IF main \in {"created", "counted"} THEN {spawning} ELSE {}

Known   == {t \in Tid : thread[t] # "none"} \ Uncounted
Counted == {t \in Tid : Alive(t) \/ thread[t] = "walked"} \ Uncounted

\* The registry while nothing has overlapped and the exit has not begun.
Exact ==
    /\ IsInjective(list) /\ ToSet(list) = {t \in Tid : Alive(t)} \ Unlisted
    /\ count = Cardinality(Counted)
    /\ freed = {t \in Tid : thread[t] \in {"freed", "gone"}}
    /\ cancelled = {}
    /\ \A t \in Tid : thread[t] = "walked" => found = t
    /\ InSpawn => thread[spawning] \in {"started", "asking", "leaving"}

Calm == ~overlap /\ main \notin {"exit", "over"}

ThreadsInv ==
    /\ ThreadsTypeOK /\ OneLeaves
    /\ count <= Cardinality(Known)
    /\ InSpawn => spawning \in Tid /\ thread[spawning] # "none"
    /\ main = "over" => wrong = "none"
    /\ \A t \in Tid : thread[t] = "walked" => found \in Tid
    /\ Calm => wrong \in {"none", "freed user"}
    /\ Calm /\ wrong = "none" => Exact

LEMMA Sizes ==
    ASSUME NEW A \in SUBSET Tid
    PROVE  /\ Cardinality(A) \in Nat /\ Cardinality(A) <= Cardinality(Tid)
           /\ \A t \in Tid : t \notin A => Cardinality(A \cup {t}) = Cardinality(A) + 1
           /\ \A t \in A : Cardinality(A \ {t}) = Cardinality(A) - 1 /\ Cardinality(A) > 0
<1>1. IsFiniteSet(A) /\ Cardinality(A) <= Cardinality(Tid)
  BY ThreadsAssumption, FS_Subset
<1>2. Cardinality(A) \in Nat
  BY <1>1, FS_CardinalityType
<1>3. ASSUME NEW t \in Tid, t \notin A PROVE Cardinality(A \cup {t}) = Cardinality(A) + 1
  BY <1>1, <1>3, FS_AddElement
<1>4. ASSUME NEW t \in A PROVE Cardinality(A \ {t}) = Cardinality(A) - 1 /\ Cardinality(A) > 0
  <2>1. IsFiniteSet(A \ {t}) /\ Cardinality(A \ {t}) = Cardinality(A) - 1
    BY <1>1, <1>4, FS_RemoveElement
  <2>2. Cardinality(A \ {t}) \in Nat
    BY <2>1, FS_CardinalityType
  <2>3. QED
    BY <1>2, <2>1, <2>2
<1>5. QED
  BY <1>1, <1>2, <1>3, <1>4

LEMMA ThreadsInit == InitThreads => ThreadsInv
<1> SUFFICES ASSUME InitThreads PROVE ThreadsInv
  OBVIOUS
<1>1. Known = {} /\ Counted = {} /\ Cardinality({}) = 0
  BY FS_EmptySet DEF InitThreads, Known, Counted, Alive
<1>2. ThreadsTypeOK
  <2>1. {} \in SUBSET Tid /\ Cardinality(Tid) \in Nat
    BY Sizes, Tid \in SUBSET Tid
  <2>2. count \in 0..Cardinality(Tid) /\ list \in Seq(Tid) /\ {mutex, found, spawning} \subseteq Tid \cup {Nobody}
    BY <2>1 DEF InitThreads
  <2>3. QED
    BY <2>2 DEF InitThreads, ThreadsTypeOK
<1>3. OneLeaves
  BY ThreadsAssumption DEF InitThreads, OneLeaves
<1>4. Exact
  BY <1>1 DEF InitThreads, Exact, IsInjective, ToSet, Alive, Unlisted, InSpawn
<1>5. QED
  BY <1>1, <1>2, <1>3, <1>4 DEF InitThreads, ThreadsInv, Calm, InSpawn

-----------------------------------------------------------------------------
(* spawn_thread *)

LEMMA PthreadCreateKeeps ==
    ASSUME ThreadsInv, NEW t \in Tid, PthreadCreate(t) PROVE ThreadsInv'
<1>1. /\ ThreadsTypeOK /\ OneLeaves /\ main = "loop" /\ main' = "created" /\ wrong = "none"
      /\ thread[t] = "none" /\ spawning' = t /\ thread' = [thread EXCEPT ![t] = "started"]
      /\ UNCHANGED <<list, freed, count, mutex, found, absent, cancelled, wrong, overlap>>
  BY DEF ThreadsInv, PthreadCreate, Runs
<1>2. Known' = Known /\ Counted' = Counted
  BY <1>1 DEF Known, Counted, Uncounted, Alive, ThreadsTypeOK
<1>3. ThreadsTypeOK' /\ OneLeaves'
  BY <1>1 DEF ThreadsTypeOK, OneLeaves
<1>4. ASSUME Calm' PROVE Exact'
  <2>1. Exact
    BY <1>1, <1>4 DEF ThreadsInv, Calm
  <2>2. {x \in Tid : Alive(x)}' \ Unlisted' = {x \in Tid : Alive(x)} \ Unlisted
    BY <1>1 DEF Alive, Unlisted, ThreadsTypeOK
  <2>3. QED
    BY <1>1, <1>2, <2>1, <2>2 DEF Exact, InSpawn, ThreadsTypeOK
<1>5. QED
  BY <1>1, <1>2, <1>3, <1>4 DEF ThreadsInv, InSpawn, ThreadsTypeOK

LEMMA CountThreadKeeps ==
    ASSUME ThreadsInv, CountThread PROVE ThreadsInv'
<1>1. /\ ThreadsTypeOK /\ OneLeaves /\ main = "created" /\ main' = "counted" /\ wrong = "none"
      /\ count' = count + 1 /\ spawning \in Tid /\ thread[spawning] # "none"
      /\ count <= Cardinality(Known) /\ (overlap => overlap') /\ overlap' \in BOOLEAN
      /\ UNCHANGED <<thread, list, freed, mutex, spawning, found, absent, cancelled, wrong>>
  BY DEF ThreadsInv, CountThread, Runs, InSpawn, ThreadsTypeOK
<1>2. Known' = Known \cup {spawning} /\ spawning \notin Known /\ Known \subseteq Tid
  BY <1>1 DEF Known, Uncounted
<1>3. Cardinality(Known') = Cardinality(Known) + 1 /\ Cardinality(Known') <= Cardinality(Tid)
  <2>1. Known' \subseteq Tid
    BY <1>1, <1>2
  <2>2. QED
    BY <1>1, <1>2, <2>1, Sizes
<1>4. ThreadsTypeOK' /\ OneLeaves'
  BY <1>1, <1>3, Sizes DEF ThreadsTypeOK, OneLeaves, Known
<1>5. ASSUME Calm' PROVE Exact'
  <2>1. Exact /\ thread[spawning] \in {"started", "asking", "leaving"}
    BY <1>1, <1>5 DEF ThreadsInv, Calm, Exact, InSpawn
  <2>2. Counted' = Counted \cup {spawning} /\ spawning \notin Counted /\ Counted \subseteq Tid
    BY <1>1, <2>1 DEF Counted, Uncounted, Alive
  <2>3. Cardinality(Counted') = Cardinality(Counted) + 1
    BY <1>1, <2>2, Sizes
  <2>4. {x \in Tid : Alive(x)}' \ Unlisted' = {x \in Tid : Alive(x)} \ Unlisted
    BY <1>1 DEF Alive, Unlisted
  <2>5. QED
    BY <1>1, <2>1, <2>3, <2>4 DEF Exact, InSpawn
<1>6. count' <= Cardinality(Known')
  <2>1. Cardinality(Known) \in Nat /\ count \in Int
    BY <1>1, <1>2, Sizes DEF ThreadsTypeOK
  <2>2. QED
    BY <1>1, <1>3, <2>1
<1>7. QED
  BY <1>1, <1>4, <1>5, <1>6 DEF ThreadsInv, InSpawn, Calm

LEMMA InsertThreadKeeps ==
    ASSUME ThreadsInv, InsertThread PROVE ThreadsInv'
<1>1. /\ ThreadsTypeOK /\ OneLeaves /\ main = "counted" /\ main' = "inserted" /\ wrong = "none"
      /\ list' = Append(list, spawning) /\ spawning \in Tid /\ thread[spawning] # "none"
      /\ (overlap => overlap') /\ overlap' \in BOOLEAN
      /\ UNCHANGED <<thread, freed, count, mutex, spawning, found, absent, cancelled, wrong>>
  BY DEF ThreadsInv, InsertThread, Runs, InSpawn, ThreadsTypeOK
<1>2. Known' = Known /\ Counted' = Counted
  BY <1>1 DEF Known, Counted, Uncounted, Alive
<1>3. ThreadsTypeOK' /\ OneLeaves'
  BY <1>1 DEF ThreadsTypeOK, OneLeaves
<1>4. ASSUME Calm' PROVE Exact'
  <2>1. Exact /\ thread[spawning] \in {"started", "asking", "leaving"}
    BY <1>1, <1>4 DEF ThreadsInv, Calm, Exact, InSpawn
  <2>2. spawning \notin ToSet(list) /\ list \in Seq(Tid) /\ IsInjective(list)
    BY <1>1, <2>1 DEF Exact, Unlisted, ThreadsTypeOK
  <2>3. IsInjective(list') /\ ToSet(list') = ToSet(list) \cup {spawning}
    BY <1>1, <2>2, AppendKeeps, ZenonT(60)
  <2>4. {x \in Tid : Alive(x)}' \ Unlisted' = ({x \in Tid : Alive(x)} \ Unlisted) \cup {spawning}
    BY <1>1, <2>1 DEF Alive, Unlisted
  <2>5. QED
    BY <1>1, <1>2, <2>1, <2>3, <2>4 DEF Exact, InSpawn
<1>5. QED
  BY <1>1, <1>2, <1>3, <1>4 DEF ThreadsInv, InSpawn, Calm

LEMMA PthreadDetachKeeps ==
    ASSUME ThreadsInv, PthreadDetach PROVE ThreadsInv'
<1>1. /\ ThreadsTypeOK /\ OneLeaves /\ main = "inserted" /\ main' = "loop" /\ wrong = "none"
      /\ spawning' = Nobody /\ spawning \in Tid
      /\ wrong' = IF spawning \in freed THEN "freed thread" ELSE wrong
      /\ UNCHANGED <<thread, list, freed, count, mutex, found, absent, cancelled, overlap>>
  BY DEF ThreadsInv, PthreadDetach, Runs, InSpawn
<1>2. Known' = Known /\ Counted' = Counted
  BY <1>1 DEF Known, Counted, Uncounted, Alive
<1>3. ThreadsTypeOK' /\ OneLeaves'
  BY <1>1 DEF ThreadsTypeOK, OneLeaves
<1>4. ASSUME Calm' PROVE Exact' /\ wrong' = "none"
  <2>1. Exact /\ thread[spawning] \in {"started", "asking", "leaving"}
    BY <1>1, <1>4 DEF ThreadsInv, Calm, Exact, InSpawn
  <2>2. wrong' = "none"
    BY <1>1, <2>1 DEF Exact
  <2>3. {x \in Tid : Alive(x)}' \ Unlisted' = {x \in Tid : Alive(x)} \ Unlisted
    BY <1>1 DEF Alive, Unlisted
  <2>4. QED
    BY <1>1, <1>2, <2>1, <2>2, <2>3 DEF Exact, InSpawn
<1>5. QED
  BY <1>1, <1>2, <1>3, <1>4 DEF ThreadsInv, InSpawn, Calm

(* The thread, up to dest_thread *)

\* A step of a thread among the states in which it is in the list: the registry stays.
LEMMA StaysAlive ==
    ASSUME ThreadsInv, NEW t \in Tid, Runs, Alive(t),
           NEW k \in {"asking", "leaving", "locked"}, thread' = [thread EXCEPT ![t] = k],
           wrong' \in {"none", "freed user"}, ThreadsTypeOK', OneLeaves',
           overlap => overlap', k = "locked" /\ t = spawning => overlap',
           UNCHANGED <<list, freed, count, main, spawning, found, cancelled>>
    PROVE  ThreadsInv'
<1>1. thread \in [Tid -> {"none", "started", "asking", "leaving", "locked", "walked", "freed", "gone"}]
      /\ wrong = "none" /\ main # "over"
  BY DEF ThreadsInv, ThreadsTypeOK, Runs
<1>2. \A x \in Tid : Alive(x)' <=> Alive(x)
  BY <1>1 DEF Alive
<1>3. Known' = Known /\ Counted' = Counted
  BY <1>1, <1>2 DEF Known, Counted, Uncounted, Alive
<1>4. ASSUME Calm' PROVE Exact'
  <2>1. Exact /\ ~overlap /\ ~(k = "locked" /\ t = spawning)
    BY <1>1, <1>4 DEF ThreadsInv, Calm
  <2>2. {x \in Tid : Alive(x)}' \ Unlisted' = {x \in Tid : Alive(x)} \ Unlisted
    BY <1>2 DEF Unlisted
  <2>3. /\ freed' = {x \in Tid : thread'[x] \in {"freed", "gone"}}
        /\ \A x \in Tid : thread'[x] = "walked" => found' = x
    BY <1>1, <2>1 DEF Exact, Alive
  <2>4. InSpawn' => thread'[spawning'] \in {"started", "asking", "leaving"}
    <3>1. InSpawn => spawning \in Tid /\ thread[spawning] \in {"started", "asking", "leaving"}
      BY <2>1 DEF Exact, ThreadsInv
    <3>2. QED
      BY <1>1, <2>1, <3>1 DEF InSpawn
  <2>5. QED
    BY <1>3, <2>1, <2>2, <2>3, <2>4 DEF Exact
<1>5. QED
  BY <1>1, <1>3, <1>4 DEF ThreadsInv, InSpawn, Calm

LEMMA ReadHostKeeps ==
    ASSUME ThreadsInv, NEW t \in Tid, ReadHost(t) PROVE ThreadsInv'
<1>1. Runs /\ Alive(t) /\ thread[t] = "started" /\ ThreadsTypeOK /\ OneLeaves /\ wrong = "none"
  BY DEF ThreadsInv, ReadHost, Alive, Runs
<1>2. ThreadsTypeOK' /\ OneLeaves' /\ wrong' \in {"none", "freed user"}
  BY <1>1 DEF ReadHost, ThreadsTypeOK, OneLeaves
<1>3. QED
  BY <1>1, <1>2, StaysAlive, ZenonT(30) DEF ReadHost

LEMMA AnsweredKeeps ==
    ASSUME ThreadsInv, NEW t \in Tid, Answered(t) PROVE ThreadsInv'
<1>1. Runs /\ Alive(t) /\ thread[t] = "asking" /\ ThreadsTypeOK /\ OneLeaves /\ wrong = "none"
  BY DEF ThreadsInv, Answered, Alive, Runs
<1>2. ThreadsTypeOK' /\ OneLeaves' /\ wrong' \in {"none", "freed user"}
  BY <1>1 DEF Answered, ThreadsTypeOK, OneLeaves
<1>3. QED
  BY <1>1, <1>2, StaysAlive DEF Answered

LEMMA LockExitKeeps ==
    ASSUME ThreadsInv, NEW t \in Tid, LockExit(t) PROVE ThreadsInv'
<1>1. Runs /\ Alive(t) /\ thread[t] = "leaving" /\ ThreadsTypeOK /\ OneLeaves /\ wrong = "none"
      /\ overlap' \in BOOLEAN /\ mutex = Nobody /\ mutex' = t
  BY DEF ThreadsInv, LockExit, Alive, Runs, ThreadsTypeOK
<1>2. ThreadsTypeOK' /\ OneLeaves' /\ wrong' \in {"none", "freed user"}
  BY <1>1, ThreadsAssumption DEF LockExit, ThreadsTypeOK, OneLeaves
<1>3. QED
  BY <1>1, <1>2, StaysAlive DEF LockExit

-----------------------------------------------------------------------------
(* dest_thread *)

LEMMA WalkKeeps ==
    ASSUME ThreadsInv, NEW t \in Tid, Walk(t) PROVE ThreadsInv'
<1>1. /\ ThreadsTypeOK /\ OneLeaves /\ main # "over" /\ wrong = "none" /\ thread[t] = "locked"
      /\ thread' = [thread EXCEPT ![t] = "walked"] /\ list' = RemoveFirst(list, t)
      /\ (overlap => overlap') /\ overlap' \in BOOLEAN /\ list \in Seq(Tid)
      /\ thread \in [Tid -> {"none", "started", "asking", "leaving", "locked", "walked", "freed", "gone"}]
      /\ UNCHANGED <<freed, count, mutex, main, spawning, absent, cancelled>>
  BY DEF ThreadsInv, Walk, Runs, Deleted, ThreadsTypeOK
<1>2. Known' = Known /\ Counted' = Counted
  BY <1>1 DEF Known, Counted, Uncounted, Alive
<1>3. list' \in Seq(Tid) /\ found' \in Tid
  <2>1. list' \in Seq(Tid)
    BY <1>1, RemovedIsList
  <2>2. list # <<>> => Last(list) \in Tid
    BY <1>1 DEF Last
  <2>3. QED
    BY <2>1, <2>2 DEF Walk
<1>4. ThreadsTypeOK' /\ OneLeaves'
  <2>1. wrong' \in {"none", "freed thread", "unset pointer"}
    BY <1>1 DEF Walk
  <2>2. QED
    BY <1>1, <1>3, <2>1 DEF ThreadsTypeOK, OneLeaves
<1>5. ASSUME Calm' PROVE Exact' /\ wrong' = "none"
  <2>1. Exact /\ (InSpawn => t # spawning) /\ IsInjective(list) /\ t \in ToSet(list)
    <3>1. Exact
      BY <1>1, <1>5 DEF ThreadsInv, Calm
    <3>2. InSpawn => t # spawning
      BY <1>1, <3>1 DEF Exact
    <3>3. t \in {x \in Tid : Alive(x)} \ Unlisted
      BY <1>1, <3>2 DEF Alive, Unlisted, InSpawn
    <3>4. QED
      BY <3>1, <3>2, <3>3 DEF Exact
  <2>2. wrong' = "none"
    <3>1. Passed(t) \subseteq ToSet(list)
      BY DEF Passed, ToSet
    <3>2. \A x \in ToSet(list) : x \notin freed
      BY <2>1 DEF Exact, Alive
    <3>3. list # <<>>
      BY <2>1 DEF ToSet
    <3>4. QED
      BY <1>1, <3>1, <3>2, <3>3 DEF Walk
  <2>3. IsInjective(list') /\ ToSet(list') = ToSet(list) \ {t}
    BY <1>1, <2>1, RemovedKeeps, Zenon
  <2>4. {x \in Tid : Alive(x)}' \ Unlisted' = ({x \in Tid : Alive(x)} \ Unlisted) \ {t}
    BY <1>1 DEF Alive, Unlisted
  <2>5. \A x \in Tid : thread'[x] = "walked" => found' = x
    <3>1. found' = t
      BY <2>1 DEF Walk
    <3>2. QED
      BY <1>1, <3>1 DEF OneLeaves
  <2>6. freed' = {x \in Tid : thread'[x] \in {"freed", "gone"}} /\ cancelled' = {}
    BY <1>1, <2>1 DEF Exact
  <2>7. InSpawn' => thread'[spawning'] \in {"started", "asking", "leaving"}
    BY <1>1, <2>1 DEF Exact, InSpawn
  <2>8. QED
    BY <1>1, <1>2, <2>1, <2>2, <2>3, <2>4, <2>5, <2>6, <2>7 DEF Exact
<1>6. QED
  BY <1>1, <1>2, <1>3, <1>4, <1>5 DEF ThreadsInv, InSpawn, Calm

LEMMA FreeOwnKeeps ==
    ASSUME ThreadsInv, NEW t \in Tid, FreeOwn(t) PROVE ThreadsInv'
<1>1. /\ ThreadsTypeOK /\ OneLeaves /\ main # "over" /\ wrong = "none" /\ thread[t] = "walked" /\ found \in Tid
      /\ thread' = [thread EXCEPT ![t] = "freed"] /\ freed' = freed \cup {found}
      /\ count' = IF count > 0 THEN count - 1 ELSE 0
      /\ (overlap => overlap') /\ overlap' \in BOOLEAN
      /\ thread \in [Tid -> {"none", "started", "asking", "leaving", "locked", "walked", "freed", "gone"}]
      /\ UNCHANGED <<list, mutex, main, spawning, found, absent, cancelled>>
  BY DEF ThreadsInv, FreeOwn, Runs, ThreadsTypeOK
<1>2. Known' = Known
  BY <1>1 DEF Known, Uncounted
<1>3. ThreadsTypeOK' /\ OneLeaves'
  <2>1. count' \in 0..Cardinality(Tid) /\ count' <= count
    BY <1>1, Sizes, Tid \in SUBSET Tid DEF ThreadsTypeOK
  <2>2. wrong' \in {"none", "double free"}
    BY <1>1 DEF FreeOwn
  <2>3. QED
    BY <1>1, <2>1, <2>2 DEF ThreadsTypeOK, OneLeaves
<1>4. ASSUME Calm' PROVE Exact' /\ wrong' = "none"
  <2>1. Exact /\ found = t
    BY <1>1, <1>4 DEF ThreadsInv, Calm, Exact
  <2>2. Counted' = Counted \ {t} /\ t \in Counted /\ Counted \subseteq Tid
    BY <1>1, <2>1 DEF Counted, Uncounted, Alive, Exact, InSpawn
  <2>3. count' = Cardinality(Counted')
    BY <1>1, <2>1, <2>2, Sizes DEF Exact
  <2>4. {x \in Tid : Alive(x)}' \ Unlisted' = {x \in Tid : Alive(x)} \ Unlisted
    BY <1>1 DEF Alive, Unlisted
  <2>5. freed' = {x \in Tid : thread'[x] \in {"freed", "gone"}} /\ wrong' = "none"
    BY <1>1, <2>1 DEF Exact, FreeOwn
  <2>6. \A x \in Tid : thread'[x] = "walked" => found' = x
    BY <1>1, <2>1 DEF Exact
  <2>7. InSpawn' => thread'[spawning'] \in {"started", "asking", "leaving"}
    BY <1>1, <2>1 DEF Exact, InSpawn
  <2>8. QED
    BY <1>1, <2>1, <2>3, <2>4, <2>5, <2>6, <2>7 DEF Exact
<1>5. count' <= Cardinality(Known')
  <2>1. Cardinality(Known) \in Nat /\ count \in Int /\ count <= Cardinality(Known)
    BY <1>1, Sizes, Known \in SUBSET Tid DEF ThreadsTypeOK, ThreadsInv, Known
  <2>2. QED
    BY <1>1, <1>2, <2>1
<1>6. QED
  BY <1>1, <1>3, <1>4, <1>5 DEF ThreadsInv, InSpawn, Calm

LEMMA UnlockExitKeeps ==
    ASSUME ThreadsInv, NEW t \in Tid, UnlockExit(t) PROVE ThreadsInv'
<1>1. /\ ThreadsTypeOK /\ OneLeaves /\ main # "over" /\ wrong = "none" /\ thread[t] = "freed"
      /\ thread' = [thread EXCEPT ![t] = "gone"] /\ mutex' = Nobody
      /\ thread \in [Tid -> {"none", "started", "asking", "leaving", "locked", "walked", "freed", "gone"}]
      /\ UNCHANGED <<list, freed, count, main, spawning, found, absent, cancelled, wrong, overlap>>
  BY DEF ThreadsInv, UnlockExit, Runs, ThreadsTypeOK
<1>2. Known' = Known /\ Counted' = Counted
  BY <1>1 DEF Known, Counted, Uncounted, Alive
<1>3. ThreadsTypeOK' /\ OneLeaves'
  BY <1>1, ThreadsAssumption DEF ThreadsTypeOK, OneLeaves
<1>4. ASSUME Calm' PROVE Exact'
  <2>1. Exact
    BY <1>1, <1>4 DEF ThreadsInv, Calm
  <2>2. {x \in Tid : Alive(x)}' \ Unlisted' = {x \in Tid : Alive(x)} \ Unlisted
    BY <1>1 DEF Alive, Unlisted
  <2>3. QED
    BY <1>1, <1>2, <2>1, <2>2 DEF Exact, InSpawn
<1>5. QED
  BY <1>1, <1>2, <1>3, <1>4 DEF ThreadsInv, InSpawn, Calm

(* The exit, and the user that quits *)

LEMMA UserQuitsKeeps ==
    ASSUME ThreadsInv, NEW t \in Tid, UserQuits(t) PROVE ThreadsInv'
<1>1. ThreadsTypeOK' /\ OneLeaves'
  BY DEF ThreadsInv, UserQuits, ThreadsTypeOK, OneLeaves
<1>2. Known' = Known /\ Counted' = Counted
  BY DEF UserQuits, Known, Counted, Uncounted, Alive
<1>3. Exact => Exact'
  BY <1>2 DEF UserQuits, Exact, Alive, Unlisted, InSpawn
<1>4. QED
  BY <1>1, <1>2, <1>3 DEF ThreadsInv, UserQuits, InSpawn, Calm

LEMMA ExitKeeps ==
    ASSUME ThreadsInv, Exit PROVE ThreadsInv'
<1>1. ThreadsTypeOK' /\ OneLeaves'
  BY DEF ThreadsInv, Exit, ThreadsTypeOK, OneLeaves
<1>2. Known' = Known
  BY DEF Exit, Known, Uncounted
<1>3. QED
  BY <1>1, <1>2 DEF ThreadsInv, Exit, InSpawn, Calm

LEMMA DestFirstKeeps ==
    ASSUME ThreadsInv, DestFirst PROVE ThreadsInv'
<1>1. /\ ThreadsTypeOK /\ OneLeaves /\ main = "exit" /\ list # <<>> /\ list \in Seq(Tid)
      /\ freed' = freed \cup {Head(list)} /\ cancelled' = cancelled \cup {Head(list)}
      /\ list' = Tail(list) /\ wrong' \in {"freed thread", "none", "unset cleanup"}
      /\ count' = IF count > 0 THEN count - 1 ELSE 0
      /\ UNCHANGED <<thread, mutex, main, spawning, found, absent, overlap>>
  BY DEF ThreadsInv, DestFirst, ThreadsTypeOK
<1>2. Head(list) \in Tid /\ list' \in Seq(Tid)
  <2>1. \A l \in Seq(Tid) : l # <<>> => Head(l) \in Tid /\ Tail(l) \in Seq(Tid)
    OBVIOUS
  <2>2. QED
    BY <1>1, <2>1, Zenon
<1>3. count \in 0..Cardinality(Tid) /\ Cardinality(Tid) \in Nat
  BY <1>1, Sizes, Tid \in SUBSET Tid DEF ThreadsTypeOK
<1>4. count' \in 0..Cardinality(Tid) /\ count' <= count
  <2>1. count' = IF count > 0 THEN count - 1 ELSE 0
    BY <1>1
  <2>2. QED
    BY <1>3, <2>1
<1>5. ThreadsTypeOK' /\ OneLeaves'
  BY <1>1, <1>2, <1>4 DEF ThreadsTypeOK, OneLeaves
<1>6. Known' = Known /\ Cardinality(Known) \in Nat
  BY <1>1, Sizes, Known \in SUBSET Tid DEF Known, Uncounted
<1>7. count' <= Cardinality(Known')
  <2>1. count <= Cardinality(Known)
    BY DEF ThreadsInv
  <2>2. count \in Int /\ count' \in Int /\ count' <= count
    BY <1>3, <1>4
  <2>3. QED
    BY <1>6, <2>1, <2>2
<1>8. QED
  BY <1>1, <1>5, <1>7 DEF ThreadsInv, InSpawn, Calm

\* Nobody is cancelled before the exit.
LEMMA CancelledKeeps ==
    ASSUME ThreadsInv, NEW t \in Tid, Cancelled(t) PROVE ThreadsInv'
<1>1. /\ ThreadsTypeOK /\ OneLeaves /\ t \in cancelled /\ wrong = "none"
      /\ thread[t] \in {"started", "asking", "leaving"} /\ thread' = [thread EXCEPT ![t] = "gone"]
      /\ thread \in [Tid -> {"none", "started", "asking", "leaving", "locked", "walked", "freed", "gone"}]
      /\ UNCHANGED <<list, freed, count, mutex, main, spawning, found, absent, cancelled, wrong, overlap>>
  BY DEF ThreadsInv, Cancelled, ThreadsTypeOK, Runs
<1>2. ThreadsTypeOK' /\ OneLeaves'
  BY <1>1 DEF ThreadsTypeOK, OneLeaves
<1>3. Known' = Known
  BY <1>1 DEF Known, Uncounted
<1>4. ~Calm
  BY <1>1 DEF ThreadsInv, Exact
<1>5. QED
  BY <1>1, <1>2, <1>3, <1>4 DEF ThreadsInv, InSpawn, Calm

LEMMA OverKeeps ==
    ASSUME ThreadsInv, Over PROVE ThreadsInv'
<1>1. ThreadsTypeOK' /\ OneLeaves'
  BY DEF ThreadsInv, Over, ThreadsTypeOK, OneLeaves
<1>2. Known' = Known
  BY DEF Over, Known, Uncounted
<1>3. QED
  BY <1>1, <1>2 DEF ThreadsInv, Over, Runs, InSpawn, Calm

-----------------------------------------------------------------------------
(* The registry *)

LEMMA ThreadsStep == ThreadsInv /\ [Next]_vars => ThreadsInv'
<1> SUFFICES ASSUME ThreadsInv, [Next]_vars PROVE ThreadsInv'
  OBVIOUS
<1>1. ASSUME NEW t \in Tid, PthreadCreate(t) \/ UserQuits(t) \/ Step(t) \/ Cancelled(t)
      PROVE  ThreadsInv'
  <2>1. CASE PthreadCreate(t)
    BY <2>1, PthreadCreateKeeps
  <2>2. CASE UserQuits(t)
    BY <2>2, UserQuitsKeeps
  <2>3. CASE Step(t)
    BY <2>3, ReadHostKeeps, AnsweredKeeps, LockExitKeeps, WalkKeeps, FreeOwnKeeps, UnlockExitKeeps
       DEF Step, Dest
  <2>4. CASE Cancelled(t)
    BY <2>4, CancelledKeeps
  <2>5. QED
    BY <1>1, <2>1, <2>2, <2>3, <2>4
<1>2. CASE Spawn \/ Exit \/ DestFirst \/ Over
  BY <1>2, CountThreadKeeps, InsertThreadKeeps, PthreadDetachKeeps, ExitKeeps, DestFirstKeeps, OverKeeps
     DEF Spawn
<1>3. CASE UNCHANGED threadVars
  <2>1. ThreadsTypeOK' /\ OneLeaves' /\ (Exact => Exact')
    BY <1>3 DEF ThreadsInv, threadVars, ThreadsTypeOK, OneLeaves, Exact, Alive, Unlisted, InSpawn,
                Counted, Uncounted
  <2>2. Known' = Known
    BY <1>3 DEF threadVars, Known, Uncounted
  <2>3. QED
    BY <1>3, <2>1, <2>2 DEF ThreadsInv, threadVars, InSpawn, Calm
<1>4. QED
  BY <1>1, <1>2, <1>3 DEF Next, NextThreads, vars

\* threads.c: however many threads are spawned, end and are cancelled, in whatever order,
\* exit_mutex keeps one of them at a time in dest_thread; as long as none meets spawn_thread at
\* work, the list and the counter are exact up to the exit; and no struct is used after it was
\* freed, or freed twice, unless one does, or the exit destroys them all.
THEOREM RegistryRightHolds == Spec => []RegistryRight
<1>1. Init => ThreadsInv
  BY ThreadsInit DEF Init
<1>2. ThreadsInv => RegistryRight
  <2> SUFFICES ASSUME ThreadsInv PROVE RegistryRight
    OBVIOUS
  <2>1. ThreadsTypeOK /\ OneLeaves
    BY DEF ThreadsInv
  <2>2. RegistryExact
    <3> SUFFICES ASSUME ~overlap, main = "loop", wrong = "none"
                 PROVE  /\ ToSet(list) = {t \in Tid : Alive(t)} /\ IsInjective(list)
                        /\ count = Cardinality({t \in Tid : Alive(t) \/ thread[t] = "walked"})
      BY DEF RegistryExact
    <3>1. Exact
      BY DEF ThreadsInv, Calm
    <3>2. Unlisted = {} /\ Counted = {t \in Tid : Alive(t) \/ thread[t] = "walked"}
      BY DEF Unlisted, Counted, Uncounted
    <3>3. QED
      BY <3>1, <3>2 DEF Exact
  <2>3. SafeUnlessOverlap
    BY DEF ThreadsInv, SafeUnlessOverlap, Calm
  <2>4. QED
    BY <2>1, <2>2, <2>3 DEF RegistryRight
<1>3. QED
  BY <1>1, <1>2, ThreadsStep, PTL DEF Spec

(* The invariant of the scans *)

\* The lists of scans.
Lists ==
    /\ queue \in Seq(Remote) /\ scans \in Seq(Remote) /\ given \subseteq Remote
    /\ given = ToSet(queue) \cup ToSet(scans)
    /\ IsInjective(queue) /\ IsInjective(scans) /\ ToSet(queue) \cap ToSet(scans) = {}

Busy(c) == {p \in Slot : c[p].st \in {"out", "sent", "closed"}}

\* The connections, if they were c: those of a scan that waits are all before it, and the
\* client has been told nothing of those that are not over.
Fit(c) ==
    /\ c \in [Slot -> Shape]
    /\ fduse = Cardinality(Busy(c))
    /\ \A r \in Remote : r \in given <=> \E p \in Conns(r) : c[p].st # "none"
    /\ \A p \in Slot : p[1] \in ToSet(queue) => c[p].st = "new"
    /\ \A p \in Slot : c[p].st # "closed" => c[p].said = <<>>
    /\ phase # "establish" => \A p \in Slot : p[1] \in ToSet(scans) => c[p].st # "new"

Cycles ==
    /\ phase \in {"idle", "establish", "poll", "close"} /\ at \in (Nat \ {0}) \X (Nat \ {0})
    /\ fduse \in Nat /\ fduse <= FdLimit
    /\ phase = "establish" => fduse + Cardinality(New) <= FdLimit

ScansInv == Lists /\ Fit(conn) /\ Cycles

-----------------------------------------------------------------------------
(* Connections *)

LEMMA Slots ==
    /\ \A r \in Remote : Conns(r) \subseteq Slot /\ Conns(r) # {} /\ \A p \in Conns(r) : p[1] = r
    /\ \A p \in Slot : p[1] \in Remote /\ p \in Conns(p[1])
    /\ IsFiniteSet(Slot)
<1>1. ASSUME NEW r \in Remote
      PROVE  Conns(r) \subseteq Slot /\ Conns(r) # {} /\ \A p \in Conns(r) : p[1] = r
  <2>1. Conns(r) \subseteq Slot
    BY DEF Slot
  <2>2. 1 \in 1..Protos[r]
    BY ProtosAssumption
  <2>3. <<r, 1>> \in Conns(r)
    BY <2>2 DEF Conns
  <2>4. QED
    BY <2>1, <2>3 DEF Conns
<1>2. ASSUME NEW p \in Slot PROVE p[1] \in Remote /\ p \in Conns(p[1])
  <2>1. PICK r \in Remote : p \in Conns(r)
    BY DEF Slot
  <2>2. QED
    BY <1>1, <2>1
<1>3. IsFiniteSet(Slot)
  <2>1. Slot \in SUBSET (Remote \X (1..FdLimit))
    BY ProtosAssumption DEF Slot, Conns
  <2>2. IsFiniteSet(1..FdLimit)
    BY ProtosAssumption, FS_Interval
  <2>3. IsFiniteSet(Remote \X (1..FdLimit))
    BY <2>2, ProtosAssumption, FS_Product
  <2>4. QED
    BY <2>1, <2>3, FS_Subset
<1>4. QED
  BY <1>1, <1>2, <1>3

LEMMA SlotSizes ==
    ASSUME NEW A \in SUBSET Slot, NEW B \in SUBSET Slot
    PROVE  /\ Cardinality(A) \in Nat /\ Cardinality(B) \in Nat
           /\ A \cap B = {} => Cardinality(A \cup B) = Cardinality(A) + Cardinality(B)
           /\ A \subseteq B => Cardinality(B \ A) = Cardinality(B) - Cardinality(A) /\ Cardinality(A) <= Cardinality(B)
           /\ A \subseteq B /\ A # B => Cardinality(A) < Cardinality(B)
<1>1. IsFiniteSet(A) /\ IsFiniteSet(B)
  BY Slots, FS_Subset
<1>2. Cardinality(A) \in Nat /\ Cardinality(B) \in Nat /\ Cardinality({}) = 0
  BY <1>1, FS_CardinalityType, FS_EmptySet
<1>3. Cardinality(A \cup B) = Cardinality(A) + Cardinality(B) - Cardinality(A \cap B)
  BY <1>1, FS_Union
<1>4. Cardinality(B \ A) = Cardinality(B) - Cardinality(B \cap A)
  BY <1>1, FS_Difference
<1>5. ASSUME A \subseteq B
      PROVE  /\ Cardinality(A) <= Cardinality(B) /\ B \cap A = A
             /\ A # B => Cardinality(A) < Cardinality(B)
  <2>1. Cardinality(A) <= Cardinality(B) /\ (Cardinality(B) = Cardinality(A) => B = A)
    BY <1>1, <1>5, FS_Subset
  <2>2. QED
    BY <1>2, <1>5, <2>1
<1>6. QED
  BY <1>2, <1>3, <1>4, <1>5

LEMMA ScansInit == InitProxies => ScansInv
<1> SUFFICES ASSUME InitProxies PROVE ScansInv
  OBVIOUS
<1>1. Lists
  BY DEF InitProxies, Lists, ToSet, IsInjective
<1>2. conn \in [Slot -> Shape] /\ \A p \in Slot : conn[p] = NoConn
  BY ProtosAssumption DEF InitProxies, Shape, NoConn, Told
<1>3. Busy(conn) = {} /\ Cardinality({}) = 0
  BY <1>2, FS_EmptySet DEF Busy, NoConn
<1>4. Fit(conn)
  <2>1. given = {} /\ ToSet(queue) = {} /\ ToSet(scans) = {} /\ fduse = 0
    BY DEF InitProxies, ToSet
  <2>2. \A p \in Slot : conn[p].st = "none" /\ conn[p].said = <<>>
    BY <1>2 DEF NoConn
  <2>3. \A r \in Remote : \A p \in Conns(r) : conn[p].st = "none"
    BY <2>2, Slots
  <2>4. QED
    BY <1>2, <1>3, <2>1, <2>2, <2>3 DEF Fit
<1>5. Cycles
  BY ProtosAssumption DEF InitProxies, Cycles
<1>6. QED
  BY <1>1, <1>4, <1>5 DEF ScansInv

\* A scan that ends, while the connections are c: those of a scan that waits go, and END is
\* called; those of a live scan close.
LEMMA OpmEndKeeps ==
    ASSUME Lists, Cycles, NEW c, Fit(c), NEW r \in given, OpmEnd(r, c), phase # "establish",
           phase' = phase, UNCHANGED <<scans, fduse>>, at' \in (Nat \ {0}) \X (Nat \ {0})
    PROVE  ScansInv'
<1>1. r \in Remote /\ queue' = RemoveFirst(queue, r) /\ c \in [Slot -> Shape]
  BY DEF Lists, OpmEnd, Fit
<1>2. CASE r \in ToSet(queue)
  <2>1. /\ queue' \in Seq(Remote) /\ IsInjective(queue') /\ ToSet(queue') = ToSet(queue) \ {r}
    BY <1>1, <1>2, RemovedKeeps, Zenon DEF Lists
  <2>2. given' = given \ {r}
    BY <1>2 DEF OpmEnd
  <2>3. Lists'
    BY <1>2, <2>1, <2>2 DEF Lists
  <2>4. conn' = [p \in Slot |-> IF p \in Conns(r) THEN NoConn ELSE c[p]]
    BY <1>2 DEF OpmEnd
  <2>5. conn' \in [Slot -> Shape]
    BY <1>1, <2>4, ProtosAssumption DEF Shape, NoConn, Told
  <2>6. Busy(conn') = Busy(c)
    BY <1>1, <1>2, <2>4, Slots DEF Busy, NoConn, Fit
  <2>7. \A q \in Remote : q \in given' <=> \E p \in Conns(q) : conn'[p].st # "none"
    <3>1. \A p \in Conns(r) : conn'[p].st = "none"
      BY <1>1, <2>4, Slots DEF NoConn
    <3>2. \A q \in Remote : q # r => \A p \in Conns(q) : p \in Slot /\ p \notin Conns(r)
      BY <1>1, Slots
    <3>3. \A q \in Remote : q # r => \A p \in Conns(q) : conn'[p] = c[p]
      BY <2>4, <3>2
    <3>4. \A q \in Remote : q \in given <=> \E p \in Conns(q) : c[p].st # "none"
      BY DEF Fit
    <3>5. QED
      BY <1>1, <2>2, <3>1, <3>3, <3>4
  <2>8. /\ \A p \in Slot : p[1] \in ToSet(queue') => conn'[p].st = "new"
        /\ \A p \in Slot : conn'[p].st # "closed" => conn'[p].said = <<>>
        /\ \A p \in Slot : p[1] \in ToSet(scans') => conn'[p].st # "new"
    <3>1. \A p \in Slot : p[1] \in ToSet(queue') => p \notin Conns(r)
      BY <1>1, <2>1, Slots
    <3>2. \A p \in Slot : IF p \in Conns(r) THEN conn'[p].st = "none" /\ conn'[p].said = <<>> ELSE conn'[p] = c[p]
      BY <2>4 DEF NoConn
    <3>3. \A p \in Slot : (conn'[p].st = "none" /\ conn'[p].said = <<>>) \/ conn'[p] = c[p]
      BY <3>2
    <3>4. \A p \in Slot : p[1] \in ToSet(queue') => conn'[p].st = "new"
      BY <2>1, <3>1, <3>2 DEF Fit
    <3>5. QED
      BY <3>3, <3>4 DEF Fit
  <2>9. Fit(conn)'
    BY <2>5, <2>6, <2>7, <2>8 DEF Fit
  <2>10. QED
    BY <2>3, <2>9 DEF ScansInv, Cycles
<1>3. CASE r \notin ToSet(queue)
  <2>1. queue' = queue /\ given' = given
    BY <1>1, <1>3 DEF RemoveFirst, ToSet, OpmEnd, Lists
  <2>2. r \in ToSet(scans)
    BY <1>3 DEF Lists
  <2>3. conn' = [p \in Slot |-> IF p \in Conns(r) THEN OpmEndscan(r, c[p]) ELSE c[p]]
    BY <1>1, <1>3, <2>2, Slots DEF OpmEnd, Live
  <2>4. \A p \in Slot : \/ conn'[p] = c[p]
                        \/ p \in Conns(r) /\ c[p].st # "none" /\ conn'[p] = [c[p] EXCEPT !.st = "closed"]
    BY <2>3 DEF OpmEndscan
  <2>5. conn' \in [Slot -> Shape]
    <3>1. \A x \in Shape : [x EXCEPT !.st = "closed"] \in Shape
      BY DEF Shape
    <3>2. ASSUME NEW p \in Slot PROVE conn'[p] \in Shape
      <4>1. c[p] \in Shape
        BY <1>1
      <4>2. [c[p] EXCEPT !.st = "closed"] \in Shape
        BY <3>1, <4>1
      <4>3. QED
        BY <2>4, <4>1, <4>2
    <3>3. QED
      BY <2>3, <3>2
  <2>6. Busy(conn') = Busy(c)
    <3>1. \A p \in Conns(r) : c[p].st # "new"
      BY <1>1, <2>2, Slots DEF Fit
    <3>2. \A p \in Slot : c[p].st \in {"none", "new", "out", "sent", "closed"} /\ conn'[p].st \in {"none", "new", "out", "sent", "closed"}
      BY <1>1, <2>5 DEF Shape
    <3>3. \A p \in Slot : conn'[p].st = c[p].st \/ (p \in Conns(r) /\ c[p].st # "none" /\ conn'[p].st = "closed")
      BY <1>1, <2>4 DEF Shape
    <3>4. QED
      BY <3>1, <3>2, <3>3 DEF Busy
  <2>7. \A p \in Slot : /\ c[p].st = "none" <=> conn'[p].st = "none"
                        /\ conn'[p].st # "closed" => conn'[p] = c[p]
    <3>1. \A x \in Shape : [x EXCEPT !.st = "closed"].st = "closed"
      BY DEF Shape
    <3>2. ASSUME NEW p \in Slot PROVE conn'[p] = c[p] \/ (c[p].st # "none" /\ conn'[p].st = "closed")
      <4>1. c[p] \in Shape
        BY <1>1
      <4>2. QED
        BY <2>4, <3>1, <4>1
    <3>3. QED
      BY <3>2
  <2>8. \A q \in Remote : q \in given' <=> \E p \in Conns(q) : conn'[p].st # "none"
    BY <2>1, <2>7, Slots DEF Fit
  <2>9. /\ \A p \in Slot : p[1] \in ToSet(queue') => conn'[p].st = "new"
        /\ \A p \in Slot : conn'[p].st # "closed" => conn'[p].said = <<>>
        /\ \A p \in Slot : p[1] \in ToSet(scans') => conn'[p].st # "new"
    <3>1. \A p \in Slot : p[1] \in ToSet(queue) => p \notin Conns(r)
      BY <1>1, <1>3, Slots
    <3>2. QED
      BY <2>1, <2>4, <2>7, <3>1 DEF Fit
  <2>10. Fit(conn)'
    BY <2>1, <2>5, <2>6, <2>8, <2>9 DEF Fit
  <2>11. QED
    BY <2>1, <2>10 DEF ScansInv, Cycles, Lists
<1>4. QED
  BY <1>2, <1>3

-----------------------------------------------------------------------------
(* The client *)

LEMMA OpmScanKeeps ==
    ASSUME ScansInv, NEW r \in Remote, OpmScan(r) PROVE ScansInv'
<1>1. /\ Lists /\ Fit(conn) /\ Cycles /\ phase = "idle" /\ r \notin given
      /\ given' = given \cup {r} /\ queue' = Append(queue, r)
      /\ conn' = [p \in Slot |-> IF p \in Conns(r) THEN Conn ELSE conn[p]]
      /\ UNCHANGED <<scans, fduse, phase, at>>
  BY DEF ScansInv, OpmScan
<1>2. /\ queue \in Seq(Remote) /\ IsInjective(queue) /\ r \notin ToSet(queue) /\ r \notin ToSet(scans)
  BY <1>1 DEF Lists
<1>3. queue' \in Seq(Remote) /\ IsInjective(queue') /\ ToSet(queue') = ToSet(queue) \cup {r}
  BY <1>1, <1>2, AppendKeeps, ZenonT(60)
<1>4. Lists'
  BY <1>1, <1>2, <1>3 DEF Lists
<1>5. conn' \in [Slot -> Shape]
  BY <1>1, ProtosAssumption DEF Fit, Shape, Conn, NoConn, Told
<1>6. \A p \in Slot : IF p[1] = r THEN conn[p].st = "none" /\ conn'[p].st = "new" /\ conn'[p].said = <<>>
                      ELSE conn'[p] = conn[p]
  <2>1. \A p \in Conns(r) : conn[p].st = "none"
    BY <1>1 DEF Fit
  <2>2. \A p \in Slot : p[1] = r <=> p \in Conns(r)
    BY Slots
  <2>3. QED
    BY <1>1, <2>1, <2>2 DEF Conn, NoConn
<1>7. Busy(conn') = Busy(conn)
  BY <1>6 DEF Busy
<1>8. \A q \in Remote : q \in given' <=> \E p \in Conns(q) : conn'[p].st # "none"
  <2>1. \A q \in Remote : q # r => \A p \in Conns(q) : conn'[p] = conn[p]
    BY <1>6, Slots
  <2>2. \E p \in Conns(r) : conn'[p].st # "none"
    BY <1>6, Slots
  <2>3. \A q \in Remote : q \in given <=> \E p \in Conns(q) : conn[p].st # "none"
    BY <1>1 DEF Fit
  <2>4. QED
    BY <1>1, <2>1, <2>2, <2>3
<1>9. /\ \A p \in Slot : p[1] \in ToSet(queue') => conn'[p].st = "new"
      /\ \A p \in Slot : conn'[p].st # "closed" => conn'[p].said = <<>>
      /\ \A p \in Slot : p[1] \in ToSet(scans') => conn'[p].st # "new"
  BY <1>1, <1>2, <1>3, <1>6 DEF Fit
<1>10. Fit(conn)'
  BY <1>1, <1>5, <1>7, <1>8, <1>9 DEF Fit
<1>11. QED
  BY <1>1, <1>4, <1>10 DEF ScansInv, Cycles

LEMMA EndBetweenKeeps ==
    ASSUME ScansInv, NEW r \in Remote, EndBetween(r) PROVE ScansInv'
BY OpmEndKeeps DEF ScansInv, EndBetween, Cycles

-----------------------------------------------------------------------------
(* opm_cycle *)

\* What goes live fits.
LEMMA CheckQueueKeeps ==
    ASSUME ScansInv, CheckQueue PROVE ScansInv'
<1>1. Lists /\ Fit(conn) /\ Cycles /\ phase = "idle" /\ phase' = "establish" /\ UNCHANGED <<conn, fduse, at, given>>
  BY DEF ScansInv, CheckQueue
<1>2. PICK n \in 0..Len(queue) :
          /\ \A k \in 1..n : Need(k) <= FdLimit
          /\ scans' = scans \o SubSeq(queue, 1, n)
          /\ queue' = SubSeq(queue, n + 1, Len(queue))
  BY DEF CheckQueue
<1> DEFINE a == SubSeq(queue, 1, n)
<1>3. queue \in Seq(Remote) /\ scans \in Seq(Remote) /\ IsInjective(queue) /\ IsInjective(scans)
  BY <1>1 DEF Lists
<1>4. /\ a \in Seq(Remote) /\ IsInjective(a) /\ ToSet(a) = {queue[i] : i \in 1..n}
      /\ queue' \in Seq(Remote) /\ IsInjective(queue') /\ ToSet(queue') = ToSet(queue) \ ToSet(a)
  <2>q. queue \in Seq(Remote)
    BY <1>3
  <2>i. IsInjective(queue)
    BY <1>3
  <2>1. a \in Seq(Remote) /\ IsInjective(a) /\ ToSet(a) = {queue[i] : i \in 1..n}
    BY <2>q, <2>i, CutFront, Zenon
  <2>2. queue' \in Seq(Remote) /\ IsInjective(queue') /\ ToSet(queue') = ToSet(queue) \ {queue[i] : i \in 1..n}
    BY <1>2, <2>q, <2>i, CutRest, Zenon
  <2>3. QED
    BY <2>1, <2>2
<1>5. {queue[i] : i \in 1..n} \subseteq ToSet(queue)
  BY <1>2, <1>3, InList
<1> HIDE DEF a
<1>6. ToSet(a) \cap ToSet(scans) = {}
  BY <1>1, <1>4, <1>5 DEF Lists
<1>7. scans' = scans \o a
  BY <1>2 DEF a
<1>8. scans' \in Seq(Remote) /\ ToSet(scans') = ToSet(scans) \cup ToSet(a) /\ IsInjective(scans')
  <2>1. scans' \in Seq(Remote) /\ ToSet(scans') = ToSet(scans) \cup ToSet(a)
    <3>1. scans \in Seq(Remote)
      BY <1>3
    <3>2. a \in Seq(Remote)
      BY <1>4
    <3>3. scans \o a \in Seq(Remote) /\ ToSet(scans \o a) = ToSet(scans) \cup ToSet(a)
      BY <3>1, <3>2, JoinKeeps, ZenonT(60)
    <3>4. QED
      BY <1>7, <3>3, Zenon
  <2>2. ToSet(scans) \cap ToSet(a) = {}
    BY <1>6
  <2>3. IsInjective(scans')
    BY <1>3, <1>4, <1>7, <2>2, JoinInjective, Zenon
  <2>4. QED
    BY <2>1, <2>3
<1>9. Lists'
  BY <1>1, <1>4, <1>5, <1>6, <1>8 DEF Lists
<1>10. Fit(conn)'
  BY <1>1, <1>4 DEF Fit, Busy
<1>11. New' = {p \in Slot : p[1] \in ToSet(a)}
  <2>1. \A p \in Slot : p[1] \in ToSet(scans) => conn[p].st # "new"
    BY <1>1 DEF Fit
  <2>2. \A p \in Slot : p[1] \in ToSet(a) => conn[p].st = "new"
    BY <1>1, <1>4, <1>5 DEF Fit
  <2>3. New' = {p \in Slot : p[1] \in ToSet(scans') /\ conn[p].st = "new"}
    BY <1>1 DEF New, Live
  <2>4. QED
    BY <1>8, <2>1, <2>2, <2>3
<1>12. fduse' + Cardinality(New') <= FdLimit
  <2>1. CASE n = 0
    <3>1. New' = {}
      BY <1>4, <1>11, <2>1
    <3>2. Cardinality(New') = 0
      BY <3>1, FS_EmptySet
    <3>3. QED
      BY <1>1, <3>2 DEF Cycles
  <2>2. CASE n # 0
    <3>1. Need(n) <= FdLimit
      BY <1>2, <2>2
    <3>2. \A i \in 1..n : queue[i] \in Remote
      BY <1>2, <1>3
    <3>3. UNION {Conns(queue[i]) : i \in 1..n} = New'
      <4>1. ASSUME NEW p \in Slot, p[1] \in ToSet(a) PROVE \E i \in 1..n : p \in Conns(queue[i])
        BY <1>4, <4>1, Slots
      <4>2. ASSUME NEW i \in 1..n, NEW p \in Conns(queue[i]) PROVE p \in Slot /\ p[1] \in ToSet(a)
        BY <1>4, <3>2, Slots
      <4>3. QED
        BY <1>11, <4>1, <4>2
    <3>4. QED
      BY <1>1, <3>1, <3>3 DEF Need
  <2>3. QED
    BY <2>1, <2>2
<1>13. QED
  BY <1>1, <1>9, <1>10, <1>12 DEF ScansInv, Cycles

\* All that went live is connected at once.
LEMMA CheckEstablishKeeps ==
    ASSUME ScansInv, CheckEstablish PROVE ScansInv'
<1> DEFINE now == {p \in New : fduse + Cardinality({q \in New : Before(q, p)}) < FdLimit}
<1>1. /\ Lists /\ Fit(conn) /\ Cycles /\ phase = "establish" /\ phase' = "poll" /\ at' = <<1, 1>>
      /\ fduse' = fduse + Cardinality(now) /\ UNCHANGED <<queue, scans, given>>
      /\ fduse + Cardinality(New) <= FdLimit
  BY DEF ScansInv, CheckEstablish, Cycles
<1>2. PICK refused \in SUBSET now :
          conn' = [p \in Slot |-> IF p \in refused THEN [conn[p] EXCEPT !.st = "closed", !.said = <<"error">>]
                                  ELSE IF p \in now THEN [conn[p] EXCEPT !.st = "out"]
                                  ELSE conn[p]]
  BY DEF CheckEstablish
<1>3. now = New
  <2> SUFFICES ASSUME NEW p \in New PROVE fduse + Cardinality({q \in New : Before(q, p)}) < FdLimit
    OBVIOUS
  <2>1. ~Before(p, p)
    <3>1. p[2] \in Int
      BY ProtosAssumption DEF New, Slot, Conns
    <3>2. scans \in Seq(Remote) /\ IsInjective(scans)
      BY <1>1 DEF Lists
    <3>3. QED
      BY <3>1, <3>2 DEF Before, IsInjective
  <2> DEFINE A == {q \in New : Before(q, p)}
  <2>2. A \subseteq New /\ A # New /\ New \subseteq Slot
    BY <2>1 DEF New
  <2> HIDE DEF A
  <2>3. Cardinality(A) < Cardinality(New) /\ Cardinality(A) \in Nat /\ Cardinality(New) \in Nat
    BY <2>2, SlotSizes
  <2>4. fduse \in Nat /\ FdLimit \in Nat
    BY <1>1, ProtosAssumption DEF Cycles
  <2>5. QED
    BY <1>1, <2>3, <2>4 DEF A
<1> HIDE DEF now
<1>4. New \subseteq Slot /\ \A p \in New : conn[p].st = "new" /\ p[1] \in ToSet(scans)
  BY DEF New, Live
<1>5. conn \in [Slot -> Shape]
  BY <1>1 DEF Fit
<1>6. conn' \in [Slot -> Shape]
  <2>1. \A x \in Shape : /\ [x EXCEPT !.st = "closed", !.said = <<"error">>] \in Shape
                         /\ [x EXCEPT !.st = "out"] \in Shape
    BY DEF Shape, Told
  <2>2. \A p \in Slot : conn'[p] \in Shape
    BY <1>2, <1>5, <2>1
  <2>3. QED
    BY <1>2, <2>2
<1>7. \A p \in Slot : /\ p \in New => conn'[p].st \in {"out", "closed"} /\ (conn'[p].st = "out" => conn'[p].said = conn[p].said)
                      /\ p \notin New => conn'[p] = conn[p]
  <2>1. \A x \in Shape : /\ [x EXCEPT !.st = "closed", !.said = <<"error">>].st = "closed"
                         /\ [x EXCEPT !.st = "out"].st = "out" /\ [x EXCEPT !.st = "out"].said = x.said
    BY DEF Shape
  <2>2. QED
    BY <1>2, <1>3, <1>5, <2>1
<1>8. Busy(conn') = Busy(conn) \cup New /\ Busy(conn) \cap New = {} /\ Busy(conn) \subseteq Slot
  BY <1>4, <1>7 DEF Busy
<1>9. fduse' = Cardinality(Busy(conn')) /\ fduse' <= FdLimit /\ fduse' \in Nat
  <2>1. Cardinality(Busy(conn')) = Cardinality(Busy(conn)) + Cardinality(New) /\ Cardinality(New) \in Nat
    BY <1>4, <1>8, SlotSizes
  <2>2. QED
    BY <1>1, <1>3, <2>1 DEF Fit, Cycles
<1>10. \A p \in Slot : conn[p].st = "none" <=> conn'[p].st = "none"
  BY <1>4, <1>7
<1>11. \A q \in Remote : q \in given' <=> \E p \in Conns(q) : conn'[p].st # "none"
  BY <1>1, <1>10, Slots DEF Fit
<1>12. /\ \A p \in Slot : p[1] \in ToSet(queue') => conn'[p].st = "new"
       /\ \A p \in Slot : p[1] \in ToSet(scans') => conn'[p].st # "new"
  <2>1. \A p \in New : p[1] \notin ToSet(queue)
    BY <1>1, <1>4 DEF Lists
  <2>2. \A p \in Slot : p[1] \in ToSet(scans) /\ p \notin New => conn[p].st # "new"
    BY DEF New, Live
  <2>3. QED
    BY <1>1, <1>7, <2>1, <2>2 DEF Fit
<1>13. \A p \in Slot : conn'[p].st # "closed" => conn'[p].said = <<>>
  BY <1>1, <1>4, <1>7 DEF Fit
<1>14. Fit(conn)' /\ Lists'
  BY <1>1, <1>6, <1>9, <1>11, <1>12, <1>13 DEF Fit, Lists
<1>15. QED
  BY <1>1, <1>9, <1>14 DEF ScansInv, Cycles

\* What the handlers of one connection come to can be told of a connection of which nothing was.
LEMMA OutcomesFit ==
    ASSUME NEW st, NEW o \in Outcomes(st)
    PROVE  /\ o[1] \in {"out", "sent", "closed"} /\ <<>> \o o[2] \in Told
           /\ o[1] # "closed" => <<>> \o o[2] = <<>>
<1>1. \A x \in Told : <<>> \o x = x
  BY DEF Told
<1>2. /\ <<>> \o <<"negfail">> = <<"negfail">>
      /\ \A x \in {"negfail", "error", "open"} : <<x>> \o <<"negfail">> = <<x, "negfail">>
  <2>1. ASSUME NEW x PROVE <<x>> \o <<"negfail">> = <<x, "negfail">>
    <3>1. <<x>> \o <<"negfail">> = Append(<<x>>, "negfail")
      OBVIOUS
    <3>2. <<x, "negfail">> = Append(<<x>>, "negfail")
      OBVIOUS
    <3>3. QED
      BY <3>1, <3>2
  <2>2. QED
    BY <2>1
<1>3. \A x \in Read : x \in {<<"sent", <<>>>>, <<"closed", <<"negfail">>>>, <<"closed", <<"error">>>>, <<"closed", <<"open">>>>}
  BY <1>2 DEF Read, Hup
<1>4. \A x \in Read : Hup(x[2]) \in {<<"closed", <<"negfail">>>>, <<"closed", <<"negfail", "negfail">>>>,
                                     <<"closed", <<"error", "negfail">>>>, <<"closed", <<"open", "negfail">>>>}
  <2>1. \A x \in Read : x[2] \in {<<>>, <<"negfail">>, <<"error">>, <<"open">>}
    BY <1>3
  <2>2. \A y \in {<<>>, <<"negfail">>, <<"error">>, <<"open">>} :
           y \o <<"negfail">> \in {<<"negfail">>, <<"negfail", "negfail">>, <<"error", "negfail">>, <<"open", "negfail">>}
    BY <1>2
  <2>3. QED
    BY <2>1, <2>2 DEF Hup
<1>5. o \in {<<"out", <<>>>>, <<"sent", <<>>>>} \/ (o[1] = "closed" /\ o[2] \in Told)
  <2>1. CASE st = "out"
    BY <1>2, <2>1 DEF Outcomes, Written, Hup, Told
  <2>2. CASE st # "out"
    <3>1. CASE o \in Read
      BY <1>3, <3>1 DEF Told
    <3>2. CASE o \notin Read
      <4>1. PICK x \in Read : o = Hup(x[2])
        BY <2>2, <3>2 DEF Outcomes
      <4>2. QED
        BY <1>4, <4>1 DEF Told
    <3>3. QED
      BY <3>1, <3>2
  <2>3. QED
    BY <2>1, <2>2
<1>6. CASE o \in {<<"out", <<>>>>, <<"sent", <<>>>>}
  <2>1. o[1] \in {"out", "sent"} /\ o[2] = <<>> /\ <<>> \in Told
    BY <1>6 DEF Told
  <2>2. QED
    BY <1>1, <2>1
<1>7. CASE o[1] = "closed" /\ o[2] \in Told
  BY <1>1, <1>7
<1>8. QED
  BY <1>5, <1>6, <1>7

LEMMA PollConnKeeps ==
    ASSUME ScansInv, PollConn PROVE ScansInv'
<1> DEFINE r == scans[at[1]]
           p == <<r, at[2]>>
           c == conn[p]
<1>1. /\ Lists /\ Fit(conn) /\ Cycles /\ phase = "poll" /\ at[1] \in DOMAIN scans /\ at[2] <= Protos[r]
      /\ at' = <<at[1], at[2] + 1>> /\ UNCHANGED <<scans, fduse, phase>>
  BY DEF ScansInv, PollConn
<1>2. r \in Remote /\ r \in ToSet(scans) /\ r \in given
  BY <1>1 DEF Lists, ToSet
<1>3. at[2] \in 1..Protos[r] /\ at' \in (Nat \ {0}) \X (Nat \ {0})
  BY <1>1, <1>2, ProtosAssumption DEF Cycles
<1>4. p \in Conns(r) /\ p \in Slot /\ p[1] = r
  BY <1>2, <1>3, Slots DEF Conns
<1>5. \/ /\ Polled(c)
         /\ \E o \in Outcomes(c.st), ends \in BOOLEAN :
               LET told == [conn EXCEPT ![p] = [st |-> o[1], age |-> c.age, said |-> c.said \o o[2]]]
               IN  IF ends
                   THEN "open" \in ToSet(o[2]) /\ OpmEnd(p[1], told)
                   ELSE conn' = told /\ UNCHANGED <<queue, given>>
      \/ ~Polled(c) /\ UNCHANGED <<queue, conn, given>>
  BY DEF PollConn
<1> HIDE DEF p, r
<1>6. CASE ~Polled(c) /\ UNCHANGED <<queue, conn, given>>
  BY <1>1, <1>3, <1>6 DEF ScansInv, Lists, Fit, Cycles
<1>7. CASE ~(~Polled(c) /\ UNCHANGED <<queue, conn, given>>)
  <2>1. PICK o \in Outcomes(c.st), ends \in BOOLEAN :
               LET told == [conn EXCEPT ![p] = [st |-> o[1], age |-> c.age, said |-> c.said \o o[2]]]
               IN  IF ends
                   THEN "open" \in ToSet(o[2]) /\ OpmEnd(p[1], told)
                   ELSE conn' = told /\ UNCHANGED <<queue, given>>
    BY <1>5, <1>7
  <2>p. Polled(c)
    BY <1>5, <1>7
  <2> DEFINE now  == [st |-> o[1], age |-> c.age, said |-> c.said \o o[2]]
             told == [conn EXCEPT ![p] = now]
  <2>2. c \in Shape /\ c.st \in {"out", "sent"} /\ c.said = <<>> /\ conn \in [Slot -> Shape]
    BY <1>1, <1>4, <2>p DEF Fit, Polled
  <2>3. now \in Shape /\ now.st \in {"out", "sent", "closed"} /\ (now.st # "closed" => now.said = <<>>)
    <3>1. o[1] \in {"out", "sent", "closed"} /\ c.said \o o[2] \in Told /\ (o[1] # "closed" => c.said \o o[2] = <<>>)
      BY <2>2, OutcomesFit
    <3>2. QED
      BY <2>2, <3>1 DEF Shape
  <2> HIDE DEF now
  <2>4. told \in [Slot -> Shape] /\ told[p] = now /\ \A q \in Slot : q # p => told[q] = conn[q]
    BY <1>4, <2>2, <2>3
  <2>5. /\ IF ends THEN OpmEnd(r, told) ELSE conn' = told /\ UNCHANGED <<queue, given>>
    BY <1>4, <2>1 DEF now
  <2> HIDE DEF told, c
  <2>6. Fit(told)
    <3>1. Busy(told) = Busy(conn)
      BY <2>2, <2>3, <2>4 DEF Busy, c
    <3>2. \A q \in Slot : told[q].st = "none" <=> conn[q].st = "none"
      BY <2>2, <2>3, <2>4 DEF c
    <3>3. \A q \in Remote : q \in given <=> \E x \in Conns(q) : told[x].st # "none"
      BY <1>1, <3>2, Slots DEF Fit
    <3>4. p[1] \notin ToSet(queue)
      BY <1>1, <1>2, <1>4 DEF Lists
    <3>5. /\ \A q \in Slot : q[1] \in ToSet(queue) => told[q].st = "new"
          /\ \A q \in Slot : told[q].st # "closed" => told[q].said = <<>>
          /\ \A q \in Slot : q[1] \in ToSet(scans) => told[q].st # "new"
      BY <1>1, <2>3, <2>4, <3>4 DEF Fit
    <3>6. QED
      BY <1>1, <2>4, <3>1, <3>3, <3>5 DEF Fit
  <2>7. CASE ends
    <3>1. OpmEnd(r, told)
      BY <2>5, <2>7
    <3>2. QED
      BY <1>1, <1>2, <1>3, <2>6, <3>1, OpmEndKeeps
  <2>8. CASE ~ends
    <3>1. conn' = told /\ UNCHANGED <<queue, given>>
      BY <2>5, <2>8
    <3>2. Fit(conn)'
      BY <1>1, <2>6, <3>1 DEF Fit
    <3>3. QED
      BY <1>1, <1>3, <3>1, <3>2 DEF ScansInv, Lists, Cycles
  <2>9. QED
    BY <2>7, <2>8
<1>8. QED
  BY <1>6, <1>7

LEMMA NextScanKeeps ==
    ASSUME ScansInv, NextScan \/ PollDone \/ CycleDone PROVE ScansInv'
<1>1. UNCHANGED <<queue, scans, conn, fduse, given>> /\ phase # "establish" /\ phase' # "establish"
  BY DEF NextScan, PollDone, CycleDone
<1>2. Cycles'
  BY <1>1 DEF ScansInv, Cycles, NextScan, PollDone, CycleDone
<1>3. QED
  BY <1>1, <1>2 DEF ScansInv, Lists, Fit

\* What a scan has done with is no longer counted, and END is called when nothing is left.
LEMMA CloseScanKeeps ==
    ASSUME ScansInv, CloseScan PROVE ScansInv'
<1> DEFINE r    == scans[at[1]]
           reap == {p \in Conns(r) : Reaped(conn[p])}
<1>1. /\ Lists /\ Fit(conn) /\ Cycles /\ phase = "close" /\ at[1] \in DOMAIN scans
      /\ conn' = [p \in Slot |-> IF p \in reap THEN NoConn ELSE conn[p]]
      /\ fduse' = fduse - Cardinality(reap) /\ UNCHANGED <<queue, phase>>
      /\ \/ /\ \A p \in Conns(r) : conn'[p].st = "none"
            /\ given' = given \ {r} /\ scans' = RemoveFirst(scans, r)
            /\ UNCHANGED at
         \/ /\ \E p \in Conns(r) : conn'[p].st # "none"
            /\ at' = <<at[1] + 1, 1>>
            /\ UNCHANGED <<given, scans>>
  BY DEF ScansInv, CloseScan
<1>2. r \in Remote /\ r \in ToSet(scans) /\ r \in given
  BY <1>1 DEF Lists, ToSet
<1> HIDE DEF r
<1>3. reap \subseteq Busy(conn) /\ Busy(conn) \subseteq Slot
  BY <1>2, Slots DEF Busy, Reaped
<1>4. \A p \in Slot : IF p \in reap THEN conn'[p] = NoConn /\ p[1] = r ELSE conn'[p] = conn[p]
  BY <1>1, <1>2, Slots
<1> HIDE DEF reap
<1>5. conn' \in [Slot -> Shape]
  <2>1. NoConn \in Shape
    BY ProtosAssumption DEF Shape, NoConn, Told
  <2>2. QED
    BY <1>1, <2>1 DEF Fit
<1>6. Busy(conn') = Busy(conn) \ reap
  BY <1>4 DEF Busy, NoConn
<1>7. fduse' = Cardinality(Busy(conn')) /\ fduse' \in Nat /\ fduse' <= FdLimit
  <2>1. /\ Cardinality(Busy(conn')) = Cardinality(Busy(conn)) - Cardinality(reap)
        /\ Cardinality(reap) <= Cardinality(Busy(conn))
        /\ Cardinality(Busy(conn)) \in Nat /\ Cardinality(reap) \in Nat
    BY <1>3, <1>6, SlotSizes
  <2>2. fduse = Cardinality(Busy(conn)) /\ fduse <= FdLimit /\ FdLimit \in Nat
    BY <1>1, ProtosAssumption DEF Fit, Cycles
  <2>3. QED
    BY <1>1, <2>1, <2>2
<1>8. r \notin ToSet(queue)
  BY <1>1, <1>2 DEF Lists
<1>9. /\ \A p \in Slot : p[1] \in ToSet(queue') => conn'[p].st = "new"
      /\ \A p \in Slot : conn'[p].st # "closed" => conn'[p].said = <<>>
      /\ \A p \in Slot : p[1] \in ToSet(scans) => conn'[p].st # "new"
  BY <1>1, <1>4, <1>8 DEF Fit, NoConn
<1>10. \A q \in Remote : q # r => \A p \in Conns(q) : conn'[p] = conn[p]
  BY <1>4, Slots
<1>11. \A q \in Remote : q \in given <=> \E p \in Conns(q) : conn[p].st # "none"
  BY <1>1 DEF Fit
<1>12. CASE /\ \A p \in Conns(r) : conn'[p].st = "none"
            /\ given' = given \ {r} /\ scans' = RemoveFirst(scans, r)
            /\ UNCHANGED at
  <2>1. scans \in Seq(Remote) /\ IsInjective(scans)
    BY <1>1 DEF Lists
  <2>2. scans' \in Seq(Remote) /\ IsInjective(scans') /\ ToSet(scans') = ToSet(scans) \ {r}
    BY <1>2, <1>12, <2>1, RemovedKeeps, Zenon
  <2>3. Lists'
    BY <1>1, <1>2, <1>8, <1>12, <2>2 DEF Lists
  <2>4. \A q \in Remote : q \in given' <=> \E p \in Conns(q) : conn'[p].st # "none"
    BY <1>10, <1>11, <1>12
  <2>5. Fit(conn)'
    BY <1>1, <1>5, <1>7, <1>9, <2>2, <2>4 DEF Fit
  <2>6. QED
    BY <1>1, <1>7, <1>12, <2>3, <2>5 DEF ScansInv, Cycles
<1>13. CASE /\ \E p \in Conns(r) : conn'[p].st # "none"
            /\ at' = <<at[1] + 1, 1>>
            /\ UNCHANGED <<given, scans>>
  <2>1. \A q \in Remote : q \in given' <=> \E p \in Conns(q) : conn'[p].st # "none"
    <3>1. \E p \in Conns(r) : conn'[p].st # "none"
      BY <1>13
    <3>2. QED
      BY <1>2, <1>10, <1>11, <1>13, <3>1
  <2>2. Fit(conn)'
    BY <1>1, <1>5, <1>7, <1>9, <1>13, <2>1 DEF Fit
  <2>3. at' \in (Nat \ {0}) \X (Nat \ {0})
    BY <1>1, <1>13 DEF Cycles
  <2>4. QED
    BY <1>1, <1>7, <1>13, <2>2, <2>3 DEF ScansInv, Cycles, Lists
<1>14. QED
  BY <1>1, <1>12, <1>13

LEMMA AgeKeeps ==
    ASSUME ScansInv, Age PROVE ScansInv'
<1> DEFINE waits == {p \in Slot : Polled(conn[p]) /\ conn[p].age < Timeout}
<1>1. /\ Lists /\ Fit(conn) /\ Cycles /\ UNCHANGED <<queue, scans, fduse, phase, at, given>>
      /\ conn' = [p \in Slot |-> IF p \in waits THEN [conn[p] EXCEPT !.age = @ + 1] ELSE conn[p]]
  BY DEF ScansInv, Age
<1>2. conn \in [Slot -> Shape]
  BY <1>1 DEF Fit
<1>3. \A x \in Shape : /\ [x EXCEPT !.age = @ + 1].st = x.st /\ [x EXCEPT !.age = @ + 1].said = x.said
                       /\ x.age < Timeout => [x EXCEPT !.age = @ + 1] \in Shape
  BY ProtosAssumption DEF Shape
<1>4. \A p \in Slot : conn'[p] \in Shape /\ conn'[p].st = conn[p].st /\ conn'[p].said = conn[p].said
  BY <1>1, <1>2, <1>3
<1>5. conn' \in [Slot -> Shape]
  BY <1>1, <1>4
<1>6. Busy(conn') = Busy(conn) /\ New' = New
  BY <1>1, <1>4 DEF Busy, New, Live
<1>7. \A q \in Remote : q \in given' <=> \E p \in Conns(q) : conn'[p].st # "none"
  BY <1>1, <1>4, Slots DEF Fit
<1>8. Fit(conn)'
  BY <1>1, <1>4, <1>5, <1>6, <1>7 DEF Fit
<1>9. QED
  BY <1>1, <1>6, <1>8 DEF ScansInv, Lists, Cycles

LEMMA ScansStep == ScansInv /\ [Next]_vars => ScansInv'
<1> SUFFICES ASSUME ScansInv, [Next]_vars PROVE ScansInv'
  OBVIOUS
<1>1. CASE UNCHANGED proxyVars
  BY <1>1 DEF proxyVars, ScansInv, Lists, Fit, Cycles, New, Live
<1>2. CASE NextProxies
  BY <1>2, OpmScanKeeps, EndBetweenKeeps, CheckQueueKeeps, CheckEstablishKeeps, PollConnKeeps, NextScanKeeps,
     CloseScanKeeps, AgeKeeps DEF NextProxies, Cycle
<1>3. QED
  BY <1>1, <1>2 DEF Next, vars

LEMMA ScansHold == Spec => []ScansInv
<1>1. Init => ScansInv
  BY ScansInit DEF Init
<1>2. QED
  BY <1>1, ScansStep, PTL DEF Spec

\* The descriptors in use are counted exactly, all of them connected, on behalf of clients that
\* are still there, whatever the limit, the protocols and what peers and client do.
THEOREM ScansRightHolds == Spec => []ScansRight
<1>1. ScansInv => ScansRight
  <2> SUFFICES ASSUME ScansInv PROVE ScansRight
    OBVIOUS
  <2>1. Lists /\ Fit(conn) /\ Cycles
    BY DEF ScansInv
  <2>2. ProxiesTypeOK
    BY <2>1 DEF ProxiesTypeOK, Lists, Fit, Cycles
  <2>3. FdsExact
    BY <2>1 DEF FdsExact, Fit, Cycles, Busy
  <2>4. ConnectedAtOnce
    BY <2>1 DEF ConnectedAtOnce, Fit, New, Live
  <2>5. RemotesLive
    BY <2>1 DEF RemotesLive, Lists, Fit
  <2>6. QED
    BY <2>2, <2>3, <2>4, <2>5 DEF ScansRight
<1>2. QED
  BY <1>1, ScansHold, PTL

\* An open proxy is the first thing reported of its connection, in every scan.
THEOREM OpenFirstHolds == Spec => []OpenFirst
<1>1. ScansInv => OpenFirst
  <2> SUFFICES ASSUME ScansInv, NEW p \in Slot, NEW k \in DOMAIN conn[p].said, conn[p].said[k] = "open"
               PROVE  k = 1
    BY DEF OpenFirst
  <2>1. conn[p].said \in Told
    BY DEF ScansInv, Fit, Shape
  <2>2. QED
    BY <2>1 DEF Told
<1>2. QED
  BY <1>1, ScansHold, PTL

=============================================================================
