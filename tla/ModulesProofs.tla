--------------------------- MODULE ModulesProofs ---------------------------
(***************************************************************************)
(* Proofs about Modules, for any core directory and any queue: what is     *)
(* loaded when start-up ends, and what stays loaded; these are about the   *)
(* module list and the queue only, whatever handlers do to the event list. *)
(* Then what the list of events is through all of it: which nodes a walk   *)
(* finds, calls and leaves behind, whatever handlers and modules do.       *)
(***************************************************************************)
EXTENDS Modules, ListProofs

-----------------------------------------------------------------------------
(* The invariant of the loader *)

Rank(load) == IF load = "pre" THEN 1 ELSE IF load = "std" THEN 2 ELSE 3

\* A pass leaves behind it what later passes will look at, and has nothing of an earlier one
\* before it.
Passes ==
    /\ pass \in Load
    /\ \A i \in DOMAIN que : /\ Rank(que[i].load) >= Rank(pass)
                             /\ i < at => Rank(que[i].load) > Rank(pass)

\* If g_core was asked for and its file is good, then it is loaded or waits, and is not put off
\* to the last pass; and so is or does whatever was asked for, if its file is good and it says
\* what it misses.
Asked ==
    /\ asked \subseteq Files
    /\ "g_core" \in asked \ bad =>
          /\ "g_core" \in ToSet(loaded) \/ \E e \in ToSet(que) : e.name = "g_core" /\ e.load # "post"
          /\ \A m \in asked \ bad : Info[m].needs # "guardian" =>
                m \in ToSet(loaded) \/ \E e \in ToSet(que) : e.name = m

LoadInv ==
    /\ setup \in Setups /\ LoaderRight
    /\ phase = "start" => walk = Idle /\ Passes /\ Asked
    /\ phase # "start" => pass = "done"

-----------------------------------------------------------------------------
(* The queue *)

LEMMA AppendAdds ==
    ASSUME NEW S, NEW l \in Seq(S), NEW t \in S
    PROVE  ToSet(Append(l, t)) = ToSet(l) \cup {t}
<1> DEFINE m == Append(l, t)
<1>1. /\ m \in Seq(S) /\ Len(m) = Len(l) + 1 /\ Len(l) \in Nat /\ m[Len(m)] = t
      /\ \A i \in 1..Len(l) : m[i] = l[i]
  OBVIOUS
<1> HIDE DEF m
<1>2. \A i \in 1..Len(m) : i \in 1..Len(l) \/ i = Len(m)
  BY <1>1
<1>3. Len(m) \in 1..Len(m) /\ 1..Len(l) \subseteq 1..Len(m)
  BY <1>1
<1>4. \A x \in ToSet(m) : x \in ToSet(l) \/ x = t
  BY <1>1, <1>2, InList
<1>5. t \in ToSet(m) /\ \A x \in ToSet(l) : x \in ToSet(m)
  BY <1>1, <1>3, InList
<1>6. ToSet(m) = ToSet(l) \cup {t}
  BY <1>4, <1>5
<1>7. QED
  BY <1>6 DEF m

\* An entry is taken off the queue.
LEMMA Dequeued ==
    ASSUME NEW S, NEW l \in Seq(S), NEW k \in 1..Len(l)
    PROVE  /\ RemoveAt(l, k) \in Seq(S) /\ Len(RemoveAt(l, k)) = Len(l) - 1
           /\ \A i \in 1..(Len(l) - 1) : RemoveAt(l, k)[i] = IF i < k THEN l[i] ELSE l[i + 1]
<1> DEFINE m == RemoveAt(l, k)
           a == SubSeq(l, 1, k - 1)
           b == SubSeq(l, k + 1, Len(l))
<1>1. a \in Seq(S) /\ Len(a) = k - 1 /\ \A i \in 1..(k - 1) : a[i] = l[i]
  OBVIOUS
<1>2. b \in Seq(S) /\ Len(b) = Len(l) - k /\ \A i \in 1..(Len(l) - k) : b[i] = l[k + i]
  OBVIOUS
<1>3. m = a \o b
  BY DEF RemoveAt
<1> HIDE DEF a, b, m
<1>4. m \in Seq(S) /\ Len(m) = Len(l) - 1
  <2>1. \A x, y \in Seq(S) : x \o y \in Seq(S) /\ Len(x \o y) = Len(x) + Len(y)
    OBVIOUS
  <2>2. m \in Seq(S) /\ Len(m) = Len(a) + Len(b)
    BY <1>1, <1>2, <1>3, <2>1, Zenon
  <2>3. QED
    BY <1>1, <1>2, <2>2
<1>5. ASSUME NEW i \in 1..(Len(l) - 1) PROVE m[i] = IF i < k THEN l[i] ELSE l[i + 1]
  <2>1. CASE i < k
    BY <1>1, <1>2, <1>3, <1>4, <2>1
  <2>2. CASE i >= k
    <3>1. m[i] = b[i - (k - 1)] /\ i - (k - 1) \in 1..(Len(l) - k)
      BY <1>1, <1>2, <1>3, <1>4, <2>2
    <3>2. k + (i - (k - 1)) = i + 1
      OBVIOUS
    <3>3. QED
      BY <1>2, <2>2, <3>1, <3>2
  <2>3. QED
    BY <2>1, <2>2
<1>6. QED
  BY <1>4, <1>5, Zenon DEF m

LEMMA DequeueTakesOne ==
    ASSUME NEW S, NEW l \in Seq(S), NEW k \in 1..Len(l)
    PROVE  /\ \A e \in ToSet(RemoveAt(l, k)) : e \in ToSet(l)
           /\ \A e \in ToSet(l) : e # l[k] => e \in ToSet(RemoveAt(l, k))
<1> DEFINE m == RemoveAt(l, k)
<1>1. /\ m \in Seq(S) /\ Len(m) = Len(l) - 1
      /\ \A i \in 1..(Len(l) - 1) : m[i] = IF i < k THEN l[i] ELSE l[i + 1]
  BY Dequeued, Zenon
<1> HIDE DEF m
<1>2. Len(l) \in Nat /\ \A i \in 1..(Len(l) - 1) : i \in 1..Len(l) /\ i + 1 \in 1..Len(l)
  OBVIOUS
<1>3. \A i \in 1..Len(l) : (i < k => i \in 1..(Len(l) - 1)) /\ (i > k => i - 1 \in 1..(Len(l) - 1) /\ ~(i - 1 < k) /\ (i - 1) + 1 = i)
  OBVIOUS
<1>4. ASSUME NEW e \in ToSet(m) PROVE e \in ToSet(l)
  <2>1. PICK i \in 1..(Len(l) - 1) : m[i] = e
    BY <1>1, InList
  <2>2. QED
    BY <1>1, <1>2, <2>1, InList
<1>5. ASSUME NEW e \in ToSet(l), e # l[k] PROVE e \in ToSet(m)
  <2>1. PICK i \in 1..Len(l) : l[i] = e
    BY InList
  <2>2. i < k \/ i > k
    BY <1>5, <2>1
  <2>3. \E j \in 1..(Len(l) - 1) : m[j] = e
    BY <1>1, <1>3, <2>1, <2>2
  <2>4. QED
    BY <1>1, <2>3, InList
<1>6. QED
  BY <1>4, <1>5 DEF m

Entry == [name : Files, load : Load]

\* What stays the same when neither the loader nor an operator is at work.
LEMMA Quietly ==
    ASSUME LoadInv, UNCHANGED <<loadVars, setup>>, phase # "start", phase' \in {"run", "exit", "end", "crash"},
           link' \in {"down", "burst", "up"}
    PROVE  LoadInv'
BY DEF LoadInv, LoaderRight, TypeOK, LoadedOnce, QueueDrained, CoreKept, loadVars, Files, Core

-----------------------------------------------------------------------------
(* Start-up *)

LEMMA LoaderInit == Init => LoadInv
<1> SUFFICES ASSUME Init PROVE LoadInv
  OBVIOUS
<1>1. /\ setup \in Setups /\ setup.files \subseteq DOMAIN Info
      /\ setup.queues \subseteq Seq([name : setup.files, load : {"pre", "std", "post"}])
      /\ setup.core \in Seq({m \in DOMAIN Info : Info[m].needs = "nothing"}) /\ IsInjective(setup.core)
  BY SetupsAssumption DEF Init
<1>2. /\ walk = Idle /\ que \in Seq(Entry) /\ loaded = Core /\ pass = "pre" /\ at = 1 /\ bad = {} /\ link = "down" /\ phase = "start"
      /\ asked = {e.name : e \in {q \in ToSet(que) : q.load # "post"}}
  BY <1>1 DEF Init, Entry, Files, Load
<1>3. ToSet(que) \subseteq Entry
  BY <1>2, InList
<1>4. loaded \in Seq(Files \cup ToSet(Core))
  <2>1. Core \in Seq(ToSet(Core))
    BY <1>1 DEF Core, ToSet
  <2>2. QED
    BY <1>2, <2>1
<1>5. TypeOK
  BY <1>2, <1>4 DEF TypeOK, Entry, Load
<1>6. LoadedOnce /\ QueueDrained
  BY <1>1, <1>2 DEF LoadedOnce, QueueDrained, Core
<1>7. CoreKept
  <2>1. ToSet(setup.core) \subseteq {m \in DOMAIN Info : Info[m].needs = "nothing"}
    BY <1>1, InList
  <2>2. QED
    BY <1>2, <2>1 DEF CoreKept, Core
<1>8. Passes
  <2>1. \A e \in Entry : e.load \in {"pre", "std", "post"}
    BY DEF Entry, Load
  <2>2. \A i \in DOMAIN que : que[i] \in Entry /\ (i < 1 => FALSE)
    BY <1>2
  <2>3. QED
    BY <1>2, <2>1, <2>2 DEF Passes, Load, Rank
<1>9. Asked
  <2>1. \A m \in asked : \E e \in ToSet(que) : e.name = m /\ e.load # "post"
    BY <1>2
  <2>2. asked \subseteq Files
    BY <1>2, <1>3 DEF Entry
  <2>3. QED
    BY <2>1, <2>2 DEF Asked
<1>10. QED
  BY <1>1, <1>2, <1>5, <1>6, <1>7, <1>8, <1>9 DEF LoadInv, LoaderRight

LEMMA Needs ==
    \A m \in DOMAIN Info : Info[m].needs \in {"nothing", "dependency", "guardian"}
<1>1. DOMAIN Info = {"g_core", "g_update", "g_sessions", "g_scan", "g_watch", "m_omegastats", "m_fantasy"}
  BY DEF Info
<1>2. Info["g_core"] = GCore /\ Info["g_update"] = GUpdate /\ Info["g_sessions"] = GSessions /\ Info["g_scan"] = GScan
  BY DEF Info
<1>3. Info["g_watch"] = GWatch /\ Info["m_omegastats"] = MOmegastats /\ Info["m_fantasy"] = MFantasy
  BY DEF Info
<1>4. GCore.needs = "nothing" /\ GUpdate.needs = "dependency" /\ GSessions.needs = "nothing" /\ GScan.needs = "nothing"
  BY DEF GCore, GUpdate, GSessions, GScan
<1>5. GWatch.needs = "guardian" /\ MOmegastats.needs = "nothing" /\ MFantasy.needs = "nothing"
  BY DEF GWatch, MOmegastats, MFantasy
<1> HIDE DEF Info
<1>6. QED
  BY <1>1, <1>2, <1>3, <1>4, <1>5

LEMMA CoreNeedsNothing == Info["g_core"].needs = "nothing"
BY DEF Info, GCore

LEMMA OpensResults ==
    ASSUME NEW m, NEW list, NEW mods, NEW o \in Opens(m, list, mods)
    PROVE  o.result \in {"exists", "bad", "ok", "dependency", "refused"}
BY DEF Opens

\* Whatever becomes of opening a module: the ones loaded stay, each once and with g_core.
LEMMA OpenedKeeps ==
    ASSUME setup \in Setups, setup' = setup, NEW mods \in Seq(Files \cup ToSet(Core)), IsInjective(mods), bad \subseteq Files,
           \A m \in ToSet(mods) : Info[m].needs # "nothing" => "g_core" \in ToSet(mods),
           NEW m \in Files, NEW list, NEW o \in Opens(m, list, mods), Opened(m, o, mods)
    PROVE  /\ loaded' \in Seq(Files' \cup ToSet(Core')) /\ bad' \subseteq Files' /\ bad \subseteq bad'
           /\ LoadedOnce' /\ CoreKept'
           /\ \A x \in ToSet(mods) : x \in ToSet(loaded')
           /\ o.result # "bad" /\ (Info[m].needs = "nothing" \/ "g_core" \in ToSet(mods)) => m \in ToSet(loaded') \/ m \in ToSet(mods)
           /\ o.result = "bad" => m \in bad'
           /\ o.result = "dependency" => Info[m].needs = "dependency" /\ "g_core" \notin ToSet(mods)
           /\ o.result = "refused" => Info[m].needs = "guardian"
<1>1. m \in DOMAIN Info /\ Info[m].needs \in {"nothing", "dependency", "guardian"}
  BY SetupsAssumption, Needs DEF Files
<1> DEFINE met == Info[m].needs = "nothing" \/ "g_core" \in ToSet(mods)
<1>2. /\ loaded' = IF o.result = "ok" THEN Append(mods, m) ELSE mods
      /\ bad' = IF o.result = "bad" THEN bad \cup {m} ELSE bad
      /\ Files' = Files /\ Core' = Core
  BY DEF Opened, Files, Core
<1>3. \/ o.result = "exists" /\ m \in ToSet(mods)
      \/ o.result = "bad" /\ m \notin ToSet(mods)
      \/ o.result = "ok" /\ m \notin ToSet(mods) /\ met
      \/ o.result = "dependency" /\ ~met /\ Info[m].needs = "dependency"
      \/ o.result = "refused" /\ ~met /\ Info[m].needs # "dependency"
  BY DEF Opens
<1> DEFINE all == Append(mods, m)
<1>4. m \notin ToSet(mods) => all \in Seq(Files \cup ToSet(Core)) /\ IsInjective(all) /\ ToSet(all) = ToSet(mods) \cup {m}
  <2> DEFINE Known == Files \cup ToSet(Core)
  <2>1. mods \in Seq(Known) /\ m \in Known
    OBVIOUS
  <2> HIDE DEF Known
  <2>2. ASSUME m \notin ToSet(mods)
        PROVE  all \in Seq(Known) /\ IsInjective(all) /\ ToSet(all) = ToSet(mods) \cup {m}
    <3>1. IsInjective(mods)
      OBVIOUS
    <3>2. Append(mods, m) \in Seq(Known)
      BY <2>1
    <3>3. IsInjective(Append(mods, m))
      BY <2>1, <2>2, <3>1, AppendKeeps, ZenonT(60)
    <3>4. ToSet(Append(mods, m)) = ToSet(mods) \cup {m}
      BY <2>1, AppendAdds, SMT
    <3>5. QED
      BY <3>2, <3>3, <3>4
  <2>3. QED
    BY <2>2 DEF Known
<1> HIDE DEF all, met
<1>5. CASE o.result = "ok"
  <2>1. loaded' = all /\ m \notin ToSet(mods) /\ met
    BY <1>2, <1>3, <1>5 DEF all
  <2>2. \A x \in ToSet(all) : Info[x].needs # "nothing" => "g_core" \in ToSet(all)
    BY <1>4, <2>1 DEF met
  <2>3. QED
    BY <1>2, <1>4, <1>5, <2>1, <2>2 DEF LoadedOnce, CoreKept
<1>6. CASE o.result # "ok"
  BY <1>1, <1>2, <1>3, <1>6 DEF LoadedOnce, CoreKept, met
<1>7. QED
  BY <1>5, <1>6

\* An entry is tried: it goes, its module loaded, bad or refused, or it is put off to a later
\* pass because g_core is not there yet.
LEMMA RunModQueKeeps ==
    ASSUME LoadInv, RunModQue, UNCHANGED setup PROVE LoadInv'
<1> DEFINE mq == que[at]
           m  == mq.name
<1>1. /\ setup \in Setups /\ TypeOK /\ LoadedOnce /\ CoreKept /\ Passes /\ Asked
      /\ phase = "start" /\ at \in DOMAIN que /\ walk' = Idle /\ UNCHANGED <<asked, link, phase>> /\ Files' = Files /\ Core' = Core
  BY DEF RunModQue, LoadInv, LoaderRight, Files, Core
<1>2. que \in Seq(Entry) /\ at \in 1..Len(que) /\ mq \in Entry /\ m \in Files /\ mq \in ToSet(que)
  <2>1. que \in Seq(Entry)
    BY <1>1 DEF TypeOK, Entry
  <2>2. at \in 1..Len(que)
    BY <1>1, <2>1
  <2>3. mq \in Entry
    BY <2>1, <2>2
  <2>4. mq.name \in Files
    BY <2>3 DEF Entry
  <2>5. mq \in ToSet(que)
    BY <2>1, <2>2, InList
  <2>6. QED
    BY <2>1, <2>2, <2>3, <2>4, <2>5
<1>3. \/ mq.load # pass /\ at' = at + 1 /\ UNCHANGED <<que, pass, loaded, bad>>
      \/ mq.load = pass /\ m \in ToSet(loaded) /\ Dequeue /\ UNCHANGED <<loaded, bad>>
      \/ /\ mq.load = pass /\ m \notin ToSet(loaded)
         /\ \E o \in Opens(m, events, loaded) :
               /\ Opened(m, o, loaded)
               /\ IF o.result = "dependency" /\ mq.load # "post"
                  THEN /\ que' = [que EXCEPT ![at].load = Later(mq.load)]
                       /\ at' = at + 1
                       /\ UNCHANGED pass
                  ELSE Dequeue
  BY DEF RunModQue
<1> HIDE DEF mq
<1>4. \A e \in Entry : e.load \in {"pre", "std", "post"} /\ e.name \in Files
  BY DEF Entry, Load
<1>5. pass \in {"pre", "std", "post"}
  BY <1>1 DEF Passes, Load
\* The entry is looked at in a later pass.
<1>6. CASE mq.load # pass /\ at' = at + 1 /\ UNCHANGED <<que, pass, loaded, bad>>
  <2>1. Rank(mq.load) > Rank(pass)
    <3>1. Rank(mq.load) >= Rank(pass)
      BY <1>1, <1>2 DEF Passes, mq
    <3>2. QED
      BY <1>2, <1>4, <1>5, <1>6, <3>1 DEF Rank
  <2>2. \A i \in DOMAIN que : i < at + 1 => i < at \/ i = at
    BY <1>1, <1>2
  <2>3. Passes'
    BY <1>1, <1>6, <2>1, <2>2 DEF Passes, mq
  <2>4. QED
    BY <1>1, <1>2, <1>6, <2>3 DEF LoadInv, LoaderRight, TypeOK, LoadedOnce, CoreKept, QueueDrained, Asked
\* What taking the entry off does to the queue, and what it does not.
<1>7. ASSUME Dequeue
      PROVE  /\ que' \in Seq(Entry) /\ at' \in 1..(Len(que') + 1) /\ Passes'
             /\ \A e \in ToSet(que) : e # mq => e \in ToSet(que')
  <2>1. que' = RemoveAt(que, at) /\ at' = at /\ pass' = pass
    BY <1>7 DEF Dequeue
  <2>2. /\ que' \in Seq(Entry) /\ Len(que') = Len(que) - 1
        /\ \A i \in 1..(Len(que) - 1) : que'[i] = IF i < at THEN que[i] ELSE que[i + 1]
    BY <1>2, <2>1, Dequeued, Zenon
  <2>3. \A e \in ToSet(que) : e # mq => e \in ToSet(que')
    BY <1>2, <2>1, DequeueTakesOne, Zenon DEF mq
  <2>4. at' \in 1..(Len(que') + 1)
    BY <1>2, <2>1, <2>2
  <2>5. Passes'
    <3>1. DOMAIN que' = 1..(Len(que) - 1)
      BY <2>2
    <3>2. \A i \in 1..(Len(que) - 1) : i \in DOMAIN que /\ i + 1 \in DOMAIN que
      BY <1>2
    <3>3. \A i \in DOMAIN que' : /\ Rank(que'[i].load) >= Rank(pass)
                                 /\ i < at => Rank(que'[i].load) > Rank(pass)
      BY <1>1, <2>2, <3>1, <3>2 DEF Passes
    <3>4. QED
      BY <1>1, <2>1, <3>3 DEF Passes
  <2>6. QED
    BY <2>2, <2>3, <2>4, <2>5
<1>8. CASE mq.load = pass /\ m \in ToSet(loaded) /\ Dequeue /\ UNCHANGED <<loaded, bad>>
  <2>1. Asked'
    <3>1. \A e \in ToSet(que) : e.name # m => e \in ToSet(que')
      BY <1>7, <1>8
    <3>2. QED
      BY <1>1, <1>8, <3>1 DEF Asked
  <2>2. QED
    BY <1>1, <1>7, <1>8, <2>1 DEF LoadInv, LoaderRight, TypeOK, LoadedOnce, CoreKept, QueueDrained, Passes, Entry
<1>9. ASSUME mq.load = pass, m \notin ToSet(loaded),
             NEW o \in Opens(m, events, loaded), Opened(m, o, loaded),
             IF o.result = "dependency" /\ mq.load # "post"
             THEN /\ que' = [que EXCEPT ![at].load = Later(mq.load)]
                  /\ at' = at + 1
                  /\ UNCHANGED pass
             ELSE Dequeue
      PROVE  LoadInv'
  <2>1. loaded \in Seq(Files \cup ToSet(Core)) /\ IsInjective(loaded) /\ bad \subseteq Files
        /\ \A x \in ToSet(loaded) : Info[x].needs # "nothing" => "g_core" \in ToSet(loaded)
    BY <1>1 DEF TypeOK, LoadedOnce, CoreKept
  <2>2. /\ loaded' \in Seq(Files' \cup ToSet(Core')) /\ bad' \subseteq Files' /\ bad \subseteq bad'
        /\ LoadedOnce' /\ CoreKept'
        /\ \A x \in ToSet(loaded) : x \in ToSet(loaded')
        /\ o.result # "bad" /\ (Info[m].needs = "nothing" \/ "g_core" \in ToSet(loaded)) => m \in ToSet(loaded')
        /\ o.result = "bad" => m \in bad'
        /\ o.result = "dependency" => Info[m].needs = "dependency" /\ "g_core" \notin ToSet(loaded)
        /\ o.result = "refused" => Info[m].needs = "guardian"
    BY <1>1, <1>2, <1>9, <2>1, OpenedKeeps
  <2>3. CASE o.result = "dependency" /\ mq.load # "post"
    <3> DEFINE new == [mq EXCEPT !.load = Later(mq.load)]
    <3>1. /\ que' = [que EXCEPT ![at] = new] /\ at' = at + 1 /\ pass' = pass
      BY <1>9, <2>3 DEF mq
    <3>2. new \in Entry /\ new.name = m /\ Rank(new.load) > Rank(pass)
      BY <1>2, <1>4, <1>5, <1>9, <2>3 DEF Entry, Load, Later, Rank
    <3> HIDE DEF new
    <3>3. que' \in Seq(Entry) /\ Len(que') = Len(que) /\ que'[at] = new
          /\ \A i \in 1..Len(que) : i # at => que'[i] = que[i]
      BY <1>2, <3>1, <3>2
    <3>4. at' \in 1..(Len(que') + 1)
      BY <1>2, <3>1, <3>3
    <3>5. Passes'
      <4>1. DOMAIN que' = 1..Len(que) /\ DOMAIN que = 1..Len(que)
        BY <1>2, <3>3
      <4>2. \A i \in 1..Len(que) : i < at + 1 => i < at \/ i = at
        BY <1>2
      <4>3. \A i \in 1..Len(que) : /\ Rank(que'[i].load) >= Rank(pass)
                                   /\ i < at + 1 => Rank(que'[i].load) > Rank(pass)
        <5> SUFFICES ASSUME NEW i \in 1..Len(que)
                     PROVE  /\ Rank(que'[i].load) >= Rank(pass)
                            /\ i < at + 1 => Rank(que'[i].load) > Rank(pass)
          OBVIOUS
        <5>1. CASE i = at
          BY <3>2, <3>3, <5>1 DEF Rank
        <5>2. CASE i # at
          BY <1>1, <3>3, <4>1, <4>2, <5>2 DEF Passes
        <5>3. QED
          BY <5>1, <5>2
      <4>4. QED
        BY <1>1, <3>1, <4>1, <4>3 DEF Passes
    <3>6. Asked'
      <4>1. new \in ToSet(que') /\ \A e \in ToSet(que) : e # mq => e \in ToSet(que')
        BY <1>2, <3>3, InList DEF mq
      <4>2. m # "g_core"
        BY <2>2, <2>3, CoreNeedsNothing
      <4>3. QED
        BY <1>1, <2>2, <3>2, <4>1, <4>2 DEF Asked
    <3>7. QED
      BY <1>1, <2>2, <3>3, <3>4, <3>5, <3>6 DEF LoadInv, LoaderRight, TypeOK, QueueDrained, Passes, Entry
  <2>4. CASE ~(o.result = "dependency" /\ mq.load # "post")
    <3>1. Dequeue
      BY <1>9, <2>4
    <3>2. \A e \in ToSet(que) : e.name # m => e \in ToSet(que')
      BY <1>7, <3>1
    <3>3. "g_core" \in asked \ bad /\ pass = "post" => "g_core" \in ToSet(loaded)
      <4>1. \A e \in ToSet(que) : pass = "post" => e.load = "post"
        <5>1. \A i \in DOMAIN que : Rank(que[i].load) >= Rank(pass) /\ que[i].load \in {"pre", "std", "post"}
          BY <1>1, <1>2, <1>4 DEF Passes
        <5>2. \A i \in DOMAIN que : pass = "post" => que[i].load = "post"
          BY <5>1 DEF Rank
        <5>3. QED
          BY <1>2, <5>2, InList
      <4>2. QED
        BY <1>1, <4>1 DEF Asked
    <3>4. m \in bad' \/ m \in ToSet(loaded') \/ Info[m].needs = "guardian" \/ "g_core" \notin asked \ bad
      <4>1. o.result \in {"exists", "bad", "ok", "dependency", "refused"}
        BY OpensResults
      <4>2. o.result # "exists"
        BY <1>9 DEF Opens
      <4>3. m \in DOMAIN Info /\ Info[m].needs \in {"nothing", "dependency", "guardian"}
        BY <1>1, <1>2, SetupsAssumption, Needs DEF Files
      <4>4. o.result = "ok" => m \in ToSet(loaded')
        <5>1. o.result = "ok" => Info[m].needs = "nothing" \/ "g_core" \in ToSet(loaded)
          BY <1>9 DEF Opens
        <5>2. QED
          BY <2>2, <5>1
      <4>5. o.result = "dependency" => pass = "post" /\ "g_core" \notin ToSet(loaded)
        BY <1>9, <2>2, <2>4
      <4>6. QED
        BY <2>2, <3>3, <4>1, <4>2, <4>4, <4>5
    <3>5. m = "g_core" => m \in bad' \/ m \in ToSet(loaded')
      BY <2>2, CoreNeedsNothing
    <3>6. Asked'
      BY <1>1, <2>2, <3>2, <3>4, <3>5 DEF Asked
    <3>7. QED
      BY <1>1, <1>7, <2>2, <3>1, <3>6 DEF LoadInv, LoaderRight, TypeOK, QueueDrained, Passes, Entry
  <2>5. QED
    BY <2>3, <2>4
<1>10. QED
  BY <1>3, <1>6, <1>8, <1>9

\* The next pass has nothing of an earlier one to look at.
LEMMA NextPassKeeps ==
    ASSUME LoadInv, NextPass, UNCHANGED setup PROVE LoadInv'
<1>1. /\ setup \in Setups /\ TypeOK /\ LoadedOnce /\ CoreKept /\ Passes /\ Asked
      /\ phase = "start" /\ at = Len(que) + 1 /\ pass # "post" /\ pass' = Later(pass) /\ at' = 1
      /\ walk' = Idle /\ UNCHANGED <<loaded, que, asked, bad, link, phase>>
  BY DEF NextPass, LoadInv, LoaderRight, eventVars
<1>2. que \in Seq(Entry) /\ pass \in {"pre", "std"}
  BY <1>1 DEF TypeOK, Passes, Load, Entry
<1>3. \A e \in Entry : e.load \in {"pre", "std", "post"}
  BY DEF Entry, Load
<1>4. \A i \in DOMAIN que : que[i] \in Entry /\ i < at
  BY <1>1, <1>2
<1>5. Rank(pass') = Rank(pass) + 1 /\ pass' \in {"std", "post"}
  BY <1>1, <1>2 DEF Rank, Later
<1>6. Passes'
  <2>1. \A i \in DOMAIN que : Rank(que[i].load) >= Rank(pass')
    <3>1. \A i \in DOMAIN que : Rank(que[i].load) > Rank(pass)
      BY <1>1, <1>4 DEF Passes
    <3>2. \A i \in DOMAIN que : Rank(que[i].load) \in 1..3 /\ Rank(pass) \in 1..3
      BY DEF Rank
    <3>3. QED
      BY <1>5, <3>1, <3>2
  <2>2. \A i \in DOMAIN que : ~(i < 1)
    BY <1>2
  <2>3. QED
    BY <1>1, <1>5, <2>1, <2>2 DEF Passes, Load
<1>7. at' \in 1..(Len(que') + 1)
  BY <1>1, <1>2
<1>8. QED
  BY <1>1, <1>5, <1>6, <1>7 DEF LoadInv, LoaderRight, TypeOK, LoadedOnce, CoreKept, QueueDrained, Asked, Load, Files, Core

\* The last pass leaves the queue empty: all that it met was of its kind, and went.
LEMMA LastPassDrains ==
    ASSUME LoadInv, Started PROVE que = <<>> /\ at = 1
<1>1. /\ TypeOK /\ Passes /\ at = Len(que) + 1 /\ pass = "post"
  BY DEF Started, LoadInv, LoaderRight
<1>2. que \in Seq(Entry)
  BY <1>1 DEF TypeOK, Entry
<1>3. ASSUME que # <<>> PROVE FALSE
  <2>1. 1 \in DOMAIN que /\ 1 < at
    BY <1>1, <1>2, <1>3
  <2>2. Rank(que[1].load) > Rank("post")
    BY <1>1, <2>1 DEF Passes
  <2>3. QED
    BY <2>2 DEF Rank
<1>4. QED
  BY <1>1, <1>3

LEMMA StartedKeeps ==
    ASSUME LoadInv, Started, UNCHANGED setup PROVE LoadInv'
<1>1. /\ setup \in Setups /\ TypeOK /\ LoadedOnce /\ CoreKept
      /\ phase' = "run" /\ pass' = "done" /\ link' \in {"burst", "down"} /\ UNCHANGED <<loaded, que, at, bad>>
  BY DEF Started, LoadInv, LoaderRight
<1>2. que = <<>>
  BY LastPassDrains
<1>3. QED
  BY <1>1, <1>2 DEF LoadInv, LoaderRight, TypeOK, LoadedOnce, CoreKept, QueueDrained, Files, Core

-----------------------------------------------------------------------------
(* Operators *)

\* The state of the module list that commands start from.
LEMMA ListOfModules ==
    ASSUME LoadInv
    PROVE  /\ setup \in Setups /\ loaded \in Seq(Files \cup ToSet(Core)) /\ IsInjective(loaded) /\ bad \subseteq Files
           /\ \A x \in ToSet(loaded) : Info[x].needs # "nothing" => "g_core" \in ToSet(loaded)
BY DEF LoadInv, LoaderRight, TypeOK, LoadedOnce, CoreKept

\* A command leaves the queue alone, which start-up left empty.
LEMMA CommandKeeps ==
    ASSUME LoadInv, Commands, UNCHANGED <<que, pass, at, asked, link, phase, setup>>,
           loaded' \in Seq(Files' \cup ToSet(Core')), bad' \subseteq Files', LoadedOnce', CoreKept'
    PROVE  LoadInv'
BY DEF LoadInv, LoaderRight, TypeOK, QueueDrained, Commands, Files

LEMMA ModLoadKeeps ==
    ASSUME LoadInv, NEW m \in Files, ModLoad(m), UNCHANGED setup PROVE LoadInv'
<1>1. PICK o \in Opens(m, events, loaded) : Opened(m, o, loaded)
  BY DEF ModLoad
<1>2. /\ loaded' \in Seq(Files' \cup ToSet(Core')) /\ bad' \subseteq Files' /\ LoadedOnce' /\ CoreKept'
  BY <1>1, ListOfModules, OpenedKeeps
<1>3. Commands /\ UNCHANGED <<que, pass, at, asked, link, phase>>
  BY DEF ModLoad
<1>4. QED
  BY <1>2, <1>3, CommandKeeps

\* What closing a module leaves of the list.
LEMMA ModuleClosed ==
    ASSUME LoadInv, NEW m, CanClose(m)
    PROVE  /\ RemoveFirst(loaded, m) \in Seq(Files \cup ToSet(Core)) /\ IsInjective(RemoveFirst(loaded, m))
           /\ \A x \in ToSet(RemoveFirst(loaded, m)) : Info[x].needs # "nothing" => "g_core" \in ToSet(RemoveFirst(loaded, m))
<1> DEFINE Known == Files \cup ToSet(Core)
           rest  == RemoveFirst(loaded, m)
<1>1. loaded \in Seq(Known) /\ IsInjective(loaded) /\ m \in ToSet(loaded) /\ m # "g_core"
  BY ListOfModules DEF CanClose
<1> HIDE DEF Known
<1>2. rest \in Seq(Known) /\ IsInjective(rest) /\ ToSet(rest) = ToSet(loaded) \ {m}
  BY <1>1, RemovedKeeps, ZenonT(60)
<1> HIDE DEF rest
<1>3. \A x \in ToSet(rest) : Info[x].needs # "nothing" => "g_core" \in ToSet(rest)
  BY <1>1, <1>2, ListOfModules
<1>4. QED
  BY <1>2, <1>3 DEF rest, Known

LEMMA ModUnloadKeeps ==
    ASSUME LoadInv, NEW m \in Files, ModUnload(m), UNCHANGED setup PROVE LoadInv'
<1>1. /\ Commands /\ CanClose(m) /\ loaded' = RemoveFirst(loaded, m)
      /\ UNCHANGED <<que, pass, at, asked, bad, link, phase>> /\ Files' = Files /\ Core' = Core
  BY DEF ModUnload, Files, Core
<1>2. /\ loaded' \in Seq(Files \cup ToSet(Core)) /\ IsInjective(loaded')
      /\ \A x \in ToSet(loaded') : Info[x].needs # "nothing" => "g_core" \in ToSet(loaded')
  BY <1>1, ModuleClosed
<1>3. loaded' \in Seq(Files' \cup ToSet(Core')) /\ bad' \subseteq Files' /\ LoadedOnce' /\ CoreKept'
  BY <1>1, <1>2, ListOfModules DEF LoadedOnce, CoreKept
<1>4. QED
  BY <1>1, <1>3, CommandKeeps

LEMMA ModReloadKeeps ==
    ASSUME LoadInv, NEW m \in Files, ModReload(m), UNCHANGED setup PROVE LoadInv'
<1> DEFINE rest == RemoveFirst(loaded, m)
<1>1. /\ Commands /\ CanClose(m) /\ UNCHANGED <<que, pass, at, asked, link, phase>>
  BY DEF ModReload
<1>2. PICK o \in Opens(m, Closed(events, {m}), rest) : Opened(m, o, rest)
  BY DEF ModReload
<1>3. /\ rest \in Seq(Files \cup ToSet(Core)) /\ IsInjective(rest)
      /\ \A x \in ToSet(rest) : Info[x].needs # "nothing" => "g_core" \in ToSet(rest)
  BY <1>1, ModuleClosed
<1> HIDE DEF rest
<1>4. setup \in Setups /\ bad \subseteq Files
  BY ListOfModules
<1>5. /\ loaded' \in Seq(Files' \cup ToSet(Core')) /\ bad' \subseteq Files' /\ LoadedOnce' /\ CoreKept'
  BY <1>2, <1>3, <1>4, OpenedKeeps
<1>6. QED
  BY <1>1, <1>5, CommandKeeps

-----------------------------------------------------------------------------
(* Handlers and the main loop *)

\* The purge leaves no module, and so none without g_core.
LEMMA PurgeKeeps ==
    ASSUME LoadInv, Purge, UNCHANGED setup PROVE LoadInv'
<1>1. loaded' = <<>> /\ phase = "exit" /\ UNCHANGED <<que, pass, at, asked, bad, link>> /\ phase' = phase
  BY DEF Purge
<1>2. loaded' \in Seq(Files' \cup ToSet(Core')) /\ LoadedOnce' /\ CoreKept'
  <2>1. loaded' \in Seq(Files' \cup ToSet(Core'))
    BY <1>1
  <2>2. ToSet(loaded') = {} /\ LoadedOnce'
    BY <1>1 DEF LoadedOnce, IsInjective, ToSet
  <2>3. QED
    BY <2>1, <2>2 DEF CoreKept
<1>3. QED
  BY <1>1, <1>2 DEF LoadInv, LoaderRight, TypeOK, QueueDrained, Files

\* A handler returns: the link is as it was, or lost.
LEMMA ReturnsLink ==
    ASSUME NEW list, Returns(list) PROVE link' = link \/ link' = "down"
BY DEF Returns

\* No handler but the purge touches the list of modules or the queue.
LEMMA HandlerKeeps ==
    ASSUME LoadInv, Handler, UNCHANGED setup PROVE LoadInv'
<1>1. /\ link \in {"down", "burst", "up"}
      /\ phase # "start" => phase \in {"run", "exit", "end", "crash"}
      /\ phase = "start" => walk = Idle
  BY DEF LoadInv, LoaderRight, TypeOK
<1>2. CASE WorkOff
  <2>1. Calling(QueueTimers) /\ (link' = link \/ link' = "down")
    BY <1>2, ReturnsLink DEF WorkOff
  <2>2. QED
    BY <1>1, <2>1, Quietly DEF Calling
<1>3. CASE InitEvents
  <2>1. Calling({"init_events"}) /\ (link' = link \/ link' = "down")
    BY <1>3, ReturnsLink DEF InitEvents
  <2>2. QED
    BY <1>1, <2>1, Quietly DEF Calling
<1>4. CASE FirstRun
  <2>1. Calling({"evh_first_run"}) /\ (link' = link \/ link' = "down")
    BY <1>4, ReturnsLink DEF FirstRun
  <2>2. QED
    BY <1>1, <2>1, Quietly DEF Calling
<1>5. CASE ConnectUplink
  <2>1. Calling({"ev_connectuplink"}) /\ (link' = link \/ link' \in {"down", "burst"})
    BY <1>5 DEF ConnectUplink
  <2>2. QED
    BY <1>1, <2>1, Quietly DEF Calling
<1>6. CASE Plain
  <2>1. Calling({Current.fn} \ Special) /\ (link' = link \/ link' = "down")
    BY <1>6, ReturnsLink DEF Plain
  <2>2. QED
    BY <1>1, <2>1, Quietly DEF Calling
<1>7. CASE Purge
  BY <1>7, PurgeKeeps
<1>8. CASE Crash
  <2>1. phase # "start" /\ phase' = "crash" /\ UNCHANGED <<loadVars, link>>
    BY <1>1, <1>8 DEF Crash
  <2>2. QED
    BY <1>1, <2>1, Quietly
<1>9. QED
  BY <1>2, <1>3, <1>4, <1>5, <1>6, <1>7, <1>8 DEF Handler

\* What the main loop does when neither handlers nor commands are at work.
LoopStep ==
    \/ \E name \in Names : Emit(name)
    \/ Timers \/ Burst \/ LinkLost \/ Exit \/ Ended
    \/ phase # "crash" /\ Skip /\ UNCHANGED <<loadVars, link, phase>>
    \/ phase = "run" /\ Tick /\ UNCHANGED <<loadVars, link, phase>>

LEMMA LoopKeeps ==
    ASSUME LoadInv, LoopStep, UNCHANGED setup PROVE LoadInv'
<1>1. /\ link \in {"down", "burst", "up"}
      /\ phase # "start" => phase \in {"run", "exit", "end", "crash"}
      /\ phase = "start" => walk = Idle
  BY DEF LoadInv, LoaderRight, TypeOK
<1>2. /\ phase # "start" /\ UNCHANGED loadVars
      /\ phase' = phase \/ phase' \in {"exit", "end"}
      /\ link' = link \/ link' \in {"down", "up"}
  <2>1. CASE \E name \in Names : Emit(name)
    BY <2>1 DEF Emit, Commands
  <2>2. CASE Timers
    BY <2>2 DEF Timers, Commands
  <2>3. CASE Burst
    BY <2>3 DEF Burst, Commands
  <2>4. CASE LinkLost
    BY <2>4 DEF LinkLost, Commands
  <2>5. CASE Exit
    BY <2>5 DEF Exit, Commands
  <2>6. CASE Ended
    BY <2>6 DEF Ended
  <2>7. CASE Skip /\ UNCHANGED <<loadVars, link, phase>>
    BY <1>1, <2>7 DEF Skip
  <2>8. CASE phase = "run" /\ Tick /\ UNCHANGED <<loadVars, link, phase>>
    BY <2>8
  <2>9. QED
    BY <2>1, <2>2, <2>3, <2>4, <2>5, <2>6, <2>7, <2>8 DEF LoopStep
<1>3. QED
  BY <1>1, <1>2, Quietly

LEMMA LoadStep == LoadInv /\ [Next]_vars => LoadInv'
<1> SUFFICES ASSUME LoadInv, [Next]_vars PROVE LoadInv'
  OBVIOUS
<1>1. CASE RunModQue /\ UNCHANGED setup
  BY <1>1, RunModQueKeeps
<1>2. CASE NextPass /\ UNCHANGED setup
  BY <1>2, NextPassKeeps
<1>3. CASE Started /\ UNCHANGED setup
  BY <1>3, StartedKeeps
<1>4. CASE Handler /\ UNCHANGED setup
  BY <1>4, HandlerKeeps
<1>5. CASE (\E m \in Files : ModLoad(m) \/ ModUnload(m) \/ ModReload(m)) /\ UNCHANGED setup
  BY <1>5, ModLoadKeeps, ModUnloadKeeps, ModReloadKeeps
<1>6. CASE LoopStep /\ UNCHANGED setup
  BY <1>6, LoopKeeps
<1>7. CASE UNCHANGED vars
  BY <1>7 DEF LoadInv, LoaderRight, TypeOK, LoadedOnce, QueueDrained, CoreKept, Passes, Asked,
              vars, eventVars, loadVars, Files, Core
<1>8. QED
  BY <1>1, <1>2, <1>3, <1>4, <1>5, <1>6, <1>7 DEF Next, Changes, Startup, Step, LoopStep

LEMMA LoadInvHolds == Spec => []LoadInv
BY LoaderInit, LoadStep, PTL DEF Spec

-----------------------------------------------------------------------------
(* What holds of the loader *)

\* What is in memory is what it should be, through start-up and every order of loads, unloads
\* and reloads (module.c): each module once, none left waiting when start-up is over, and none
\* that asked for g_core without it.
THEOREM LoaderRightHolds == Spec => []LoaderRight
<1>1. LoadInv => LoaderRight
  BY DEF LoadInv
<1>2. QED
  BY <1>1, LoadInvHolds, PTL

\* run_mod_que tries again what missed g_core, however the queue was ordered: when init_modules
\* is done, all that was asked for before the last pass is loaded, but for bad files and for
\* modules that do not say what they miss.
THEOREM DependentsLoadedHolds == Spec => DependentsLoaded
<1> DEFINE Done == phase = "start" /\ phase' = "run" /\ "g_core" \in asked /\ "g_core" \notin bad
                      => {m \in asked \ bad : Info[m].needs # "guardian"} \subseteq ToSet(loaded)
<1>1. LoadInv /\ [Next]_vars => [Done]_vars
  <2> SUFFICES ASSUME LoadInv, Next PROVE Done
    BY DEF vars
  <2> SUFFICES ASSUME phase = "start", phase' = "run", "g_core" \in asked, "g_core" \notin bad
               PROVE  {m \in asked \ bad : Info[m].needs # "guardian"} \subseteq ToSet(loaded)
    OBVIOUS
  <2>1. Started
    <3>1. walk = Idle
      BY DEF LoadInv
    <3>2. phase' # phase
      OBVIOUS
    <3>3. ~Handler
      BY <3>1 DEF Handler, WorkOff, InitEvents, FirstRun, ConnectUplink, Purge, Plain, Crash, Calling
    <3>4. ~(\E m \in Files : ModLoad(m) \/ ModUnload(m) \/ ModReload(m))
      BY DEF ModLoad, ModUnload, ModReload, Commands
    <3>5. ~(\E name \in Names : Emit(name)) /\ ~Timers /\ ~Burst /\ ~LinkLost /\ ~Exit /\ ~Ended
      BY DEF Emit, Timers, Burst, LinkLost, Exit, Ended, Commands
    <3>6. ~RunModQue /\ ~NextPass
      BY <3>2 DEF RunModQue, NextPass
    <3>7. QED
      BY <3>2, <3>3, <3>4, <3>5, <3>6 DEF Next, Changes, Step, Startup
  <2>2. que = <<>>
    BY <2>1, LastPassDrains
  <2>3. ToSet(que) = {}
    BY <2>2 DEF ToSet
  <2>4. QED
    BY <2>3 DEF LoadInv, Asked
<1>2. QED
  BY <1>1, LoadInvHolds, PTL DEF Spec, DependentsLoaded

-----------------------------------------------------------------------------
(* The invariant of the event list *)

EventNames ==
    {"House Keeping", "BURST", "CONNECT", "REHASH", "SHUTDOWN", "Connect Uplink", "USERCONN", "USEREXIT",
     "VersionQueue", "SCANQ", "WatchQueue", "CHANJOIN", "SAVEDB", "Omega Stats First Run",
     "Omega Statistical Post"}

\* A node of the list.
Node == [name : EventNames, owner : DOMAIN Info \cup {"core", Gone}, fn : Handlers, timed : BOOLEAN,
         due : BOOLEAN, marks : SUBSET {"cur", "next", "todo"}]

\* A node is where it belongs when the modules ms are loaded: it is one of theirs or of the core, or
\* was forgotten by a module that is gone; and a module will delete it or forget it.
Homely(n, ms) ==
    /\ n.name \in Names /\ (n.due => n.timed)
    /\ n.owner \in ms \cup {"core", Gone}
    /\ n.owner = Gone => n.fn \in Forgotten
    /\ n.owner \in DOMAIN Info => n.fn \in Forgotten \cup Info[n.owner].fns \cup {"evh_watchqueue"}
    /\ n.owner \in DOMAIN Info /\ n.fn = "evh_watchqueue" => n.owner = "g_watch" /\ n.name = "WatchQueue"
    /\ n.name = "WatchQueue" => n.owner = "g_watch" /\ n.fn = "evh_watchqueue"
    /\ n.fn = "evh_first_run" => n.name = "Omega Stats First Run"
    /\ n.fn = "ev_connectuplink" => n.name = "Connect Uplink"
    /\ n.fn \in QueueTimers => n.name # "REHASH"

\* What a module will delete stands once in the list: it deletes the first that it finds.
Once(l) ==
    \A i, j \in DOMAIN l :
        l[i].owner \in DOMAIN Info /\ l[i].owner = l[j].owner /\ l[i].fn = l[j].fn /\ l[i].fn \notin Forgotten
            => i = j

\* Behind the SHUTDOWN hook stands the REHASH hook of the core.
IsHook(n) == n.owner = "core" /\ n.name = "REHASH"
Hooked(l) == \A i \in DOMAIN l : l[i].fn = "mod_event_shutdown" => i < Len(l) /\ IsHook(l[i + 1])

Listed(l, ms) ==
    /\ l \in Seq(Node)
    /\ \A i \in DOMAIN l : Homely(l[i], ms)
    /\ Once(l) /\ Hooked(l)

\* No walk is under way.
Rest(l) == \A i \in DOMAIN l : l[i].marks = {}

\* The walk w stands before one node of the list and holds the one behind it; what it has yet to
\* call is not behind its back.
Stands(l, w) ==
    /\ w.more \in BOOLEAN /\ w.kind \in {"none", "recall", "timed", "emit"}
    /\ w = [kind |-> w.kind, name |-> w.name, more |-> w.more]
    /\ w.kind = "none" => w = Idle
    /\ w.kind \in {"none", "recall"} => Rest(l)
    /\ w.kind \in {"timed", "emit"} => \E c \in DOMAIN l :
          /\ \A i \in DOMAIN l :
                /\ "cur" \in l[i].marks <=> i = c
                /\ "next" \in l[i].marks <=> i = c + 1
                /\ "todo" \in l[i].marks => i >= c
          /\ w.more <=> c < Len(l)

EventInv == Listed(events, ToSet(loaded)) /\ Stands(events, walk) /\ halted \in BOOLEAN

\* A list that a handler leaves behind: the walk knows where it goes on, and if it does not go on,
\* it has called everything.
Ready(l, more) ==
    /\ \A i, j \in DOMAIN l : "next" \in l[i].marks /\ "next" \in l[j].marks => i = j
    /\ more <=> \E i \in DOMAIN l : "next" \in l[i].marks
    /\ \A i \in DOMAIN l : "todo" \in l[i].marks /\ "cur" \notin l[i].marks
          => \E j \in DOMAIN l : j <= i /\ "next" \in l[j].marks

-----------------------------------------------------------------------------
(* What is found in the list *)

LEMMA LeastIs ==
    ASSUME NEW I \in SUBSET Nat, I # {}
    PROVE  Min(I) \in I /\ \A i \in I : Min(I) <= i
BY LeastOfSet DEF Min

\* The first node of a name.
LEMMA FirstNamed ==
    ASSUME NEW S, NEW l \in Seq(S), NEW name
    PROVE  \/ DelTimedEvent(l, name) = 0 /\ \A i \in DOMAIN l : l[i].name # name
           \/ /\ DelTimedEvent(l, name) \in DOMAIN l /\ l[DelTimedEvent(l, name)].name = name
              /\ \A i \in DOMAIN l : l[i].name = name => DelTimedEvent(l, name) <= i
<1> DEFINE I == {i \in 1..Len(l) : l[i].name = name}
<1>1. DelTimedEvent(l, name) = IF I # {} THEN Min(I) ELSE 0
  BY DEF DelTimedEvent, SelectInSeq
<1>2. I # {} => Min(I) \in I /\ \A i \in I : Min(I) <= i
  <2>1. I \subseteq Nat
    OBVIOUS
  <2> HIDE DEF I
  <2>2. QED
    BY <2>1, LeastIs
<1>3. QED
  BY <1>1, <1>2

\* The first node of a module's handler.
LEMMA FirstOwned ==
    ASSUME NEW S, NEW l \in Seq(S), NEW m, NEW fn
    PROVE  \/ DelEvent(l, m, fn) = 0 /\ \A i \in DOMAIN l : ~(l[i].owner = m /\ l[i].fn = fn)
           \/ /\ DelEvent(l, m, fn) \in DOMAIN l /\ l[DelEvent(l, m, fn)].owner = m /\ l[DelEvent(l, m, fn)].fn = fn
              /\ \A i \in DOMAIN l : l[i].owner = m /\ l[i].fn = fn => DelEvent(l, m, fn) <= i
<1> DEFINE I == {i \in 1..Len(l) : l[i].owner = m /\ l[i].fn = fn}
<1>1. DelEvent(l, m, fn) = IF I # {} THEN Min(I) ELSE 0
  BY DEF DelEvent, SelectInSeq
<1>2. I # {} => Min(I) \in I /\ \A i \in I : Min(I) <= i
  <2>1. I \subseteq Nat
    OBVIOUS
  <2> HIDE DEF I
  <2>2. QED
    BY <2>1, LeastIs
<1>3. QED
  BY <1>1, <1>2

\* The first node that the walk goes to.
LEMMA FirstNext ==
    ASSUME NEW S, NEW l \in Seq(S), NEW there, there = SelectInSeq(l, LAMBDA n : "next" \in n.marks)
    PROVE  \/ there = 0 /\ \A i \in DOMAIN l : "next" \notin l[i].marks
           \/ there \in DOMAIN l /\ "next" \in l[there].marks
<1> DEFINE I == {i \in 1..Len(l) : "next" \in l[i].marks}
<1>1. there = IF I # {} THEN Min(I) ELSE 0
  BY DEF SelectInSeq
<1>2. I # {} => Min(I) \in I /\ \A i \in I : Min(I) <= i
  <2>1. I \subseteq Nat
    OBVIOUS
  <2> HIDE DEF I
  <2>2. QED
    BY <2>1, LeastIs
<1>3. QED
  BY <1>1, <1>2

-----------------------------------------------------------------------------
(* Nodes are taken off the list *)

\* Where the nodes were that are left.
Left(was, l, r, P) ==
    /\ was \in [1..Len(r) -> 1..Len(l)]
    /\ \A k \in 1..Len(r) : r[k] = l[was[k]] /\ was[k] \notin P
    /\ \A j, k \in 1..Len(r) : j < k => was[j] < was[k]
    /\ \A i \in 1..Len(l) : i \notin P => \E k \in 1..Len(r) : was[k] = i

LEMMA WithoutLeaves ==
    ASSUME NEW S, NEW l \in Seq(S), NEW P
    PROVE  Without(l, P) \in Seq(S) /\ \E was : Left(was, l, Without(l, P), P)
<1> DEFINE I == DOMAIN l \ P
           r == Picked(l, I)
<1>1. I \in SUBSET (1..Len(l)) /\ \A i \in 1..Len(l) : i \in I <=> i \notin P
  OBVIOUS
<1>2. Without(l, P) = r
  BY DEF Without
<1> HIDE DEF I
<1>3. r \in Seq(S) /\ Len(r) = Cardinality(I)
  BY <1>1, PickedKeeps
<1>4. \E was \in [1..Cardinality(I) -> I] :
         /\ \A j, k \in 1..Cardinality(I) : j < k => was[j] < was[k]
         /\ \A i \in I : \E k \in 1..Cardinality(I) : was[k] = i
         /\ \A k \in 1..Cardinality(I) : Picked(l, I)[k] = l[was[k]]
  <2>1. I \in SUBSET (1..Len(l)) /\ l \in Seq(S)
    BY <1>1
  <2> HIDE DEF r
  <2>2. QED
    BY <2>1, PickedKeeps, Zenon
<1>4a. PICK was \in [1..Cardinality(I) -> I] :
         /\ \A j, k \in 1..Cardinality(I) : j < k => was[j] < was[k]
         /\ \A i \in I : \E k \in 1..Cardinality(I) : was[k] = i
         /\ \A k \in 1..Cardinality(I) : Picked(l, I)[k] = l[was[k]]
  BY <1>4
<1> HIDE DEF r
<1>5. Left(was, l, r, P)
  BY <1>1, <1>3, <1>4a DEF Left, r
<1>6. QED
  BY <1>2, <1>3, <1>5

\* Nodes are deleted, but for the hook: the others are where they belong.
LEMMA WithoutListed ==
    ASSUME NEW l, NEW ms, Listed(l, ms), NEW P, \A i \in DOMAIN l : i \in P => ~IsHook(l[i])
    PROVE  Listed(Without(l, P), ms)
<1> DEFINE r == Without(l, P)
<1>1. l \in Seq(Node) /\ DOMAIN l = 1..Len(l) /\ Len(l) \in Nat
  BY DEF Listed
<1>2. r \in Seq(Node) /\ DOMAIN r = 1..Len(r) /\ Len(r) \in Nat
  BY <1>1, WithoutLeaves
<1>3. PICK was : Left(was, l, r, P)
  BY <1>1, WithoutLeaves
<1> HIDE DEF r
<1>4. \A k \in DOMAIN r : was[k] \in DOMAIN l /\ r[k] = l[was[k]]
  BY <1>1, <1>2, <1>3 DEF Left
<1>5. \A k \in DOMAIN r : Homely(r[k], ms)
  BY <1>4 DEF Listed
<1>6. ASSUME NEW j \in DOMAIN r, NEW k \in DOMAIN r, was[j] = was[k] PROVE j = k
  <2>1. was[j] \in Nat /\ ~(was[j] < was[k]) /\ ~(was[k] < was[j])
    BY <1>1, <1>4, <1>6
  <2>2. ~(j < k) /\ ~(k < j)
    BY <1>2, <1>3, <2>1 DEF Left
  <2>3. QED
    BY <1>2, <2>2
<1>7. Once(r)
  <2>1. Once(l)
    BY DEF Listed
  <2>2. QED
    BY <1>4, <1>6, <2>1 DEF Once
<1>8. ASSUME NEW k \in DOMAIN r, r[k].fn = "mod_event_shutdown" PROVE k < Len(r) /\ IsHook(r[k + 1])
  <2> DEFINE i == was[k]
  <2>1. i \in DOMAIN l /\ l[i].fn = "mod_event_shutdown" /\ i \in Nat
    BY <1>1, <1>4, <1>8
  <2>2. i < Len(l) /\ IsHook(l[i + 1]) /\ i + 1 \in DOMAIN l
    BY <1>1, <2>1 DEF Listed, Hooked
  <2>3. PICK h \in 1..Len(r) : was[h] = i + 1
    BY <1>1, <1>3, <2>2 DEF Left
  <2>4. was[h] = was[k] + 1 /\ was[k] \in Nat
    BY <2>1, <2>3
  <2>5. h > k
    <3>1. ~(h < k)
      BY <1>2, <1>3, <2>4 DEF Left
    <3>2. h # k
      BY <2>4
    <3>3. QED
      BY <1>2, <3>1, <3>2
  <2>6. h = k + 1
    <3>1. SUFFICES ASSUME h > k + 1 PROVE FALSE
      BY <1>2, <2>5
    <3>2. k + 1 \in 1..Len(r) /\ k < k + 1
      BY <1>2, <3>1
    <3>3. was[k] < was[k + 1] /\ was[k + 1] < was[h] /\ was[k + 1] \in Nat
      BY <1>1, <1>2, <1>3, <1>4, <3>1, <3>2 DEF Left
    <3>4. QED
      BY <2>4, <3>3
  <2>7. r[k + 1] = l[i + 1] /\ k < Len(r)
    BY <1>2, <1>4, <2>3, <2>6
  <2>8. QED
    BY <2>2, <2>7
<1>9. QED
  BY <1>2, <1>5, <1>7, <1>8 DEF r, Listed, Hooked

\* Nodes are deleted, but for the one the walk goes to.
LEMMA WithoutReady ==
    ASSUME NEW l \in Seq(Node), NEW more, Ready(l, more), NEW P, \A i \in DOMAIN l : i \in P => "next" \notin l[i].marks
    PROVE  Ready(Without(l, P), more)
<1> DEFINE r == Without(l, P)
<1>1. DOMAIN l = 1..Len(l) /\ Len(l) \in Nat
  OBVIOUS
<1>2. r \in Seq(Node) /\ DOMAIN r = 1..Len(r) /\ Len(r) \in Nat
  BY <1>1, WithoutLeaves
<1>3. PICK was : Left(was, l, r, P)
  BY <1>1, WithoutLeaves
<1> HIDE DEF r
<1>4. \A k \in DOMAIN r : was[k] \in DOMAIN l /\ was[k] \in Nat /\ r[k] = l[was[k]] /\ was[k] \notin P
  BY <1>1, <1>2, <1>3 DEF Left
<1>5. \A i \in DOMAIN l : "next" \in l[i].marks => \E k \in DOMAIN r : was[k] = i
  BY <1>1, <1>2, <1>3 DEF Left
<1>6. ASSUME NEW j \in DOMAIN r, NEW k \in DOMAIN r, was[j] <= was[k] PROVE j <= k
  <2>1. ~(was[k] < was[j])
    BY <1>4, <1>6
  <2>2. ~(k < j)
    BY <1>2, <1>3, <2>1 DEF Left
  <2>3. QED
    BY <1>2, <2>2
<1>7. ASSUME NEW j \in DOMAIN r, NEW k \in DOMAIN r, "next" \in r[j].marks, "next" \in r[k].marks PROVE j = k
  <2>1. was[j] = was[k] /\ was[j] <= was[k] /\ was[k] <= was[j]
    BY <1>4, <1>7 DEF Ready
  <2>2. j <= k /\ k <= j /\ j \in Nat /\ k \in Nat
    BY <1>2, <1>6, <2>1
  <2>3. QED
    BY <2>2
<1>8. more <=> \E k \in DOMAIN r : "next" \in r[k].marks
  BY <1>4, <1>5 DEF Ready
<1>9. ASSUME NEW k \in DOMAIN r, "todo" \in r[k].marks, "cur" \notin r[k].marks
      PROVE  \E j \in DOMAIN r : j <= k /\ "next" \in r[j].marks
  <2>1. PICK i \in DOMAIN l : i <= was[k] /\ "next" \in l[i].marks
    BY <1>4, <1>9 DEF Ready
  <2>2. PICK j \in DOMAIN r : was[j] = i
    BY <1>5, <2>1
  <2>3. QED
    BY <1>4, <1>6, <2>1, <2>2
<1>10. QED
  BY <1>7, <1>8, <1>9 DEF r, Ready

-----------------------------------------------------------------------------
(* Nodes are added behind the list *)

LEMMA JoinedIs ==
    ASSUME NEW S, NEW a \in Seq(S), NEW b \in Seq(S)
    PROVE  /\ a \o b \in Seq(S) /\ DOMAIN (a \o b) = 1..(Len(a) + Len(b)) /\ Len(a \o b) = Len(a) + Len(b)
           /\ Len(a) \in Nat /\ Len(b) \in Nat /\ DOMAIN a = 1..Len(a) /\ DOMAIN b = 1..Len(b)
           /\ \A i \in 1..(Len(a) + Len(b)) :
                 \/ i \in DOMAIN a /\ i <= Len(a) /\ (a \o b)[i] = a[i]
                 \/ i - Len(a) \in DOMAIN b /\ i > Len(a) /\ (a \o b)[i] = b[i - Len(a)]
OBVIOUS

\* Nodes that are where they belong are added, and none that a module would have to delete twice.
LEMMA JoinedListed ==
    ASSUME NEW l, NEW ms, Listed(l, ms), NEW new \in Seq(Node), \A k \in DOMAIN new : Homely(new[k], ms),
           Once(new), Hooked(new),
           \A i \in DOMAIN l, k \in DOMAIN new : l[i].owner \in DOMAIN Info /\ l[i].owner = new[k].owner
                                                    /\ l[i].fn = new[k].fn => l[i].fn \in Forgotten
    PROVE  Listed(l \o new, ms)
<1> DEFINE r == l \o new
           n == Len(l)
<1>1. l \in Seq(Node) /\ Once(l) /\ Hooked(l) /\ \A i \in DOMAIN l : Homely(l[i], ms)
  BY DEF Listed
<1>2. /\ r \in Seq(Node) /\ DOMAIN r = 1..(n + Len(new)) /\ Len(r) = n + Len(new)
      /\ n \in Nat /\ Len(new) \in Nat /\ DOMAIN l = 1..n /\ DOMAIN new = 1..Len(new)
      /\ \A i \in 1..(n + Len(new)) :
            \/ i \in DOMAIN l /\ i <= n /\ r[i] = l[i]
            \/ i - n \in DOMAIN new /\ i > n /\ r[i] = new[i - n]
  BY <1>1, JoinedIs
<1> HIDE DEF r, n
<1>3. \A i \in DOMAIN r : Homely(r[i], ms)
  BY <1>1, <1>2
<1>4. ASSUME NEW i \in DOMAIN r, NEW j \in DOMAIN r, r[i].owner \in DOMAIN Info, r[i].owner = r[j].owner,
             r[i].fn = r[j].fn, r[i].fn \notin Forgotten
      PROVE  i = j
  <2>1. CASE i <= n /\ j <= n
    <3>1. i \in DOMAIN l /\ j \in DOMAIN l /\ r[i] = l[i] /\ r[j] = l[j]
      BY <1>2, <2>1
    <3>2. QED
      BY <1>1, <1>4, <3>1 DEF Once
  <2>2. CASE i > n /\ j > n
    <3>1. i - n \in DOMAIN new /\ j - n \in DOMAIN new /\ r[i] = new[i - n] /\ r[j] = new[j - n]
      BY <1>2, <2>2
    <3>2. i - n = j - n
      BY <1>4, <3>1 DEF Once
    <3>3. QED
      BY <1>2, <3>2
  <2>3. CASE i <= n /\ j > n
    <3>1. i \in DOMAIN l /\ j - n \in DOMAIN new /\ r[i] = l[i] /\ r[j] = new[j - n]
      BY <1>2, <2>3
    <3>2. l[i].fn \in Forgotten
      BY <1>4, <3>1
    <3>3. QED
      BY <1>4, <3>1, <3>2
  <2>4. CASE i > n /\ j <= n
    <3>1. j \in DOMAIN l /\ i - n \in DOMAIN new /\ r[j] = l[j] /\ r[i] = new[i - n]
      BY <1>2, <2>4
    <3>2. l[j].fn \in Forgotten
      BY <1>4, <3>1
    <3>3. QED
      BY <1>4, <3>1, <3>2
  <2>5. QED
    BY <1>2, <2>1, <2>2, <2>3, <2>4
<1>5. ASSUME NEW i \in DOMAIN r, r[i].fn = "mod_event_shutdown" PROVE i < Len(r) /\ IsHook(r[i + 1])
  <2>1. CASE i <= n
    <3>1. i \in DOMAIN l /\ r[i] = l[i]
      BY <1>2, <2>1
    <3>2. i < n /\ IsHook(l[i + 1])
      BY <1>1, <1>5, <3>1 DEF Hooked, n
    <3>3. i + 1 \in 1..(n + Len(new)) /\ i + 1 <= n
      BY <1>2, <3>2
    <3>4. r[i + 1] = l[i + 1]
      BY <1>2, <3>3
    <3>5. QED
      BY <1>2, <3>2, <3>4
  <2>2. CASE i > n
    <3>1. i - n \in DOMAIN new /\ r[i] = new[i - n]
      BY <1>2, <2>2
    <3>2. i - n < Len(new) /\ IsHook(new[i - n + 1])
      BY <1>5, <3>1 DEF Hooked
    <3>3. i + 1 \in 1..(n + Len(new)) /\ i + 1 > n /\ (i + 1) - n = i - n + 1
      BY <1>2, <2>2, <3>2
    <3>4. r[i + 1] = new[(i + 1) - n]
      BY <1>2, <3>3
    <3>5. QED
      BY <1>2, <3>2, <3>3, <3>4
  <2>3. QED
    BY <1>2, <2>1, <2>2
<1>6. QED
  BY <1>2, <1>3, <1>4, <1>5 DEF Listed, Once, Hooked, r

\* Nodes the walk has not seen are added.
LEMMA JoinedReady ==
    ASSUME NEW l \in Seq(Node), NEW more, Ready(l, more), NEW new \in Seq(Node), \A k \in DOMAIN new : new[k].marks = {}
    PROVE  Ready(l \o new, more)
<1> DEFINE r == l \o new
           n == Len(l)
<1>1. /\ DOMAIN r = 1..(n + Len(new)) /\ n \in Nat /\ Len(new) \in Nat /\ DOMAIN l = 1..n
      /\ \A i \in 1..(n + Len(new)) :
            \/ i \in DOMAIN l /\ i <= n /\ r[i] = l[i]
            \/ i - n \in DOMAIN new /\ i > n /\ r[i] = new[i - n]
  BY JoinedIs
<1>2. \A i \in DOMAIN l : i \in DOMAIN r /\ r[i] = l[i]
  BY <1>1
<1> HIDE DEF r, n
<1>3. \A i \in DOMAIN r : (\E x : x \in r[i].marks) => i \in DOMAIN l /\ r[i] = l[i]
  BY <1>1
<1>4. \A i \in DOMAIN r : "next" \in r[i].marks \/ "todo" \in r[i].marks => i \in DOMAIN l /\ r[i] = l[i]
  BY <1>3
<1>5. QED
  BY <1>2, <1>4 DEF Ready, r

OnSet == [name : EventNames, fn : Handlers, timed : BOOLEAN]

\* The nodes that are made of the handlers ons of a module.
Makes(new, owner, ons) ==
    /\ new \in Seq([name : EventNames, owner : {owner}, fn : Handlers, timed : BOOLEAN, due : {FALSE}, marks : {{}}])
    /\ \E from \in [1..Len(new) -> 1..Len(ons)] :
          /\ \A k \in 1..Len(new) :
                /\ ons[from[k]].name \in Names
                /\ new[k] = AddEventEx(ons[from[k]].name, owner, ons[from[k]].fn, ons[from[k]].timed)
          /\ \A j, k \in 1..Len(new) : j < k => from[j] < from[k]
          /\ \A i \in 1..Len(ons) : ons[i].name \in Names => \E k \in 1..Len(new) : from[k] = i

LEMMA AddAllMakes ==
    ASSUME NEW l, NEW owner, NEW ons \in Seq(OnSet)
    PROVE  \E new : Makes(new, owner, ons) /\ AddAll(l, owner, ons) = l \o new
<1> DEFINE P == {i \in DOMAIN ons : ons[i].name \notin Names}
           mine == Without(ons, P)
           new == [i \in DOMAIN mine |-> AddEventEx(mine[i].name, owner, mine[i].fn, mine[i].timed)]
<1>1. mine \in Seq(OnSet) /\ \E from : Left(from, ons, mine, P)
  BY WithoutLeaves
<1>2. DOMAIN ons \ P = {i \in DOMAIN ons : ons[i].name \in Names}
  OBVIOUS
<1>3. Picked(ons, {i \in DOMAIN ons : ons[i].name \in Names}) = mine
  BY <1>2 DEF Without
<1>4. AddAll(l, owner, ons) = l \o new
  BY <1>3 DEF AddAll
<1>5. \A i \in 1..Len(ons) : i \in P <=> ons[i].name \notin Names
  OBVIOUS
<1> HIDE DEF mine, P
<1>6. DOMAIN mine = 1..Len(mine) /\ Len(mine) \in Nat /\ \A i \in 1..Len(mine) : mine[i] \in OnSet
  BY <1>1
<1>7. PICK from : Left(from, ons, mine, P)
  BY <1>1
<1> DEFINE Fresh == [name : EventNames, owner : {owner}, fn : Handlers, timed : BOOLEAN, due : {FALSE}, marks : {{}}]
<1>8. \A k \in 1..Len(mine) : new[k] = AddEventEx(mine[k].name, owner, mine[k].fn, mine[k].timed)
  BY <1>6
<1>9. \A k \in 1..Len(mine) : new[k] \in Fresh
  BY <1>6, <1>8 DEF OnSet, AddEventEx
<1>10. new \in Seq(Fresh) /\ Len(new) = Len(mine)
  <2>1. DOMAIN new = 1..Len(mine) /\ new = [i \in 1..Len(mine) |-> new[i]]
    BY <1>6
  <2> HIDE DEF new, Fresh
  <2>2. new \in [1..Len(mine) -> Fresh]
    BY <1>9, <2>1
  <2>3. QED
    BY <1>6, <2>1, <2>2
<1> HIDE DEF new
<1>11. /\ from \in [1..Len(new) -> 1..Len(ons)]
       /\ \A k \in 1..Len(new) :
             /\ ons[from[k]].name \in Names
             /\ new[k] = AddEventEx(ons[from[k]].name, owner, ons[from[k]].fn, ons[from[k]].timed)
       /\ \A j, k \in 1..Len(new) : j < k => from[j] < from[k]
       /\ \A i \in 1..Len(ons) : ons[i].name \in Names => \E k \in 1..Len(new) : from[k] = i
  <2>1. from \in [1..Len(new) -> 1..Len(ons)]
    BY <1>7, <1>10 DEF Left
  <2>2. \A k \in 1..Len(new) : mine[k] = ons[from[k]] /\ from[k] \notin P /\ from[k] \in 1..Len(ons)
    BY <1>7, <1>10 DEF Left
  <2>3. \A k \in 1..Len(new) : ons[from[k]].name \in Names
    BY <1>5, <2>2
  <2>4. \A k \in 1..Len(new) : new[k] = AddEventEx(ons[from[k]].name, owner, ons[from[k]].fn, ons[from[k]].timed)
    BY <1>8, <1>10, <2>2
  <2>5. \A j, k \in 1..Len(new) : j < k => from[j] < from[k]
    BY <1>7, <1>10 DEF Left
  <2>6. \A i \in 1..Len(ons) : ons[i].name \in Names => \E k \in 1..Len(new) : from[k] = i
    BY <1>5, <1>7, <1>10 DEF Left
  <2>7. QED
    BY <2>1, <2>3, <2>4, <2>5, <2>6
<1>11a. Makes(new, owner, ons)
  BY <1>10, <1>11 DEF Makes
<1>12. QED
  BY <1>4, <1>11a

\* A handler is one its module will delete or forget, or one of the core.
Suits(on, owner) ==
    /\ owner \in DOMAIN Info => on.fn \in Forgotten \cup Info[owner].fns \cup {"evh_watchqueue"}
    /\ owner \in DOMAIN Info /\ on.fn = "evh_watchqueue" => owner = "g_watch" /\ on.name = "WatchQueue"
    /\ on.name = "WatchQueue" => owner = "g_watch" /\ on.fn = "evh_watchqueue"
    /\ on.fn = "evh_first_run" => on.name = "Omega Stats First Run"
    /\ on.fn = "ev_connectuplink" => on.name = "Connect Uplink"
    /\ on.fn \in QueueTimers => on.name # "REHASH"

\* Handlers that may be added: each is new, or forgotten anyway.
Suited(l, owner, ons) ==
    /\ \A k \in 1..Len(ons) : Suits(ons[k], owner)
    /\ owner \in DOMAIN Info => \A j, k \in 1..Len(ons) : ons[j].fn = ons[k].fn => j = k
    /\ owner \in DOMAIN Info => \A i \in DOMAIN l, k \in 1..Len(ons) :
          l[i].owner = owner /\ l[i].fn = ons[k].fn => l[i].fn \in Forgotten
    /\ \A k \in 1..Len(ons) : ons[k].fn = "mod_event_shutdown" /\ ons[k].name \in Names
          => owner = "core" /\ k + 1 \in 1..Len(ons) /\ ons[k + 1].name = "REHASH" /\ "REHASH" \in Names

LEMMA AddedListed ==
    ASSUME NEW l, NEW ms, Listed(l, ms), NEW owner \in DOMAIN Info \cup {"core"}, owner \in ms \cup {"core"},
           NEW ons \in Seq(OnSet), Suited(l, owner, ons)
    PROVE  Listed(AddAll(l, owner, ons), ms)
<1>1. PICK new : Makes(new, owner, ons) /\ AddAll(l, owner, ons) = l \o new
  BY AddAllMakes
<1>2. PICK from \in [1..Len(new) -> 1..Len(ons)] :
         /\ \A k \in 1..Len(new) :
               /\ ons[from[k]].name \in Names
               /\ new[k] = AddEventEx(ons[from[k]].name, owner, ons[from[k]].fn, ons[from[k]].timed)
         /\ \A j, k \in 1..Len(new) : j < k => from[j] < from[k]
         /\ \A i \in 1..Len(ons) : ons[i].name \in Names => \E k \in 1..Len(new) : from[k] = i
  BY <1>1 DEF Makes
<1> DEFINE Fresh == [name : EventNames, owner : {owner}, fn : Handlers, timed : BOOLEAN, due : {FALSE}, marks : {{}}]
<1>3. new \in Seq(Node) /\ DOMAIN new = 1..Len(new) /\ Len(new) \in Nat /\ Len(ons) \in Nat
  <2>1. new \in Seq(Fresh)
    BY <1>1 DEF Makes
  <2>2. \A n \in Fresh : n \in Node
    BY DEF Node
  <2> HIDE DEF Fresh
  <2>3. \A k \in 1..Len(new) : new[k] \in Node
    BY <2>1, <2>2
  <2>4. QED
    BY <2>1, <2>3
<1>4. \A k \in 1..Len(new) :
         /\ new[k].name = ons[from[k]].name /\ new[k].name \in Names /\ new[k].owner = owner
         /\ new[k].fn = ons[from[k]].fn /\ new[k].due = FALSE /\ from[k] \in 1..Len(ons) /\ Suits(ons[from[k]], owner)
  <2>1. ASSUME NEW k \in 1..Len(new)
        PROVE  /\ new[k].name = ons[from[k]].name /\ new[k].name \in Names /\ new[k].owner = owner
               /\ new[k].fn = ons[from[k]].fn /\ new[k].due = FALSE
    <3> DEFINE on == ons[from[k]]
    <3>1. on.name \in Names /\ new[k] = AddEventEx(on.name, owner, on.fn, on.timed)
      BY <1>2
    <3> HIDE DEF on
    <3>2. new[k].name = on.name /\ new[k].owner = owner /\ new[k].fn = on.fn /\ new[k].due = FALSE
      BY <3>1 DEF AddEventEx
    <3>3. QED
      BY <3>1, <3>2 DEF on
  <2>2. \A k \in 1..Len(new) : from[k] \in 1..Len(ons)
    BY <1>2
  <2>3. \A k \in 1..Len(ons) : Suits(ons[k], owner)
    BY DEF Suited
  <2>4. QED
    BY <2>1, <2>2, <2>3
<1>5. owner # Gone
  BY GoneAssumption
<1>6. \A k \in DOMAIN new : Homely(new[k], ms)
  BY <1>3, <1>4, <1>5 DEF Homely, Suits
<1>7. Once(new)
  <2>1. ASSUME NEW i \in 1..Len(new), NEW j \in 1..Len(new), from[i] = from[j] PROVE i = j
    <3>1. from[i] \in Nat /\ from[j] \in Nat /\ ~(from[i] < from[j]) /\ ~(from[j] < from[i])
      BY <1>3, <1>4, <2>1
    <3>2. ~(i < j) /\ ~(j < i)
      BY <1>2, <3>1
    <3>3. QED
      BY <1>3, <3>2
  <2>2. QED
    BY <1>3, <1>4, <2>1 DEF Once, Suited
<1>8. Hooked(new)
  <2> SUFFICES ASSUME NEW k \in 1..Len(new), new[k].fn = "mod_event_shutdown"
               PROVE  k < Len(new) /\ IsHook(new[k + 1])
    BY <1>3 DEF Hooked
  <2> DEFINE i == from[k]
  <2>1. i \in 1..Len(ons) /\ owner = "core" /\ i + 1 \in 1..Len(ons) /\ ons[i + 1].name = "REHASH" /\ "REHASH" \in Names
    <3>1. i \in 1..Len(ons) /\ ons[i].fn = "mod_event_shutdown" /\ ons[i].name \in Names
      BY <1>4
    <3> HIDE DEF i
    <3>2. QED
      BY <3>1 DEF Suited
  <2>2. PICK h \in 1..Len(new) : from[h] = i + 1
    BY <1>2, <2>1
  <2>3. k < h
    <3>1. i \in Nat /\ ~(i + 1 < i) /\ i + 1 # i
      BY <1>3, <2>1
    <3>2. ~(h < k) /\ h # k
      BY <1>2, <2>2, <3>1
    <3>3. QED
      BY <1>3, <3>2
  <2>4. h = k + 1
    <3>1. SUFFICES ASSUME k + 1 < h PROVE FALSE
      BY <1>3, <2>3
    <3>2. k + 1 \in 1..Len(new) /\ k < k + 1
      BY <1>3, <3>1
    <3>3. from[k] < from[k + 1] /\ from[k + 1] < from[h] /\ from[k + 1] \in Nat /\ i \in Nat
      BY <1>2, <1>3, <1>4, <3>1, <3>2
    <3>4. QED
      BY <2>2, <3>3
  <2>5. new[k + 1].name = "REHASH" /\ new[k + 1].owner = "core"
    BY <1>4, <2>1, <2>2, <2>4
  <2>6. QED
    BY <1>3, <2>3, <2>5 DEF IsHook
<1>9. \A i \in DOMAIN l, k \in DOMAIN new : l[i].owner \in DOMAIN Info /\ l[i].owner = new[k].owner
                                                    /\ l[i].fn = new[k].fn => l[i].fn \in Forgotten
  BY <1>3, <1>4 DEF Suited
<1>10. QED
  BY <1>1, <1>3, <1>6, <1>7, <1>8, <1>9, JoinedListed

LEMMA AddedRest ==
    ASSUME NEW l \in Seq(Node), NEW owner \in DOMAIN Info \cup {"core"}, NEW ons \in Seq(OnSet)
    PROVE  /\ AddAll(l, owner, ons) \in Seq(Node)
           /\ Rest(l) => Rest(AddAll(l, owner, ons))
<1>1. PICK new : Makes(new, owner, ons) /\ AddAll(l, owner, ons) = l \o new
  BY AddAllMakes
<1> DEFINE Fresh == [name : EventNames, owner : {owner}, fn : Handlers, timed : BOOLEAN, due : {FALSE}, marks : {{}}]
<1>2. new \in Seq(Fresh)
  BY <1>1 DEF Makes
<1>3. \A n \in Fresh : n \in Node /\ n.marks = {}
  BY DEF Node
<1> HIDE DEF Fresh
<1>4. \A k \in 1..Len(new) : new[k] \in Node /\ new[k].marks = {}
  BY <1>2, <1>3
<1>5. new \in Seq(Node) /\ \A k \in DOMAIN new : new[k].marks = {}
  BY <1>2, <1>4
<1> DEFINE r == l \o new
<1>6. /\ r \in Seq(Node) /\ DOMAIN r = 1..(Len(l) + Len(new))
      /\ \A i \in 1..(Len(l) + Len(new)) :
            \/ i \in DOMAIN l /\ r[i] = l[i]
            \/ i - Len(l) \in DOMAIN new /\ r[i] = new[i - Len(l)]
  BY <1>5, JoinedIs
<1> HIDE DEF r
<1>7. Rest(l) => Rest(r)
  BY <1>5, <1>6 DEF Rest
<1>8. QED
  BY <1>1, <1>6, <1>7 DEF r

LEMMA AddedReady ==
    ASSUME NEW l \in Seq(Node), NEW more, Ready(l, more), NEW owner \in DOMAIN Info \cup {"core"}, NEW ons \in Seq(OnSet)
    PROVE  Ready(AddAll(l, owner, ons), more)
<1>1. PICK new : Makes(new, owner, ons) /\ AddAll(l, owner, ons) = l \o new
  BY AddAllMakes
<1> DEFINE Fresh == [name : EventNames, owner : {owner}, fn : Handlers, timed : BOOLEAN, due : {FALSE}, marks : {{}}]
<1>2. new \in Seq(Fresh)
  BY <1>1 DEF Makes
<1>3. \A n \in Fresh : n \in Node /\ n.marks = {}
  BY DEF Node
<1> HIDE DEF Fresh
<1>4. \A k \in 1..Len(new) : new[k] \in Node /\ new[k].marks = {}
  BY <1>2, <1>3
<1>5. new \in Seq(Node) /\ \A k \in DOMAIN new : new[k].marks = {}
  BY <1>2, <1>4
<1>6. QED
  BY <1>1, <1>5, JoinedReady

-----------------------------------------------------------------------------
(* The nodes stay, marked or set anew *)

\* r has the nodes of l, but for their times and their marks.
SameNodes(l, r) ==
    /\ r \in Seq(Node) /\ DOMAIN r = DOMAIN l
    /\ \A i \in DOMAIN r : r[i].name = l[i].name /\ r[i].owner = l[i].owner /\ r[i].fn = l[i].fn /\ (r[i].due => r[i].timed)

LEMMA SameListed ==
    ASSUME NEW l, NEW ms, Listed(l, ms), NEW r, SameNodes(l, r)
    PROVE  Listed(r, ms)
<1>1. /\ l \in Seq(Node) /\ Once(l) /\ Hooked(l) /\ \A i \in DOMAIN l : Homely(l[i], ms)
  BY DEF Listed
<1>2. /\ r \in Seq(Node) /\ DOMAIN r = DOMAIN l
      /\ \A i \in DOMAIN r : r[i].name = l[i].name /\ r[i].owner = l[i].owner /\ r[i].fn = l[i].fn /\ (r[i].due => r[i].timed)
  BY DEF SameNodes
<1>3. ASSUME NEW i \in DOMAIN r PROVE Homely(r[i], ms)
  <2>1. Homely(l[i], ms)
    BY <1>1, <1>2
  <2>2. r[i].name = l[i].name /\ r[i].owner = l[i].owner /\ r[i].fn = l[i].fn /\ (r[i].due => r[i].timed)
    BY <1>2
  <2>3. QED
    BY <2>1, <2>2 DEF Homely
<1>4. Once(r)
  BY <1>1, <1>2 DEF Once
<1>5. DOMAIN l = 1..Len(l) /\ DOMAIN r = 1..Len(r) /\ Len(l) \in Nat /\ Len(r) = Len(l)
  BY <1>1, <1>2
<1>6. ASSUME NEW i \in DOMAIN r, r[i].fn = "mod_event_shutdown" PROVE i < Len(r) /\ IsHook(r[i + 1])
  <2>1. i < Len(l) /\ IsHook(l[i + 1])
    BY <1>1, <1>2, <1>6 DEF Hooked
  <2>2. i + 1 \in DOMAIN r
    BY <1>2, <1>5, <2>1
  <2>3. QED
    BY <1>2, <1>5, <2>1, <2>2 DEF IsHook
<1>7. QED
  BY <1>2, <1>3, <1>4, <1>6 DEF Listed, Hooked

LEMMA MadeOf ==
    ASSUME NEW l \in Seq(Node), NEW r, r = [i \in DOMAIN l |-> r[i]], \A i \in DOMAIN l : r[i] \in Node
    PROVE  r \in Seq(Node) /\ DOMAIN r = DOMAIN l
<1>1. DOMAIN l = 1..Len(l) /\ Len(l) \in Nat
  OBVIOUS
<1>2. r = [i \in 1..Len(l) |-> r[i]]
  BY <1>1
<1>3. r \in [1..Len(l) -> Node]
  BY <1>1, <1>2
<1>4. QED
  BY <1>1, <1>3

\* A timer is set again before its handler runs.
LEMMA ArmedIs ==
    ASSUME NEW ms, Listed(events, ms)
    PROVE  /\ Listed(Armed, ms) /\ Armed \in Seq(Node) /\ DOMAIN Armed = DOMAIN events
           /\ \A i \in DOMAIN events : /\ Armed[i].marks = events[i].marks /\ Armed[i].name = events[i].name
                                       /\ Armed[i].owner = events[i].owner /\ Armed[i].fn = events[i].fn
<1>1. events \in Seq(Node) /\ \A i \in DOMAIN events : events[i] \in Node /\ Homely(events[i], ms)
  BY DEF Listed
<1>2. ASSUME NEW i \in DOMAIN events
      PROVE  /\ Armed[i] \in Node /\ Armed[i].marks = events[i].marks /\ Armed[i].name = events[i].name
             /\ Armed[i].owner = events[i].owner /\ Armed[i].fn = events[i].fn /\ (Armed[i].due => Armed[i].timed)
  <2> DEFINE n == events[i]
             a == [n EXCEPT !.due = FALSE]
  <2>1. n \in Node /\ (n.due => n.timed) /\ (Armed[i] = n \/ Armed[i] = a)
    BY <1>1 DEF Armed, Homely
  <2> HIDE DEF n
  <2>2. a \in Node /\ a.marks = n.marks /\ a.name = n.name /\ a.owner = n.owner /\ a.fn = n.fn /\ ~a.due
    BY <2>1 DEF Node
  <2> HIDE DEF a
  <2>3. QED
    BY <2>1, <2>2 DEF n
<1>3. Armed = [i \in DOMAIN events |-> Armed[i]]
  BY DEF Armed
<1>4. Armed \in Seq(Node) /\ DOMAIN Armed = DOMAIN events
  BY <1>1, <1>2, <1>3, MadeOf
<1>5. SameNodes(events, Armed)
  BY <1>2, <1>4 DEF SameNodes
<1>6. QED
  BY <1>2, <1>4, <1>5, SameListed

-----------------------------------------------------------------------------
(* Modules are closed *)

\* No module is called core, none deletes handlers of REHASH by name, and only g_watch holds
\* the handler of its queue, which it deletes by name.
LEMMA Modular ==
    /\ "core" \notin DOMAIN Info
    /\ \A m \in DOMAIN Info : "REHASH" \notin Info[m].names
    /\ "g_watch" \in DOMAIN Info /\ "WatchQueue" \in Info["g_watch"].names
<1>1. DOMAIN Info = {"g_core", "g_update", "g_sessions", "g_scan", "g_watch", "m_omegastats", "m_fantasy"}
  BY DEF Info
<1>2. Info["g_core"] = GCore /\ Info["g_update"] = GUpdate /\ Info["g_sessions"] = GSessions /\ Info["g_scan"] = GScan
  BY DEF Info
<1>3. Info["g_watch"] = GWatch /\ Info["m_omegastats"] = MOmegastats /\ Info["m_fantasy"] = MFantasy
  BY DEF Info
<1>4. /\ GCore.names = {} /\ GUpdate.names = {} /\ GSessions.names = {} /\ GScan.names = {"VersionQueue", "SCANQ"}
      /\ GWatch.names = {"WatchQueue"} /\ MOmegastats.names = {"Omega Statistical Post"} /\ MFantasy.names = {}
  BY DEF GCore, GUpdate, GSessions, GScan, GWatch, MOmegastats, MFantasy
<1>5. /\ Info["g_core"].names = {} /\ Info["g_update"].names = {} /\ Info["g_sessions"].names = {}
      /\ Info["g_scan"].names = {"VersionQueue", "SCANQ"} /\ Info["g_watch"].names = {"WatchQueue"}
      /\ Info["m_omegastats"].names = {"Omega Statistical Post"} /\ Info["m_fantasy"].names = {}
  BY <1>2, <1>3, <1>4, Zenon
<1> HIDE DEF Info
<1>6. ASSUME NEW m \in DOMAIN Info PROVE "REHASH" \notin Info[m].names
  <2>1. \/ Info[m].names = {} \/ Info[m].names = {"VersionQueue", "SCANQ"}
        \/ Info[m].names = {"WatchQueue"} \/ Info[m].names = {"Omega Statistical Post"}
    <3>1. m \in {"g_core", "g_update", "g_sessions", "g_scan", "g_watch", "m_omegastats", "m_fantasy"}
      BY <1>1
    <3>2. QED
      BY <1>5, <3>1, Zenon
  <2>2. \A x \in {"VersionQueue", "SCANQ"} \cup {"WatchQueue"} \cup {"Omega Statistical Post"} : x # "REHASH"
    OBVIOUS
  <2>3. \A x \in Info[m].names : x \in {"VersionQueue", "SCANQ"} \cup {"WatchQueue"} \cup {"Omega Statistical Post"}
    BY <2>1, Zenon
  <2>4. QED
    BY <2>2, <2>3
<1>7. "core" \notin DOMAIN Info /\ "g_watch" \in DOMAIN Info
  BY <1>1
<1>8. QED
  BY <1>5, <1>6, <1>7

\* What the modules ms delete of the list.
Dropped(l, ms) == UNION {Unregistered(l, m) : m \in ms}

LEMMA HookStays ==
    ASSUME NEW l \in Seq(Node), NEW gone \in SUBSET (DOMAIN Info), NEW i \in DOMAIN l, IsHook(l[i])
    PROVE  i \notin Dropped(l, gone)
<1> SUFFICES ASSUME i \in Dropped(l, gone) PROVE FALSE
  OBVIOUS
<1>1. PICK m \in gone : i \in Unregistered(l, m)
  BY DEF Dropped
<1>2. l[i].owner # m /\ l[i].owner = "core" /\ l[i].name = "REHASH" /\ i # 0
  BY Modular DEF IsHook
<1>3. \A fn : DelEvent(l, m, fn) # i
  BY <1>2, FirstOwned
<1>4. \A name \in Info[m].names : DelTimedEvent(l, name) # i
  <2>1. \A name \in Info[m].names : name # l[i].name
    BY <1>2, Modular
  <2>2. QED
    BY <1>2, <2>1, FirstNamed
<1>5. QED
  BY <1>1, <1>3, <1>4 DEF Unregistered

\* What a module leaves behind when it is closed it forgets.
LEMMA LeftForgotten ==
    ASSUME NEW l, NEW ms, Listed(l, ms), NEW gone \in SUBSET (DOMAIN Info), NEW i \in DOMAIN l,
           i \notin Dropped(l, gone), l[i].owner \in gone
    PROVE  l[i].fn \in Forgotten
<1> SUFFICES ASSUME l[i].fn \notin Forgotten PROVE FALSE
  OBVIOUS
<1> DEFINE m == l[i].owner
           fn == l[i].fn
<1>1. m \in gone /\ m \in DOMAIN Info /\ i \notin Unregistered(l, m)
  BY DEF Dropped
<1>2. l \in Seq(Node) /\ Once(l) /\ Homely(l[i], ms) /\ DOMAIN l = 1..Len(l)
  BY DEF Listed
<1>3. CASE fn \in Info[m].fns
  <2> DEFINE d == DelEvent(l, m, fn)
  <2>1. d \in DOMAIN l /\ l[d].owner = m /\ l[d].fn = fn
    BY <1>2, FirstOwned
  <2>2. d \in Unregistered(l, m)
    BY <1>3 DEF Unregistered
  <2> HIDE DEF d
  <2>3. d = i
    BY <1>1, <1>2, <2>1 DEF Once
  <2>4. QED
    BY <1>1, <2>2, <2>3
<1>4. CASE fn = "evh_watchqueue"
  <2> DEFINE d == DelTimedEvent(l, "WatchQueue")
  <2>1. m = "g_watch" /\ l[i].name = "WatchQueue"
    BY <1>1, <1>2, <1>4 DEF Homely
  <2>2. d \in DOMAIN l /\ l[d].name = "WatchQueue"
    BY <1>2, <2>1, FirstNamed
  <2>3. d \in Unregistered(l, m)
    BY <2>1, Modular DEF Unregistered
  <2> HIDE DEF d
  <2>4. l[d].owner = m /\ l[d].fn = fn
    BY <1>4, <2>1, <2>2 DEF Listed, Homely
  <2>5. d = i
    BY <1>1, <1>2, <2>2, <2>4 DEF Once
  <2>6. QED
    BY <1>1, <2>3, <2>5
<1>5. QED
  BY <1>1, <1>2, <1>3, <1>4 DEF Homely

LEMMA ClosedIs ==
    ASSUME NEW l, NEW ms, Listed(l, ms), NEW gone \in SUBSET (DOMAIN Info)
    PROVE  /\ Listed(Closed(l, gone), ms \ gone)
           /\ \A more : /\ Ready(l, more)
                        /\ \A i \in DOMAIN l : "next" \in l[i].marks => i \notin Dropped(l, gone)
                        => Ready(Closed(l, gone), more)
           /\ Rest(l) => Rest(Closed(l, gone))
<1> DEFINE P == Dropped(l, gone)
           rest == Without(l, P)
           r == Closed(l, gone)
<1>1. l \in Seq(Node)
  BY DEF Listed
<1>2. Listed(rest, ms)
  BY <1>1, HookStays, WithoutListed
<1>3. r = [i \in DOMAIN rest |-> IF rest[i].owner \in gone THEN [rest[i] EXCEPT !.owner = Gone] ELSE rest[i]]
  BY DEF Closed, Dropped
<1>4. rest \in Seq(Node) /\ DOMAIN rest = 1..Len(rest) /\ Len(rest) \in Nat /\ \A i \in DOMAIN rest : rest[i] \in Node
  BY <1>2 DEF Listed
<1>5. /\ \A i \in DOMAIN rest : rest[i].owner \in gone => rest[i].fn \in Forgotten
      /\ \A i \in DOMAIN rest : \E k \in DOMAIN l : rest[i] = l[k]
  <2>1. PICK was : Left(was, l, rest, P)
    BY <1>1, WithoutLeaves
  <2>2. \A i \in DOMAIN rest : was[i] \in DOMAIN l /\ was[i] \notin P /\ rest[i] = l[was[i]]
    BY <1>1, <1>4, <2>1 DEF Left
  <2> HIDE DEF P, rest
  <2>3. QED
    BY <2>2, LeftForgotten DEF P
<1>6. \A more : Ready(l, more) /\ (\A i \in DOMAIN l : "next" \in l[i].marks => i \notin P) => Ready(rest, more)
  BY <1>1, WithoutReady
<1> HIDE DEF P, rest, r
<1>7. ASSUME NEW i \in DOMAIN rest
      PROVE  /\ r[i] \in Node /\ r[i].name = rest[i].name /\ r[i].fn = rest[i].fn /\ r[i].marks = rest[i].marks
             /\ (r[i].due => r[i].timed)
             /\ \/ rest[i].owner \in gone /\ r[i].owner = Gone
                \/ rest[i].owner \notin gone /\ r[i].owner = rest[i].owner
  <2> DEFINE n == rest[i]
             a == [n EXCEPT !.owner = Gone]
  <2>1. n \in Node /\ (n.due => n.timed) /\ r[i] = IF n.owner \in gone THEN a ELSE n
    BY <1>2, <1>3, <1>4 DEF Listed, Homely
  <2> HIDE DEF n
  <2>2. a \in Node /\ a.marks = n.marks /\ a.name = n.name /\ a.owner = Gone /\ a.fn = n.fn /\ a.due = n.due /\ a.timed = n.timed
    BY <2>1 DEF Node
  <2> HIDE DEF a
  <2>3. QED
    BY <2>1, <2>2 DEF n
<1>8. r \in Seq(Node) /\ DOMAIN r = DOMAIN rest /\ Len(r) = Len(rest)
  <2>1. r = [i \in DOMAIN rest |-> r[i]]
    BY <1>3
  <2>2. r \in Seq(Node) /\ DOMAIN r = DOMAIN rest
    BY <1>4, <1>7, <2>1, MadeOf
  <2>3. QED
    BY <1>4, <2>2
<1>9. ASSUME NEW i \in DOMAIN r PROVE Homely(r[i], ms \ gone)
  <2>1. Homely(rest[i], ms) /\ Gone \notin DOMAIN Info
    BY <1>2, <1>8, GoneAssumption DEF Listed
  <2>2. CASE rest[i].owner \in gone
    <3>1. r[i].fn \in Forgotten /\ r[i].owner = Gone /\ r[i].fn = rest[i].fn /\ r[i].name = rest[i].name /\ (r[i].due => r[i].timed)
      BY <1>5, <1>7, <1>8, <2>2
    <3>2. r[i].fn # "evh_watchqueue"
      BY <3>1 DEF Forgotten
    <3>3. QED
      BY <2>1, <3>1, <3>2 DEF Homely
  <2>3. CASE rest[i].owner \notin gone
    <3>1. r[i].owner = rest[i].owner /\ r[i].fn = rest[i].fn /\ r[i].name = rest[i].name /\ (r[i].due => r[i].timed)
      BY <1>7, <1>8, <2>3
    <3>2. QED
      BY <2>1, <2>3, <3>1 DEF Homely
  <2>4. QED
    BY <2>2, <2>3
<1>10. Once(r)
  <2>1. \A i \in DOMAIN r : r[i].owner \in DOMAIN Info => r[i].owner = rest[i].owner /\ r[i].fn = rest[i].fn
    BY <1>7, <1>8, GoneAssumption
  <2>2. Once(rest)
    BY <1>2 DEF Listed
  <2>3. QED
    BY <1>8, <2>1, <2>2 DEF Once
<1>11. Hooked(r)
  <2> SUFFICES ASSUME NEW i \in DOMAIN r, r[i].fn = "mod_event_shutdown" PROVE i < Len(r) /\ IsHook(r[i + 1])
    BY DEF Hooked
  <2>1. i < Len(rest) /\ IsHook(rest[i + 1])
    BY <1>2, <1>7, <1>8 DEF Listed, Hooked
  <2>2. i + 1 \in DOMAIN rest
    BY <1>4, <1>8, <2>1
  <2>3. QED
    BY <1>7, <1>8, <2>1, <2>2, Modular DEF IsHook
<1>12. \A more : Ready(rest, more) => Ready(r, more)
  BY <1>7, <1>8 DEF Ready
<1>13. Rest(l) => Rest(r)
  BY <1>5, <1>7, <1>8 DEF Rest
<1>14. QED
  BY <1>6, <1>8, <1>9, <1>10, <1>11, <1>12, <1>13 DEF Listed, P, r

-----------------------------------------------------------------------------
(* The walks *)

\* A walk is under way.
Going(w) == w.kind \in {"timed", "emit"} /\ w = [kind |-> w.kind, name |-> w.name, more |-> w.more]

\* The walk goes to node i, which is the next one: nothing it has yet to call is before it; or
\* there is none, and nothing left to call.
LEMMA StoodAt ==
    ASSUME NEW l, NEW ms, Listed(l, ms), NEW w, Going(w), NEW i, StandAt(l, w, i),
           \/ i \in DOMAIN l /\ \A k \in DOMAIN l : /\ "next" \in l[k].marks /\ "cur" \notin l[k].marks => k = i
                                                    /\ "todo" \in l[k].marks /\ "cur" \notin l[k].marks => k >= i
           \/ i = 0 /\ \A k \in DOMAIN l : "todo" \in l[k].marks => "cur" \in l[k].marks
    PROVE  Listed(events', ms) /\ Stands(events', walk')
<1> DEFINE Marks(k) == (IF "cur" \in l[k].marks THEN {} ELSE l[k].marks \ {"next"})
                          \cup (IF k = i THEN {"cur"} ELSE {})
                          \cup (IF i # 0 /\ k = i + 1 THEN {"next"} ELSE {})
           r == [k \in DOMAIN l |-> [l[k] EXCEPT !.marks = Marks(k)]]
<1>1. /\ walk' = IF i = 0 THEN Idle ELSE [w EXCEPT !.more = i < Len(l)]
      /\ events' = r
  BY Zenon DEF StandAt
<1>2. l \in Seq(Node) /\ DOMAIN l = 1..Len(l) /\ Len(l) \in Nat /\ \A k \in DOMAIN l : l[k] \in Node /\ Homely(l[k], ms)
  BY DEF Listed
<1>3. ASSUME NEW k \in DOMAIN l
      PROVE  /\ r[k] \in Node /\ r[k].name = l[k].name /\ r[k].owner = l[k].owner /\ r[k].fn = l[k].fn
             /\ (r[k].due => r[k].timed) /\ r[k].marks = Marks(k)
  <2> DEFINE n == l[k]
             t == Marks(k)
             a == [n EXCEPT !.marks = t]
  <2>1. n \in Node /\ (n.due => n.timed) /\ r[k] = a
    BY <1>2 DEF Homely
  <2>2. t \in SUBSET {"cur", "next", "todo"}
    BY <1>2 DEF Node
  <2> HIDE DEF n, t, r
  <2>3. a \in Node /\ a.marks = t /\ a.name = n.name /\ a.owner = n.owner /\ a.fn = n.fn /\ a.due = n.due /\ a.timed = n.timed
    BY <2>1, <2>2 DEF Node
  <2> HIDE DEF a
  <2>4. QED
    BY <2>1, <2>3 DEF n, t
<1>4. r \in Seq(Node) /\ DOMAIN r = DOMAIN l /\ Len(r) = Len(l)
  <2>1. r = [k \in DOMAIN l |-> r[k]]
    OBVIOUS
  <2> HIDE DEF r
  <2>2. r \in Seq(Node) /\ DOMAIN r = DOMAIN l
    BY <1>2, <1>3, <2>1, MadeOf
  <2>3. QED
    BY <1>2, <2>2
<1> HIDE DEF r
<1>5. SameNodes(l, r)
  BY <1>3, <1>4 DEF SameNodes
<1>6. Listed(r, ms)
  BY <1>5, SameListed
<1>7. CASE i = 0
  <2>1. \A k \in DOMAIN l : Marks(k) = {}
    <3>1. ASSUME NEW k \in DOMAIN l, "cur" \notin l[k].marks PROVE l[k].marks \subseteq {"next"}
      BY <1>2, <1>7, <3>1 DEF Node
    <3>2. QED
      BY <1>2, <1>7, <3>1
  <2>2. walk' = Idle /\ Rest(r)
    BY <1>1, <1>3, <1>4, <1>7, <2>1 DEF Rest
  <2>3. Stands(r, Idle)
    BY <2>2 DEF Stands, Idle
  <2>4. QED
    BY <1>1, <1>6, <2>2, <2>3
<1>8. CASE i # 0
  <2>1. i \in DOMAIN l /\ \A k \in DOMAIN l : /\ "next" \in l[k].marks /\ "cur" \notin l[k].marks => k = i
                                              /\ "todo" \in l[k].marks /\ "cur" \notin l[k].marks => k >= i
    BY <1>8
  <2> DEFINE v == [w EXCEPT !.more = i < Len(l)]
  <2>2. walk' = v /\ v = [kind |-> w.kind, name |-> w.name, more |-> i < Len(l)]
    BY <1>1, <1>8 DEF Going
  <2>3. v.kind = w.kind /\ v.kind \in {"timed", "emit"} /\ v.more = (i < Len(l)) /\ v.name = w.name
    BY <2>2 DEF Going
  <2> HIDE DEF v
  <2>4. ASSUME NEW k \in DOMAIN l
        PROVE  /\ "cur" \in r[k].marks <=> k = i
               /\ "next" \in r[k].marks <=> k = i + 1
               /\ "todo" \in r[k].marks => k >= i
    <3>1. r[k].marks = Marks(k) /\ k \in Nat /\ i \in Nat
      BY <1>2, <1>3, <2>1
    <3>2. "cur" \in Marks(k) <=> k = i
      BY <1>8
    <3>3. "next" \in Marks(k) <=> k = i + 1
      BY <1>8
    <3>4. "todo" \in Marks(k) => "todo" \in l[k].marks /\ "cur" \notin l[k].marks
      OBVIOUS
    <3>5. QED
      BY <2>1, <3>1, <3>2, <3>3, <3>4
  <2>5. v # Idle /\ v = [kind |-> v.kind, name |-> v.name, more |-> v.more] /\ v.more \in BOOLEAN
    <3>1. v.kind # Idle.kind
      BY <2>3 DEF Idle
    <3>2. v = [kind |-> v.kind, name |-> v.name, more |-> v.more]
      BY <2>2, <2>3
    <3>3. v.more \in BOOLEAN
      BY <2>3
    <3>4. QED
      BY <3>1, <3>2, <3>3
  <2>6. Stands(r, v)
    <3>1. i \in DOMAIN r /\ (v.more <=> i < Len(r))
      BY <1>4, <2>1, <2>3
    <3>2. \A k \in DOMAIN r : /\ "cur" \in r[k].marks <=> k = i
                              /\ "next" \in r[k].marks <=> k = i + 1
                              /\ "todo" \in r[k].marks => k >= i
      BY <1>4, <2>4
    <3>3. v.kind # "none"
      BY <2>3
    <3>4. QED
      BY <2>3, <2>5, <3>1, <3>2, <3>3 DEF Stands
  <2>7. QED
    BY <1>1, <1>6, <2>2, <2>6
<1>9. QED
  BY <1>7, <1>8

\* Where the walk under way stands.
LEMMA CurrentIs ==
    ASSUME events \in Seq(Node), Stands(events, walk), walk # Idle, Marked("cur") # {}
    PROVE  /\ Going(walk) /\ Ready(events, walk.more)
           /\ \E c \in DOMAIN events : /\ Current = events[c] /\ "cur" \in events[c].marks
                                       /\ \A i \in DOMAIN events : "next" \in events[i].marks <=> i = c + 1
<1>1. Going(walk)
  <2>1. ~Rest(events)
    BY DEF Rest, Marked
  <2>2. QED
    BY <2>1 DEF Going, Stands
<1>2. PICK c \in DOMAIN events :
         /\ \A i \in DOMAIN events :
               /\ "cur" \in events[i].marks <=> i = c
               /\ "next" \in events[i].marks <=> i = c + 1
               /\ "todo" \in events[i].marks => i >= c
         /\ walk.more <=> c < Len(events)
  BY <1>1 DEF Stands, Going
<1>3. DOMAIN events = 1..Len(events) /\ Len(events) \in Nat
  OBVIOUS
<1>4. Marked("cur") = {c}
  BY <1>2 DEF Marked
<1>5. Current = events[c]
  BY <1>4 DEF Current
<1>6. walk.more => c + 1 \in DOMAIN events /\ "next" \in events[c + 1].marks
  BY <1>2, <1>3
<1>7. ASSUME NEW i \in DOMAIN events, "next" \in events[i].marks PROVE walk.more
  <2>1. i = c + 1
    BY <1>2, <1>7
  <2>2. QED
    BY <1>2, <1>3, <2>1
<1>8. ASSUME NEW i \in DOMAIN events, "todo" \in events[i].marks, "cur" \notin events[i].marks
      PROVE  \E j \in DOMAIN events : j <= i /\ "next" \in events[j].marks
  <2>1. i >= c /\ i # c
    BY <1>2, <1>8
  <2>2. c + 1 <= i /\ c < Len(events)
    BY <1>3, <2>1
  <2>3. c + 1 \in DOMAIN events /\ "next" \in events[c + 1].marks
    BY <1>2, <1>6, <2>2
  <2>4. QED
    BY <2>2, <2>3
<1>9. \A i, j \in DOMAIN events : "next" \in events[i].marks /\ "next" \in events[j].marks => i = j
  BY <1>2
<1>10. Ready(events, walk.more)
  <2>1. walk.more <=> \E i \in DOMAIN events : "next" \in events[i].marks
    BY <1>6, <1>7
  <2>2. QED
    BY <1>8, <1>9, <2>1 DEF Ready
<1>11. QED
  BY <1>1, <1>2, <1>5, <1>10

\* All marks are taken off.
LEMMA MarksGone ==
    ASSUME NEW list, NEW ms, Listed(list, ms), NEW r, r = Unmarked(list)
    PROVE  Listed(r, ms) /\ Rest(r)
<1>1. list \in Seq(Node) /\ \A k \in DOMAIN list : list[k] \in Node /\ Homely(list[k], ms)
  BY DEF Listed
<1>2. ASSUME NEW k \in DOMAIN list
      PROVE  /\ r[k] \in Node /\ r[k].name = list[k].name /\ r[k].owner = list[k].owner /\ r[k].fn = list[k].fn
             /\ (r[k].due => r[k].timed) /\ r[k].marks = {}
  <2> DEFINE n == list[k]
             a == [n EXCEPT !.marks = {}]
  <2>1. n \in Node /\ (n.due => n.timed) /\ r[k] = a
    BY <1>1 DEF Homely, Unmarked
  <2> HIDE DEF n
  <2>2. a \in Node /\ a.marks = {} /\ a.name = n.name /\ a.owner = n.owner /\ a.fn = n.fn /\ a.due = n.due /\ a.timed = n.timed
    BY <2>1 DEF Node
  <2> HIDE DEF a
  <2>3. QED
    BY <2>1, <2>2 DEF n
<1>3. r \in Seq(Node) /\ DOMAIN r = DOMAIN list
  <2>1. r = [k \in DOMAIN list |-> r[k]]
    BY DEF Unmarked
  <2>2. \A k \in DOMAIN list : r[k] \in Node
    BY <1>2
  <2>3. QED
    BY <1>1, <2>1, <2>2, MadeOf
<1>4. SameNodes(list, r) /\ Rest(r)
  BY <1>2, <1>3 DEF SameNodes, Rest
<1>5. QED
  BY <1>4, SameListed

\* The walk goes on in a list that the handler left behind.
LEMMA Advanced ==
    ASSUME NEW list, NEW ms, Listed(list, ms), Going(walk), Ready(list, walk.more), Advance(list)
    PROVE  Listed(events', ms) /\ Stands(events', walk')
<1> DEFINE there == SelectInSeq(list, LAMBDA n : "next" \in n.marks)
<1>1. list \in Seq(Node) /\ DOMAIN list = 1..Len(list)
  BY DEF Listed
<1>2. \/ there = 0 /\ \A i \in DOMAIN list : "next" \notin list[i].marks
      \/ there \in DOMAIN list /\ "next" \in list[there].marks
  <2>1. there = SelectInSeq(list, LAMBDA n : "next" \in n.marks)
    OBVIOUS
  <2> HIDE DEF there
  <2>2. QED
    BY <1>1, <2>1, FirstNext
<1>3. \/ IF walk.more /\ there = 0 THEN walk' = Lost /\ events' = Unmarked(list)
         ELSE StandAt(list, walk, there)
      \/ walk' = Misread /\ events' = Unmarked(list)
  BY Zenon DEF Advance, GoOn
<1> HIDE DEF there
<1>4. ~(walk.more /\ there = 0)
  BY <1>1, <1>2 DEF Ready
<1>5. \/ StandAt(list, walk, there)
      \/ walk' = Misread /\ events' = Unmarked(list)
  BY <1>3, <1>4
<1>6. CASE StandAt(list, walk, there) /\ there = 0
  <2>1. \A k \in DOMAIN list : "todo" \in list[k].marks => "cur" \in list[k].marks
    BY <1>1, <1>2, <1>6 DEF Ready
  <2>2. QED
    BY <1>6, <2>1, StoodAt
<1>7. CASE StandAt(list, walk, there) /\ there # 0
  <2>1. there \in DOMAIN list /\ "next" \in list[there].marks
    BY <1>2, <1>7
  <2>2. ASSUME NEW k \in DOMAIN list
        PROVE  /\ "next" \in list[k].marks /\ "cur" \notin list[k].marks => k = there
               /\ "todo" \in list[k].marks /\ "cur" \notin list[k].marks => k >= there
    BY <1>1, <2>1 DEF Ready
  <2>3. QED
    BY <1>7, <2>1, <2>2, StoodAt
<1>8. CASE walk' = Misread /\ events' = Unmarked(list)
  <2>1. Listed(events', ms) /\ Rest(events')
    BY <1>8, MarksGone
  <2>2. QED
    BY <1>8, <2>1 DEF Stands, Misread
<1>9. QED
  BY <1>5, <1>6, <1>7, <1>8

\* The handler has run and left a list that is as it should be.
LEMMA CalledKeeps ==
    ASSUME NEW list, NEW ms, Listed(list, ms), Going(walk), Ready(list, walk.more), halted \in BOOLEAN,
           NEW stop, Called(list, stop)
    PROVE  Listed(events', ms) /\ Stands(events', walk') /\ halted' \in BOOLEAN
<1>1. \/ UNCHANGED halted /\ Advance(list)
      \/ halted' = TRUE /\ walk' = Idle /\ events' = Unmarked(list)
  BY Zenon DEF Called
<1>2. CASE UNCHANGED halted /\ Advance(list)
  BY <1>2, Advanced
<1>3. CASE halted' = TRUE /\ walk' = Idle /\ events' = Unmarked(list)
  <2>1. Listed(events', ms) /\ Rest(events')
    BY <1>3, MarksGone
  <2>2. QED
    BY <1>3, <2>1 DEF Stands, Idle
<1>4. QED
  BY <1>1, <1>2, <1>3

\* A walk begins at the head of the list, with all it is to call before it.
LEMMA BeginKeeps ==
    ASSUME NEW ms, Listed(events, ms), Rest(events), NEW w, Going(w), Begin(w)
    PROVE  Listed(events', ms) /\ Stands(events', walk') /\ halted' \in BOOLEAN
<1> DEFINE r == [k \in DOMAIN events |-> [events[k] EXCEPT !.marks = IF Calls(w, events[k]) THEN {"todo"} ELSE {}]]
           i == Min({1, Len(events)})
<1>1. StandAt(r, w, i) /\ halted' = FALSE
  BY Zenon DEF Begin
<1>2. events \in Seq(Node) /\ DOMAIN events = 1..Len(events) /\ Len(events) \in Nat
      /\ \A k \in DOMAIN events : events[k] \in Node /\ Homely(events[k], ms)
  BY DEF Listed
<1>3. ASSUME NEW k \in DOMAIN events
      PROVE  /\ r[k] \in Node /\ r[k].name = events[k].name /\ r[k].owner = events[k].owner /\ r[k].fn = events[k].fn
             /\ (r[k].due => r[k].timed) /\ r[k].marks \subseteq {"todo"}
  <2> DEFINE n == events[k]
             t == IF Calls(w, n) THEN {"todo"} ELSE {}
             a == [n EXCEPT !.marks = t]
  <2>1. n \in Node /\ (n.due => n.timed) /\ r[k] = a /\ t \in SUBSET {"todo"} /\ t \in SUBSET {"cur", "next", "todo"}
    BY <1>2 DEF Homely
  <2> HIDE DEF n, t
  <2>2. a \in Node /\ a.marks = t /\ a.name = n.name /\ a.owner = n.owner /\ a.fn = n.fn /\ a.due = n.due /\ a.timed = n.timed
    BY <2>1 DEF Node
  <2> HIDE DEF a
  <2>3. QED
    BY <2>1, <2>2 DEF n
<1>4. r \in Seq(Node) /\ DOMAIN r = DOMAIN events /\ Len(r) = Len(events)
  <2>1. r = [k \in DOMAIN events |-> r[k]]
    OBVIOUS
  <2> HIDE DEF r
  <2>2. r \in Seq(Node) /\ DOMAIN r = DOMAIN events
    BY <1>2, <1>3, <2>1, MadeOf
  <2>3. QED
    BY <1>2, <2>2
<1> HIDE DEF r
<1>5. Listed(r, ms)
  <2>1. SameNodes(events, r)
    BY <1>3, <1>4 DEF SameNodes
  <2>2. QED
    BY <2>1, SameListed
<1>6. i \in {1, Len(events)} /\ i <= 1 /\ i <= Len(events)
  <2>1. {1, Len(events)} \in SUBSET Nat
    BY <1>2
  <2>2. QED
    BY <2>1, LeastIs
<1> HIDE DEF i
<1>7. \A k \in DOMAIN r : "next" \notin r[k].marks /\ "cur" \notin r[k].marks
  BY <1>3, <1>4
<1>8. \/ i \in DOMAIN r /\ i = 1
      \/ i = 0 /\ DOMAIN r = {}
  <2>1. CASE Len(events) = 0
    BY <1>2, <1>4, <1>6, <2>1
  <2>2. CASE Len(events) # 0
    <3> DEFINE n == Len(events)
    <3>0. n \in Nat /\ n # 0 /\ i \in {1, n} /\ i <= 1 /\ i <= n
      BY <1>2, <1>6, <2>2
    <3> HIDE DEF n
    <3>1. i = 1 /\ 1 \in 1..n
      BY <3>0
    <3>2. QED
      BY <1>2, <1>4, <3>1 DEF n
  <2>3. QED
    BY <2>1, <2>2
<1>9. \/ i \in DOMAIN r /\ \A k \in DOMAIN r : /\ "next" \in r[k].marks /\ "cur" \notin r[k].marks => k = i
                                               /\ "todo" \in r[k].marks /\ "cur" \notin r[k].marks => k >= i
      \/ i = 0 /\ \A k \in DOMAIN r : "todo" \in r[k].marks => "cur" \in r[k].marks
  <2>1. \A k \in DOMAIN r : k >= 1
    BY <1>2, <1>4
  <2>2. QED
    BY <1>7, <1>8, <2>1
<1>10. QED
  BY <1>1, <1>5, <1>9, StoodAt

-----------------------------------------------------------------------------
(* What handlers do *)

LEMMA OneOn ==
    ASSUME NEW on \in OnSet
    PROVE  <<on>> \in Seq(OnSet) /\ Len(<<on>>) = 1 /\ <<on>>[1] = on
OBVIOUS

\* The timer that connects again is added.
LEMMA RetryKeeps ==
    ASSUME NEW l, NEW ms, Listed(l, ms)
    PROVE  /\ Listed(WithRetry(l), ms)
           /\ \A more : Ready(l, more) => Ready(WithRetry(l), more)
           /\ Rest(l) => Rest(WithRetry(l))
<1> DEFINE on == Every("Connect Uplink", "ev_connectuplink")
           ons == <<on>>
<1>1. on \in OnSet /\ on.name = "Connect Uplink" /\ on.fn = "ev_connectuplink"
  <2>1. on = [name |-> "Connect Uplink", fn |-> "ev_connectuplink", timed |-> TRUE]
    BY DEF Every
  <2> HIDE DEF on
  <2>2. on \in OnSet
    BY <2>1 DEF OnSet, EventNames, Handlers
  <2>3. QED
    BY <2>1, <2>2
<1>2. WithRetry(l) = AddAll(l, "core", ons)
  BY DEF WithRetry
<1> HIDE DEF on
<1>3. ons \in Seq(OnSet) /\ Len(ons) = 1 /\ ons[1] = on
  BY <1>1, OneOn
<1> HIDE DEF ons
<1>4. \A k \in 1..Len(ons) : k = 1
  BY <1>3
<1>5. Suits(on, "core")
  BY <1>1, Modular DEF Suits, QueueTimers
<1>6. Suited(l, "core", ons)
  BY <1>1, <1>3, <1>4, <1>5, Modular DEF Suited
<1>7. l \in Seq(Node) /\ "core" \in DOMAIN Info \cup {"core"} /\ "core" \in ms \cup {"core"}
  BY DEF Listed
<1>8. Listed(AddAll(l, "core", ons), ms)
  BY <1>3, <1>6, <1>7, AddedListed
<1>9. /\ \A more : Ready(l, more) => Ready(AddAll(l, "core", ons), more)
      /\ Rest(l) => Rest(AddAll(l, "core", ons))
  BY <1>3, <1>7, AddedReady, AddedRest
<1>10. QED
  BY <1>2, <1>8, <1>9

LEMMA ReturnsKeeps ==
    ASSUME NEW list, NEW ms, Listed(list, ms), Going(walk), Ready(list, walk.more), halted \in BOOLEAN, Returns(list)
    PROVE  Listed(events', ms) /\ Stands(events', walk') /\ halted' \in BOOLEAN
<1>1. (\E stop : Called(list, stop)) \/ (\E stop : Called(WithRetry(list), stop))
  BY DEF Returns
<1>2. Listed(WithRetry(list), ms) /\ Ready(WithRetry(list), walk.more)
  BY RetryKeeps
<1>3. QED
  BY <1>1, <1>2, CalledKeeps

\* A handler may delete by the name of its own node: the first of that name is not behind it, so
\* that the next one stays.
LEMMA DeletedKeeps ==
    ASSUME EventInv, walk # Idle, Marked("cur") # {}, NEW name, Current.name = name, name # "REHASH"
    PROVE  Listed(Deleted(Armed, name), ToSet(loaded)) /\ Ready(Deleted(Armed, name), walk.more)
<1> DEFINE ms == ToSet(loaded)
           d == DelTimedEvent(Armed, name)
<1>1. Listed(events, ms) /\ Stands(events, walk) /\ events \in Seq(Node)
  BY DEF EventInv, Listed
<1>2. PICK c \in DOMAIN events : /\ Current = events[c] /\ "cur" \in events[c].marks
                                 /\ \A i \in DOMAIN events : "next" \in events[i].marks <=> i = c + 1
  BY <1>1, CurrentIs
<1>3. /\ Listed(Armed, ms) /\ Armed \in Seq(Node) /\ DOMAIN Armed = DOMAIN events
      /\ \A i \in DOMAIN events : Armed[i].marks = events[i].marks /\ Armed[i].name = events[i].name
  BY <1>1, ArmedIs
<1>4. d \in DOMAIN Armed /\ Armed[d].name = name /\ d <= c
  BY <1>2, <1>3, FirstNamed
<1>5. Deleted(Armed, name) = Without(Armed, {d})
  BY DEF Deleted
<1>6. Ready(Armed, walk.more)
  <2>1. Ready(events, walk.more)
    BY <1>1, CurrentIs
  <2>2. QED
    BY <1>3, <2>1 DEF Ready
<1> HIDE DEF ms, d
<1>7. \A i \in DOMAIN Armed : i \in {d} => ~IsHook(Armed[i])
  BY <1>4 DEF IsHook
<1>8. "next" \notin Armed[d].marks
  <2>1. d \in Nat /\ c \in Nat /\ d # c + 1
    BY <1>1, <1>2, <1>3, <1>4
  <2>2. QED
    BY <1>2, <1>3, <1>4, <2>1
<1>9. Listed(Without(Armed, {d}), ms)
  BY <1>3, <1>7, WithoutListed
<1>10. Ready(Without(Armed, {d}), walk.more)
  BY <1>3, <1>6, <1>8, WithoutReady
<1>11. QED
  BY <1>5, <1>9, <1>10 DEF ms, d

\* The node a handler is called for, and the list it finds.
LEMMA CallingIs ==
    ASSUME EventInv, NEW fns, Calling(fns)
    PROVE  /\ walk # Idle /\ Marked("cur") # {} /\ Going(walk) /\ Current.owner # Gone /\ Current.fn \in fns
           /\ Homely(Current, ToSet(loaded)) /\ Current \in Node
           /\ Listed(Armed, ToSet(loaded)) /\ Ready(Armed, walk.more)
           /\ UNCHANGED loaded /\ halted \in BOOLEAN
<1>1. Listed(events, ToSet(loaded)) /\ Stands(events, walk) /\ events \in Seq(Node) /\ halted \in BOOLEAN
  BY DEF EventInv, Listed
<1>2. /\ walk # Idle /\ Marked("cur") # {} /\ Current.owner # Gone /\ Current.fn \in fns
      /\ UNCHANGED loaded
  BY DEF Calling, loadVars
<1>3. Going(walk) /\ Ready(events, walk.more) /\ \E c \in DOMAIN events : Current = events[c]
  BY <1>1, <1>2, CurrentIs
<1>4. Homely(Current, ToSet(loaded)) /\ Current \in Node
  BY <1>1, <1>3 DEF Listed
<1>5. /\ Listed(Armed, ToSet(loaded)) /\ DOMAIN Armed = DOMAIN events
      /\ \A i \in DOMAIN events : Armed[i].marks = events[i].marks
  BY <1>1, ArmedIs
<1>6. Ready(Armed, walk.more)
  BY <1>3, <1>5 DEF Ready
<1>7. QED
  BY <1>1, <1>2, <1>3, <1>4, <1>5, <1>6

\* The invariant after a step.
LEMMA EventInvAgain ==
    ASSUME UNCHANGED setup, Listed(events', ToSet(loaded')), Stands(events', walk'), halted' \in BOOLEAN
    PROVE  EventInv'
BY DEF EventInv, Listed, Homely, Names, Stands, Rest

\* The modules that are loaded are some that there are.
LEMMA LoadedExist ==
    ASSUME LoadInv PROVE loaded \in Seq(DOMAIN Info) /\ ToSet(loaded) \in SUBSET (DOMAIN Info) /\ Files \subseteq DOMAIN Info
<1>1. setup \in Setups /\ loaded \in Seq(Files \cup ToSet(Core))
  BY ListOfModules
<1>2. Files \subseteq DOMAIN Info /\ Core \in Seq(DOMAIN Info)
  <2>1. Files \subseteq DOMAIN Info /\ Core \in Seq({m \in DOMAIN Info : Info[m].needs = "nothing"})
    BY <1>1, SetupsAssumption DEF Files, Core
  <2> DEFINE Free == {m \in DOMAIN Info : Info[m].needs = "nothing"}
  <2>2. \A m \in Free : m \in DOMAIN Info
    OBVIOUS
  <2> HIDE DEF Free
  <2>3. Core \in Seq(Free)
    BY <2>1 DEF Free
  <2>4. \A i \in 1..Len(Core) : Core[i] \in DOMAIN Info
    BY <2>2, <2>3
  <2>5. QED
    BY <2>1, <2>3, <2>4
<1>3. ToSet(Core) \subseteq DOMAIN Info
  BY <1>2, InList
<1> DEFINE K == Files \cup ToSet(Core)
<1>4. loaded \in Seq(K) /\ \A m \in K : m \in DOMAIN Info
  BY <1>1, <1>2, <1>3
<1> HIDE DEF K
<1>5. \A i \in 1..Len(loaded) : loaded[i] \in DOMAIN Info
  BY <1>4
<1>6. loaded \in Seq(DOMAIN Info)
  BY <1>4, <1>5
<1>7. ToSet(loaded) \subseteq DOMAIN Info
  BY <1>6, InList
<1>8. QED
  BY <1>2, <1>6, <1>7

LEMMA WorkOffRight ==
    ASSUME EventInv, WorkOff, UNCHANGED setup PROVE EventInv'
<1>1. Calling(QueueTimers) /\ (Returns(Armed) \/ Returns(Deleted(Armed, Current.name)))
  BY DEF WorkOff
<1>2. /\ walk # Idle /\ Marked("cur") # {} /\ Going(walk) /\ Current.fn \in QueueTimers /\ Homely(Current, ToSet(loaded))
      /\ Listed(Armed, ToSet(loaded)) /\ Ready(Armed, walk.more) /\ UNCHANGED loaded /\ halted \in BOOLEAN
  BY <1>1, CallingIs
<1>3. Current.name # "REHASH"
  BY <1>2 DEF Homely
<1>4. Listed(Deleted(Armed, Current.name), ToSet(loaded)) /\ Ready(Deleted(Armed, Current.name), walk.more)
  BY <1>2, <1>3, DeletedKeeps
<1>5. Listed(events', ToSet(loaded)) /\ Stands(events', walk') /\ halted' \in BOOLEAN
  BY <1>1, <1>2, <1>4, ReturnsKeeps
<1>6. QED
  BY <1>2, <1>5, EventInvAgain

\* The timers of a burst are added to the list; g_scan forgets them.
LEMMA TwoOns ==
    ASSUME NEW a \in OnSet, NEW b \in OnSet
    PROVE  <<a, b>> \in Seq(OnSet) /\ Len(<<a, b>>) = 2 /\ <<a, b>>[1] = a /\ <<a, b>>[2] = b
OBVIOUS

LEMMA OnIs ==
    ASSUME NEW name \in EventNames, NEW fn \in Handlers
    PROVE  /\ Every(name, fn) \in OnSet /\ Every(name, fn).name = name /\ Every(name, fn).fn = fn
           /\ On(name, fn) \in OnSet /\ On(name, fn).name = name /\ On(name, fn).fn = fn
BY DEF Every, On, OnSet

LEMMA InitEventsRight ==
    ASSUME EventInv, InitEvents, UNCHANGED setup PROVE EventInv'
<1> DEFINE a == Every("SCANQ", "scan_que")
           b == Every("VersionQueue", "version_que")
           ons == <<a, b>>
           owner == Current.owner
           ms == ToSet(loaded)
           r == AddAll(Armed, owner, ons)
<1>1. Calling({"init_events"}) /\ Returns(r)
  BY DEF InitEvents
<1>2. /\ Going(walk) /\ Current.owner # Gone /\ Homely(Current, ms) /\ Current \in Node
      /\ Listed(Armed, ms) /\ Ready(Armed, walk.more) /\ UNCHANGED loaded /\ halted \in BOOLEAN
  BY <1>1, CallingIs
<1>3. a \in OnSet /\ a.name = "SCANQ" /\ a.fn = "scan_que" /\ b \in OnSet /\ b.name = "VersionQueue" /\ b.fn = "version_que"
  <2>1. "SCANQ" \in EventNames /\ "VersionQueue" \in EventNames /\ "scan_que" \in Handlers /\ "version_que" \in Handlers
    BY DEF EventNames, Handlers
  <2>2. QED
    BY <2>1, OnIs
<1> HIDE DEF a, b, r
<1>4. ons \in Seq(OnSet) /\ Len(ons) = 2 /\ ons[1] = a /\ ons[2] = b
  BY <1>3, TwoOns
<1> HIDE DEF ons
<1>5. \A k \in 1..Len(ons) : k = 1 \/ k = 2
  BY <1>4
<1>6. owner \in DOMAIN Info \cup {"core"} /\ owner \in ms \cup {"core"}
  BY <1>2 DEF Node, Homely
<1> HIDE DEF owner
<1>7. Suits(a, owner) /\ Suits(b, owner)
  BY <1>3 DEF Suits, Forgotten, QueueTimers
<1>8. a.fn \in Forgotten /\ b.fn \in Forgotten
  BY <1>3 DEF Forgotten
<1>9. Suited(Armed, owner, ons)
  <2>1. \A k \in 1..Len(ons) : Suits(ons[k], owner) /\ ons[k].fn \in Forgotten /\ ons[k].fn # "mod_event_shutdown"
    BY <1>3, <1>4, <1>5, <1>7, <1>8
  <2>2. \A j, k \in 1..Len(ons) : ons[j].fn = ons[k].fn => j = k
    BY <1>3, <1>4, <1>5
  <2>3. QED
    BY <2>1, <2>2 DEF Suited
<1>10. Armed \in Seq(Node)
  BY <1>2 DEF Listed
<1>11. Listed(r, ms) /\ Ready(r, walk.more)
  BY <1>2, <1>4, <1>6, <1>9, <1>10, AddedListed, AddedReady DEF r
<1>12. Listed(events', ms) /\ Stands(events', walk') /\ halted' \in BOOLEAN
  BY <1>1, <1>2, <1>11, ReturnsKeeps
<1>13. QED
  BY <1>2, <1>12, EventInvAgain

LEMMA FirstRunRight ==
    ASSUME EventInv, FirstRun, UNCHANGED setup PROVE EventInv'
<1> DEFINE a == Every("Omega Statistical Post", "evh_omegastats")
           ons == <<a>>
           owner == Current.owner
           ms == ToSet(loaded)
           l == Deleted(Armed, "Omega Stats First Run")
           r == AddAll(l, owner, ons)
<1>1. Calling({"evh_first_run"}) /\ Returns(r)
  BY DEF FirstRun
<1>2. /\ walk # Idle /\ Marked("cur") # {} /\ Going(walk) /\ Current.owner # Gone /\ Current.fn = "evh_first_run"
      /\ Homely(Current, ms) /\ Current \in Node /\ UNCHANGED loaded /\ halted \in BOOLEAN
  <2>1. Calling({"evh_first_run"})
    BY <1>1
  <2>2. Current.fn \in {"evh_first_run"}
    BY <2>1, CallingIs
  <2>3. QED
    BY <2>1, <2>2, CallingIs
<1>3. Current.name = "Omega Stats First Run" /\ "Omega Stats First Run" # "REHASH"
  BY <1>2 DEF Homely
<1>4. Listed(l, ms) /\ Ready(l, walk.more)
  BY <1>2, <1>3, DeletedKeeps
<1>5. a \in OnSet /\ a.name = "Omega Statistical Post" /\ a.fn = "evh_omegastats"
  <2>1. "Omega Statistical Post" \in EventNames /\ "evh_omegastats" \in Handlers
    BY DEF EventNames, Handlers
  <2>2. QED
    BY <2>1, OnIs
<1> HIDE DEF a, r, l
<1>6. ons \in Seq(OnSet) /\ Len(ons) = 1 /\ ons[1] = a
  BY <1>5, OneOn
<1> HIDE DEF ons
<1>7. \A k \in 1..Len(ons) : k = 1
  BY <1>6
<1>8. owner \in DOMAIN Info \cup {"core"} /\ owner \in ms \cup {"core"}
  BY <1>2 DEF Node, Homely
<1> HIDE DEF owner
<1>9. Suits(a, owner) /\ a.fn \in Forgotten
  BY <1>5 DEF Suits, Forgotten, QueueTimers
<1>10. Suited(l, owner, ons)
  <2>1. \A k \in 1..Len(ons) : Suits(ons[k], owner) /\ ons[k].fn \in Forgotten /\ ons[k].fn # "mod_event_shutdown"
    BY <1>5, <1>6, <1>7, <1>9
  <2>2. \A j, k \in 1..Len(ons) : j = k
    BY <1>7
  <2>3. QED
    BY <2>1, <2>2 DEF Suited
<1>11. l \in Seq(Node)
  BY <1>4 DEF Listed
<1>12. Listed(r, ms) /\ Ready(r, walk.more)
  BY <1>4, <1>6, <1>8, <1>10, <1>11, AddedListed, AddedReady DEF r
<1>13. Listed(events', ms) /\ Stands(events', walk') /\ halted' \in BOOLEAN
  BY <1>1, <1>2, <1>12, ReturnsKeeps
<1>14. QED
  BY <1>2, <1>13, EventInvAgain

LEMMA ConnectRight ==
    ASSUME EventInv, ConnectUplink, UNCHANGED setup PROVE EventInv'
<1> DEFINE ms == ToSet(loaded)
           rest == Deleted(Armed, "Connect Uplink")
<1>1. /\ Calling({"ev_connectuplink"})
      /\ Called(Armed, FALSE) \/ Called(rest, FALSE) \/ Called(WithRetry(rest), FALSE)
  BY DEF ConnectUplink
<1>2. /\ walk # Idle /\ Marked("cur") # {} /\ Going(walk) /\ Current.fn = "ev_connectuplink" /\ Homely(Current, ms)
      /\ Listed(Armed, ms) /\ Ready(Armed, walk.more) /\ UNCHANGED loaded /\ halted \in BOOLEAN
  <2>1. Calling({"ev_connectuplink"})
    BY <1>1
  <2>2. Current.fn \in {"ev_connectuplink"}
    BY <2>1, CallingIs
  <2>3. QED
    BY <2>1, <2>2, CallingIs
<1>3. Current.name = "Connect Uplink" /\ "Connect Uplink" # "REHASH"
  BY <1>2 DEF Homely
<1>4. Listed(rest, ms) /\ Ready(rest, walk.more)
  BY <1>2, <1>3, DeletedKeeps
<1> HIDE DEF rest
<1>5. Listed(WithRetry(rest), ms) /\ Ready(WithRetry(rest), walk.more)
  BY <1>4, RetryKeeps
<1>6. Listed(events', ms) /\ Stands(events', walk') /\ halted' \in BOOLEAN
  BY <1>1, <1>2, <1>4, <1>5, CalledKeeps
<1>7. QED
  BY <1>2, <1>6, EventInvAgain

\* All modules are closed in the SHUTDOWN walk: the next node is the hook of the core, which stays.
LEMMA PurgeRight ==
    ASSUME LoadInv, EventInv, Purge, UNCHANGED setup PROVE EventInv'
<1> DEFINE ms == ToSet(loaded)
<1>1. /\ walk # Idle /\ Marked("cur") # {} /\ Current.fn = "mod_event_shutdown" /\ loaded' = <<>>
      /\ Called(Closed(Armed, ms), FALSE)
  BY DEF Purge
<1>2. Listed(events, ms) /\ Stands(events, walk) /\ events \in Seq(Node) /\ halted \in BOOLEAN
  BY DEF EventInv, Listed
<1>3. Going(walk) /\ Ready(events, walk.more)
  BY <1>1, <1>2, CurrentIs
<1>4. PICK c \in DOMAIN events : /\ Current = events[c] /\ "cur" \in events[c].marks
                                 /\ \A i \in DOMAIN events : "next" \in events[i].marks <=> i = c + 1
  BY <1>1, <1>2, CurrentIs
<1>5. /\ Listed(Armed, ms) /\ Armed \in Seq(Node) /\ DOMAIN Armed = DOMAIN events
      /\ \A i \in DOMAIN events : Armed[i].marks = events[i].marks /\ Armed[i].name = events[i].name
                                  /\ Armed[i].owner = events[i].owner
  BY <1>2, ArmedIs
<1>6. Ready(Armed, walk.more)
  BY <1>3, <1>5 DEF Ready
<1>7. ms \in SUBSET (DOMAIN Info)
  BY LoadedExist
<1>8. \A i \in DOMAIN Armed : "next" \in Armed[i].marks => IsHook(Armed[i])
  <2>1. IsHook(events[c + 1])
    BY <1>1, <1>2, <1>4 DEF Listed, Hooked
  <2>2. QED
    BY <1>4, <1>5, <2>1 DEF IsHook
<1> HIDE DEF ms
<1>9. \A i \in DOMAIN Armed : "next" \in Armed[i].marks => i \notin Dropped(Armed, ms)
  BY <1>5, <1>7, <1>8, HookStays
<1>10. Listed(Closed(Armed, ms), ms \ ms) /\ Ready(Closed(Armed, ms), walk.more)
  BY <1>5, <1>6, <1>7, <1>9, ClosedIs
<1>11. ToSet(loaded') = ms \ ms
  BY <1>1 DEF ToSet
<1>12. Listed(events', ms \ ms) /\ Stands(events', walk') /\ halted' \in BOOLEAN
  BY <1>1, <1>2, <1>3, <1>10, CalledKeeps
<1>13. QED
  BY <1>11, <1>12, EventInvAgain

LEMMA HandlerRight ==
    ASSUME LoadInv, EventInv, Handler, UNCHANGED setup PROVE EventInv'
<1>1. CASE Plain
  <2>1. Calling({Current.fn} \ Special) /\ Returns(Armed)
    BY <1>1 DEF Plain
  <2>2. /\ Going(walk) /\ Listed(Armed, ToSet(loaded)) /\ Ready(Armed, walk.more) /\ UNCHANGED loaded /\ halted \in BOOLEAN
    BY <2>1, CallingIs
  <2>3. Listed(events', ToSet(loaded)) /\ Stands(events', walk') /\ halted' \in BOOLEAN
    BY <2>1, <2>2, ReturnsKeeps
  <2>4. QED
    BY <2>2, <2>3, EventInvAgain
<1>2. CASE Crash
  <2>1. UNCHANGED <<events, walk, halted, loaded>>
    BY <1>2 DEF Crash, eventVars, loadVars
  <2>2. QED
    BY <2>1, EventInvAgain DEF EventInv
<1>3. QED
  BY <1>1, <1>2, WorkOffRight, InitEventsRight, FirstRunRight, ConnectRight, PurgeRight DEF Handler

-----------------------------------------------------------------------------
(* What modules add *)

LEMMA InfoIs ==
    ASSUME NEW m \in DOMAIN Info
    PROVE  \/ m \in {"g_core", "g_update"} /\ Info[m].adds = <<>>
           \/ m = "g_sessions" /\ Info[m] = GSessions
           \/ m = "g_scan" /\ Info[m] = GScan
           \/ m = "g_watch" /\ Info[m] = GWatch
           \/ m = "m_omegastats" /\ Info[m] = MOmegastats
           \/ m = "m_fantasy" /\ Info[m] = MFantasy
<1>1. m \in {"g_core", "g_update", "g_sessions", "g_scan", "g_watch", "m_omegastats", "m_fantasy"}
  BY DEF Info
<1>2. Info["g_core"] = GCore /\ Info["g_update"] = GUpdate /\ Info["g_sessions"] = GSessions /\ Info["g_scan"] = GScan
  BY DEF Info
<1>3. Info["g_watch"] = GWatch /\ Info["m_omegastats"] = MOmegastats /\ Info["m_fantasy"] = MFantasy
  BY DEF Info
<1>4. GCore.adds = <<>> /\ GUpdate.adds = <<>>
  BY DEF GCore, GUpdate
<1>5. Info["g_core"].adds = <<>> /\ Info["g_update"].adds = <<>>
  BY <1>2, <1>4, Zenon
<1> HIDE DEF Info
<1>6. QED
  BY <1>1, <1>2, <1>3, <1>5, Zenon

\* What a module adds is new to the list, and it will delete or forget it.
Adding(m, ons) ==
    /\ ons \in Seq(OnSet)
    /\ \A k \in 1..Len(ons) : Suits(ons[k], m) /\ ons[k].fn # "mod_event_shutdown"
    /\ \A j, k \in 1..Len(ons) : ons[j].fn = ons[k].fn => j = k

LEMMA NoneAdded == ASSUME NEW m PROVE Adding(m, <<>>)
<1>1. <<>> \in Seq(OnSet) /\ Len(<<>>) = 0
  OBVIOUS
<1>2. QED
  BY <1>1 DEF Adding

LEMMA AdditionsSessions == ASSUME NEW m, m = "g_sessions", Info[m] = GSessions PROVE Adding(m, GSessions.adds)
<1> DEFINE a == On("USERCONN", "event_usercon")
           b == On("USEREXIT", "event_userexit")
           c == On("REHASH", "evh_session_rehash")
           ons == <<a, b, c>>
<1>1. a \in OnSet /\ a.name = "USERCONN" /\ a.fn = "event_usercon"
  <2>1. "USERCONN" \in EventNames /\ "event_usercon" \in Handlers
    BY DEF EventNames, Handlers
  <2>2. QED
    BY <2>1, OnIs
<1>2. b \in OnSet /\ b.name = "USEREXIT" /\ b.fn = "event_userexit"
  <2>1. "USEREXIT" \in EventNames /\ "event_userexit" \in Handlers
    BY DEF EventNames, Handlers
  <2>2. QED
    BY <2>1, OnIs
<1>3. c \in OnSet /\ c.name = "REHASH" /\ c.fn = "evh_session_rehash"
  <2>1. "REHASH" \in EventNames /\ "evh_session_rehash" \in Handlers
    BY DEF EventNames, Handlers
  <2>2. QED
    BY <2>1, OnIs
<1>4. GSessions.adds = ons /\ GSessions.fns = {"event_usercon", "event_userexit"}
  BY DEF GSessions
<1> HIDE DEF a, b, c
<1>5. ons \in Seq(OnSet) /\ Len(ons) = 3 /\ ons[1] = a /\ ons[2] = b /\ ons[3] = c
  BY <1>1, <1>2, <1>3
<1> HIDE DEF ons
<1>6. \A k \in 1..Len(ons) : k \in {1, 2, 3}
  BY <1>5
<1>7. Info[m].fns = {"event_usercon", "event_userexit"}
  BY <1>4
<1>8. Suits(a, m) /\ Suits(b, m) /\ Suits(c, m)
  BY <1>1, <1>2, <1>3, <1>7 DEF Suits, Forgotten, QueueTimers
<1>9. \A j, k \in 1..Len(ons) : ons[j].fn = ons[k].fn => j = k
  BY <1>1, <1>2, <1>3, <1>5, <1>6
<1>10. \A k \in 1..Len(ons) : Suits(ons[k], m) /\ ons[k].fn # "mod_event_shutdown"
  BY <1>1, <1>2, <1>3, <1>5, <1>6, <1>8
<1>11. QED
  BY <1>4, <1>5, <1>9, <1>10 DEF Adding

LEMMA AdditionsScan == ASSUME NEW m, m = "g_scan", Info[m] = GScan PROVE Adding(m, GScan.adds)
<1> DEFINE a == On("USERCONN", "scan_nick")
           b == On("BURST", "init_events")
           ons == <<a, b>>
<1>1. a \in OnSet /\ a.name = "USERCONN" /\ a.fn = "scan_nick"
  <2>1. "USERCONN" \in EventNames /\ "scan_nick" \in Handlers
    BY DEF EventNames, Handlers
  <2>2. QED
    BY <2>1, OnIs
<1>2. b \in OnSet /\ b.name = "BURST" /\ b.fn = "init_events"
  <2>1. "BURST" \in EventNames /\ "init_events" \in Handlers
    BY DEF EventNames, Handlers
  <2>2. QED
    BY <2>1, OnIs
<1>3. GScan.adds = ons /\ GScan.fns = {"scan_nick"}
  BY DEF GScan
<1> HIDE DEF a, b
<1>4. ons \in Seq(OnSet) /\ Len(ons) = 2 /\ ons[1] = a /\ ons[2] = b
  BY <1>1, <1>2
<1> HIDE DEF ons
<1>5. \A k \in 1..Len(ons) : k \in {1, 2}
  BY <1>4
<1>6. Info[m].fns = {"scan_nick"}
  BY <1>3
<1>7. Suits(a, m) /\ Suits(b, m)
  BY <1>1, <1>2, <1>6 DEF Suits, Forgotten, QueueTimers
<1>8. \A j, k \in 1..Len(ons) : ons[j].fn = ons[k].fn => j = k
  BY <1>1, <1>2, <1>4, <1>5
<1>9. \A k \in 1..Len(ons) : Suits(ons[k], m) /\ ons[k].fn # "mod_event_shutdown"
  BY <1>1, <1>2, <1>4, <1>5, <1>7
<1>10. QED
  BY <1>3, <1>4, <1>8, <1>9 DEF Adding

LEMMA FiveOns ==
    ASSUME NEW a \in OnSet, NEW b \in OnSet, NEW c \in OnSet, NEW d \in OnSet, NEW e \in OnSet
    PROVE  /\ <<a, b, c, d, e>> \in Seq(OnSet) /\ Len(<<a, b, c, d, e>>) = 5
           /\ <<a, b, c, d, e>>[1] = a /\ <<a, b, c, d, e>>[2] = b /\ <<a, b, c, d, e>>[3] = c
           /\ <<a, b, c, d, e>>[4] = d /\ <<a, b, c, d, e>>[5] = e
OBVIOUS

LEMMA AdditionsWatch == ASSUME NEW m, m = "g_watch", Info[m] = GWatch PROVE Adding(m, GWatch.adds)
<1> DEFINE a == Every("WatchQueue", "evh_watchqueue")
           b == On("REHASH", "load_watch")
           c == On("CHANJOIN", "evh_chan_join")
           d == On("USERCONN", "evh_user")
           e == On("SAVEDB", "save_watchdb")
           ons == <<a, b, c, d, e>>
<1>1. a \in OnSet /\ a.name = "WatchQueue" /\ a.fn = "evh_watchqueue"
  <2>1. "WatchQueue" \in EventNames /\ "evh_watchqueue" \in Handlers
    BY DEF EventNames, Handlers
  <2>2. QED
    BY <2>1, OnIs
<1>2. b \in OnSet /\ b.name = "REHASH" /\ b.fn = "load_watch"
  <2>1. "REHASH" \in EventNames /\ "load_watch" \in Handlers
    BY DEF EventNames, Handlers
  <2>2. QED
    BY <2>1, OnIs
<1>3. c \in OnSet /\ c.name = "CHANJOIN" /\ c.fn = "evh_chan_join"
  <2>1. "CHANJOIN" \in EventNames /\ "evh_chan_join" \in Handlers
    BY DEF EventNames, Handlers
  <2>2. QED
    BY <2>1, OnIs
<1>4. d \in OnSet /\ d.name = "USERCONN" /\ d.fn = "evh_user"
  <2>1. "USERCONN" \in EventNames /\ "evh_user" \in Handlers
    BY DEF EventNames, Handlers
  <2>2. QED
    BY <2>1, OnIs
<1>5. e \in OnSet /\ e.name = "SAVEDB" /\ e.fn = "save_watchdb"
  <2>1. "SAVEDB" \in EventNames /\ "save_watchdb" \in Handlers
    BY DEF EventNames, Handlers
  <2>2. QED
    BY <2>1, OnIs
<1>6. GWatch.adds = ons /\ GWatch.fns = {"evh_chan_join", "evh_user", "save_watchdb", "load_watch"}
  BY DEF GWatch
<1> HIDE DEF a, b, c, d, e
<1>7. ons \in Seq(OnSet) /\ Len(ons) = 5 /\ ons[1] = a /\ ons[2] = b /\ ons[3] = c /\ ons[4] = d /\ ons[5] = e
  BY <1>1, <1>2, <1>3, <1>4, <1>5, FiveOns
<1> HIDE DEF ons
<1>8. \A k \in 1..Len(ons) : k \in {1, 2, 3, 4, 5}
  BY <1>7
<1>9. Info[m].fns = {"evh_chan_join", "evh_user", "save_watchdb", "load_watch"}
  BY <1>6
<1>10. Suits(a, m) /\ Suits(b, m) /\ Suits(c, m) /\ Suits(d, m) /\ Suits(e, m)
  BY <1>1, <1>2, <1>3, <1>4, <1>5, <1>9 DEF Suits, Forgotten, QueueTimers
<1>11. \A j, k \in 1..Len(ons) : ons[j].fn = ons[k].fn => j = k
  BY <1>1, <1>2, <1>3, <1>4, <1>5, <1>7, <1>8
<1>12. \A k \in 1..Len(ons) : Suits(ons[k], m) /\ ons[k].fn # "mod_event_shutdown"
  BY <1>1, <1>2, <1>3, <1>4, <1>5, <1>7, <1>8, <1>10
<1>13. QED
  BY <1>6, <1>7, <1>11, <1>12 DEF Adding

LEMMA AdditionsOmegastats == ASSUME NEW m, m = "m_omegastats", Info[m] = MOmegastats PROVE Adding(m, MOmegastats.adds)
<1> DEFINE a == Every("Omega Stats First Run", "evh_first_run")
           ons == <<a>>
<1>1. a \in OnSet /\ a.name = "Omega Stats First Run" /\ a.fn = "evh_first_run"
  <2>1. "Omega Stats First Run" \in EventNames /\ "evh_first_run" \in Handlers
    BY DEF EventNames, Handlers
  <2>2. QED
    BY <2>1, OnIs
<1>2. MOmegastats.adds = ons /\ MOmegastats.fns = {}
  BY DEF MOmegastats
<1> HIDE DEF a
<1>3. ons \in Seq(OnSet) /\ Len(ons) = 1 /\ ons[1] = a
  BY <1>1, OneOn
<1> HIDE DEF ons
<1>4. \A k \in 1..Len(ons) : k \in {1}
  BY <1>3
<1>5. Info[m].fns = {}
  BY <1>2
<1>6. Suits(a, m)
  BY <1>1, <1>5 DEF Suits, Forgotten, QueueTimers
<1>7. \A j, k \in 1..Len(ons) : ons[j].fn = ons[k].fn => j = k
  BY <1>1, <1>3, <1>4
<1>8. \A k \in 1..Len(ons) : Suits(ons[k], m) /\ ons[k].fn # "mod_event_shutdown"
  BY <1>1, <1>3, <1>4, <1>6
<1>9. QED
  BY <1>2, <1>3, <1>7, <1>8 DEF Adding

LEMMA AdditionsFantasy == ASSUME NEW m, m = "m_fantasy", Info[m] = MFantasy PROVE Adding(m, MFantasy.adds)
<1> DEFINE a == On("REHASH", "evh_rehash")
           ons == <<a>>
<1>1. a \in OnSet /\ a.name = "REHASH" /\ a.fn = "evh_rehash"
  <2>1. "REHASH" \in EventNames /\ "evh_rehash" \in Handlers
    BY DEF EventNames, Handlers
  <2>2. QED
    BY <2>1, OnIs
<1>2. MFantasy.adds = ons /\ MFantasy.fns = {}
  BY DEF MFantasy
<1> HIDE DEF a
<1>3. ons \in Seq(OnSet) /\ Len(ons) = 1 /\ ons[1] = a
  BY <1>1, OneOn
<1> HIDE DEF ons
<1>4. \A k \in 1..Len(ons) : k \in {1}
  BY <1>3
<1>5. Info[m].fns = {}
  BY <1>2
<1>6. Suits(a, m)
  BY <1>1, <1>5 DEF Suits, Forgotten, QueueTimers
<1>7. \A j, k \in 1..Len(ons) : ons[j].fn = ons[k].fn => j = k
  BY <1>1, <1>3, <1>4
<1>8. \A k \in 1..Len(ons) : Suits(ons[k], m) /\ ons[k].fn # "mod_event_shutdown"
  BY <1>1, <1>3, <1>4, <1>6
<1>9. QED
  BY <1>2, <1>3, <1>7, <1>8 DEF Adding


LEMMA ModuleAdds ==
    ASSUME NEW m \in DOMAIN Info PROVE Adding(m, Info[m].adds)
BY InfoIs, NoneAdded, AdditionsSessions, AdditionsScan, AdditionsWatch, AdditionsOmegastats, AdditionsFantasy

-----------------------------------------------------------------------------
(* Modules are opened *)

\* The nodes belong where they are also when more modules are loaded.
LEMMA ListedMore ==
    ASSUME NEW l, NEW ms, Listed(l, ms), NEW more, ms \subseteq more
    PROVE  Listed(l, more)
BY DEF Listed, Homely

\* A module that is not loaded yet adds what it has.
LEMMA ModuleAdded ==
    ASSUME NEW l, NEW ms, Listed(l, ms), NEW m \in DOMAIN Info, m \notin ms
    PROVE  /\ Listed(AddAll(l, m, Info[m].adds), ms \cup {m})
           /\ Rest(l) => Rest(AddAll(l, m, Info[m].adds))
<1> DEFINE ons == Info[m].adds
<1>1. Adding(m, ons)
  BY ModuleAdds
<1>2. m # "core" /\ m # Gone
  BY Modular, GoneAssumption
<1> HIDE DEF ons
<1>3. l \in Seq(Node) /\ \A i \in DOMAIN l : l[i].owner # m
  BY <1>2 DEF Listed, Homely
<1>4. ons \in Seq(OnSet) /\ Suited(l, m, ons)
  BY <1>1, <1>3 DEF Adding, Suited
<1>5. Listed(l, ms \cup {m})
  BY ListedMore
<1>6. Listed(AddAll(l, m, ons), ms \cup {m})
  BY <1>4, <1>5, AddedListed
<1>7. Rest(l) => Rest(AddAll(l, m, ons))
  BY <1>3, <1>4, AddedRest
<1>8. QED
  BY <1>6, <1>7 DEF ons

\* Whatever becomes of opening a module, the list is as it should be.
LEMMA OpensKeeps ==
    ASSUME NEW mods \in Seq(DOMAIN Info), NEW l, Listed(l, ToSet(mods)), Rest(l), NEW m \in DOMAIN Info,
           NEW o \in Opens(m, l, mods), Opened(m, o, mods)
    PROVE  Listed(events', ToSet(loaded')) /\ Rest(events')
<1>1. events' = o.list /\ loaded' = IF o.result = "ok" THEN Append(mods, m) ELSE mods
  BY DEF Opened
<1>2. \/ o.result \in {"exists", "bad"} /\ o.list = l
      \/ o.result = "ok" /\ o.list = AddAll(l, m, Info[m].adds) /\ m \notin ToSet(mods)
      \/ o.result \in {"dependency", "refused"} /\ o.list = Closed(l, {m}) /\ m \notin ToSet(mods)
  BY DEF Opens
<1>3. CASE o.result \in {"exists", "bad"} /\ o.list = l
  BY <1>1, <1>3
<1>4. CASE o.result = "ok" /\ o.list = AddAll(l, m, Info[m].adds) /\ m \notin ToSet(mods)
  <2>1. ToSet(loaded') = ToSet(mods) \cup {m}
    BY <1>1, <1>4, AppendAdds
  <2>2. Listed(AddAll(l, m, Info[m].adds), ToSet(mods) \cup {m}) /\ Rest(AddAll(l, m, Info[m].adds))
    BY <1>4, ModuleAdded
  <2>3. events' = AddAll(l, m, Info[m].adds)
    BY <1>1, <1>4
  <2>4. QED
    BY <2>1, <2>2, <2>3
<1>5. CASE o.result \in {"dependency", "refused"} /\ o.list = Closed(l, {m}) /\ m \notin ToSet(mods)
  <2>1. {m} \in SUBSET (DOMAIN Info) /\ ToSet(mods) \ {m} = ToSet(mods)
    BY <1>5
  <2>2. Listed(Closed(l, {m}), ToSet(mods) \ {m}) /\ Rest(Closed(l, {m}))
    BY <2>1, ClosedIs
  <2>3. loaded' = mods
    BY <1>1, <1>5
  <2>4. QED
    BY <1>1, <1>5, <2>1, <2>2, <2>3
<1>6. QED
  BY <1>2, <1>3, <1>4, <1>5

-----------------------------------------------------------------------------
(* Steps between the walks *)

\* What is known of the list when no walk is under way, and what has to be shown of it.
LEMMA AtRest ==
    ASSUME EventInv, walk = Idle
    PROVE  Listed(events, ToSet(loaded)) /\ Rest(events) /\ halted \in BOOLEAN
BY DEF EventInv, Stands, Idle

LEMMA RestAgain ==
    ASSUME UNCHANGED <<setup, walk, halted>>, walk = Idle, halted \in BOOLEAN,
           Listed(events', ToSet(loaded')), Rest(events')
    PROVE  EventInv'
<1>1. walk' = Idle /\ halted' \in BOOLEAN
  OBVIOUS
<1>2. Stands(events', Idle)
  BY DEF Stands, Idle
<1>3. QED
  BY <1>1, <1>2, EventInvAgain

LEMMA RunModQueRight ==
    ASSUME LoadInv, EventInv, RunModQue, UNCHANGED setup PROVE EventInv'
<1> DEFINE mq == que[at]
           m  == mq.name
<1>1. /\ phase = "start" /\ at \in DOMAIN que /\ UNCHANGED <<walk, halted>>
      /\ \/ UNCHANGED <<events, loaded>>
         \/ \E o \in Opens(m, events, loaded) : Opened(m, o, loaded)
  BY DEF RunModQue
<1>2. walk = Idle /\ que \in Seq(Entry)
  BY <1>1 DEF LoadInv, LoaderRight, TypeOK, Entry
<1>3. m \in DOMAIN Info
  <2>1. mq \in Entry
    BY <1>1, <1>2
  <2>2. m \in Files
    BY <2>1 DEF Entry
  <2>3. QED
    BY <2>2, LoadedExist
<1> HIDE DEF m
<1>4. Listed(events, ToSet(loaded)) /\ Rest(events) /\ halted \in BOOLEAN /\ loaded \in Seq(DOMAIN Info)
  BY <1>2, AtRest, LoadedExist
<1>5. CASE UNCHANGED <<events, loaded>>
  BY <1>1, <1>2, <1>4, <1>5, RestAgain
<1>6. CASE \E o \in Opens(m, events, loaded) : Opened(m, o, loaded)
  <2>1. Listed(events', ToSet(loaded')) /\ Rest(events')
    BY <1>3, <1>4, <1>6, OpensKeeps
  <2>2. QED
    BY <1>1, <1>2, <1>4, <2>1, RestAgain
<1>7. QED
  BY <1>1, <1>5, <1>6

\* The hooks of the loader: that of REHASH is added behind that of SHUTDOWN.
LEMMA HooksSuited ==
    ASSUME setup \in Setups, NEW l PROVE Hooks \in Seq(OnSet) /\ Suited(l, "core", Hooks)
<1> DEFINE a == On("SHUTDOWN", "mod_event_shutdown")
           b == On("REHASH", "mod_event_rehash")
           ons == <<a, b>>
<1>1. Hooks = ons
  BY DEF Hooks
<1>2. a \in OnSet /\ a.name = "SHUTDOWN" /\ a.fn = "mod_event_shutdown"
  <2>1. "SHUTDOWN" \in EventNames /\ "mod_event_shutdown" \in Handlers
    BY DEF EventNames, Handlers
  <2>2. QED
    BY <2>1, OnIs
<1>3. b \in OnSet /\ b.name = "REHASH" /\ b.fn = "mod_event_rehash"
  <2>1. "REHASH" \in EventNames /\ "mod_event_rehash" \in Handlers
    BY DEF EventNames, Handlers
  <2>2. QED
    BY <2>1, OnIs
<1> HIDE DEF a, b
<1>4. ons \in Seq(OnSet) /\ Len(ons) = 2 /\ ons[1] = a /\ ons[2] = b
  BY <1>2, <1>3, TwoOns
<1> HIDE DEF ons
<1>5. \A k \in 1..Len(ons) : k = 1 \/ k = 2
  BY <1>4
<1>6. "core" \notin DOMAIN Info
  BY Modular
<1>7. Suits(a, "core") /\ Suits(b, "core")
  BY <1>2, <1>3, <1>6 DEF Suits, QueueTimers
<1>8. "SHUTDOWN" \in Names => "REHASH" \in Names
  BY SetupsAssumption DEF Names
<1>9. ASSUME NEW k \in 1..Len(ons)
      PROVE  /\ Suits(ons[k], "core")
             /\ ons[k].fn = "mod_event_shutdown" /\ ons[k].name \in Names
                  => k + 1 \in 1..Len(ons) /\ ons[k + 1].name = "REHASH" /\ "REHASH" \in Names
  <2>1. CASE k = 1
    BY <1>2, <1>3, <1>4, <1>7, <1>8, <2>1
  <2>2. CASE k = 2
    BY <1>3, <1>4, <1>7, <2>2
  <2>3. QED
    BY <1>5, <2>1, <2>2
<1>10. Suited(l, "core", ons)
  BY <1>6, <1>9 DEF Suited
<1>11. QED
  BY <1>1, <1>4, <1>10

LEMMA StartedRight ==
    ASSUME LoadInv, EventInv, Started, UNCHANGED setup PROVE EventInv'
<1> DEFINE l == AddAll(events, "core", Hooks)
           ms == ToSet(loaded)
<1>1. /\ phase = "start" /\ UNCHANGED <<walk, halted, loaded>>
      /\ events' = l \/ events' = WithRetry(l)
  BY DEF Started
<1>2. walk = Idle /\ setup \in Setups
  BY <1>1 DEF LoadInv
<1>3. Listed(events, ms) /\ Rest(events) /\ halted \in BOOLEAN /\ events \in Seq(Node)
  BY <1>2, AtRest DEF Listed
<1> HIDE DEF ms
<1>4. "core" \in DOMAIN Info \cup {"core"} /\ "core" \in ms \cup {"core"}
  OBVIOUS
<1>5. Hooks \in Seq(OnSet) /\ Suited(events, "core", Hooks)
  BY <1>2, HooksSuited
<1>6. Listed(l, ms) /\ Rest(l)
  BY <1>3, <1>4, <1>5, AddedListed, AddedRest
<1> HIDE DEF l
<1>7. Listed(WithRetry(l), ms) /\ Rest(WithRetry(l))
  BY <1>6, RetryKeeps
<1>8. Listed(events', ToSet(loaded')) /\ Rest(events')
  BY <1>1, <1>6, <1>7 DEF ms
<1>9. QED
  BY <1>1, <1>2, <1>3, <1>8, RestAgain

\* A module that is closed is no longer loaded, and its nodes are gone or forgotten.
LEMMA ModuleGone ==
    ASSUME LoadInv, EventInv, walk = Idle, NEW m, CanClose(m)
    PROVE  /\ RemoveFirst(loaded, m) \in Seq(DOMAIN Info) /\ m \in DOMAIN Info
           /\ Listed(Closed(events, {m}), ToSet(RemoveFirst(loaded, m))) /\ Rest(Closed(events, {m}))
<1> DEFINE Known == DOMAIN Info
           rest  == RemoveFirst(loaded, m)
<1>1. loaded \in Seq(Known) /\ IsInjective(loaded) /\ m \in ToSet(loaded) /\ m \in Known
  BY ListOfModules, LoadedExist DEF CanClose
<1> HIDE DEF Known
<1>2. rest \in Seq(Known) /\ ToSet(rest) = ToSet(loaded) \ {m}
  BY <1>1, RemovedKeeps, ZenonT(60)
<1> HIDE DEF rest
<1>3. Listed(events, ToSet(loaded)) /\ Rest(events)
  BY AtRest
<1>4. {m} \in SUBSET (DOMAIN Info)
  BY <1>1 DEF Known
<1>5. Listed(Closed(events, {m}), ToSet(loaded) \ {m}) /\ Rest(Closed(events, {m}))
  BY <1>3, <1>4, ClosedIs
<1>6. QED
  BY <1>1, <1>2, <1>5 DEF rest, Known

LEMMA CommandsRight ==
    ASSUME LoadInv, EventInv, UNCHANGED setup, NEW m \in Files, ModLoad(m) \/ ModUnload(m) \/ ModReload(m)
    PROVE  EventInv'
<1>1. walk = Idle /\ UNCHANGED <<walk, halted>>
  BY DEF ModLoad, ModUnload, ModReload, Commands
<1>2. /\ Listed(events, ToSet(loaded)) /\ Rest(events) /\ halted \in BOOLEAN
      /\ loaded \in Seq(DOMAIN Info) /\ m \in DOMAIN Info
  BY <1>1, AtRest, LoadedExist
<1>3. CASE ModLoad(m)
  <2>1. \E o \in Opens(m, events, loaded) : Opened(m, o, loaded)
    BY <1>3 DEF ModLoad
  <2>2. Listed(events', ToSet(loaded')) /\ Rest(events')
    BY <1>2, <2>1, OpensKeeps
  <2>3. QED
    BY <1>1, <1>2, <2>2, RestAgain
<1>4. CASE ModUnload(m)
  <2>1. CanClose(m) /\ events' = Closed(events, {m}) /\ loaded' = RemoveFirst(loaded, m)
    BY <1>4 DEF ModUnload
  <2>2. Listed(events', ToSet(loaded')) /\ Rest(events')
    BY <1>1, <2>1, ModuleGone
  <2>3. QED
    BY <1>1, <1>2, <2>2, RestAgain
<1>5. CASE ModReload(m)
  <2> DEFINE l == Closed(events, {m})
             rest == RemoveFirst(loaded, m)
  <2>1. CanClose(m) /\ \E o \in Opens(m, l, rest) : Opened(m, o, rest)
    BY <1>5 DEF ModReload
  <2>2. rest \in Seq(DOMAIN Info) /\ Listed(l, ToSet(rest)) /\ Rest(l)
    BY <1>1, <2>1, ModuleGone
  <2> HIDE DEF l, rest
  <2>3. Listed(events', ToSet(loaded')) /\ Rest(events')
    BY <1>2, <2>1, <2>2, OpensKeeps
  <2>4. QED
    BY <1>1, <1>2, <2>3, RestAgain
<1>6. QED
  BY <1>3, <1>4, <1>5

-----------------------------------------------------------------------------
(* The main loop *)

LEMMA TimersGo == Going([Idle EXCEPT !.kind = "timed"])
<1> DEFINE i == Idle
           w == [i EXCEPT !.kind = "timed"]
<1>1. i = [kind |-> "none", name |-> "", more |-> FALSE]
  BY DEF Idle
<1> HIDE DEF i
<1>2. ASSUME NEW v, v = [i EXCEPT !.kind = "timed"] PROVE Going(v)
  <2>1. v = [kind |-> "timed", name |-> "", more |-> FALSE]
    BY <1>1, <1>2
  <2>2. QED
    BY <2>1 DEF Going
<1>3. Going(w)
  BY <1>2
<1>4. QED
  BY <1>3 DEF i

LEMMA EventsGo == ASSUME NEW name PROVE Going([Idle EXCEPT !.kind = "emit", !.name = name])
<1> DEFINE i == Idle
           w == [i EXCEPT !.kind = "emit", !.name = name]
<1>1. i = [kind |-> "none", name |-> "", more |-> FALSE]
  BY DEF Idle
<1> HIDE DEF i
<1>2. ASSUME NEW v, v = [i EXCEPT !.kind = "emit", !.name = name] PROVE Going(v)
  <2>1. v = [kind |-> "emit", name |-> name, more |-> FALSE]
    BY <1>1, <1>2
  <2>2. QED
    BY <2>1 DEF Going
<1>3. Going(w)
  BY <1>2
<1>4. QED
  BY <1>3 DEF i

\* A walk over the list begins.
LEMMA BeginRight ==
    ASSUME EventInv, UNCHANGED <<setup, loaded>>, RunTimedEvents \/ \E name : EventEx(name)
    PROVE  EventInv'
<1>1. \E w : Going(w) /\ Begin(w)
  <2>1. CASE RunTimedEvents
    BY <2>1, TimersGo DEF RunTimedEvents
  <2>2. CASE \E name : EventEx(name)
    <3>1. PICK name : EventEx(name)
      BY <2>2
    <3>2. QED
      BY <3>1, EventsGo DEF EventEx
  <2>3. QED
    BY <2>1, <2>2
<1>1a. PICK w : Going(w) /\ Begin(w)
  BY <1>1
<1>2. walk = Idle
  BY <1>1a DEF Begin
<1>3. Listed(events, ToSet(loaded)) /\ Rest(events)
  BY <1>2, AtRest
<1>4. Listed(events', ToSet(loaded)) /\ Stands(events', walk') /\ halted' \in BOOLEAN
  BY <1>1a, <1>3, BeginKeeps
<1>5. QED
  BY <1>4, EventInvAgain

\* A node the walk does not call is passed over.
LEMMA SkipRight ==
    ASSUME EventInv, Skip, UNCHANGED <<setup, loaded>> PROVE EventInv'
<1>1. walk # Idle /\ Marked("cur") # {} /\ Advance(events) /\ UNCHANGED halted
  BY DEF Skip
<1>2. Listed(events, ToSet(loaded)) /\ Stands(events, walk) /\ halted \in BOOLEAN /\ events \in Seq(Node)
  BY DEF EventInv, Listed
<1>3. Going(walk) /\ Ready(events, walk.more)
  BY <1>1, <1>2, CurrentIs
<1>4. Listed(events', ToSet(loaded)) /\ Stands(events', walk')
  BY <1>1, <1>2, <1>3, Advanced
<1>5. QED
  BY <1>1, <1>2, <1>4, EventInvAgain

LEMMA ListedTimes ==
    ASSUME NEW l, NEW ms, Listed(l, ms)
    PROVE  l \in Seq(Node) /\ \A k \in DOMAIN l : l[k] \in Node /\ (l[k].due => l[k].timed)
<1>1. l \in Seq(Node) /\ \A k \in DOMAIN l : l[k] \in Node /\ Homely(l[k], ms)
  BY DEF Listed
<1>2. ASSUME NEW k \in DOMAIN l PROVE l[k] \in Node /\ (l[k].due => l[k].timed)
  <2> DEFINE n == l[k]
  <2>1. n \in Node /\ Homely(n, ms)
    BY <1>1
  <2> HIDE DEF n
  <2>2. n.due => n.timed
    BY <2>1 DEF Homely
  <2>3. QED
    BY <2>1, <2>2 DEF n
<1>3. QED
  BY <1>1, <1>2

\* A timer reaches its time.
LEMMA TickRight ==
    ASSUME EventInv, Tick, UNCHANGED <<setup, loaded>> PROVE EventInv'
<1>1. walk = Idle /\ UNCHANGED <<walk, halted>>
  BY DEF Tick
<1>2. PICK i \in DOMAIN events : events[i].timed /\ events' = [events EXCEPT ![i].due = TRUE]
  BY DEF Tick
<1>3. Listed(events, ToSet(loaded)) /\ Rest(events) /\ halted \in BOOLEAN
  BY <1>1, AtRest
<1>4. events \in Seq(Node) /\ \A k \in DOMAIN events : events[k] \in Node /\ (events[k].due => events[k].timed)
  BY <1>3, ListedTimes
<1>5. ASSUME NEW k \in DOMAIN events
      PROVE  /\ events'[k] \in Node /\ events'[k].name = events[k].name /\ events'[k].owner = events[k].owner
             /\ events'[k].fn = events[k].fn /\ (events'[k].due => events'[k].timed) /\ events'[k].marks = events[k].marks
  <2> DEFINE n == events[k]
             a == [n EXCEPT !.due = TRUE]
  <2>1. n \in Node /\ (n.due => n.timed) /\ (events'[k] = n \/ (events'[k] = a /\ n.timed))
    BY <1>2, <1>4
  <2> HIDE DEF n
  <2>2. a \in Node /\ a.marks = n.marks /\ a.name = n.name /\ a.owner = n.owner /\ a.fn = n.fn /\ a.timed = n.timed
    BY <2>1 DEF Node
  <2> HIDE DEF a
  <2>3. QED
    BY <2>1, <2>2 DEF n
<1>6. events' \in Seq(Node) /\ DOMAIN events' = DOMAIN events
  <2>1. events' = [k \in DOMAIN events |-> events'[k]]
    BY <1>2
  <2>2. \A k \in DOMAIN events : events'[k] \in Node
    BY <1>5
  <2>3. QED
    BY <1>4, <2>1, <2>2, MadeOf
<1>7. SameNodes(events, events') /\ Rest(events')
  BY <1>3, <1>5, <1>6 DEF SameNodes, Rest
<1>8. Listed(events', ToSet(loaded)) /\ Rest(events')
  BY <1>3, <1>7, SameListed
<1>9. QED
  BY <1>1, <1>3, <1>8, RestAgain

LEMMA LoopRight ==
    ASSUME LoadInv, EventInv, LoopStep, UNCHANGED setup PROVE EventInv'
<1>1. CASE \E name \in Names : Emit(name)
  BY <1>1, BeginRight DEF Emit, loadVars
<1>2. CASE Timers
  BY <1>2, BeginRight DEF Timers, loadVars
<1>3. CASE Burst
  BY <1>3, BeginRight DEF Burst, loadVars
<1>4. CASE LinkLost
  <2>1. walk = Idle /\ UNCHANGED <<walk, halted, loaded>> /\ events' = WithRetry(events)
    BY <1>4 DEF LinkLost, Commands, loadVars
  <2>2. Listed(events, ToSet(loaded)) /\ Rest(events) /\ halted \in BOOLEAN
    BY <2>1, AtRest
  <2>3. Listed(events', ToSet(loaded')) /\ Rest(events')
    BY <2>1, <2>2, RetryKeeps
  <2>4. QED
    BY <2>1, <2>2, <2>3, RestAgain
<1>5. CASE Exit
  BY <1>5, BeginRight DEF Exit, loadVars
<1>6. CASE Ended
  <2>1. UNCHANGED <<events, walk, halted, loaded>>
    BY <1>6 DEF Ended, eventVars, loadVars
  <2>2. QED
    BY <2>1, EventInvAgain DEF EventInv
<1>7. CASE Skip /\ UNCHANGED <<loadVars, link, phase>>
  BY <1>7, SkipRight DEF loadVars
<1>8. CASE Tick /\ UNCHANGED <<loadVars, link, phase>>
  BY <1>8, TickRight DEF loadVars
<1>9. QED
  BY <1>1, <1>2, <1>3, <1>4, <1>5, <1>6, <1>7, <1>8 DEF LoopStep

LEMMA EventStep == LoadInv /\ EventInv /\ [Next]_vars => EventInv'
<1> SUFFICES ASSUME LoadInv, EventInv, [Next]_vars PROVE EventInv'
  OBVIOUS
<1>1. CASE RunModQue /\ UNCHANGED setup
  BY <1>1, RunModQueRight
<1>2. CASE NextPass /\ UNCHANGED setup
  <2>1. UNCHANGED <<events, walk, halted, loaded>>
    BY <1>2 DEF NextPass, eventVars
  <2>2. QED
    BY <1>2, <2>1, EventInvAgain DEF EventInv
<1>3. CASE Started /\ UNCHANGED setup
  BY <1>3, StartedRight
<1>4. CASE Handler /\ UNCHANGED setup
  BY <1>4, HandlerRight
<1>5. CASE (\E m \in Files : ModLoad(m) \/ ModUnload(m) \/ ModReload(m)) /\ UNCHANGED setup
  BY <1>5, CommandsRight
<1>6. CASE LoopStep /\ UNCHANGED setup
  BY <1>6, LoopRight
<1>7. CASE UNCHANGED vars
  <2>1. UNCHANGED <<events, walk, halted, loaded, setup>>
    BY <1>7 DEF vars, eventVars, loadVars
  <2>2. QED
    BY <2>1, EventInvAgain DEF EventInv
<1>8. QED
  BY <1>1, <1>2, <1>3, <1>4, <1>5, <1>6, <1>7 DEF Next, Changes, Startup, Step, LoopStep

-----------------------------------------------------------------------------
(* The list when the daemon starts *)

\* The handlers of the core.
LEMMA BootSuited == ASSUME NEW l PROVE Boot \in Seq(OnSet) /\ Suited(l, "core", Boot)
<1> DEFINE a == Every("House Keeping", "ev_housekeeping")
           b == On("BURST", "burst_local_users")
           c == On("BURST", "burst_local_servers")
           d == On("CONNECT", "introduce_users")
           e == On("REHASH", "evh_access_rehash")
           ons == <<a, b, c, d, e>>
<1>1. a \in OnSet /\ a.name = "House Keeping" /\ a.fn = "ev_housekeeping"
  <2>1. "House Keeping" \in EventNames /\ "ev_housekeeping" \in Handlers
    BY DEF EventNames, Handlers
  <2>2. QED
    BY <2>1, OnIs
<1>2. b \in OnSet /\ b.name = "BURST" /\ b.fn = "burst_local_users"
  <2>1. "BURST" \in EventNames /\ "burst_local_users" \in Handlers
    BY DEF EventNames, Handlers
  <2>2. QED
    BY <2>1, OnIs
<1>3. c \in OnSet /\ c.name = "BURST" /\ c.fn = "burst_local_servers"
  <2>1. "BURST" \in EventNames /\ "burst_local_servers" \in Handlers
    BY DEF EventNames, Handlers
  <2>2. QED
    BY <2>1, OnIs
<1>4. d \in OnSet /\ d.name = "CONNECT" /\ d.fn = "introduce_users"
  <2>1. "CONNECT" \in EventNames /\ "introduce_users" \in Handlers
    BY DEF EventNames, Handlers
  <2>2. QED
    BY <2>1, OnIs
<1>5. e \in OnSet /\ e.name = "REHASH" /\ e.fn = "evh_access_rehash"
  <2>1. "REHASH" \in EventNames /\ "evh_access_rehash" \in Handlers
    BY DEF EventNames, Handlers
  <2>2. QED
    BY <2>1, OnIs
<1>6. Boot = ons
  BY DEF Boot
<1> HIDE DEF a, b, c, d, e
<1>7. ons \in Seq(OnSet) /\ Len(ons) = 5 /\ ons[1] = a /\ ons[2] = b /\ ons[3] = c /\ ons[4] = d /\ ons[5] = e
  BY <1>1, <1>2, <1>3, <1>4, <1>5, FiveOns
<1> HIDE DEF ons
<1>8. \A k \in 1..Len(ons) : k \in {1, 2, 3, 4, 5}
  BY <1>7
<1>9. "core" \notin DOMAIN Info
  BY Modular
<1>10. Suits(a, "core") /\ Suits(b, "core") /\ Suits(c, "core") /\ Suits(d, "core") /\ Suits(e, "core")
  BY <1>1, <1>2, <1>3, <1>4, <1>5, <1>9 DEF Suits, QueueTimers
<1>11. \A k \in 1..Len(ons) : Suits(ons[k], "core") /\ ons[k].fn # "mod_event_shutdown"
  BY <1>1, <1>2, <1>3, <1>4, <1>5, <1>7, <1>8, <1>10
<1>12. Suited(l, "core", ons)
  BY <1>9, <1>11 DEF Suited
<1>13. QED
  BY <1>6, <1>7, <1>12
\* Modules add what they have, one after the other.
LEMMA CoreStages ==
    ASSUME NEW l0 \in Seq(Node), NEW mods \in Seq(DOMAIN Info)
    PROVE  \E a : /\ a[0] = l0 /\ a[Len(mods)] = FoldLeft(LAMBDA x, m : AddAll(x, m, Info[m].adds), l0, mods)
                /\ \A k \in 0..(Len(mods) - 1) : a[k + 1] = AddAll(a[k], mods[k + 1], Info[mods[k + 1]].adds)
<1> DEFINE A == Seq(Node)
           l == mods
           N == Len(l)
           base == l0
           Op(x, k) == AddAll(x, l[k], Info[l[k]].adds)
           F == [y \in (1..N) \X A |-> Op(y[2], y[1])]
           Is(h) == h = [s \in SUBSET (1..N) |-> IF s = {} THEN base ELSE Op(h[s \ {Max(s)}], Max(s))]
           f == CHOOSE h : Is(h)
<1>1. N \in Nat /\ DOMAIN l = 1..N /\ base \in A
  OBVIOUS
<1>2. ASSUME NEW x \in A, NEW k \in 1..N PROVE Op(x, k) \in A
  <2>1. l[k] \in DOMAIN Info
    OBVIOUS
  <2>2. Info[l[k]].adds \in Seq(OnSet)
    BY <2>1, ModuleAdds DEF Adding
  <2>3. QED
    BY <2>1, <2>2, AddedRest
<1>3. FoldLeft(LAMBDA x, m : AddAll(x, m, Info[m].adds), l0, mods) = f[1..N]
  BY <1>1 DEF FoldLeft, MapThenFoldSet
<1> HIDE DEF A, l, N, Op, base
<1>4. F \in [(1..N) \X A -> A] /\ \A k \in 1..N, x \in A : F[<<k, x>>] = Op(x, k)
  BY <1>2
<1> HIDE DEF F
<1>5. PICK g : Folds(g, A, base, N, F)
  BY <1>1, <1>4, FoldExists
<1>6. Is(g)
  <2>0. Steps(g, A, base, N, F)
    BY <1>1, <1>5, FoldSteps
  <2>1. g = [s \in SUBSET (1..N) |-> g[s]]
    BY <2>0 DEF Steps
  <2>2. ASSUME NEW s \in SUBSET (1..N)
        PROVE  g[s] = IF s = {} THEN base ELSE Op(g[s \ {Max(s)}], Max(s))
    BY <1>4, <2>0 DEF Steps
  <2>3. [s \in SUBSET (1..N) |-> g[s]] = [s \in SUBSET (1..N) |-> IF s = {} THEN base ELSE Op(g[s \ {Max(s)}], Max(s))]
    BY <2>2, Zenon
  <2>4. QED
    BY <2>1, <2>3
<1>7. f = [s \in SUBSET (1..N) |-> IF s = {} THEN base ELSE Op(f[s \ {Max(s)}], Max(s))]
  <2> HIDE DEF Is
  <2>1. Is(f)
    BY <1>6
  <2> HIDE DEF f
  <2>2. QED
    BY <2>1 DEF Is
<1> HIDE DEF f
<1>8. GoesAs(f, A, base, N, F)
  <2>1. \A s \in SUBSET (1..N) : s # {} => Max(s) \in 1..N
    BY <1>1, <1>5, FoldSteps DEF Steps
  <2>2. QED
    BY <1>4, <1>7, <2>1 DEF GoesAs
<1>9. \E a : Staged(a, A, base, N, F, f[1..N])
  BY <1>1, <1>4, <1>8, GoesStages
<1>10. PICK a : Staged(a, A, base, N, F, f[1..N])
  BY <1>9
<1>11. a[0] = base /\ a[N] = f[1..N]
  BY <1>10 DEF Staged
<1>12. ASSUME NEW k \in 0..(N - 1) PROVE a[k + 1] = Op(a[k], k + 1)
  <2>1. a \in [0..N -> A] /\ a[k + 1] = F[<<k + 1, a[k]>>]
    BY <1>10 DEF Staged
  <2>2. k \in 0..N /\ k + 1 \in 1..N
    BY <1>1
  <2>3. a[k] \in A
    BY <2>1, <2>2
  <2>4. QED
    BY <1>4, <2>1, <2>2, <2>3
<1>13. \A k \in 0..(N - 1) : a[k + 1] = AddAll(a[k], mods[k + 1], Info[mods[k + 1]].adds)
  BY <1>12 DEF Op, l
<1>14. QED
  BY <1>3, <1>11, <1>13 DEF N, base, l

LEMMA NothingListed ==
    ASSUME NEW ms PROVE <<>> \in Seq(Node) /\ Listed(<<>>, ms) /\ Rest(<<>>)
<1> DEFINE l == <<>>
<1>1. l \in Seq(Node) /\ DOMAIN l = {}
  OBVIOUS
<1> HIDE DEF l
<1>2. Listed(l, ms) /\ Rest(l)
  BY <1>1 DEF Listed, Once, Hooked, Rest
<1>3. QED
  BY <1>1, <1>2 DEF l

\* The modules of the core directory are opened one after the other, each once.
LEMMA CoreAdded ==
    ASSUME NEW l0, Listed(l0, {}), Rest(l0), NEW mods \in Seq(DOMAIN Info), IsInjective(mods)
    PROVE  /\ Listed(FoldLeft(LAMBDA x, m : AddAll(x, m, Info[m].adds), l0, mods), ToSet(mods))
           /\ Rest(FoldLeft(LAMBDA x, m : AddAll(x, m, Info[m].adds), l0, mods))
<1> DEFINE N == Len(mods)
           r == FoldLeft(LAMBDA x, m : AddAll(x, m, Info[m].adds), l0, mods)
           Open(k) == {mods[i] : i \in 1..k}
<1>1. l0 \in Seq(Node)
  BY DEF Listed
<1>2. PICK a : /\ a[0] = l0 /\ a[N] = r
               /\ \A k \in 0..(N - 1) : a[k + 1] = AddAll(a[k], mods[k + 1], Info[mods[k + 1]].adds)
  BY <1>1, CoreStages
<1>3. N \in Nat /\ \A i, j \in 1..N : mods[i] = mods[j] => i = j
  BY DEF IsInjective
<1> HIDE DEF r
<1> DEFINE G == {k \in 0..N : Listed(a[k], Open(k)) /\ Rest(a[k])}
<1>4. 0 \in G
  <2>1. Open(0) = {} /\ 0 \in 0..N
    BY <1>3
  <2>2. QED
    BY <1>2, <2>1
<1>5. ASSUME NEW k \in 0..(N - 1), k \in G PROVE k + 1 \in G
  <2> DEFINE m == mods[k + 1]
             ms == Open(k)
             l == a[k]
  <2>1. k + 1 \in 1..N /\ k + 1 \in 0..N /\ m \in DOMAIN Info
    BY <1>3
  <2>2. m \notin ms
    <3>1. \A i \in 1..k : i \in 1..N /\ i # k + 1
      BY <1>3
    <3>2. QED
      BY <1>3, <2>1, <3>1
  <2>3. Open(k + 1) = ms \cup {m}
    <3>1. \A i : i \in 1..(k + 1) <=> i \in 1..k \/ i = k + 1
      BY <1>3
    <3>2. QED
      BY <3>1
  <2>4. Listed(l, ms) /\ Rest(l)
    BY <1>5
  <2>5. a[k + 1] = AddAll(l, m, Info[m].adds)
    BY <1>2
  <2> HIDE DEF m, ms, l
  <2>6. Listed(AddAll(l, m, Info[m].adds), ms \cup {m}) /\ Rest(AddAll(l, m, Info[m].adds))
    BY <2>1, <2>2, <2>4, ModuleAdded
  <2>7. Listed(a[k + 1], Open(k + 1)) /\ Rest(a[k + 1])
    BY <2>3, <2>5, <2>6
  <2>8. QED
    BY <2>1, <2>7
<1>6. N \in G
  <2>1. \A k \in 0..N : k \in G
    <3> HIDE DEF G
    <3>1. QED
      BY <1>3, <1>4, <1>5, CountedUp
  <2>2. N \in 0..N
    BY <1>3
  <2>3. QED
    BY <2>1, <2>2
<1>7. Open(N) = ToSet(mods)
  BY <1>3 DEF ToSet
<1>8. Listed(r, ToSet(mods)) /\ Rest(r)
  BY <1>2, <1>6, <1>7
<1>9. QED
  BY <1>8 DEF r

LEMMA EventInit == Init => EventInv
<1> SUFFICES ASSUME Init PROVE EventInv
  OBVIOUS
<1> DEFINE boot == AddAll(<<>>, "core", Boot)
<1>1. /\ setup \in Setups /\ walk = Idle /\ halted = FALSE /\ loaded = Core
      /\ events = FoldLeft(LAMBDA l, m : AddAll(l, m, Info[m].adds), boot, Core)
  BY DEF Init
<1>2. Boot \in Seq(OnSet) /\ Suited(<<>>, "core", Boot)
  BY BootSuited
<1>3. Listed(<<>>, {}) /\ Rest(<<>>) /\ <<>> \in Seq(Node) /\ "core" \in DOMAIN Info \cup {"core"} /\ "core" \in {} \cup {"core"}
  BY NothingListed
<1>4. Listed(boot, {}) /\ Rest(boot)
  BY <1>2, <1>3, AddedListed, AddedRest
<1>5. Core \in Seq(DOMAIN Info) /\ IsInjective(Core)
  <2>1. LoadInv
    BY LoaderInit
  <2>2. QED
    BY <1>1, <2>1, LoadedExist, ListOfModules
<1> HIDE DEF boot
<1>6. Listed(events, ToSet(loaded)) /\ Rest(events)
  BY <1>1, <1>4, <1>5, CoreAdded
<1>7. Stands(events, Idle)
  BY <1>6 DEF Stands, Idle
<1>8. QED
  BY <1>1, <1>6, <1>7 DEF EventInv

LEMMA EventInvHolds == Spec => []EventInv
<1>1. LoadInv /\ EventInv /\ [Next]_vars => EventInv'
  BY EventStep
<1>2. QED
  BY <1>1, EventInit, LoadInvHolds, PTL DEF Spec

-----------------------------------------------------------------------------
(* What holds of the event list *)

\* Whatever a handler deletes or adds, and whichever modules are opened and closed between the
\* walks, the node that RunTimedEvents or EventEx has read as the next one is still in the list
\* when it gets there (eventhandler.c), also in the SHUTDOWN walk, which closes all modules.
THEOREM NextLivesHolds == Spec => []NextLives
<1>1. LoadInv /\ EventInv => NextLives
  <2> SUFFICES ASSUME LoadInv, EventInv PROVE NextLives
    OBVIOUS
  <2>1. Listed(events, ToSet(loaded)) /\ Stands(events, walk) /\ halted \in BOOLEAN
    BY DEF EventInv
  <2>2. events \in Seq(Node) /\ \A i \in DOMAIN events : events[i] \in Node /\ Homely(events[i], ToSet(loaded))
    BY <2>1 DEF Listed
  <2>3. ToSet(loaded) \subseteq Files \cup ToSet(Core)
    BY ListOfModules, InList
  <2>4. ASSUME NEW n \in ToSet(events)
        PROVE  /\ n.name \in Names /\ n.fn \in Handlers
               /\ n.owner \in Files \cup ToSet(Core) \cup {"core", Gone}
               /\ n.timed \in BOOLEAN /\ n.due \in BOOLEAN /\ (n.due => n.timed)
               /\ n.marks \subseteq {"cur", "next", "todo"}
    <3>1. n \in Node /\ Homely(n, ToSet(loaded))
      BY <2>2 DEF ToSet
    <3>2. n.name \in Names /\ n.owner \in ToSet(loaded) \cup {"core", Gone} /\ (n.due => n.timed)
      BY <3>1 DEF Homely
    <3>3. n.fn \in Handlers /\ n.timed \in BOOLEAN /\ n.due \in BOOLEAN /\ n.marks \subseteq {"cur", "next", "todo"}
      BY <3>1 DEF Node
    <3>4. QED
      BY <2>3, <3>2, <3>3
  <2>5. walk.kind \in {"none", "recall", "timed", "emit"} /\ walk.more \in BOOLEAN /\ (walk = Idle => Rest(events))
    BY <2>1, AtRest DEF Stands
  <2>6. walk = Idle => Marked("cur") = {} /\ Marked("next") = {}
    BY <2>5 DEF Rest, Marked
  <2>7. walk # Lost
    <3>1. Lost.kind = "freed"
      BY DEF Lost
    <3>2. QED
      BY <2>5, <3>1
  <2>8. EventsTypeOK
    BY <2>1, <2>4, <2>5, <2>6 DEF EventsTypeOK
  <2>9. QED
    BY <2>7, <2>8 DEF NextLives
<1>2. QED
  BY <1>1, LoadInvHolds, EventInvHolds, PTL

\* A module that is closed takes all its handlers with it, but for those it never deletes
\* (module.c and the unregister functions of the modules): of the nodes in the list whose code
\* is unmapped none is of another kind, however modules were loaded, unloaded and reloaded.
THEOREM OnlyForgottenHolds == Spec => []OnlyForgotten
<1>1. EventInv => OnlyForgotten
  <2> SUFFICES ASSUME EventInv, NEW n \in ToSet(events), n.owner = Gone PROVE n.fn \in Forgotten
    BY DEF OnlyForgotten
  <2>1. \A i \in DOMAIN events : Homely(events[i], ToSet(loaded))
    BY DEF EventInv, Listed
  <2>2. Homely(n, ToSet(loaded))
    BY <2>1 DEF ToSet
  <2>3. QED
    BY <2>2 DEF Homely
<1>2. QED
  BY <1>1, EventInvHolds, PTL

\* A walk that no handler stops calls every handler that was due when it began and that is still
\* registered when its turn comes (eventhandler.c), though handlers take nodes off the list and
\* put others behind it.
THEOREM NoneSkippedHolds == Spec => []NoneSkipped
<1>1. EventInv => NoneSkipped
  BY AtRest DEF Rest, NoneSkipped, Marked
<1>2. QED
  BY <1>1, EventInvHolds, PTL

=============================================================================
