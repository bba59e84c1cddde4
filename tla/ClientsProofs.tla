--------------------------- MODULE ClientsProofs ---------------------------
(***************************************************************************)
(* Proofs about Clients, for any instance, with all modules together: the  *)
(* join floods, the version scan, the exemptions, the sessions with the    *)
(* types of all variables, and the watch.                                  *)
(***************************************************************************)
EXTENDS Clients, ListProofs

-----------------------------------------------------------------------------
(* Join floods: the invariant *)

Flood == [chan : Short, left : 0..Dur, joins : Nat, locked : BOOLEAN, ends : Int]
Age   == 0..(Dur - 1)
Ages  == {ages \in Seq(Age) :
             Len(ages) <= 2 * Most - 1 /\ \A i, j \in DOMAIN ages : i <= j => ages[i] >= ages[j]}

FloodTypeOK ==
    /\ floods \in Seq(Flood) /\ held \subseteq Short
    /\ recent \in [Short -> Ages] /\ wiped \in [Short -> 0..Dur]

\* An SJOIN of a longer name, which began the count of an entry of this one.
Strange(c) == IF Shared(c) THEN 1 ELSE 0

\* What the entry f says of the last SJOINs, those since a count was last thrown away w seconds
\* ago: the ones of the present window are counted, and before it there was one window of fewer
\* than Most; and what is counted, but for a strange SJOIN, is no older than the window.
Tallied(f, ages, w) ==
    LET own == f.joins - Strange(f.chan)
    IN  /\ f.joins \in 1..(Most - 1)
        /\ \A k \in DOMAIN ages : k <= Len(ages) - f.joins => ages[k] >= w \/ ages[k] >= Dur - f.left
        /\ \A k \in DOMAIN ages : k <= Len(ages) - (f.joins + Most - 1) => ages[k] >= w
        /\ f.left > 0 => /\ own <= Len(ages)
                         /\ \A k \in DOMAIN ages : k > Len(ages) - own => ages[k] <= Dur - f.left

\* A channel without an entry has no SJOIN since; or the module is not there to count them.
Untallied(ages, w) ==
    IF Loaded("g_joinflood") THEN \A k \in DOMAIN ages : ages[k] >= w
    ELSE \A k \in DOMAIN ages : k <= Len(ages) - (2 * Most - 2) => ages[k] >= w

\* The entry that Find_FloodChan finds of its channel.
First(i) == \A j \in DOMAIN floods : floods[j].chan = floods[i].chan => i <= j

\* The first entry of a channel counts its SJOINs, or the lock-down is in force; the others were made
\* by SJOINs of a longer name.
Entries ==
    /\ \A i \in DOMAIN floods :
          /\ ~First(i) => floods[i].joins = 1 /\ ~floods[i].locked /\ Shared(floods[i].chan)
          /\ floods[i].locked => floods[i].chan \in held
          /\ First(i) /\ ~floods[i].locked
                => Tallied(floods[i], recent[floods[i].chan], wiped[floods[i].chan])
    /\ \A c \in Short :
          /\ \A i \in DOMAIN floods : floods[i].chan # c
          /\ Loaded("g_joinflood") \/ c \notin held
          => Untallied(recent[c], wiped[c])
    /\ ~Loaded("g_joinflood") => floods = <<>>

\* Each module is there once, so that unloading it leaves none.
ModulesOnce == loaded \in Seq(setup.modules) /\ IsInjective(loaded)

FloodInv == ModulesOnce /\ FloodTypeOK /\ Entries /\ LocksKnown

-----------------------------------------------------------------------------
(* Numbers and lists of ages *)

LEMMA MaxOfTwo == \A a, b \in Int : Max({a, b}) = IF a >= b THEN a ELSE b
<1> SUFFICES ASSUME NEW a \in Int, NEW b \in Int PROVE Max({a, b}) = IF a >= b THEN a ELSE b
  OBVIOUS
<1> DEFINE m == IF a >= b THEN a ELSE b
<1>1. m \in {a, b} /\ \A y \in {a, b} : m >= y
  OBVIOUS
<1>2. \A x \in {a, b} : (\A y \in {a, b} : x >= y) => x = m
  OBVIOUS
<1>3. QED
  BY <1>1, <1>2 DEF Max

LEMMA MinOfTwo == \A a, b \in Int : Min({a, b}) = IF a <= b THEN a ELSE b
<1> SUFFICES ASSUME NEW a \in Int, NEW b \in Int PROVE Min({a, b}) = IF a <= b THEN a ELSE b
  OBVIOUS
<1> DEFINE m == IF a <= b THEN a ELSE b
<1>1. m \in {a, b} /\ \A y \in {a, b} : m <= y
  OBVIOUS
<1>2. \A x \in {a, b} : (\A y \in {a, b} : x <= y) => x = m
  OBVIOUS
<1>3. QED
  BY <1>1, <1>2 DEF Min

LEMMA CutFirst ==
    ASSUME NEW S, NEW l \in Seq(S), NEW d \in 0..Len(l)
    PROVE  /\ SubSeq(l, 1 + d, Len(l)) \in Seq(S) /\ Len(SubSeq(l, 1 + d, Len(l))) = Len(l) - d
           /\ \A k \in 1..(Len(l) - d) : SubSeq(l, 1 + d, Len(l))[k] = l[k + d]
OBVIOUS

LEMMA AddLast ==
    ASSUME NEW S, NEW l \in Seq(S), NEW t \in S
    PROVE  /\ Append(l, t) \in Seq(S) /\ Len(Append(l, t)) = Len(l) + 1
           /\ Append(l, t)[Len(l) + 1] = t /\ \A k \in 1..Len(l) : Append(l, t)[k] = l[k]
OBVIOUS

\* One more SJOIN, the oldest forgotten if there are enough without it.
LEMMA OneMoreAge ==
    ASSUME NEW ages \in Ages
    PROVE  /\ OneMore(ages) \in Ages
           /\ \E d \in {0, 1} :
                 /\ Len(OneMore(ages)) = Len(ages) + 1 - d /\ (d = 1 => Len(ages) = 2 * Most - 1)
                 /\ \A k \in 1..(Len(ages) - d) : OneMore(ages)[k] = ages[k + d]
                 /\ OneMore(ages)[Len(ages) + 1 - d] = 0
<1> DEFINE n == Len(ages)
           new == OneMore(ages)
           all == Append(ages, 0)
           d == IF n = 2 * Most - 1 THEN 1 ELSE 0
<1>1. /\ Most \in Nat \ {0, 1} /\ Dur \in Nat \ {0}
      /\ ages \in Seq(Age) /\ n \in Nat /\ n <= 2 * Most - 1
      /\ \A i, j \in 1..n : i <= j => ages[i] >= ages[j]
  BY FloodAssumption DEF Ages
<1>2. Max({1, n + 3 - 2 * Most}) = 1 + d
  <2>1. Max({1, n + 3 - 2 * Most}) = IF 1 >= n + 3 - 2 * Most THEN 1 ELSE n + 3 - 2 * Most
    BY <1>1, MaxOfTwo
  <2> HIDE DEF n
  <2>2. CASE n = 2 * Most - 1
    BY <1>1, <2>1, <2>2
  <2>3. CASE n # 2 * Most - 1
    BY <1>1, <2>1, <2>3
  <2>4. QED
    BY <2>2, <2>3
<1>3. /\ all \in Seq(Age) /\ Len(all) = n + 1 /\ all[n + 1] = 0
      /\ \A k \in 1..n : all[k] = ages[k]
  <2>1. 0 \in Age
    BY <1>1 DEF Age
  <2>2. QED
    BY <1>1, <2>1, AddLast
<1>4. new = SubSeq(all, 1 + d, n + 1)
  BY <1>2 DEF OneMore
<1> HIDE DEF n, new
<1>5. d \in {0, 1} /\ (d = 1 => n = 2 * Most - 1) /\ (d = 0 => n < 2 * Most - 1)
  BY <1>1
<1> HIDE DEF all, d
<1>6. /\ new \in Seq(Age) /\ Len(new) = n + 1 - d
      /\ \A k \in 1..(n + 1 - d) : new[k] = all[k + d]
  <2>1. d \in 0..(n + 1)
    BY <1>1, <1>5
  <2>2. d \in 0..Len(all) /\ new = SubSeq(all, 1 + d, Len(all))
    BY <1>3, <1>4, <2>1
  <2>3. /\ new \in Seq(Age) /\ Len(new) = Len(all) - d
        /\ \A k \in 1..(Len(all) - d) : new[k] = all[k + d]
    BY <1>3, <2>2, CutFirst, ZenonT(60)
  <2>4. QED
    BY <1>1, <1>3, <1>5, <2>3
<1>7. \A k \in 1..(n - d) : new[k] = ages[k + d] /\ k + d \in 1..n
  BY <1>1, <1>3, <1>5, <1>6
<1>8. new[n + 1 - d] = 0
  BY <1>1, <1>3, <1>5, <1>6
<1>9. \A i, j \in 1..(n + 1 - d) : i <= j => new[i] >= new[j]
  <2> SUFFICES ASSUME NEW i \in 1..(n + 1 - d), NEW j \in 1..(n + 1 - d), i <= j
               PROVE  new[i] >= new[j]
    OBVIOUS
  <2>1. new[i] \in Age
    BY <1>6
  <2>2. CASE j = n + 1 - d
    BY <1>8, <2>1, <2>2 DEF Age
  <2>3. CASE j # n + 1 - d
    <3>1. i \in 1..(n - d) /\ j \in 1..(n - d) /\ i + d <= j + d
      BY <1>1, <1>5, <2>3
    <3>2. QED
      BY <1>1, <1>7, <3>1
  <2>4. QED
    BY <2>2, <2>3
<1>10. new \in Ages
  <2>1. DOMAIN new = 1..(n + 1 - d) /\ n + 1 - d <= 2 * Most - 1
    BY <1>1, <1>5, <1>6
  <2>2. QED
    BY <1>6, <1>9, <2>1 DEF Ages
<1>11. QED
  BY <1>5, <1>6, <1>7, <1>8, <1>10 DEF n, new

\* A second later some of the oldest are forgotten, the others a second older.
LEMMA OlderAges ==
    ASSUME NEW ages \in Ages
    PROVE  /\ Older(ages) \in Ages
           /\ \E d \in 0..Len(ages) :
                 /\ Len(Older(ages)) = Len(ages) - d
                 /\ \A k \in 1..(Len(ages) - d) : Older(ages)[k] = ages[k + d] + 1
                 /\ \A k \in 1..d : ages[k] >= Dur - 1
<1> DEFINE n == Len(ages)
           aged == [i \in DOMAIN ages |-> ages[i] + 1]
           young == {i \in DOMAIN ages : ages[i] + 1 < Dur}
           d == IF young = {} THEN n ELSE Min(young) - 1
           new == Older(ages)
<1>1. /\ Most \in Nat \ {0, 1} /\ Dur \in Nat \ {0}
      /\ ages \in Seq(Age) /\ n \in Nat /\ n <= 2 * Most - 1 /\ DOMAIN ages = 1..n
      /\ \A i, j \in 1..n : i <= j => ages[i] >= ages[j]
  BY FloodAssumption DEF Ages
<1>2. \A i \in 1..n : ages[i] \in Nat /\ ages[i] < Dur
  BY <1>1 DEF Age
<1>3. aged \in Seq(Nat) /\ Len(aged) = n /\ \A i \in 1..n : aged[i] = ages[i] + 1
  <2>1. \A i \in 1..n : ages[i] + 1 \in Nat
    BY <1>1, <1>2
  <2>2. aged \in [1..n -> Nat]
    BY <1>1, <2>1
  <2>3. QED
    BY <1>1, <2>2
<1>4. /\ d \in 0..n
      /\ \A k \in 1..d : ages[k] >= Dur - 1
      /\ \A k \in 1..n : k > d => ages[k] + 1 < Dur
      /\ new = SubSeq(aged, 1 + d, n)
  <2>1. CASE young = {}
    <3>1. d = n /\ new = SubSeq(aged, n + 1, n)
      BY <1>3, <2>1 DEF Older
    <3>2. \A k \in 1..n : ~(ages[k] + 1 < Dur)
      BY <1>1, <2>1
    <3>3. QED
      BY <1>1, <1>2, <3>1, <3>2
  <2>2. CASE young # {}
    <3>1. young \in SUBSET Nat
      BY <1>1
    <3>2. PICK x \in young : \A y \in young : x <= y
      BY <2>2, <3>1, LeastOfSet
    <3>3. Min(young) = x
      <4>1. \A z \in young : (\A y \in young : z <= y) => z = x
        BY <3>1, <3>2
      <4>2. QED
        BY <3>2, <4>1 DEF Min
    <3>4. d = x - 1 /\ new = SubSeq(aged, x, n)
      BY <1>3, <2>2, <3>3 DEF Older
    <3>5. x \in 1..n /\ ages[x] + 1 < Dur
      BY <1>1, <3>2
    <3>6. \A k \in 1..n : k < x => ~(ages[k] + 1 < Dur)
      <4>1. \A k \in 1..n : k < x => k \notin young
        BY <3>1, <3>2
      <4>2. QED
        BY <1>1, <4>1
    <3>7. \A k \in 1..n : k >= x => ages[k] + 1 < Dur
      BY <1>1, <1>2, <3>5
    <3>8. d \in 0..n /\ 1 + d = x
      BY <1>1, <3>4, <3>5
    <3> HIDE DEF d, young, aged
    <3>9. \A k \in 1..d : ages[k] >= Dur - 1
      BY <1>1, <1>2, <3>6, <3>8
    <3>10. \A k \in 1..n : k > d => ages[k] + 1 < Dur
      BY <1>1, <3>7, <3>8
    <3>11. QED
      BY <3>4, <3>8, <3>9, <3>10
  <2>3. QED
    BY <2>1, <2>2
<1> HIDE DEF d, aged, young, new, n
<1>5. /\ new \in Seq(Nat) /\ Len(new) = n - d
      /\ \A k \in 1..(n - d) : new[k] = aged[k + d]
  BY <1>3, <1>4, CutFirst
<1>6. \A k \in 1..(n - d) : new[k] = ages[k + d] + 1 /\ new[k] \in Age /\ k + d \in 1..n
  <2> SUFFICES ASSUME NEW k \in 1..(n - d)
               PROVE  new[k] = ages[k + d] + 1 /\ new[k] \in Age /\ k + d \in 1..n
    OBVIOUS
  <2>1. k + d \in 1..n /\ k + d > d
    BY <1>1, <1>4
  <2>2. new[k] = ages[k + d] + 1
    BY <1>3, <1>5, <2>1
  <2> DEFINE t == ages[k + d]
  <2>3. t \in Nat /\ t + 1 < Dur
    BY <1>1, <1>2, <1>4, <2>1 DEF Age
  <2> HIDE DEF t
  <2>4. t + 1 \in 0..(Dur - 1)
    BY <1>1, <2>3
  <2>5. QED
    BY <2>1, <2>2, <2>4 DEF Age, t
<1>7. new \in Seq(Age)
  BY <1>5, <1>6
<1>8. \A i, j \in 1..(n - d) : i <= j => new[i] >= new[j]
  <2> SUFFICES ASSUME NEW i \in 1..(n - d), NEW j \in 1..(n - d), i <= j
               PROVE  new[i] >= new[j]
    OBVIOUS
  <2>1. i + d \in 1..n /\ j + d \in 1..n /\ i + d <= j + d
    BY <1>1, <1>4
  <2>2. ages[i + d] >= ages[j + d] /\ ages[i + d] \in Nat /\ ages[j + d] \in Nat
    BY <1>1, <1>2, <2>1
  <2>3. QED
    BY <1>6, <2>2
<1>9. new \in Ages
  <2>1. DOMAIN new = 1..(n - d) /\ n - d <= 2 * Most - 1
    BY <1>1, <1>4, <1>5
  <2>2. QED
    BY <1>5, <1>7, <1>8, <2>1 DEF Ages
<1>10. QED
  BY <1>4, <1>5, <1>6, <1>9 DEF new, n

-----------------------------------------------------------------------------
(* Tallies *)

\* The numbers of a tally.
LEMMA Numbers ==
    /\ Most \in Nat \ {0, 1} /\ Dur \in Nat \ {0}
    /\ \A ages \in Ages : /\ Len(ages) \in Nat /\ DOMAIN ages = 1..Len(ages) /\ Len(ages) <= 2 * Most - 1
                          /\ \A k \in DOMAIN ages : ages[k] \in Nat /\ ages[k] < Dur
BY FloodAssumption DEF Ages, Age

\* Another SJOIN in the same window.
LEMMA TallyJoin ==
    ASSUME NEW ages \in Ages, NEW w \in 0..Dur, NEW f, Tallied(f, ages, w),
           f.left \in 1..Dur, NEW g, g.left = f.left, g.joins = f.joins + 1, g.joins < Most, g.chan = f.chan
    PROVE  Tallied(g, OneMore(ages), w)
<1> DEFINE new == OneMore(ages)
           n == Len(ages)
           j == f.joins
           own == j - Strange(f.chan)
           lim == Dur - f.left
<1>1. new \in Ages
  BY OneMoreAge
<1>2. PICK d \in {0, 1} :
         /\ Len(new) = n + 1 - d /\ (d = 1 => n = 2 * Most - 1)
         /\ \A k \in 1..(n - d) : new[k] = ages[k + d]
         /\ new[n + 1 - d] = 0
  BY OneMoreAge
<1> HIDE DEF new
<1>3. /\ Most \in Nat \ {0, 1} /\ Dur \in Nat \ {0} /\ n \in Nat /\ DOMAIN ages = 1..n
      /\ DOMAIN new = 1..Len(new) /\ \A k \in 1..n : ages[k] \in Nat /\ ages[k] < Dur
  BY <1>1, Numbers
<1>4. /\ j \in 1..(Most - 1)
      /\ \A k \in 1..n : k <= n - j => ages[k] >= w \/ ages[k] >= lim
      /\ \A k \in 1..n : k <= n - (j + Most - 1) => ages[k] >= w
      /\ own <= n /\ \A k \in 1..n : k > n - own => ages[k] <= lim
      /\ own \in {j, j - 1}
  <2>1. f.left > 0
    BY <1>3
  <2>2. f.joins \in 1..(Most - 1) /\ own = f.joins - Strange(f.chan)
    BY DEF Tallied
  <2>3. own \in {j, j - 1}
    BY <2>2 DEF Strange
  <2>4. QED
    BY <1>3, <2>1, <2>2, <2>3 DEF Tallied
<1>12. lim \in Nat /\ Dur - g.left = lim
  BY <1>3
<1>13. g.joins - Strange(g.chan) = own + 1
  BY <1>4 DEF Strange
<1> HIDE DEF n, j, own, lim
<1>5. g.joins \in 1..(Most - 1) /\ g.joins = j + 1 /\ g.left = f.left
  BY <1>3, <1>4 DEF j
<1>6. \A k \in 1..(n + 1 - d) : k <= n + 1 - d - (j + 1) => new[k] >= w \/ new[k] >= lim
  <2> SUFFICES ASSUME NEW k \in 1..(n + 1 - d), k <= n + 1 - d - (j + 1)
               PROVE  new[k] >= w \/ new[k] >= lim
    OBVIOUS
  <2>1. k \in 1..(n - d) /\ k + d \in 1..n /\ k + d <= n - j
    BY <1>2, <1>3, <1>4
  <2>2. QED
    BY <1>2, <1>4, <2>1
<1>7. \A k \in 1..(n + 1 - d) : k <= n + 1 - d - (j + 1 + Most - 1) => new[k] >= w
  <2> SUFFICES ASSUME NEW k \in 1..(n + 1 - d), k <= n + 1 - d - (j + 1 + Most - 1)
               PROVE  new[k] >= w
    OBVIOUS
  <2>1. k \in 1..(n - d) /\ k + d \in 1..n /\ k + d <= n - (j + Most - 1)
    BY <1>2, <1>3, <1>4
  <2>2. QED
    BY <1>2, <1>4, <2>1
<1>8. own + 1 <= n + 1 - d
  BY <1>2, <1>3, <1>4
<1>9. \A k \in 1..(n + 1 - d) : k > n + 1 - d - (own + 1) => new[k] <= lim
  <2> SUFFICES ASSUME NEW k \in 1..(n + 1 - d), k > n + 1 - d - (own + 1)
               PROVE  new[k] <= lim
    OBVIOUS
  <2>1. CASE k = n + 1 - d
    BY <1>2, <1>3, <1>12, <2>1
  <2>2. CASE k # n + 1 - d
    <3>1. k \in 1..(n - d) /\ k + d \in 1..n /\ k + d > n - own
      BY <1>2, <1>3, <1>4, <2>2
    <3>2. QED
      BY <1>2, <1>4, <3>1
  <2>3. QED
    BY <2>1, <2>2
<1>10. DOMAIN new = 1..(n + 1 - d) /\ Len(new) = n + 1 - d
  BY <1>2, <1>3
<1>11. QED
  <2>1. \A k \in DOMAIN new : k <= Len(new) - g.joins => new[k] >= w \/ new[k] >= lim
    BY <1>2, <1>3, <1>4, <1>5, <1>6, <1>10
  <2>2. \A k \in DOMAIN new : k <= Len(new) - (g.joins + Most - 1) => new[k] >= w
    BY <1>2, <1>3, <1>4, <1>5, <1>7, <1>10
  <2>3. \A k \in DOMAIN new : k > Len(new) - (own + 1) => new[k] <= lim
    BY <1>2, <1>3, <1>4, <1>5, <1>9, <1>10
  <2>4. own + 1 <= Len(new)
    BY <1>5, <1>8, <1>10
  <2>5. QED
    BY <1>5, <1>12, <1>13, <2>1, <2>2, <2>3, <2>4 DEF Tallied, new

\* A new window, of a new entry or of one whose window is over.
LEMMA TallyWindow ==
    ASSUME NEW ages \in Ages, NEW w \in 0..Dur, NEW g, g.left = Dur, g.joins = 1,
           \A k \in DOMAIN ages : k <= Len(ages) - (Most - 1) => ages[k] >= w
    PROVE  Tallied(g, OneMore(ages), w)
<1> DEFINE new == OneMore(ages)
           n == Len(ages)
<1>1. new \in Ages
  BY OneMoreAge
<1>2. PICK d \in {0, 1} :
         /\ Len(new) = n + 1 - d /\ (d = 1 => n = 2 * Most - 1)
         /\ \A k \in 1..(n - d) : new[k] = ages[k + d]
         /\ new[n + 1 - d] = 0
  BY OneMoreAge
<1> HIDE DEF new
<1>3. /\ Most \in Nat \ {0, 1} /\ Dur \in Nat \ {0} /\ n \in Nat /\ DOMAIN ages = 1..n
      /\ DOMAIN new = 1..Len(new) /\ \A k \in DOMAIN new : new[k] \in Nat
  BY <1>1, Numbers
<1>4. \A k \in 1..n : k <= n - (Most - 1) => ages[k] >= w
  BY <1>3
<1> HIDE DEF n
<1>5. DOMAIN new = 1..(n + 1 - d) /\ Len(new) = n + 1 - d
  BY <1>2, <1>3
<1>6. \A k \in 1..(n + 1 - d) : new[k] >= Dur - Dur
  BY <1>3, <1>5
<1>7. \A k \in 1..(n + 1 - d) : k <= n + 1 - d - (1 + Most - 1) => new[k] >= w
  <2> SUFFICES ASSUME NEW k \in 1..(n + 1 - d), k <= n + 1 - d - (1 + Most - 1)
               PROVE  new[k] >= w
    OBVIOUS
  <2>1. k \in 1..(n - d) /\ k + d \in 1..n /\ k + d <= n - (Most - 1)
    BY <1>2, <1>3
  <2>2. QED
    BY <1>2, <1>4, <2>1
<1>8. 1 <= n + 1 - d
  BY <1>2, <1>3
<1>9. \A k \in 1..(n + 1 - d) : k > n + 1 - d - 1 => new[k] <= Dur - Dur
  <2> SUFFICES ASSUME NEW k \in 1..(n + 1 - d), k > n + 1 - d - 1
               PROVE  new[k] <= Dur - Dur
    OBVIOUS
  <2>1. k = n + 1 - d
    BY <1>2, <1>3
  <2>2. QED
    BY <1>2, <1>3, <2>1
<1>10. 1 \in 1..(Most - 1)
  BY <1>3
<1>11. QED
  <2>1. \A k \in DOMAIN new : k <= Len(new) - g.joins => new[k] >= w \/ new[k] >= Dur - g.left
    BY <1>5, <1>6
  <2>2. \A k \in DOMAIN new : k <= Len(new) - (g.joins + Most - 1) => new[k] >= w
    BY <1>2, <1>3, <1>5, <1>7
  <2> DEFINE own == g.joins - Strange(g.chan)
  <2>3. own <= Len(new) /\ \A k \in DOMAIN new : k > Len(new) - own => new[k] <= Dur - g.left
    <3>1. own \in {0, 1}
      BY DEF Strange
    <3>2. QED
      BY <1>2, <1>3, <1>5, <1>8, <1>9, <3>1
  <2>4. g.joins \in 1..(Most - 1)
    BY <1>10
  <2>5. QED
    BY <2>1, <2>2, <2>3, <2>4 DEF Tallied, new

\* An entry made by an SJOIN of a longer name.
LEMMA TallyStrange ==
    ASSUME NEW ages \in Ages, NEW w \in 0..Dur, NEW g, g.joins = 1, Shared(g.chan),
           \A k \in DOMAIN ages : ages[k] >= w
    PROVE  Tallied(g, ages, w)
<1>1. Most \in Nat \ {0, 1} /\ Len(ages) \in Nat /\ DOMAIN ages = 1..Len(ages)
  BY Numbers
<1>2. 1 \in 1..(Most - 1) /\ g.joins - Strange(g.chan) = 0
  BY <1>1 DEF Strange
<1>3. QED
  BY <1>1, <1>2 DEF Tallied

\* A second passes.
LEMMA TallySecond ==
    ASSUME NEW ages \in Ages, NEW w \in 0..Dur, NEW f, Tallied(f, ages, w), f.left \in 0..Dur,
           NEW g, g.chan = f.chan, g.joins = f.joins, g.left = (IF f.left = 0 THEN 0 ELSE f.left - 1),
           NEW w2 \in 0..Dur, w2 <= w + 1
    PROVE  Tallied(g, Older(ages), w2)
<1> DEFINE new == Older(ages)
           n == Len(ages)
           j == f.joins
           own == j - Strange(f.chan)
<1>1. new \in Ages
  BY OlderAges
<1>2. PICK d \in 0..n :
         /\ Len(new) = n - d
         /\ \A k \in 1..(n - d) : new[k] = ages[k + d] + 1
         /\ \A k \in 1..d : ages[k] >= Dur - 1
  BY OlderAges
<1> HIDE DEF new
<1>3. /\ Most \in Nat \ {0, 1} /\ Dur \in Nat \ {0} /\ n \in Nat /\ DOMAIN ages = 1..n
      /\ DOMAIN new = 1..Len(new) /\ \A k \in 1..n : ages[k] \in Nat /\ ages[k] < Dur
  BY <1>1, Numbers
<1>4. /\ j \in 1..(Most - 1)
      /\ \A k \in 1..n : k <= n - j => ages[k] >= w \/ ages[k] >= Dur - f.left
      /\ \A k \in 1..n : k <= n - (j + Most - 1) => ages[k] >= w
      /\ f.left > 0 => own <= n /\ \A k \in 1..n : k > n - own => ages[k] <= Dur - f.left
  BY <1>3 DEF Tallied
<1>12. own \in {j, j - 1} /\ g.joins - Strange(g.chan) = own
  BY <1>4 DEF Strange
<1> HIDE DEF n, j, own
<1>5. g.joins \in 1..(Most - 1) /\ g.joins = j
  BY <1>4 DEF j
<1>6. \A k \in 1..(n - d) : k + d \in 1..n /\ new[k] = ages[k + d] + 1
  BY <1>2, <1>3
<1>7. \A k \in 1..(n - d) : k <= n - d - j => new[k] >= w2 \/ new[k] >= Dur - g.left
  <2> SUFFICES ASSUME NEW k \in 1..(n - d), k <= n - d - j
               PROVE  new[k] >= w2 \/ new[k] >= Dur - g.left
    OBVIOUS
  <2>1. k + d \in 1..n /\ k + d <= n - j
    BY <1>2, <1>3, <1>4
  <2>2. ages[k + d] >= w \/ ages[k + d] >= Dur - f.left
    BY <1>4, <2>1
  <2> DEFINE t == ages[k + d]
             l == f.left
  <2>3. t \in Nat /\ t < Dur /\ new[k] = t + 1 /\ (t >= w \/ t >= Dur - l)
    BY <1>3, <1>6, <2>1, <2>2
  <2>4. l \in 0..Dur /\ g.left = (IF l = 0 THEN 0 ELSE l - 1) /\ w \in 0..Dur /\ w2 \in 0..Dur /\ w2 <= w + 1
    OBVIOUS
  <2> HIDE DEF t, l
  <2>5. CASE l = 0
    BY <1>3, <2>3, <2>4, <2>5
  <2>6. CASE l # 0
    <3>1. g.left = l - 1
      BY <2>4, <2>6
    <3>2. t + 1 >= w2 \/ t + 1 >= Dur - (l - 1)
      BY <1>3, <2>3, <2>4
    <3>3. QED
      BY <2>3, <3>1, <3>2
  <2>7. QED
    BY <2>5, <2>6
<1>8. \A k \in 1..(n - d) : k <= n - d - (j + Most - 1) => new[k] >= w2
  <2> SUFFICES ASSUME NEW k \in 1..(n - d), k <= n - d - (j + Most - 1)
               PROVE  new[k] >= w2
    OBVIOUS
  <2>1. k + d \in 1..n /\ k + d <= n - (j + Most - 1)
    BY <1>2, <1>3, <1>4
  <2> DEFINE t == ages[k + d]
  <2>2. t \in Nat /\ t >= w /\ new[k] = t + 1
    BY <1>3, <1>4, <1>6, <2>1
  <2> HIDE DEF t
  <2>3. QED
    BY <1>3, <2>2
<1>9. ASSUME g.left > 0
      PROVE  own <= n - d /\ \A k \in 1..(n - d) : k > n - d - own => new[k] <= Dur - g.left
  <2>1. f.left > 1 /\ g.left = f.left - 1
    BY <1>9
  <2>2. own <= n /\ \A k \in 1..n : k > n - own => ages[k] <= Dur - f.left
    BY <1>4, <2>1
  <2>3. d <= n - own
    <3> SUFFICES ASSUME d > n - own PROVE FALSE
      BY <1>2, <1>3, <1>4, <1>12
    <3>1. d \in 1..n /\ d \in 1..d
      BY <1>2, <1>3, <1>4, <1>12, <2>2
    <3>2. ages[d] >= Dur - 1 /\ ages[d] <= Dur - f.left
      BY <1>2, <2>2, <3>1
    <3>3. QED
      BY <1>3, <2>1, <3>1, <3>2
  <2>4. ASSUME NEW k \in 1..(n - d), k > n - d - own PROVE new[k] <= Dur - g.left
    <3>1. k + d \in 1..n /\ k + d > n - own
      BY <1>2, <1>3, <1>4, <1>12, <2>4
    <3> DEFINE t == ages[k + d]
               l == f.left
    <3>2. t \in Nat /\ new[k] = t + 1 /\ t <= Dur - l
      BY <1>3, <1>6, <2>2, <3>1
    <3>3. l \in 0..Dur /\ g.left = l - 1
      BY <2>1
    <3> HIDE DEF t, l
    <3>4. QED
      BY <1>3, <3>2, <3>3
  <2>5. QED
    BY <1>2, <1>3, <1>4, <1>12, <2>3, <2>4
<1>10. DOMAIN new = 1..(n - d) /\ Len(new) = n - d
  BY <1>2, <1>3
<1>11. QED
  BY <1>5, <1>7, <1>8, <1>9, <1>10, <1>12 DEF Tallied, new

-----------------------------------------------------------------------------
(* The steps of g_joinflood *)

\* Find_FloodChan finds the first entry of a channel; a longer name has none.
LEMMA FindsChan ==
    ASSUME floods \in Seq(Flood), NEW c, NEW i, i = FindFloodChan(c)
    PROVE  /\ i # 0 => i \in DOMAIN floods /\ floods[i].chan = c /\ c \in Short /\ First(i)
           /\ i = 0 => \A k \in DOMAIN floods : floods[k].chan # c
<1> DEFINE found == {k \in 1..Len(floods) : floods[k].chan = c}
<1>1. i = IF found # {} THEN Min(found) ELSE 0
  BY DEF FindFloodChan, SelectInSeq
<1>2. found \in SUBSET Nat /\ \A k \in found : k # 0
  OBVIOUS
<1>3. found # {} => Min(found) \in found /\ \A k \in found : Min(found) <= k
  <2> SUFFICES ASSUME found # {} PROVE Min(found) \in found /\ \A k \in found : Min(found) <= k
    OBVIOUS
  <2>1. \E x \in found : \A y \in found : x <= y
    BY <1>2, LeastOfSet
  <2> HIDE DEF found
  <2>2. QED
    BY <2>1 DEF Min
<1>4. DOMAIN floods = 1..Len(floods) /\ \A k \in DOMAIN floods : floods[k].chan \in Short
  <2>1. DOMAIN floods = 1..Len(floods) /\ \A k \in DOMAIN floods : floods[k] \in Flood
    OBVIOUS
  <2>2. QED
    BY <2>1 DEF Flood
<1>5. CASE found = {}
  BY <1>1, <1>4, <1>5
<1>6. CASE found # {}
  <2>1. i \in found /\ \A k \in found : i <= k
    BY <1>1, <1>3, <1>6
  <2>2. i \in DOMAIN floods /\ floods[i].chan = c /\ c \in Short /\ i # 0
    BY <1>2, <1>4, <2>1
  <2>3. \A k \in DOMAIN floods : floods[k].chan = c => k \in found
    BY <1>4
  <2>4. First(i)
    BY <2>1, <2>2, <2>3 DEF First
  <2>5. QED
    BY <2>2, <2>4
<1>7. QED
  BY <1>5, <1>6

\* Of the entries of a channel one is the first.
LEMMA FirstEntry ==
    ASSUME floods \in Seq(Flood), NEW c, \E i \in DOMAIN floods : floods[i].chan = c
    PROVE  \E i \in DOMAIN floods : floods[i].chan = c /\ First(i)
<1> DEFINE i == FindFloodChan(c)
<1>1. /\ i # 0 => i \in DOMAIN floods /\ floods[i].chan = c /\ First(i)
      /\ i = 0 => \A k \in DOMAIN floods : floods[k].chan # c
  BY FindsChan
<1> HIDE DEF i
<1>2. QED
  BY <1>1

LEMMA RememberAges ==
    ASSUME FloodTypeOK, NEW c, Remember(c)
    PROVE  /\ recent' \in [Short -> Ages]
           /\ \A x \in Short : recent'[x] = IF x = c THEN OneMore(recent[x]) ELSE recent[x]
<1>1. \A x \in Short : recent[x] \in Ages /\ OneMore(recent[x]) \in Ages
  BY OneMoreAge DEF FloodTypeOK
<1>2. QED
  BY <1>1 DEF Remember, FloodTypeOK

\* The entry of a channel changes, which is not locked; it is locked from now on, or its tally
\* counts the SJOIN.
LEMMA EntryChanges ==
    ASSUME FloodInv, UNCHANGED <<setup, loaded, wiped>>, NEW i \in DOMAIN floods, NEW c \in Short,
           floods[i].chan = c, First(i), ~floods[i].locked, Remember(c),
           NEW g \in Flood, g.chan = c, floods' = [floods EXCEPT ![i] = g],
           held' = (IF g.locked THEN held \cup {c} ELSE held),
           orphans' = (IF g.locked THEN orphans \ {c} ELSE orphans),
           g.locked \/ Tallied(g, OneMore(recent[c]), wiped[c])
    PROVE  FloodInv'
<1>1. /\ ModulesOnce /\ floods \in Seq(Flood) /\ held \subseteq Short
      /\ wiped \in [Short -> 0..Dur]
  BY DEF FloodInv, FloodTypeOK
<1>2. /\ recent' \in [Short -> Ages]
      /\ \A x \in Short : recent'[x] = IF x = c THEN OneMore(recent[x]) ELSE recent[x]
  BY RememberAges DEF FloodInv
<1>3. /\ floods' \in Seq(Flood) /\ DOMAIN floods' = DOMAIN floods
      /\ floods'[i] = g /\ \A k \in DOMAIN floods : k # i => floods'[k] = floods[k]
  BY <1>1
<1>4. \A k \in DOMAIN floods : floods'[k].chan = floods[k].chan
  BY <1>3
<1>5. Short' = Short /\ Ages' = Ages /\ Flood' = Flood
  BY DEF Short, Ages, Age, Flood
<1>6. FloodTypeOK'
  BY <1>1, <1>2, <1>3, <1>5 DEF FloodTypeOK
<1>7. ModulesOnce' /\ (Loaded("g_joinflood")' <=> Loaded("g_joinflood"))
  BY <1>1 DEF ModulesOnce, Loaded
<1>8. /\ \A k \in DOMAIN floods :
            /\ ~First(k) => floods[k].joins = 1 /\ ~floods[k].locked /\ Shared(floods[k].chan)
            /\ floods[k].locked => floods[k].chan \in held
            /\ First(k) /\ ~floods[k].locked
                  => Tallied(floods[k], recent[floods[k].chan], wiped[floods[k].chan])
      /\ \A x \in Short :
            /\ \A k \in DOMAIN floods : floods[k].chan # x
            /\ Loaded("g_joinflood") \/ x \notin held
            => Untallied(recent[x], wiped[x])
      /\ ~Loaded("g_joinflood") => floods = <<>>
  BY DEF FloodInv, Entries
<1>9. Entries'
  <2>1. \A k \in DOMAIN floods : First(k)' <=> First(k)
    BY <1>3, <1>4 DEF First
  <2>2. ASSUME NEW k \in DOMAIN floods'
        PROVE  /\ ~First(k)' => floods'[k].joins = 1 /\ ~floods'[k].locked /\ Shared(floods'[k].chan)
               /\ floods'[k].locked => floods'[k].chan \in held'
               /\ First(k)' /\ ~floods'[k].locked
                     => Tallied(floods'[k], recent'[floods'[k].chan], wiped'[floods'[k].chan])
    <3>1. CASE k = i
      BY <1>2, <1>3, <2>1, <3>1
    <3>2. CASE k # i /\ floods[k].chan = c
      <4>1. k \in DOMAIN floods /\ floods'[k] = floods[k] /\ ~First(k)
        <5>1. k \in DOMAIN floods /\ k \in Nat /\ i \in Nat
          BY <1>1, <1>3
        <5>2. QED
          BY <1>3, <3>2, <5>1 DEF First
      <4>2. QED
        BY <1>8, <2>1, <4>1
    <3>3. CASE floods[k].chan # c
      <4>1. k \in DOMAIN floods /\ floods'[k] = floods[k] /\ floods[k] \in Flood
        BY <1>1, <1>3, <3>3
      <4>2. floods[k].chan \in Short
        BY <4>1 DEF Flood
      <4>3. recent'[floods[k].chan] = recent[floods[k].chan] /\ held \subseteq held'
        BY <1>2, <3>3, <4>2
      <4>4. QED
        BY <1>8, <2>1, <4>1, <4>3
    <3>4. QED
      BY <3>1, <3>2, <3>3
  <2>3. ASSUME NEW x \in Short, \A k \in DOMAIN floods' : floods'[k].chan # x, Loaded("g_joinflood")' \/ x \notin held'
        PROVE  Untallied(recent[x], wiped[x]) /\ recent'[x] = recent[x]
    BY <1>2, <1>3, <1>4, <1>7, <1>8, <2>3
  <2>4. \A ages, w : Untallied(ages, w)' <=> Untallied(ages, w)
    BY <1>7 DEF Untallied
  <2>5. Loaded("g_joinflood")
    BY <1>8
  <2>6. QED
    BY <1>5, <1>7, <2>2, <2>3, <2>4, <2>5 DEF Entries, Untallied, Tallied
<1>10. LocksKnown'
  <2> SUFFICES ASSUME NEW x \in held'
               PROVE  x \in orphans' \/ \E k \in DOMAIN floods : floods'[k].chan = x /\ floods'[k].locked
    BY <1>3 DEF LocksKnown
  <2>1. CASE x \in held /\ (g.locked => x # c)
    <3>1. x \in orphans \/ \E k \in DOMAIN floods : floods[k].chan = x /\ floods[k].locked
      BY <2>1 DEF FloodInv, LocksKnown
    <3>2. QED
      BY <1>3, <3>1
  <2>2. CASE g.locked /\ x = c
    BY <1>3, <2>2
  <2>3. QED
    BY <2>1, <2>2
<1>11. QED
  BY <1>6, <1>7, <1>9, <1>10 DEF FloodInv

\* An entry is made, for a name that has none.
LEMMA EntryMade ==
    ASSUME FloodInv, UNCHANGED <<setup, loaded, wiped, orphans, held>>, Loaded("g_joinflood"), NEW c \in FloodChans,
           \A k \in DOMAIN floods : floods[k].chan # c,
           Remember(c), NEW g \in Flood, g.chan = Kept[c], ~g.locked, g.left = Dur, g.joins = 1,
           floods' = Append(floods, g)
    PROVE  FloodInv'
<1>1. /\ ModulesOnce /\ floods \in Seq(Flood) /\ held \subseteq Short
      /\ wiped \in [Short -> 0..Dur] /\ recent \in [Short -> Ages]
  BY DEF FloodInv, FloodTypeOK
<1>2. /\ recent' \in [Short -> Ages]
      /\ \A x \in Short : recent'[x] = IF x = c THEN OneMore(recent[x]) ELSE recent[x]
  BY RememberAges DEF FloodInv
<1>15. PICK n \in Nat : n = Len(floods)
  BY <1>1
<1>3. /\ floods' \in Seq(Flood) /\ Len(floods') = n + 1 /\ floods'[n + 1] = g
      /\ \A k \in 1..n : floods'[k] = floods[k]
  BY <1>1, <1>15, AddLast
<1>4. DOMAIN floods = 1..n /\ DOMAIN floods' = 1..(n + 1) /\ n \in Nat
      /\ \A k \in 1..(n + 1) : k \in 1..n \/ k = n + 1
  BY <1>1, <1>3, <1>15
<1>5. Short' = Short /\ Ages' = Ages /\ Flood' = Flood
  BY DEF Short, Ages, Age, Flood
<1>6. FloodTypeOK'
  BY <1>1, <1>2, <1>3, <1>5 DEF FloodTypeOK
<1>7. ModulesOnce' /\ (Loaded("g_joinflood")' <=> Loaded("g_joinflood"))
  BY <1>1 DEF ModulesOnce, Loaded
<1>8. /\ \A k \in DOMAIN floods :
            /\ ~First(k) => floods[k].joins = 1 /\ ~floods[k].locked /\ Shared(floods[k].chan)
            /\ floods[k].locked => floods[k].chan \in held
            /\ First(k) /\ ~floods[k].locked
                  => Tallied(floods[k], recent[floods[k].chan], wiped[floods[k].chan])
      /\ \A x \in Short : (\A k \in DOMAIN floods : floods[k].chan # x) => Untallied(recent[x], wiped[x])
  BY DEF FloodInv, Entries
<1> DEFINE e == Kept[c]
<1>13. e \in Short /\ (c \in Short => e = c) /\ (c \notin Short => Shared(e))
  BY FloodAssumption DEF Short, Shared
<1>14. recent[e] \in Ages /\ wiped[e] \in 0..Dur /\ g.chan = e
  BY <1>1, <1>13
<1> HIDE DEF e
\* If it is the first of its name, none of the SJOINs since was counted.
<1>9. (\A k \in 1..n : floods[k].chan # e) => Tallied(g, recent'[e], wiped[e])
  <2> SUFFICES ASSUME \A k \in 1..n : floods[k].chan # e PROVE Tallied(g, recent'[e], wiped[e])
    OBVIOUS
  <2>1. \A k \in DOMAIN recent[e] : recent[e][k] >= wiped[e]
    BY <1>4, <1>8, <1>13 DEF Untallied
  <2>2. CASE c \in Short
    <3>1. recent'[e] = OneMore(recent[e])
      BY <1>2, <1>13, <2>2
    <3>2. QED
      BY <1>14, <2>1, <3>1, TallyWindow
  <2>3. CASE c \notin Short
    <3>1. recent'[e] = recent[e] /\ Shared(g.chan)
      BY <1>2, <1>13, <1>14, <2>3
    <3>2. QED
      BY <1>14, <2>1, <3>1, TallyStrange
  <2>4. QED
    BY <2>2, <2>3
<1>10. Entries'
  <2>1. /\ \A k \in 1..n : First(k)' <=> First(k)
        /\ First(n + 1)' => \A k \in 1..n : floods[k].chan # e
        /\ ~First(n + 1)' => \E k \in 1..n : floods[k].chan = e
    <3>1. \A k \in 1..n : k <= n + 1 /\ ~(n + 1 <= k) /\ k \in 1..(n + 1) /\ floods'[k].chan = floods[k].chan
      BY <1>3, <1>4
    <3>2. n + 1 \in 1..(n + 1) /\ n + 1 <= n + 1 /\ floods'[n + 1].chan = e
      BY <1>3, <1>4, <1>14
    <3>3. \A k \in 1..n : First(k)' <=> First(k)
      BY <1>4, <3>1, <3>2 DEF First
    <3>4. First(n + 1)' <=> \A j \in 1..(n + 1) : floods'[j].chan = e => n + 1 <= j
      BY <1>3, <1>4, <3>2 DEF First
    <3>5. QED
      BY <1>4, <3>1, <3>2, <3>3, <3>4
  <2>2. ASSUME NEW k \in DOMAIN floods'
        PROVE  /\ ~First(k)' => floods'[k].joins = 1 /\ ~floods'[k].locked /\ Shared(floods'[k].chan)
               /\ floods'[k].locked => floods'[k].chan \in held'
               /\ First(k)' /\ ~floods'[k].locked
                     => Tallied(floods'[k], recent'[floods'[k].chan], wiped'[floods'[k].chan])
    <3>1. CASE k = n + 1
      <4>1. floods'[k] = g
        BY <1>3, <3>1
      <4>2. First(k)' => Tallied(g, recent'[e], wiped[e])
        <5>1. First(k)' => First(n + 1)'
          BY <3>1
        <5>2. QED
          BY <1>9, <2>1, <5>1
      <4>3. ~First(k)' => Shared(e)
        <5>1. ~First(k)' => ~First(n + 1)'
          BY <3>1
        <5>2. QED
          BY <1>4, <1>13, <2>1, <5>1
      <4>4. QED
        BY <1>14, <4>1, <4>2, <4>3
    <3>2. CASE k # n + 1
      <4>1. k \in DOMAIN floods /\ k \in 1..n /\ floods'[k] = floods[k] /\ floods[k] \in Flood
        BY <1>1, <1>3, <1>4, <3>2
      <4>2. floods[k].chan \in Short /\ floods[k].chan # c
        BY <4>1 DEF Flood
      <4>3. recent'[floods[k].chan] = recent[floods[k].chan]
        BY <1>2, <4>2
      <4>4. QED
        BY <1>8, <2>1, <4>1, <4>3
    <3>3. QED
      BY <3>1, <3>2
  <2>3. ASSUME NEW x \in Short, \A k \in DOMAIN floods' : floods'[k].chan # x
        PROVE  Untallied(recent[x], wiped[x]) /\ recent'[x] = recent[x]
    <3>1. x # c
      <4>1. x # e
        BY <1>3, <1>4, <1>14, <2>3
      <4>2. QED
        BY <1>13, <4>1
    <3>2. \A k \in DOMAIN floods : floods[k].chan # x
      BY <1>3, <1>4, <2>3
    <3>3. QED
      BY <1>2, <1>8, <3>1, <3>2
  <2>4. \A ages, w : Untallied(ages, w)' <=> Untallied(ages, w)
    BY <1>7 DEF Untallied
  <2>5. QED
    BY <1>5, <1>7, <2>2, <2>3, <2>4 DEF Entries, Untallied, Tallied
<1>11. LocksKnown'
  <2> SUFFICES ASSUME NEW x \in held
               PROVE  x \in orphans \/ \E k \in DOMAIN floods' : floods'[k].chan = x /\ floods'[k].locked
    BY DEF LocksKnown
  <2>1. x \in orphans \/ \E k \in DOMAIN floods : floods[k].chan = x /\ floods[k].locked
    BY DEF FloodInv, LocksKnown
  <2>2. \A k \in DOMAIN floods : k \in DOMAIN floods' /\ floods'[k] = floods[k]
    BY <1>3, <1>4
  <2>3. QED
    BY <2>1, <2>2
<1>12. QED
  BY <1>6, <1>7, <1>10, <1>11 DEF FloodInv

\* A locked channel's SJOINs are not counted.
LEMMA LockedJoin ==
    ASSUME FloodInv, UNCHANGED <<setup, loaded, wiped, orphans, held, floods>>, NEW c \in Short,
           NEW i \in DOMAIN floods, floods[i].chan = c, First(i), floods[i].locked, Remember(c)
    PROVE  FloodInv'
<1>1. /\ ModulesOnce /\ FloodTypeOK /\ LocksKnown
      /\ recent' \in [Short -> Ages]
      /\ \A x \in Short : recent'[x] = IF x = c THEN OneMore(recent[x]) ELSE recent[x]
  BY RememberAges DEF FloodInv
<1>2. Short' = Short /\ Ages' = Ages /\ Flood' = Flood
  BY DEF Short, Ages, Age, Flood
<1>3. FloodTypeOK'
  BY <1>1, <1>2 DEF FloodTypeOK
<1>4. ModulesOnce' /\ LocksKnown' /\ (Loaded("g_joinflood")' <=> Loaded("g_joinflood"))
  BY <1>1 DEF ModulesOnce, Loaded, LocksKnown
<1>5. \A k \in DOMAIN floods : floods[k].chan = c /\ First(k) => floods[k].locked
  <2> SUFFICES ASSUME NEW k \in DOMAIN floods, floods[k].chan = c, First(k) PROVE k = i
    OBVIOUS
  <2>1. i <= k /\ k <= i /\ i \in Nat /\ k \in Nat
    BY <1>1 DEF First, FloodTypeOK
  <2>2. QED
    BY <2>1
<1>10. \A k \in DOMAIN floods : floods[k].chan \in Short /\ (First(k)' <=> First(k))
  <2>1. \A k \in DOMAIN floods : floods[k] \in Flood /\ (First(k)' <=> First(k))
    BY <1>1 DEF First, FloodTypeOK
  <2>2. QED
    BY <2>1 DEF Flood
<1>6. \A x \in Short : (\A k \in DOMAIN floods : floods[k].chan # x) => x # c
  OBVIOUS
<1>7. \A ages, w : Untallied(ages, w)' <=> Untallied(ages, w)
  BY <1>4 DEF Untallied
<1>8. Entries'
  BY <1>1, <1>2, <1>4, <1>5, <1>6, <1>7, <1>10 DEF Entries, FloodInv, Untallied, Tallied
<1>9. QED
  BY <1>3, <1>4, <1>8 DEF FloodInv

\* An entry with new values is an entry.
LEMMA FloodEdited ==
    ASSUME NEW f \in Flood, NEW l \in 0..Dur, NEW j \in Nat, NEW e \in Int
    PROVE  /\ [f EXCEPT !.left = l, !.joins = j] \in Flood
           /\ [f EXCEPT !.joins = j, !.locked = TRUE, !.ends = e] \in Flood
           /\ [f EXCEPT !.left = l, !.ends = e] \in Flood
<1>1. \A x \in Flood : [x EXCEPT !.left = l] \in Flood
  BY DEF Flood
<1>2. \A x \in Flood : [x EXCEPT !.joins = j] \in Flood
  BY DEF Flood
<1>3. \A x \in Flood : [x EXCEPT !.locked = TRUE] \in Flood
  BY DEF Flood
<1>4. \A x \in Flood : [x EXCEPT !.ends = e] \in Flood
  BY DEF Flood
<1>5. /\ [f EXCEPT !.left = l, !.joins = j] = [[f EXCEPT !.left = l] EXCEPT !.joins = j]
      /\ [f EXCEPT !.joins = j, !.locked = TRUE, !.ends = e]
            = [[[f EXCEPT !.joins = j] EXCEPT !.locked = TRUE] EXCEPT !.ends = e]
      /\ [f EXCEPT !.left = l, !.ends = e] = [[f EXCEPT !.left = l] EXCEPT !.ends = e]
  OBVIOUS
<1>6. QED
  BY <1>1, <1>2, <1>3, <1>4, <1>5

\* m_sjoin
LEMMA SjoinStep ==
    ASSUME FloodInv, UNCHANGED <<setup, loaded>>, Loaded("g_joinflood"), NEW c \in FloodChans,
           NEW junk \in {Past, Never}, MSjoin(c, junk)
    PROVE  FloodInv'
<1> DEFINE i == FindFloodChan(c)
<1>1. floods \in Seq(Flood) /\ recent \in [Short -> Ages] /\ wiped \in [Short -> 0..Dur]
  BY DEF FloodInv, FloodTypeOK
<1>2. /\ i # 0 => i \in DOMAIN floods /\ floods[i].chan = c /\ c \in Short /\ First(i)
      /\ i = 0 => \A k \in DOMAIN floods : floods[k].chan # c
  BY <1>1, FindsChan
<1>3. Remember(c) /\ UNCHANGED wiped
  BY DEF MSjoin
<1>4. Most \in Nat \ {0, 1} /\ Dur \in Nat \ {0} /\ Hold \in Nat /\ junk \in Int
  BY FloodAssumption DEF Past
<1>5. \A e \in Flood : e.left \in 0..Dur /\ e.joins \in Nat /\ e.locked \in BOOLEAN /\ e.ends \in Int /\ e.chan \in Short
  BY DEF Flood
<1>6. \/ i = 0 /\ floods' = NewFlood(c, junk) /\ held' = held /\ orphans' = orphans
      \/ i # 0 /\ floods[i].locked /\ UNCHANGED <<floods, held, orphans>>
      \/ /\ i # 0 /\ ~floods[i].locked /\ floods[i].left = 0
         /\ floods' = [floods EXCEPT ![i] = [@ EXCEPT !.left = Dur, !.joins = 1]] /\ held' = held /\ orphans' = orphans
      \/ /\ i # 0 /\ ~floods[i].locked /\ floods[i].left # 0 /\ floods[i].joins + 1 < Most
         /\ floods' = [floods EXCEPT ![i].joins = @ + 1] /\ held' = held /\ orphans' = orphans
      \/ /\ i # 0 /\ ~floods[i].locked
         /\ floods' = [floods EXCEPT ![i] = [@ EXCEPT !.joins = floods[i].joins + 1, !.locked = TRUE, !.ends = Hold]]
         /\ held' = held \cup {c} /\ orphans' = orphans \ {c}
  BY DEF MSjoin
<1> HIDE DEF i
<1>7. CASE i = 0 /\ floods' = NewFlood(c, junk) /\ held' = held /\ orphans' = orphans
  <2> DEFINE g == [chan |-> Kept[c], left |-> Dur, joins |-> 1, locked |-> FALSE, ends |-> junk]
  <2>1. g \in Flood /\ g.chan = Kept[c] /\ ~g.locked /\ g.left = Dur /\ g.joins = 1
    <3>1. Kept[c] \in Short
      BY FloodAssumption DEF Short
    <3>2. QED
      BY <1>4, <3>1 DEF Flood
  <2>2. floods' = Append(floods, g)
    BY <1>7 DEF NewFlood
  <2> HIDE DEF g
  <2>3. QED
    BY <1>2, <1>3, <1>7, <2>1, <2>2, EntryMade
<1>8. CASE i # 0 /\ floods[i].locked /\ UNCHANGED <<floods, held, orphans>>
  BY <1>2, <1>3, <1>8, LockedJoin
<1>9. ASSUME i # 0, ~floods[i].locked,
             \/ /\ floods[i].left = 0 /\ held' = held /\ orphans' = orphans
                /\ floods' = [floods EXCEPT ![i] = [@ EXCEPT !.left = Dur, !.joins = 1]]
             \/ /\ floods[i].left # 0 /\ floods[i].joins + 1 < Most /\ held' = held /\ orphans' = orphans
                /\ floods' = [floods EXCEPT ![i].joins = @ + 1]
             \/ /\ floods' = [floods EXCEPT ![i] = [@ EXCEPT !.joins = floods[i].joins + 1, !.locked = TRUE, !.ends = Hold]]
                /\ held' = held \cup {c} /\ orphans' = orphans \ {c}
      PROVE  FloodInv'
  <2> DEFINE f == floods[i]
  <2>1. i \in DOMAIN floods /\ f \in Flood /\ f.chan = c /\ c \in Short /\ First(i) /\ ~f.locked
    BY <1>1, <1>2, <1>9
  <2>2. Tallied(f, recent[c], wiped[c]) /\ recent[c] \in Ages /\ wiped[c] \in 0..Dur
    BY <1>1, <2>1 DEF FloodInv, Entries
  <2> HIDE DEF f
  <2>3. CASE f.left = 0 /\ floods' = [floods EXCEPT ![i] = [f EXCEPT !.left = Dur, !.joins = 1]] /\ held' = held /\ orphans' = orphans
    <3> DEFINE g == [f EXCEPT !.left = Dur, !.joins = 1]
    <3>1. g \in Flood /\ g.chan = c /\ ~g.locked /\ g.left = Dur /\ g.joins = 1
      <4>1. Dur \in 0..Dur /\ 1 \in Nat /\ 0 \in Int
        BY <1>4
      <4>2. g \in Flood
        BY <2>1, <4>1, FloodEdited
      <4>3. g.chan = f.chan /\ g.locked = f.locked /\ g.left = Dur /\ g.joins = 1
        BY <2>1 DEF Flood
      <4>4. QED
        BY <2>1, <4>2, <4>3
    <3>2. floods' = [floods EXCEPT ![i] = g]
      BY <2>3
    <3> HIDE DEF g
    <3>3. \A k \in DOMAIN recent[c] : k <= Len(recent[c]) - (Most - 1) => recent[c][k] >= wiped[c]
      <4>1. /\ f.joins \in 1..(Most - 1)
            /\ \A k \in DOMAIN recent[c] : k <= Len(recent[c]) - f.joins
                  => recent[c][k] >= wiped[c] \/ recent[c][k] >= Dur - 0
        BY <2>2, <2>3 DEF Tallied
      <4>2. Len(recent[c]) \in Nat /\ DOMAIN recent[c] = 1..Len(recent[c])
            /\ \A k \in DOMAIN recent[c] : recent[c][k] \in Nat /\ recent[c][k] < Dur
        BY <2>2, Numbers
      <4> DEFINE ages == recent[c]
                 n == Len(ages)
                 j == f.joins
      <4>3. \A k \in 1..n : k <= n - (Most - 1) => k <= n - j
        BY <1>4, <4>1, <4>2
      <4> HIDE DEF n, j
      <4>4. \A k \in 1..n : k <= n - j => ages[k] >= wiped[c]
        BY <1>4, <4>1, <4>2 DEF n, j
      <4>5. QED
        BY <4>2, <4>3, <4>4 DEF n
    <3>4. Tallied(g, OneMore(recent[c]), wiped[c])
      BY <2>2, <3>1, <3>3, TallyWindow
    <3>5. QED
      BY <1>3, <2>1, <2>3, <3>1, <3>2, <3>4, EntryChanges DEF f
  <2>4. CASE f.left # 0 /\ f.joins + 1 < Most /\ floods' = [floods EXCEPT ![i] = [f EXCEPT !.joins = f.joins + 1]] /\ held' = held /\ orphans' = orphans
    <3> DEFINE g == [f EXCEPT !.joins = f.joins + 1]
    <3>1. g \in Flood /\ g.chan = c /\ g.chan = f.chan /\ ~g.locked /\ g.left = f.left /\ g.joins = f.joins + 1
      BY <1>4, <2>1 DEF Flood
    <3>2. floods' = [floods EXCEPT ![i] = g]
      BY <2>4
    <3> HIDE DEF g
    <3>3. f.left \in 1..Dur
      BY <1>4, <1>5, <2>1, <2>4
    <3>4. Tallied(g, OneMore(recent[c]), wiped[c])
      BY <2>2, <2>4, <3>1, <3>3, TallyJoin
    <3>5. QED
      BY <1>3, <2>1, <2>4, <3>1, <3>2, <3>4, EntryChanges DEF f
  <2>5. CASE /\ floods' = [floods EXCEPT ![i] = [f EXCEPT !.joins = f.joins + 1, !.locked = TRUE, !.ends = Hold]]
             /\ held' = held \cup {c} /\ orphans' = orphans \ {c}
    <3> DEFINE g == [f EXCEPT !.joins = f.joins + 1, !.locked = TRUE, !.ends = Hold]
    <3>1. g \in Flood /\ g.chan = c /\ g.locked
      <4>1. f.joins + 1 \in Nat /\ 0 \in 0..Dur /\ Hold \in Int
        BY <1>4, <1>5, <2>1
      <4>2. g \in Flood
        BY <2>1, <4>1, FloodEdited
      <4>3. g.chan = f.chan /\ g.locked
        BY <2>1 DEF Flood
      <4>4. QED
        BY <2>1, <4>2, <4>3
    <3>2. floods' = [floods EXCEPT ![i] = g]
      BY <2>5
    <3> HIDE DEF g
    <3>3. QED
      BY <1>3, <2>1, <2>5, <3>1, <3>2, EntryChanges DEF f
  <2>6. \/ f.left = 0 /\ floods' = [floods EXCEPT ![i] = [f EXCEPT !.left = Dur, !.joins = 1]] /\ held' = held /\ orphans' = orphans
        \/ f.left # 0 /\ f.joins + 1 < Most /\ floods' = [floods EXCEPT ![i] = [f EXCEPT !.joins = f.joins + 1]] /\ held' = held /\ orphans' = orphans
        \/ /\ floods' = [floods EXCEPT ![i] = [f EXCEPT !.joins = f.joins + 1, !.locked = TRUE, !.ends = Hold]]
           /\ held' = held \cup {c} /\ orphans' = orphans \ {c}
    <3>1. f = floods[i]
      BY DEF f
    <3>2. [floods EXCEPT ![i] = [@ EXCEPT !.left = Dur, !.joins = 1]] = [floods EXCEPT ![i] = [f EXCEPT !.left = Dur, !.joins = 1]]
      BY <3>1
    <3>3. [floods EXCEPT ![i].joins = @ + 1] = [floods EXCEPT ![i] = [f EXCEPT !.joins = f.joins + 1]]
      BY <3>1
    <3>4. [floods EXCEPT ![i] = [@ EXCEPT !.joins = floods[i].joins + 1, !.locked = TRUE, !.ends = Hold]]
             = [floods EXCEPT ![i] = [f EXCEPT !.joins = f.joins + 1, !.locked = TRUE, !.ends = Hold]]
      BY <3>1
    <3>5. QED
      BY <1>9, <3>1, <3>2, <3>3, <3>4
  <2>7. QED
    BY <2>3, <2>4, <2>5, <2>6
<1>10. QED
  BY <1>6, <1>7, <1>8, <1>9

\* A second passes for every entry, every SJOIN and every removed count.
LEMMA SecondStep ==
    ASSUME FloodInv, UNCHANGED <<setup, loaded>>, Second
    PROVE  FloodInv'
<1>1. /\ ModulesOnce /\ floods \in Seq(Flood) /\ held \subseteq Short
      /\ recent \in [Short -> Ages] /\ wiped \in [Short -> 0..Dur]
      /\ held' = held /\ orphans' = orphans
  BY DEF FloodInv, FloodTypeOK, Second
<1>2. Most \in Nat \ {0, 1} /\ Dur \in Nat \ {0} /\ Never \in Int /\ Past \in Int
  BY FloodAssumption DEF Past
<1>3. ASSUME NEW i \in DOMAIN floods
      PROVE  /\ floods'[i] \in Flood /\ floods'[i].chan = floods[i].chan /\ floods'[i].locked = floods[i].locked
             /\ floods'[i].joins = floods[i].joins
             /\ floods'[i].left = IF floods[i].left = 0 THEN 0 ELSE floods[i].left - 1
  <2> DEFINE f == floods[i]
             left == Max({0, f.left - 1})
             ends == IF f.ends = Never THEN Never ELSE Max({Past, f.ends - 1})
  <2>1. f \in Flood
    BY <1>1
  <2>2. f.left \in 0..Dur /\ f.ends \in Int
    BY <2>1 DEF Flood
  <2>3. left = (IF f.left = 0 THEN 0 ELSE f.left - 1)
    <3>1. left = IF 0 >= f.left - 1 THEN 0 ELSE f.left - 1
      BY <1>2, <2>2, MaxOfTwo
    <3>2. QED
      BY <1>2, <2>2, <3>1
  <2>4. left \in 0..Dur
    BY <1>2, <2>2, <2>3
  <2>5. ends \in Int
    <3>1. Max({Past, f.ends - 1}) = IF Past >= f.ends - 1 THEN Past ELSE f.ends - 1
      BY <1>2, <2>2, MaxOfTwo
    <3>2. QED
      BY <1>2, <2>2, <3>1
  <2>6. floods'[i] = [f EXCEPT !.left = left, !.ends = ends]
    BY DEF Second
  <2> HIDE DEF f, left, ends
  <2>7. floods'[i] \in Flood
    <3>1. 0 \in Nat
      OBVIOUS
    <3>2. [f EXCEPT !.left = left, !.ends = ends] \in Flood
      BY <2>1, <2>4, <2>5, <3>1, FloodEdited, Zenon
    <3>3. QED
      BY <2>6, <3>2
  <2>8. floods'[i].chan = f.chan /\ floods'[i].locked = f.locked /\ floods'[i].joins = f.joins /\ floods'[i].left = left
    BY <2>1, <2>6 DEF Flood
  <2>9. QED
    BY <2>3, <2>7, <2>8 DEF f
<1>4. floods' \in Seq(Flood) /\ DOMAIN floods' = DOMAIN floods
  <2>1. DOMAIN floods = 1..Len(floods) /\ Len(floods) \in Nat
    BY <1>1
  <2>2. DOMAIN floods' = DOMAIN floods /\ floods' = [i \in DOMAIN floods |-> floods'[i]]
    BY DEF Second
  <2>3. floods' \in [1..Len(floods) -> Flood]
    BY <1>3, <2>1, <2>2
  <2>4. QED
    BY <2>1, <2>2, <2>3
<1>5. \A x \in Short : recent'[x] = Older(recent[x]) /\ recent[x] \in Ages /\ Older(recent[x]) \in Ages
  BY <1>1, OlderAges DEF Second
<1>6. recent' \in [Short -> Ages]
  BY <1>5 DEF Second
<1>7. \A x \in Short : wiped'[x] \in 0..Dur /\ wiped[x] \in 0..Dur /\ wiped'[x] <= wiped[x] + 1
  <2> SUFFICES ASSUME NEW x \in Short
               PROVE  wiped'[x] \in 0..Dur /\ wiped[x] \in 0..Dur /\ wiped'[x] <= wiped[x] + 1
    OBVIOUS
  <2>1. wiped[x] \in 0..Dur /\ wiped'[x] = Min({Dur, wiped[x] + 1})
    BY <1>1 DEF Second
  <2>2. wiped'[x] = IF Dur <= wiped[x] + 1 THEN Dur ELSE wiped[x] + 1
    BY <1>2, <2>1, MinOfTwo
  <2>3. QED
    BY <1>2, <2>1, <2>2
<1>8. wiped' \in [Short -> 0..Dur]
  BY <1>7 DEF Second
<1>9. Short' = Short /\ Ages' = Ages /\ Flood' = Flood
  BY DEF Short, Ages, Age, Flood
<1>10. FloodTypeOK'
  BY <1>1, <1>4, <1>6, <1>8, <1>9 DEF FloodTypeOK
<1>11. ModulesOnce' /\ (Loaded("g_joinflood")' <=> Loaded("g_joinflood"))
  BY <1>1 DEF ModulesOnce, Loaded
<1>12. LocksKnown'
  BY <1>1, <1>3, <1>4 DEF FloodInv, LocksKnown
<1>13. ASSUME NEW k \in DOMAIN floods, First(k), ~floods[k].locked
       PROVE  Tallied(floods'[k], recent'[floods[k].chan], wiped'[floods[k].chan])
  <2> DEFINE x == floods[k].chan
             f == floods[k]
             g == floods'[k]
             w2 == wiped'[x]
  <2>1. Tallied(f, recent[x], wiped[x])
    BY <1>13 DEF FloodInv, Entries
  <2>2. g.chan = f.chan /\ g.joins = f.joins /\ g.left = (IF f.left = 0 THEN 0 ELSE f.left - 1)
    BY <1>3
  <2>3. f.left \in 0..Dur /\ x \in Short
    <3>1. f \in Flood
      BY <1>1
    <3>2. QED
      BY <3>1 DEF Flood
  <2>4. recent[x] \in Ages /\ wiped[x] \in 0..Dur /\ w2 \in 0..Dur /\ w2 <= wiped[x] + 1
    BY <1>5, <1>7, <2>3
  <2> HIDE DEF f, g, w2
  <2>5. Tallied(g, Older(recent[x]), w2)
    BY <2>1, <2>2, <2>3, <2>4, TallySecond
  <2>6. recent'[x] = Older(recent[x])
    BY <1>5, <2>3
  <2>7. QED
    BY <2>5, <2>6 DEF g, w2
<1>14. ASSUME NEW x \in Short, Untallied(recent[x], wiped[x]) PROVE Untallied(Older(recent[x]), wiped'[x])
  <2> DEFINE ages == recent[x]
             new == Older(ages)
             n == Len(ages)
             w == wiped[x]
             w2 == wiped'[x]
             rest == IF Loaded("g_joinflood") THEN 0 ELSE 2 * Most - 2
  <2>1. PICK d \in 0..n :
           /\ Len(new) = n - d
           /\ \A k \in 1..(n - d) : new[k] = ages[k + d] + 1
    BY <1>5, OlderAges
  <2>2. n \in Nat /\ DOMAIN ages = 1..n /\ DOMAIN new = 1..Len(new) /\ \A k \in 1..n : ages[k] \in Nat
    BY <1>5, Numbers
  <2>3. w \in 0..Dur /\ w2 \in 0..Dur /\ w2 <= w + 1 /\ rest \in Nat
    BY <1>2, <1>7
  <2>4. \A k \in 1..n : k <= n - rest => ages[k] >= w
    <3>1. CASE Loaded("g_joinflood")
      BY <1>14, <2>2, <3>1 DEF Untallied
    <3>2. CASE ~Loaded("g_joinflood")
      BY <1>14, <2>2, <3>2 DEF Untallied
    <3>3. QED
      BY <3>1, <3>2
  <2> HIDE DEF n, new, ages, w, w2, rest
  <2>5. \A k \in 1..(n - d) : k <= n - d - rest => new[k] >= w2
    <3> SUFFICES ASSUME NEW k \in 1..(n - d), k <= n - d - rest PROVE new[k] >= w2
      OBVIOUS
    <3>1. k + d \in 1..n /\ k + d <= n - rest
      BY <2>1, <2>2, <2>3
    <3>2. ages[k + d] >= w /\ ages[k + d] \in Nat /\ new[k] = ages[k + d] + 1
      BY <2>1, <2>2, <2>4, <3>1
    <3>3. QED
      BY <1>2, <2>3, <3>2
  <2>6. \A k \in DOMAIN new : k <= Len(new) - rest => new[k] >= w2
    BY <2>1, <2>2, <2>5
  <2>7. CASE Loaded("g_joinflood")
    <3>1. rest = 0
      BY <2>7 DEF rest
    <3>2. \A k \in DOMAIN new : k <= Len(new) - rest
      BY <2>1, <2>2, <3>1
    <3>3. QED
      BY <2>6, <2>7, <3>2 DEF Untallied, new, ages, w2
  <2>8. CASE ~Loaded("g_joinflood")
    BY <2>6, <2>8 DEF Untallied, new, ages, w2, rest
  <2>9. QED
    BY <2>7, <2>8
<1>15. Entries'
  <2>1. \A k \in DOMAIN floods : First(k)' <=> First(k)
    BY <1>3, <1>4 DEF First
  <2>2. ASSUME NEW k \in DOMAIN floods'
        PROVE  /\ ~First(k)' => floods'[k].joins = 1 /\ ~floods'[k].locked /\ Shared(floods'[k].chan)
               /\ floods'[k].locked => floods'[k].chan \in held'
               /\ First(k)' /\ ~floods'[k].locked
                     => Tallied(floods'[k], recent'[floods'[k].chan], wiped'[floods'[k].chan])
    <3>1. /\ k \in DOMAIN floods /\ floods'[k].chan = floods[k].chan /\ floods'[k].locked = floods[k].locked
          /\ floods'[k].joins = floods[k].joins
      BY <1>3, <1>4
    <3>2. /\ floods[k].locked => floods[k].chan \in held
          /\ ~First(k) => floods[k].joins = 1 /\ ~floods[k].locked /\ Shared(floods[k].chan)
      BY <3>1 DEF FloodInv, Entries
    <3>3. QED
      BY <1>1, <1>13, <2>1, <3>1, <3>2
  <2>3. ASSUME NEW x \in Short, \A k \in DOMAIN floods' : floods'[k].chan # x, Loaded("g_joinflood")' \/ x \notin held'
        PROVE  Untallied(recent'[x], wiped'[x])
    <3>1. \A k \in DOMAIN floods : floods[k].chan # x
      BY <1>3, <1>4, <2>3
    <3>2. Untallied(recent[x], wiped[x])
      BY <1>1, <1>11, <2>3, <3>1 DEF FloodInv, Entries
    <3>3. QED
      BY <1>5, <1>14, <3>2
  <2>4. \A ages, w : Untallied(ages, w)' <=> Untallied(ages, w)
    BY <1>11 DEF Untallied
  <2>5. ~Loaded("g_joinflood")' => floods' = <<>>
    <3>1. ~Loaded("g_joinflood")' => floods = <<>>
      BY <1>11 DEF FloodInv, Entries
    <3>2. floods = <<>> => floods' = <<>>
      BY <1>4
    <3>3. QED
      BY <3>1, <3>2
  <2>6. QED
    BY <1>9, <1>11, <2>2, <2>3, <2>4, <2>5 DEF Entries, Untallied, Tallied
<1>16. QED
  BY <1>10, <1>11, <1>12, <1>15 DEF FloodInv

\* chk_floods: an entry goes with its lock, or its count.
LEMMA ReleaseStep ==
    ASSUME FloodInv, UNCHANGED <<setup, loaded>>, Loaded("g_joinflood"), NEW sent, ChkFloods(sent)
    PROVE  FloodInv'
<1> DEFINE stale == SelectInSeq(floods, LAMBDA f : ~f.locked /\ f.ends = Past)
           upto  == IF stale = 0 THEN Len(floods) ELSE stale
           over  == {i \in 1..upto : floods[i].ends = Past}
           rest  == DOMAIN floods \ over
           n     == Cardinality(rest)
<1>1. floods' = Picked(floods, rest)
  BY DEF ChkFloods
<1> DEFINE done == {floods[i].chan : i \in {k \in over : floods[k].locked}}
<1>2. /\ \/ held' = held \ done /\ orphans' = orphans
         \/ held' = held /\ orphans' = orphans \cup done
      /\ wiped' = [c \in Short |-> IF \E i \in over : floods[i].chan = c THEN 0 ELSE wiped[c]]
      /\ recent' = recent
  BY DEF ChkFloods, Unlock
<1> HIDE DEF over
<1>3. /\ ModulesOnce /\ floods \in Seq(Flood) /\ held \subseteq Short
      /\ recent \in [Short -> Ages] /\ wiped \in [Short -> 0..Dur]
  BY DEF FloodInv, FloodTypeOK
<1>4. DOMAIN floods = 1..Len(floods) /\ Len(floods) \in Nat /\ rest \subseteq DOMAIN floods
  BY <1>3
\* Every entry that is not over is still there, and no other.
<1>5. PICK at \in [1..n -> rest] :
         /\ \A j, k \in 1..n : j < k => at[j] < at[k]
         /\ \A i \in rest : \E k \in 1..n : at[k] = i
         /\ \A k \in 1..n : floods'[k] = floods[at[k]]
  <2>1. rest \in SUBSET (1..Len(floods))
    BY <1>4
  <2> HIDE DEF rest
  <2>2. \E at \in [1..n -> rest] :
           /\ \A j, k \in 1..n : j < k => at[j] < at[k]
           /\ \A i \in rest : \E k \in 1..n : at[k] = i
           /\ \A k \in 1..n : Picked(floods, rest)[k] = floods[at[k]]
    BY <1>3, <2>1, PickedKeeps
  <2>3. QED
    BY <1>1, <2>2
<1>6. floods' \in Seq(Flood) /\ Len(floods') = n /\ n \in Nat
  BY <1>1, <1>3, <1>4, PickedKeeps
<1> HIDE DEF n
<1>7. /\ DOMAIN floods' = 1..n
      /\ \A k \in 1..n : at[k] \in rest /\ at[k] \in DOMAIN floods /\ at[k] \notin over /\ floods'[k] = floods[at[k]]
  BY <1>4, <1>5, <1>6
<1>8. \A j, k \in 1..n : at[j] = at[k] => j = k
  <2> SUFFICES ASSUME NEW j \in 1..n, NEW k \in 1..n, at[j] = at[k], j # k PROVE FALSE
    OBVIOUS
  <2>1. at[j] \in Nat /\ at[k] \in Nat
    BY <1>4, <1>7
  <2>2. j < k \/ k < j
    OBVIOUS
  <2>3. QED
    BY <1>5, <2>1, <2>2
<1> HIDE DEF rest
<1>10. Short' = Short /\ Ages' = Ages /\ Flood' = Flood
  BY DEF Short, Ages, Age, Flood
<1>11. wiped' \in [Short -> 0..Dur]
  <2>1. 0 \in 0..Dur
    BY FloodAssumption
  <2>2. QED
    BY <1>2, <1>3, <2>1
<1>12. FloodTypeOK'
  BY <1>2, <1>3, <1>6, <1>10, <1>11 DEF FloodTypeOK
<1>13. ModulesOnce' /\ (Loaded("g_joinflood")' <=> Loaded("g_joinflood"))
  BY <1>3 DEF ModulesOnce, Loaded
<1>14. /\ \A k \in DOMAIN floods :
            /\ ~First(k) => floods[k].joins = 1 /\ ~floods[k].locked /\ Shared(floods[k].chan)
            /\ floods[k].locked => floods[k].chan \in held
            /\ First(k) /\ ~floods[k].locked
                  => Tallied(floods[k], recent[floods[k].chan], wiped[floods[k].chan])
       /\ \A x \in Short : (\A k \in DOMAIN floods : floods[k].chan # x) => Untallied(recent[x], wiped[x])
  BY DEF FloodInv, Entries
<1>15. over \subseteq DOMAIN floods
  <2>1. stale \in 0..Len(floods)
    <3> DEFINE S == {i \in 1..Len(floods) : ~floods[i].locked /\ floods[i].ends = Past}
    <3>1. stale = IF S # {} THEN Min(S) ELSE 0
      BY DEF SelectInSeq
    <3>2. S # {} => Min(S) \in S
      <4>1. S \in SUBSET Nat
        OBVIOUS
      <4>2. S # {} => \E x \in S : \A y \in S : x <= y
        BY <4>1, LeastOfSet
      <4> HIDE DEF S
      <4>3. QED
        BY <4>2 DEF Min
    <3>3. QED
      BY <1>4, <3>1, <3>2
  <2> HIDE DEF stale
  <2>2. QED
    BY <1>4, <2>1 DEF over
<1>16. Entries'
\* An entry that is the first of its name now was so before, or the one before it has gone.
  <2>1. ASSUME NEW k \in 1..n
        PROVE  /\ First(at[k]) => First(k)'
               /\ First(k)' /\ ~First(at[k]) => \E i \in over : floods[i].chan = floods[at[k]].chan
    <3>1. ASSUME First(at[k]), NEW j \in 1..n, floods'[j].chan = floods'[k].chan, ~(k <= j) PROVE FALSE
      <4>1. at[j] < at[k] /\ at[j] \in Nat /\ at[k] \in Nat
        BY <1>4, <1>5, <1>6, <1>7, <3>1
      <4>2. at[k] <= at[j]
        BY <1>7, <3>1 DEF First
      <4>3. QED
        BY <4>1, <4>2
    <3>2. ASSUME First(k)', NEW i \in DOMAIN floods, floods[i].chan = floods[at[k]].chan, ~(at[k] <= i),
                 i \notin over
          PROVE  FALSE
      <4>1. i \in rest
        BY <3>2 DEF rest
      <4>2. PICK j \in 1..n : at[j] = i
        BY <1>5, <4>1
      <4>3. k <= j
        BY <1>7, <3>2, <4>2 DEF First
      <4>4. at[k] <= at[j] /\ at[k] \in Nat /\ at[j] \in Nat
        <5>1. at[k] \in Nat /\ at[j] \in Nat
          BY <1>4, <1>7
        <5>2. k < j \/ k = j
          BY <1>6, <4>3
        <5>3. QED
          BY <1>5, <5>1, <5>2
      <4>5. QED
        BY <3>2, <4>2, <4>4
    <3>3. QED
      BY <1>7, <3>1, <3>2 DEF First
  <2>2. ASSUME NEW k \in DOMAIN floods'
        PROVE  /\ ~First(k)' => floods'[k].joins = 1 /\ ~floods'[k].locked /\ Shared(floods'[k].chan)
               /\ floods'[k].locked => floods'[k].chan \in held'
               /\ First(k)' /\ ~floods'[k].locked
                     => Tallied(floods'[k], recent'[floods'[k].chan], wiped'[floods'[k].chan])
    <3>1. at[k] \in DOMAIN floods /\ at[k] \notin over /\ floods'[k] = floods[at[k]] /\ k \in 1..n
      BY <1>7
    <3> DEFINE f == floods[at[k]]
               x == f.chan
    <3>2. f \in Flood /\ x \in Short
      <4>1. f \in Flood
        BY <1>3, <3>1
      <4>2. QED
        BY <4>1 DEF Flood
    <3>3. f.locked => x \in held'
      <4> SUFFICES ASSUME f.locked PROVE x \notin done
        BY <1>2, <1>14, <3>1
      <4>1. First(at[k])
        BY <1>14, <3>1
      <4>2. ASSUME NEW i \in over, floods[i].locked, floods[i].chan = x PROVE FALSE
        <5>1. i \in DOMAIN floods /\ First(i)
          BY <1>14, <1>15, <4>2
        <5>2. i <= at[k] /\ at[k] <= i /\ i \in Nat /\ at[k] \in Nat
          BY <1>4, <3>1, <4>1, <4>2, <5>1 DEF First
        <5>3. i = at[k]
          BY <5>2
        <5>4. QED
          BY <3>1, <4>2, <5>3
      <4>3. QED
        BY <4>2
    <3>4. ~First(k)' => f.joins = 1 /\ ~f.locked /\ Shared(x)
      BY <1>14, <2>1, <3>1
    <3>5. ASSUME First(k)', ~f.locked PROVE Tallied(f, recent[x], wiped'[x])
      <4>1. CASE \E i \in over : floods[i].chan = x
        <5>1. wiped'[x] = 0 /\ recent[x] \in Ages /\ 0 \in 0..Dur
          BY <1>2, <1>3, <3>2, <4>1, FloodAssumption
        <5>2. CASE First(at[k])
          <6>1. Tallied(f, recent[x], wiped[x])
            BY <1>14, <3>1, <3>5, <5>2
          <6>2. \A i \in DOMAIN recent[x] : recent[x][i] >= 0
            BY <5>1, Numbers
          <6> HIDE DEF f, x
          <6>3. QED
            BY <5>1, <6>1, <6>2 DEF Tallied
        <5>3. CASE ~First(at[k])
          <6>1. f.joins = 1 /\ Shared(x)
            BY <1>14, <3>1, <5>3
          <6>2. \A i \in DOMAIN recent[x] : recent[x][i] >= 0
            BY <5>1, Numbers
          <6>3. QED
            BY <5>1, <6>1, <6>2, TallyStrange
        <5>4. QED
          BY <5>2, <5>3
      <4>2. CASE ~\E i \in over : floods[i].chan = x
        <5>1. First(at[k]) /\ wiped'[x] = wiped[x]
          BY <1>2, <2>1, <3>1, <3>2, <3>5, <4>2
        <5>2. QED
          BY <1>14, <3>1, <3>5, <5>1
      <4>3. QED
        BY <4>1, <4>2
    <3>6. QED
      BY <1>2, <3>1, <3>3, <3>4, <3>5
  <2>3. ASSUME NEW x \in Short, \A k \in DOMAIN floods' : floods'[k].chan # x, Loaded("g_joinflood")' \/ x \notin held'
        PROVE  Untallied(recent[x], wiped'[x])
    <3>1. CASE \E i \in over : floods[i].chan = x
      <4>1. wiped'[x] = 0 /\ recent[x] \in Ages
        BY <1>2, <1>3, <3>1
      <4>2. \A k \in DOMAIN recent[x] : recent[x][k] >= wiped'[x]
        BY <4>1, Numbers
      <4>3. QED
        BY <4>2 DEF Untallied
    <3>2. CASE ~\E i \in over : floods[i].chan = x
      <4>1. \A i \in DOMAIN floods : floods[i].chan # x
        <5> SUFFICES ASSUME NEW i \in DOMAIN floods, floods[i].chan = x PROVE FALSE
          OBVIOUS
        <5>1. i \in rest
          BY <3>2 DEF rest
        <5>2. PICK k \in 1..n : at[k] = i
          BY <1>5, <5>1
        <5>3. QED
          BY <1>7, <2>3, <5>2
      <4>2. wiped'[x] = wiped[x]
        BY <1>2, <3>2
      <4>3. QED
        BY <1>2, <1>13, <1>14, <2>3, <4>1, <4>2
    <3>3. QED
      BY <3>1, <3>2
  <2>4. \A ages, w : Untallied(ages, w)' <=> Untallied(ages, w)
    BY <1>13 DEF Untallied
  <2>6. QED
    BY <1>2, <1>10, <1>13, <2>2, <2>3, <2>4 DEF Entries, Untallied, Tallied
<1>17. LocksKnown'
  <2> SUFFICES ASSUME NEW x \in held', x \notin orphans'
               PROVE  \E k \in 1..n : floods'[k].chan = x /\ floods'[k].locked
    BY <1>7 DEF LocksKnown
  <2>1. x \in held /\ x \notin orphans /\ x \notin done
    BY <1>2
  <2>2. PICK i \in DOMAIN floods : floods[i].chan = x /\ floods[i].locked
    BY <2>1 DEF FloodInv, LocksKnown
  <2>3. i \notin over
    BY <2>1, <2>2
  <2>4. PICK k \in 1..n : at[k] = i
    BY <1>5, <2>2, <2>3 DEF rest
  <2>5. QED
    BY <1>7, <2>2, <2>4
<1>18. QED
  BY <1>12, <1>13, <1>16, <1>17 DEF FloodInv

-----------------------------------------------------------------------------
(* Join floods: modules come and go *)

\* A module is loaded once, and none is left when it is unloaded.
LEMMA ModulesComeAndGo ==
    ASSUME ModulesOnce, setup' = setup, NEW m, LoadModule(m) \/ UnloadModule(m)
    PROVE  /\ ModulesOnce'
           /\ \A x : Loaded(x)' <=> (IF x = m THEN LoadModule(m) ELSE Loaded(x))
<1>1. loaded \in Seq(setup.modules) /\ IsInjective(loaded)
  BY DEF ModulesOnce
<1>2. CASE LoadModule(m)
  <2>1. m \in setup.modules /\ m \notin ToSet(loaded) /\ loaded' = Append(loaded, m)
    BY <1>2 DEF LoadModule, Loaded
  <2>2. loaded' \in Seq(setup.modules) /\ IsInjective(loaded') /\ ToSet(loaded') = ToSet(loaded) \cup {m}
    BY <1>1, <2>1, AppendKeeps
  <2>3. QED
    BY <1>2, <2>2 DEF ModulesOnce, Loaded
<1>3. CASE UnloadModule(m)
  <2>1. m \in ToSet(loaded) /\ loaded' = RemoveFirst(loaded, m)
    BY <1>3 DEF UnloadModule, Loaded
  <2>2. loaded' \in Seq(setup.modules) /\ IsInjective(loaded') /\ ToSet(loaded') = ToSet(loaded) \ {m}
    BY <1>1, <2>1, RemovedKeeps
  <2>3. ~LoadModule(m)
    BY <1>3 DEF LoadModule, UnloadModule
  <2>4. QED
    BY <2>2, <2>3 DEF ModulesOnce, Loaded
<1>4. QED
  BY <1>2, <1>3

\* A step of the other modules.
LEMMA OthersStep ==
    ASSUME FloodInv, UNCHANGED <<setup, floodVars>>, ModulesOnce',
           Loaded("g_joinflood")' <=> Loaded("g_joinflood")
    PROVE  FloodInv'
<1>1. UNCHANGED <<floods, held, recent, wiped, orphans>>
  BY DEF floodVars
<1>2. \A f, ages, w : (Tallied(f, ages, w)' <=> Tallied(f, ages, w)) /\ (Untallied(ages, w)' <=> Untallied(ages, w))
  BY DEF Tallied, Untallied
<1>3. Short' = Short /\ Ages' = Ages /\ Flood' = Flood /\ \A k : First(k)' <=> First(k)
  BY <1>1 DEF Short, Ages, Age, Flood, First
<1>4. FloodTypeOK' /\ LocksKnown'
  BY <1>1, <1>3 DEF FloodInv, FloodTypeOK, LocksKnown
<1>5. Entries'
  BY <1>1, <1>2, <1>3 DEF FloodInv, Entries
<1>6. QED
  BY <1>4, <1>5 DEF FloodInv

\* joinflood_load: nothing is counted, nor need it be.
LEMMA LoadStep ==
    ASSUME FloodInv, setup' = setup, LoadModule("g_joinflood"), JoinfloodLoad
    PROVE  FloodInv'
<1>1. ModulesOnce' /\ Loaded("g_joinflood")'
  BY ModulesComeAndGo DEF FloodInv
<1>2. floods' = <<>> /\ wiped' = [c \in Short |-> 0] /\ UNCHANGED <<held, recent, orphans>>
  BY DEF JoinfloodLoad
<1>3. ~Loaded("g_joinflood")
  BY DEF LoadModule
<1>4. Short' = Short /\ Ages' = Ages /\ Flood' = Flood
  BY DEF Short, Ages, Age, Flood
<1>5. FloodTypeOK'
  <2>1. 0 \in 0..Dur /\ <<>> \in Seq(Flood)
    BY FloodAssumption
  <2>2. QED
    BY <1>2, <1>4, <2>1 DEF FloodInv, FloodTypeOK
<1>6. Entries'
  <2>1. \A x \in Short : \A k \in DOMAIN recent[x] : recent[x][k] >= 0
    BY Numbers DEF FloodInv, FloodTypeOK
  <2>2. \A x \in Short : Untallied(recent[x], 0)'
    BY <1>1, <1>2, <2>1 DEF Untallied
  <2>3. DOMAIN floods' = {}
    BY <1>2
  <2>4. \A x \in Short : Untallied(recent[x], wiped[x])'
    BY <1>2, <2>2 DEF Untallied
  <2>5. QED
    BY <1>1, <1>4, <2>3, <2>4 DEF Entries
<1>7. LocksKnown'
  BY <1>2, <1>3 DEF FloodInv, LocksKnown, Entries
<1>8. QED
  BY <1>1, <1>5, <1>6, <1>7 DEF FloodInv

\* joinflood_close: the locks are orphans, the counts are lost.
LEMMA CloseStep ==
    ASSUME FloodInv, setup' = setup, UnloadModule("g_joinflood"), JoinfloodClose
    PROVE  FloodInv'
<1>1. ModulesOnce' /\ ~Loaded("g_joinflood")'
  BY ModulesComeAndGo DEF FloodInv, LoadModule, UnloadModule
<1>2. floods' = <<>> /\ orphans' = orphans \cup held /\ UNCHANGED <<held, recent, wiped>>
  BY DEF JoinfloodClose
<1>3. Loaded("g_joinflood")
  BY DEF UnloadModule
<1>4. Short' = Short /\ Ages' = Ages /\ Flood' = Flood
  BY DEF Short, Ages, Age, Flood
<1>5. FloodTypeOK'
  <2>1. <<>> \in Seq(Flood)
    OBVIOUS
  <2>2. QED
    BY <1>2, <1>4, <2>1 DEF FloodInv, FloodTypeOK
<1>6. ASSUME NEW x \in Short, x \notin held PROVE Untallied(recent[x], wiped[x])'
  <2> DEFINE ages == recent[x]
             n == Len(ages)
             w == wiped[x]
  <2>1. n \in Nat /\ DOMAIN ages = 1..n /\ Most \in Nat \ {0, 1}
    BY Numbers DEF FloodInv, FloodTypeOK
  <2>2. \A k \in 1..n : k <= n - (2 * Most - 2) => ages[k] >= w
    <3>1. CASE \E i \in DOMAIN floods : floods[i].chan = x
      <4>1. PICK i \in DOMAIN floods : floods[i].chan = x /\ First(i)
        BY <3>1, FirstEntry DEF FloodInv, FloodTypeOK
      <4>2. ~floods[i].locked
        BY <1>6, <4>1 DEF FloodInv, Entries
      <4>3. Tallied(floods[i], ages, w)
        BY <4>1, <4>2 DEF FloodInv, Entries
      <4> DEFINE j == floods[i].joins
      <4>4. j \in 1..(Most - 1) /\ \A k \in 1..n : k <= n - (j + Most - 1) => ages[k] >= w
        BY <2>1, <4>3 DEF Tallied
      <4> HIDE DEF n, j, ages, w
      <4>5. ASSUME NEW k \in 1..n, k <= n - (2 * Most - 2) PROVE k <= n - (j + Most - 1)
        BY <2>1, <4>4, <4>5
      <4>6. QED
        BY <4>4, <4>5
    <3>2. CASE ~\E i \in DOMAIN floods : floods[i].chan = x
      <4>1. Untallied(ages, w)
        BY <1>3, <3>2 DEF FloodInv, Entries
      <4>2. QED
        BY <1>3, <2>1, <4>1 DEF Untallied
    <3>3. QED
      BY <3>1, <3>2
  <2>3. QED
    BY <1>1, <1>2, <2>1, <2>2 DEF Untallied
<1>7. Entries'
  <2>1. DOMAIN floods' = {}
    BY <1>2
  <2>2. QED
    BY <1>1, <1>2, <1>4, <1>6, <2>1 DEF Entries
<1>8. LocksKnown'
  BY <1>2 DEF LocksKnown
<1>9. QED
  BY <1>1, <1>5, <1>7, <1>8 DEF FloodInv

-----------------------------------------------------------------------------
(* Join floods: the specification *)

LEMMA FloodStart == Init => FloodInv
<1> SUFFICES ASSUME Init PROVE FloodInv
  OBVIOUS
<1>1. /\ loaded = <<>> /\ floods = <<>> /\ held = {} /\ orphans = {}
      /\ recent = [c \in Short |-> <<>>] /\ wiped = [c \in Short |-> Dur]
  BY DEF Init, InitVisitors, InitFlood
<1>2. ModulesOnce
  BY <1>1 DEF ModulesOnce, IsInjective
<1>3. FloodTypeOK
  <2>1. <<>> \in Ages /\ Dur \in 0..Dur /\ <<>> \in Seq(Flood)
    BY FloodAssumption DEF Ages
  <2>2. QED
    BY <1>1, <2>1 DEF FloodTypeOK
<1>4. Entries
  <2>1. DOMAIN floods = {}
    BY <1>1
  <2>2. \A x \in Short : DOMAIN recent[x] = {}
    BY <1>1
  <2>3. QED
    BY <1>1, <2>1, <2>2 DEF Entries, Untallied
<1>5. LocksKnown
  BY <1>1 DEF LocksKnown
<1>6. QED
  BY <1>2, <1>3, <1>4, <1>5 DEF FloodInv

\* What the network, the other modules and the operators do leaves the floods alone.
LEMMA OthersChange ==
    ASSUME \/ \E a \in Addr, what \in setup.users : Arrival(a, what)
           \/ Departure \/ Linking \/ Moves \/ Handlers \/ Timers \/ Commands
           \/ vars' = vars
    PROVE  UNCHANGED <<setup, loaded, floodVars>>
<1>1. ASSUME NEW a \in Addr, NEW what \in setup.users, Arrival(a, what) PROVE UNCHANGED <<setup, loaded, floodVars>>
  BY <1>1 DEF Arrival, AddUser
<1>2. CASE Departure
  BY <1>2 DEF Departure, LoseLink, Quit
<1>3. CASE Linking
  BY <1>3 DEF Linking, Connect, EndBurst
<1>4. CASE Moves
  BY <1>4 DEF Moves, Join, Part, KickGuardian, UserChanges, Change
<1>5. CASE Handlers
  BY <1>5 DEF Handlers, EvhUser, ReadFreed
<1>6. CASE Timers
  BY <1>6 DEF Timers, VersionQue, ScanQue, EvhWatchqueue, visitorVars
<1>7. CASE Commands
  BY <1>7 DEF Commands, ExemptDel, ExemptAdd, ExemptLoad, CmdScan, WatchAdd, WatchRemove, WatchSet,
              SaveWatchdb, WatchRehash, SessionRehash, visitorVars
<1>8. CASE vars' = vars
  BY <1>8 DEF vars, visitorVars
<1>9. QED
  BY <1>1, <1>2, <1>3, <1>4, <1>5, <1>6, <1>7, <1>8

LEMMA FloodStep == FloodInv /\ [Next]_vars => FloodInv'
<1> SUFFICES ASSUME FloodInv, [Next]_vars PROVE FloodInv'
  OBVIOUS
<1>1. CASE \/ \E a \in Addr, what \in setup.users : Arrival(a, what)
           \/ Departure \/ Linking \/ Moves \/ Handlers \/ Timers \/ Commands
           \/ vars' = vars
  <2>1. UNCHANGED <<setup, loaded, floodVars>>
    BY <1>1, OthersChange, Zenon
  <2>2. ModulesOnce' /\ (Loaded("g_joinflood")' <=> Loaded("g_joinflood"))
    BY <2>1 DEF FloodInv, ModulesOnce, Loaded
  <2>3. QED
    BY <2>1, <2>2, OthersStep
<1>2. CASE Reloads
  <2>1. CASE LoadModule("g_joinflood") /\ JoinfloodLoad /\ setup' = setup
    BY <2>1, LoadStep
  <2>2. CASE UnloadModule("g_joinflood") /\ JoinfloodClose /\ setup' = setup
    BY <2>2, CloseStep
  <2>3. CASE /\ setup' = setup /\ UNCHANGED floodVars
             /\ \E m \in {"g_sessions", "g_scan", "g_watch"} : LoadModule(m) \/ UnloadModule(m)
    <3>1. PICK m \in {"g_sessions", "g_scan", "g_watch"} : LoadModule(m) \/ UnloadModule(m)
      BY <2>3
    <3>2. ModulesOnce' /\ (Loaded("g_joinflood")' <=> Loaded("g_joinflood"))
      BY <2>3, <3>1, ModulesComeAndGo DEF FloodInv
    <3>3. QED
      BY <2>3, <3>2, OthersStep
  <2>4. QED
    BY <1>2, <2>1, <2>2, <2>3 DEF Reloads, LoadSessions, UnloadSessions, LoadScan, UnloadScan,
                                  LoadWatch, UnloadWatch
<1>3. CASE Floods
  <2>1. UNCHANGED <<setup, loaded>> /\ Loaded("g_joinflood")
    BY <1>3 DEF Floods, visitorVars
  <2>2. CASE Second
    BY <2>1, <2>2, SecondStep
  <2>3. CASE \E c \in FloodChans \cap setup.names, junk \in {Past, Never} : MSjoin(c, junk)
    <3>1. PICK c \in FloodChans, junk \in {Past, Never} : MSjoin(c, junk)
      BY <2>3
    <3>2. junk \in Int
      BY FloodAssumption DEF Past
    <3>3. QED
      BY <2>1, <3>1, <3>2, SjoinStep
  <2>4. QED
    BY <1>3, <2>2, <2>3 DEF Floods
<1>4. CASE ReleaseFloods
  <2>1. UNCHANGED <<setup, loaded>> /\ Loaded("g_joinflood") /\ ChkFloods(linked)
    BY <1>4 DEF ReleaseFloods, visitorVars
  <2>2. QED
    BY <2>1, ReleaseStep
<1>5. QED
  BY <1>1, <1>2, <1>3, <1>4 DEF Next

\* Only an SJOIN locks, and the count it completes is one of SJOINs in the window.
LEMMA LockStep ==
    FloodInv /\ [Next]_vars => \A c \in held' \ held : Len(recent'[c]) + (IF Shared(c) THEN 1 ELSE 0) >= Most
<1> SUFFICES ASSUME FloodInv, [Next]_vars, NEW c \in held' \ held
             PROVE  Len(recent'[c]) + (IF Shared(c) THEN 1 ELSE 0) >= Most
  OBVIOUS
<1>1. PICK x \in FloodChans, junk \in {Past, Never} : MSjoin(x, junk)
  <2>1. ~(\/ \E a \in Addr, what \in setup.users : Arrival(a, what)
          \/ Departure \/ Linking \/ Moves \/ Handlers \/ Timers \/ Commands
          \/ vars' = vars)
    BY OthersChange, Zenon DEF floodVars
  <2>2. ~Reloads
    BY DEF Reloads, JoinfloodLoad, JoinfloodClose, floodVars
  <2>3. ~ReleaseFloods
    BY DEF ReleaseFloods, ChkFloods, Unlock
  <2>4. Floods
    BY <2>1, <2>2, <2>3 DEF Next
  <2>5. ~Second
    BY DEF Second
  <2>6. QED
    BY <2>4, <2>5 DEF Floods
<1> DEFINE i == FindFloodChan(x)
<1>2. i # 0 /\ ~floods[i].locked /\ floods[i].left # 0 /\ ~(floods[i].joins + 1 < Most) /\ c = x /\ Remember(x)
  BY <1>1 DEF MSjoin
<1>3. i \in DOMAIN floods /\ floods[i].chan = c /\ c \in Short /\ First(i)
  BY <1>2, FindsChan DEF FloodInv, FloodTypeOK
<1> HIDE DEF i
<1>4. floods[i] \in Flood /\ recent[c] \in Ages /\ Tallied(floods[i], recent[c], wiped[c])
  BY <1>2, <1>3 DEF FloodInv, FloodTypeOK, Entries
<1>5. floods[i].left \in 0..Dur /\ floods[i].joins \in Nat /\ Dur \in Nat
  BY <1>4, FloodAssumption DEF Flood
<1>6. floods[i].joins - Strange(c) <= Len(recent[c])
  BY <1>2, <1>3, <1>4, <1>5 DEF Tallied
<1>7. recent'[c] = OneMore(recent[c])
  BY <1>2, <1>3 DEF Remember
<1>8. PICK d \in {0, 1} : Len(recent'[c]) = Len(recent[c]) + 1 - d /\ (d = 1 => Len(recent[c]) = 2 * Most - 1)
  BY <1>4, <1>7, OneMoreAge
<1> DEFINE n == Len(recent[c])
           j == floods[i].joins
           s == Strange(c)
<1>9. n \in Nat /\ j \in Nat /\ Most \in Nat \ {0, 1} /\ j + 1 >= Most /\ j - s <= n
      /\ s = (IF Shared(c) THEN 1 ELSE 0) /\ s \in {0, 1}
  BY <1>2, <1>4, <1>5, <1>6, Numbers DEF Strange
<1> HIDE DEF n, j, s
<1>10. Len(recent'[c]) = n + 1 - d /\ (d = 0 \/ (d = 1 /\ n = 2 * Most - 1))
  BY <1>8 DEF n
<1>11. n + 1 - d + s >= Most
  BY <1>9, <1>10
<1>12. QED
  BY <1>9, <1>10, <1>11

\* What the invariant says of a channel with so many SJOINs that is not locked down: the oldest of
\* them is older than a window, which none of the list is.
LEMMA FloodsAreSeen == FloodInv => FloodsRight
<1> SUFFICES ASSUME FloodInv, NEW c \in Short, Len(recent[c]) = 2 * Most - 1, wiped[c] = Dur, c \notin held
             PROVE  FALSE
  BY DEF FloodsRight, FloodsSeen, FloodInv
<1>1. recent[c] \in Ages
  BY DEF FloodInv, FloodTypeOK
<1>2. 1 \in DOMAIN recent[c] /\ recent[c][1] < Dur /\ recent[c][1] \in Nat /\ Dur \in Nat
  BY <1>1, Numbers
<1>3. Most \in Nat \ {0, 1}
  BY Numbers
<1>4. CASE \E i \in DOMAIN floods : floods[i].chan = c
  <2>1. PICK i \in DOMAIN floods : floods[i].chan = c /\ First(i)
    BY <1>4, FirstEntry DEF FloodInv, FloodTypeOK
  <2>2. Tallied(floods[i], recent[c], Dur)
    BY <2>1 DEF FloodInv, Entries
  <2> DEFINE j == floods[i].joins
  <2>3. j \in 1..(Most - 1) /\ (1 <= 2 * Most - 1 - (j + Most - 1) => recent[c][1] >= Dur)
    BY <1>2, <2>2 DEF Tallied
  <2> HIDE DEF j
  <2>4. 1 <= 2 * Most - 1 - (j + Most - 1)
    BY <1>3, <2>3
  <2>5. QED
    BY <1>2, <2>3, <2>4
<1>5. CASE ~\E i \in DOMAIN floods : floods[i].chan = c
  <2>1. Untallied(recent[c], Dur)
    BY <1>5 DEF FloodInv, Entries
  <2>2. 1 <= 2 * Most - 1 - (2 * Most - 2)
    BY <1>3
  <2>3. recent[c][1] >= Dur
    BY <1>2, <2>1, <2>2 DEF Untallied
  <2>4. QED
    BY <1>2, <2>3
<1>6. QED
  BY <1>4, <1>5

\* m_sjoin and chk_floods: 2 * Most - 1 SJOINs within Dur seconds lock the channel down, whatever
\* entries come and go, and what is locked is known to the list, unless the module was closed or
\* the unlock could not be sent.
THEOREM FloodsRightHolds == Spec => []FloodsRight
<1>1. Spec => []FloodInv
  BY FloodStart, FloodStep, PTL DEF Spec
<1>2. QED
  BY <1>1, FloodsAreSeen, PTL

\* m_sjoin: a channel is locked down only after Most SJOINs in less than Dur seconds, one of them
\* perhaps of a longer name.
THEOREM LockedForCauseHolds == Spec => LockedForCause
<1>1. Spec => []FloodInv
  BY FloodStart, FloodStep, PTL DEF Spec
<1>2. FloodInv /\ [Next]_vars
         => [\A c \in held' \ held : Len(recent'[c]) + (IF Shared(c) THEN 1 ELSE 0) >= Most]_floodVars
  BY LockStep
<1>3. QED
  BY <1>1, <1>2, PTL DEF Spec, LockedForCause

-----------------------------------------------------------------------------
(* The chain of handlers, the version scan and the sessions: the invariants *)

\* No handler is called twice for a user, and each is one of a loaded module.
ChainRight ==
    /\ ModulesOnce
    /\ chain \in Seq(setup.modules) /\ IsInjective(chain) /\ ToSet(chain) \subseteq ToSet(loaded)
    /\ Live \subseteq Addr /\ IsFiniteSet(Live)

ScanInv ==
    /\ ChainRight
    /\ versionq \in Seq(Addr \cup {Freed}) /\ vtimers \in Nat
    /\ Loaded("g_scan") \/ versionq = <<>>
    /\ ScanReaches

\* The guest is counted neither while the handler that counts him has yet to be called.
CountsRight ==
    /\ DOMAIN sessions \subseteq Hosts /\ \A h \in DOMAIN sessions : sessions[h] \in Nat
    /\ Loaded("g_sessions") \/ sessions = <<>>
    /\ fault = "none" => \A h \in DOMAIN sessions : sessions[h] <= Cardinality(On(h) \ Waiting)
    /\ SessionsExact

-----------------------------------------------------------------------------
(* What the steps do to the users and to the chain *)

\* The steps on which users may go: what they share.
UsersGo ==
    /\ fault = "none" /\ Exits /\ UNCHANGED <<setup, guest, sync>>
    /\ Live' \subseteq Live /\ \A a \in Live' : user'[a].host = user[a].host
    /\ \/ loaded' = loaded /\ chain' = chain
       \/ loaded' = loaded /\ Handling("g_watch") /\ chain' = Tail(chain)
       \/ chain' = chain /\ (LoadModule("g_watch") \/ UnloadModule("g_watch"))

LEMMA LosingSteps ==
    ASSUME \/ Departure \/ Moves \/ (EvhUser /\ Exits) \/ (EvhWatchqueue /\ Exits)
           \/ /\ \/ \E want \in setup.wants : WatchAdd(want)
                 \/ \E name \in Chans \cup Nicks :
                       WatchRemove(name) \/ \E action \in setup.actions : WatchSet(name, action)
                 \/ SaveWatchdb
                 \/ WatchRehash
              /\ Exits
           \/ (LoadWatch \/ UnloadWatch) /\ Exits
    PROVE  UsersGo
<1>1. ASSUME NEW S PROVE LET u == Restrict(user, Live \ S)
                         IN  DOMAIN u \subseteq Live /\ \A a \in DOMAIN u : u[a] = user[a]
  BY DEF Restrict, Live
<1>2. ASSUME \/ user' = user \/ \E S : user' = Restrict(user, Live \ S)
      PROVE  Live' \subseteq Live /\ \A a \in Live' : user'[a].host = user[a].host
  BY <1>1, <1>2 DEF Live
<1>3. CASE Departure
  <2>1. user' = Restrict(user, Live \ Live) \/ \E a : user' = Restrict(user, Live \ {a})
    BY <1>3 DEF Departure, LoseLink, Quit, ExitUsers
  <2>2. QED
    BY <1>2, <1>3, <2>1 DEF Departure, LoseLink, Quit, Quiet, Calm, UsersGo
<1>4. CASE Moves
  <2>1. CASE \E a \in Live, what \in setup.users : UserChanges(a, what)
    <3>1. PICK a \in Live, what \in setup.users : UserChanges(a, what)
      BY <2>1
    <3>2. user' = [user EXCEPT ![a] = what] /\ what.host = user[a].host
      BY <3>1 DEF UserChanges, Change
    <3>3. Live' = Live /\ \A x \in Live' : user'[x].host = user[x].host
      BY <3>2 DEF Live
    <3>4. QED
      BY <1>4, <3>1, <3>3 DEF Moves, UserChanges, Change, Quiet, Calm, UsersGo
  <2>2. CASE ~\E a \in Live, what \in setup.users : UserChanges(a, what)
    <3>1. user' = user \/ \E S : user' = Restrict(user, Live \ S)
      BY <1>4, <2>2 DEF Moves, Join, Meets, Part, KickGuardian
    <3>2. QED
      BY <1>2, <1>4, <2>2, <3>1 DEF Moves, Join, Part, KickGuardian, Quiet, Calm, UsersGo
  <2>3. QED
    BY <2>1, <2>2
<1>5. CASE EvhUser /\ Exits
  <2>1. user' = user \/ \E S : user' = Restrict(user, Live \ S)
    BY <1>5 DEF EvhUser, Meets
  <2>2. QED
    BY <1>2, <1>5, <2>1 DEF EvhUser, Handling, Handled, UsersGo
<1>6. CASE EvhWatchqueue /\ Exits
  <2>1. user' = user \/ \E S : user' = Restrict(user, Live \ S)
    BY <1>6 DEF EvhWatchqueue, Strike
  <2>2. QED
    BY <1>2, <1>6, <2>1 DEF EvhWatchqueue, Calm, UsersGo
<1>7. CASE /\ \/ \E want \in setup.wants : WatchAdd(want)
              \/ \E name \in Chans \cup Nicks :
                    WatchRemove(name) \/ \E action \in setup.actions : WatchSet(name, action)
              \/ SaveWatchdb
              \/ WatchRehash
           /\ Exits
  <2>1. user' = user \/ \E S : user' = Restrict(user, Live \ S)
    BY <1>7 DEF WatchAdd, WatchRemove, WatchSet, SaveWatchdb, WatchRehash, AddWatch, Strike, visitorVars
  <2>2. QED
    BY <1>2, <1>7, <2>1 DEF WatchAdd, WatchRemove, WatchSet, SaveWatchdb, WatchRehash, Quiet, Calm, visitorVars, UsersGo
<1>8. CASE (LoadWatch \/ UnloadWatch) /\ Exits
  <2>1. user' = user \/ \E S : user' = Restrict(user, Live \ S)
    BY <1>8 DEF LoadWatch, UnloadWatch, Strike
  <2>2. QED
    BY <1>2, <1>8, <2>1 DEF LoadWatch, UnloadWatch, LoadModule, UnloadModule, Calm, UsersGo
<1>9. QED
  BY <1>3, <1>4, <1>5, <1>6, <1>7, <1>8

\* The guest goes down the chain: the first handler is no longer in it, the others are.
LEMMA ChainTail ==
    ASSUME ChainRight, chain # <<>>, chain' = Tail(chain)
    PROVE  /\ chain' \in Seq(setup.modules) /\ IsInjective(chain')
           /\ ToSet(chain') = ToSet(chain) \ {Head(chain)} /\ Head(chain) \in ToSet(loaded)
BY TailKeeps DEF ChainRight

\* All modules that listen are in a new chain, and no other.
LEMMA ChainBegins ==
    ASSUME ChainRight
    PROVE  /\ Listening \in Seq(setup.modules) /\ IsInjective(Listening)
           /\ \A m : m \in ToSet(Listening) <=> m \in ToSet(loaded) \cap {"g_scan", "g_watch", "g_sessions"}
<1> DEFINE I == {i \in DOMAIN loaded : loaded[i] \in {"g_scan", "g_watch", "g_sessions"}}
<1>1. loaded \in Seq(setup.modules) /\ IsInjective(loaded) /\ I \in SUBSET (1..Len(loaded)) /\ DOMAIN loaded = 1..Len(loaded)
  BY DEF ChainRight, ModulesOnce
<1>2. Listening = Picked(loaded, I)
  BY DEF Listening
<1>3. \A m : m \in {loaded[i] : i \in I} <=> m \in ToSet(loaded) \cap {"g_scan", "g_watch", "g_sessions"}
  BY DEF ToSet
<1> HIDE DEF I
<1>4. /\ Listening \in Seq(setup.modules) /\ IsInjective(Listening) /\ ToSet(Listening) = {loaded[i] : i \in I}
  BY <1>1, <1>2, PickedKeeps, PickedInjective
<1>5. QED
  BY <1>3, <1>4

\* The invariant of users and chain, for each thing a step may do to them.
LEMMA ChainKept ==
    ASSUME ChainRight, setup' = setup,
           Live' \subseteq Live \/ \E a \in Addr : Live' = Live \cup {a},
           \/ loaded' = loaded /\ chain' = chain
           \/ loaded' = loaded /\ chain # <<>> /\ chain' = Tail(chain)
           \/ loaded' = loaded /\ chain' = Listening
           \/ chain = <<>> /\ chain' = chain /\ \E m : LoadModule(m) \/ UnloadModule(m)
    PROVE  ChainRight'
<1>1. Live' \subseteq Addr /\ IsFiniteSet(Live')
  <2>1. CASE Live' \subseteq Live
    BY <2>1, FS_Subset DEF ChainRight
  <2>2. CASE \E a \in Addr : Live' = Live \cup {a}
    BY <2>2, FS_AddElement DEF ChainRight
  <2>3. QED
    BY <2>1, <2>2
<1>2. ModulesOnce'
  <2>1. CASE loaded' = loaded
    BY <2>1 DEF ChainRight, ModulesOnce
  <2>2. CASE \E m : LoadModule(m) \/ UnloadModule(m)
    BY <2>2, ModulesComeAndGo DEF ChainRight
  <2>3. QED
    BY <2>1, <2>2
<1>3. chain' \in Seq(setup.modules) /\ IsInjective(chain') /\ ToSet(chain') \subseteq ToSet(loaded')
  <2>1. CASE loaded' = loaded /\ chain' = chain
    BY <2>1 DEF ChainRight
  <2>2. CASE loaded' = loaded /\ chain # <<>> /\ chain' = Tail(chain)
    BY <2>2, ChainTail DEF ChainRight
  <2>3. CASE loaded' = loaded /\ chain' = Listening
    BY <2>3, ChainBegins
  <2>4. CASE chain = <<>> /\ chain' = chain
    BY <2>4 DEF IsInjective, ToSet
  <2>5. QED
    BY <2>1, <2>2, <2>3, <2>4
<1>4. QED
  BY <1>1, <1>2, <1>3 DEF ChainRight, Live

-----------------------------------------------------------------------------
(* The version scan *)

\* The queue and those asked follow the users.
ScanFollows == ScanLoses(Live \ Live') \/ (UNCHANGED scanVars /\ Live' = Live)

\* A step that asks nobody: users may go, and handlers of other modules are called.
LEMMA ScanKept ==
    ASSUME ScanInv, ChainRight', setup' = setup, guest' = guest, Live' \subseteq Live,
           fault' = "none" => fault = "none", sync' = "running" => sync = "running",
           Loaded("g_scan")' <=> Loaded("g_scan"),
           "g_scan" \in ToSet(chain) => "g_scan" \in ToSet(chain'),
           ScanFollows
    PROVE  ScanInv'
<1>1. versionq \in Seq(Addr \cup {Freed}) /\ DOMAIN versionq = 1..Len(versionq) /\ Len(versionq) \in Nat
  BY DEF ScanInv
<1>2. /\ versionq' \in Seq(Addr \cup {Freed}) /\ DOMAIN versionq' = DOMAIN versionq
      /\ \A i \in DOMAIN versionq : versionq[i] \in Live' => versionq'[i] = versionq[i]
      /\ \A a \in Live' : a \in asked => a \in asked'
      /\ UNCHANGED <<vtimers, met>>
  <2>1. CASE ScanLoses(Live \ Live')
    <3>1. versionq' = [i \in DOMAIN versionq |-> IF versionq[i] \in Live \ Live' THEN Freed ELSE versionq[i]]
      BY <2>1 DEF ScanLoses
    <3>2. versionq' \in Seq(Addr \cup {Freed})
      BY <1>1, <3>1
    <3>3. QED
      BY <1>1, <2>1, <3>1, <3>2 DEF ScanLoses
  <2>2. CASE UNCHANGED scanVars
    BY <1>1, <2>2 DEF scanVars
  <2>3. QED
    BY <2>1, <2>2 DEF ScanFollows
<1>3. versionq' = <<>> <=> versionq = <<>>
  <2>1. \A l \in Seq(Addr \cup {Freed}) : l = <<>> <=> DOMAIN l = {}
    OBVIOUS
  <2>2. QED
    BY <1>1, <1>2, <2>1
<1>4. ASSUME fault' = "none", Loaded("g_scan")', NEW a \in Live'
      PROVE  a \in asked' \/ a \in ToSet(versionq') \/ (a = guest' /\ "g_scan" \in ToSet(chain'))
  <2>1. a \in asked \/ a \in ToSet(versionq) \/ (a = guest /\ "g_scan" \in ToSet(chain))
    BY <1>4 DEF ScanInv, ScanReaches, EveryoneAsked
  <2>2. a \in ToSet(versionq) => a \in ToSet(versionq')
    BY <1>2 DEF ToSet
  <2>3. QED
    BY <1>2, <2>1, <2>2
<1>5. QED
  BY <1>2, <1>3, <1>4 DEF ScanInv, ScanReaches, EveryoneAsked, QueueTimed

\* AddUser: the new user is the guest of the chain that begins.
LEMMA ScanMeets ==
    ASSUME ScanInv, ChainRight', NEW a \in Addr, NEW what, Arrival(a, what)
    PROVE  ScanInv'
<1>1. /\ chain = <<>> /\ Live' = Live \cup {a} /\ chain' = Listening /\ guest' = a
      /\ UNCHANGED <<setup, loaded, sync, fault, versionq, vtimers, asked, met>>
  BY DEF Arrival, AddUser, Quiet, Calm, Live, scanVars
<1>2. Loaded("g_scan") => "g_scan" \in ToSet(chain')
  BY <1>1, ChainBegins DEF ScanInv, Loaded
<1>3. ToSet(chain) = {}
  BY <1>1 DEF ToSet
<1>4. QED
  BY <1>1, <1>2, <1>3 DEF ScanInv, ScanReaches, EveryoneAsked, QueueTimed, Loaded

\* scan_nick and SCAN: the user is asked, or put into the queue of the burst.
LEMMA ScanAsks ==
    ASSUME ScanInv, ChainRight', NEW a \in Live, Loaded("g_scan"), AskVersion(a),
           UNCHANGED <<setup, loaded, user, sync, guest, vtimers, met>>, fault' = fault,
           chain' = chain \/ (a = guest /\ chain # <<>> /\ chain' = Tail(chain))
    PROVE  ScanInv'
<1>1. a \in Addr
  BY DEF ScanInv, ChainRight
<1>2. /\ versionq' \in Seq(Addr \cup {Freed}) /\ ToSet(versionq) \subseteq ToSet(versionq')
      /\ asked \subseteq asked' /\ a \in asked' \cup ToSet(versionq')
      /\ sync = "running" => versionq' = versionq
  <2>1. CASE sync = "running"
    BY <2>1 DEF AskVersion, ScanInv
  <2>2. CASE sync # "running"
    <3>1. versionq' = Append(versionq, a) /\ versionq \in Seq(Addr \cup {Freed}) /\ asked' = asked
      BY <2>2 DEF AskVersion, ScanInv
    <3>2. a \in Addr \cup {Freed}
      BY <1>1
    <3>3. /\ versionq' \in Seq(Addr \cup {Freed}) /\ Len(versionq') = Len(versionq) + 1
          /\ versionq'[Len(versionq) + 1] = a /\ \A k \in 1..Len(versionq) : versionq'[k] = versionq[k]
      BY <3>1, <3>2, AddLast
    <3>4. DOMAIN versionq = 1..Len(versionq) /\ DOMAIN versionq' = 1..(Len(versionq) + 1) /\ Len(versionq) \in Nat
      BY <3>1, <3>3
    <3>5. ToSet(versionq) \subseteq ToSet(versionq') /\ a \in ToSet(versionq')
      BY <3>3, <3>4 DEF ToSet
    <3>6. QED
      BY <2>2, <3>1, <3>3, <3>5
  <2>3. QED
    BY <2>1, <2>2
<1>3. \A x : x # a /\ x = guest /\ "g_scan" \in ToSet(chain) => "g_scan" \in ToSet(chain')
  OBVIOUS
<1>4. Live' = Live /\ (Loaded("g_scan")' <=> Loaded("g_scan"))
  BY DEF Live, Loaded
<1>5. EveryoneAsked'
  <2> SUFFICES ASSUME fault' = "none", NEW x \in Live
               PROVE  x \in asked' \/ x \in ToSet(versionq') \/ (x = guest' /\ "g_scan" \in ToSet(chain'))
    BY <1>4 DEF EveryoneAsked
  <2>1. x \in asked \/ x \in ToSet(versionq) \/ (x = guest /\ "g_scan" \in ToSet(chain))
    BY DEF ScanInv, ScanReaches, EveryoneAsked
  <2>2. QED
    BY <1>2, <1>3, <2>1
<1>6. QueueTimed'
  BY <1>2 DEF ScanInv, ScanReaches, QueueTimed
<1>7. QED
  BY <1>2, <1>4, <1>5, <1>6 DEF ScanInv, ScanReaches

\* version_que: the first entries are asked, the others stay.
LEMMA ScanWorksOff ==
    ASSUME ScanInv, ChainRight', VersionQue
    PROVE  ScanInv'
<1> DEFINE n == Min({PerRun, Len(versionq)})
           one == SubSeq(versionq, 1, n)
           two == SubSeq(versionq, n + 1, Len(versionq))
<1>1. UNCHANGED <<setup, loaded, user, sync, chain, guest, stimers, met>>
  BY DEF VersionQue, scanVars
<1>2. \/ fault' = "freed user" /\ UNCHANGED scanVars
      \/ /\ asked' = asked \cup ToSet(one) /\ versionq' = two /\ fault' = fault
         /\ vtimers' = IF n = Len(versionq) THEN vtimers - 1 ELSE vtimers
  BY DEF VersionQue
<1>3. CASE fault' = "freed user" /\ UNCHANGED scanVars
  <2>1. UNCHANGED <<versionq, vtimers, asked, met, sync, loaded>>
    BY <1>1, <1>3 DEF scanVars
  <2>2. EveryoneAsked' /\ QueueTimed'
    BY <1>3, <2>1 DEF ScanInv, ScanReaches, EveryoneAsked, QueueTimed
  <2>3. QED
    BY <2>1, <2>2 DEF ScanInv, ScanReaches, Loaded
<1>4. CASE /\ asked' = asked \cup ToSet(one) /\ versionq' = two /\ fault' = fault
           /\ vtimers' = IF n = Len(versionq) THEN vtimers - 1 ELSE vtimers
  <2>1. versionq \in Seq(Addr \cup {Freed}) /\ vtimers \in Nat /\ vtimers > 0 /\ Len(versionq) \in Nat
    <3>1. vtimers > 0
      BY DEF VersionQue
    <3>2. versionq \in Seq(Addr \cup {Freed}) /\ vtimers \in Nat
      BY DEF ScanInv
    <3>3. QED
      BY <3>1, <3>2
  <2>2. n \in 0..Len(versionq)
    <3>1. n = IF PerRun <= Len(versionq) THEN PerRun ELSE Len(versionq)
      BY <2>1, MinOfTwo, ScanAssumption
    <3>2. QED
      BY <2>1, <3>1, ScanAssumption
  <2> HIDE DEF n
  <2>3. /\ one \in Seq(Addr \cup {Freed}) /\ Len(one) = n /\ \A k \in 1..n : one[k] = versionq[k]
        /\ two \in Seq(Addr \cup {Freed}) /\ Len(two) = Len(versionq) - n
        /\ \A k \in 1..(Len(versionq) - n) : two[k] = versionq[k + n]
    BY <2>1, <2>2
  <2> HIDE DEF one, two
  <2>4. DOMAIN versionq = 1..Len(versionq) /\ DOMAIN one = 1..n /\ DOMAIN two = 1..(Len(versionq) - n)
    BY <2>1, <2>3
  <2>5. ASSUME NEW x \in ToSet(versionq) PROVE x \in ToSet(one) \cup ToSet(two)
    <3>1. PICK i \in 1..Len(versionq) : versionq[i] = x
      BY <2>4, <2>5 DEF ToSet
    <3>2. CASE i <= n
      <4>1. i \in 1..n /\ one[i] = x
        BY <2>2, <2>3, <3>1, <3>2
      <4>2. QED
        BY <2>4, <4>1 DEF ToSet
    <3>3. CASE ~(i <= n)
      <4>1. i - n \in 1..(Len(versionq) - n) /\ (i - n) + n = i
        BY <2>1, <2>2, <3>1, <3>3
      <4>2. two[i - n] = x
        BY <2>3, <3>1, <4>1
      <4>3. QED
        BY <2>4, <4>1, <4>2 DEF ToSet
    <3>4. QED
      BY <3>2, <3>3
  <2>6. EveryoneAsked'
    BY <1>1, <1>4, <2>5 DEF ScanInv, ScanReaches, EveryoneAsked, Loaded, Live
  <2>7. vtimers' \in Nat /\ (vtimers' = 0 => two = <<>>)
    <3>1. CASE n = Len(versionq)
      <4>1. DOMAIN two = {}
        BY <2>1, <2>4, <3>1
      <4>2. two = <<>>
        BY <2>3, <4>1
      <4>3. QED
        BY <1>4, <2>1, <3>1, <4>2
    <3>2. CASE n # Len(versionq)
      BY <1>4, <2>1, <3>2
    <3>3. QED
      BY <3>1, <3>2
  <2>8. versionq = <<>> => two = <<>>
    <3>1. versionq = <<>> => DOMAIN two = {}
      BY <2>2, <2>4
    <3>2. QED
      BY <2>3, <3>1
  <2>9. QED
    BY <1>1, <1>4, <2>3, <2>6, <2>7, <2>8 DEF ScanInv, ScanReaches, QueueTimed, Loaded
<1>5. QED
  BY <1>2, <1>3, <1>4

LEMMA ScanStart == Init => ScanInv
<1> SUFFICES ASSUME Init PROVE ScanInv
  OBVIOUS
<1>1. /\ loaded = <<>> /\ chain = <<>> /\ user = <<>> /\ versionq = <<>> /\ vtimers = 0
  BY DEF Init, InitVisitors, InitScan
<1>2. Live = {}
  BY <1>1 DEF Live
<1>3. ToSet(loaded) = {} /\ ToSet(chain) = {}
  BY <1>1 DEF ToSet
<1>4. ChainRight
  <2>1. IsInjective(loaded) /\ IsInjective(chain)
    BY <1>1 DEF IsInjective
  <2>2. QED
    BY <1>1, <1>2, <1>3, <2>1, FS_EmptySet DEF ChainRight, ModulesOnce
<1>5. ScanReaches
  BY <1>1, <1>3 DEF ScanReaches, EveryoneAsked, QueueTimed, Loaded
<1>6. QED
  BY <1>1, <1>4, <1>5 DEF ScanInv

\* A step on which users may go: the queue and the set of those asked follow them.
LEMMA ScanLosesUsers ==
    ASSUME ScanInv, UsersGo
    PROVE  ScanInv'
<1>a. Leavers = Live \ Live'
  BY DEF Leavers, Live
<1>b. ScanFollows
  BY <1>a, Zenon DEF UsersGo, Exits, ScanFollows
<1>1. /\ ScanFollows /\ Live' \subseteq Live /\ setup' = setup /\ guest' = guest /\ sync' = sync
      /\ fault = "none"
  BY <1>b DEF UsersGo
<1>2. CASE loaded' = loaded /\ chain' = chain
  <2>1. ChainRight'
    BY <1>1, <1>2, ChainKept DEF ScanInv
  <2>2. QED
    BY <1>1, <1>2, <2>1, ScanKept, Zenon DEF Loaded
<1>3. CASE loaded' = loaded /\ Handling("g_watch") /\ chain' = Tail(chain)
  <2>1. chain # <<>> /\ Head(chain) = "g_watch"
    BY <1>3 DEF Handling
  <2>2. ChainRight'
    BY <1>1, <1>3, <2>1, ChainKept DEF ScanInv
  <2>3. ToSet(chain') = ToSet(chain) \ {"g_watch"}
    BY <1>3, <2>1, ChainTail DEF ScanInv
  <2>4. QED
    <3>1. "g_scan" \in ToSet(chain) => "g_scan" \in ToSet(chain')
      BY <2>3
    <3>2. QED
      BY <1>1, <1>3, <2>2, <3>1, ScanKept, Zenon DEF Loaded
<1>4. CASE chain' = chain /\ (LoadModule("g_watch") \/ UnloadModule("g_watch"))
  <2>1. chain = <<>>
    BY <1>4 DEF LoadModule, UnloadModule, Calm
  <2>2. ChainRight'
    BY <1>1, <1>4, <2>1, ChainKept DEF ScanInv
  <2>3. Loaded("g_scan")' <=> Loaded("g_scan")
    BY <1>1, <1>4, ModulesComeAndGo DEF ScanInv, ChainRight
  <2>4. QED
    BY <1>1, <1>4, <2>2, <2>3, ScanKept, Zenon
<1>5. QED
  BY <1>2, <1>3, <1>4 DEF UsersGo

\* Connect, and the end of the burst: init_events leaves a timer unless a remote user stopped the chain.
LEMMA ScanLinks ==
    ASSUME ScanInv, Linking
    PROVE  ScanInv'
<1>1. UNCHANGED <<setup, loaded, user, chain, guest, fault, versionq, asked>> /\ Live' = Live
  BY DEF Linking, Connect, EndBurst, InitEvents, scanVars, Live
<1>2. ChainRight'
  BY <1>1, ChainKept DEF ScanInv
<1>3. CASE Connect /\ UNCHANGED scanVars
  <2>1. sync' = "bursting"
    BY <1>3 DEF Connect
  <2>2. QED
    BY <1>1, <1>2, <1>3, <2>1, ScanKept DEF Loaded, ScanFollows
<1>4. CASE EndBurst /\ InitEvents
  <2>1. EveryoneAsked'
    BY <1>1 DEF ScanInv, ScanReaches, EveryoneAsked, Loaded
  <2>2. /\ vtimers' = vtimers + (IF Loaded("g_scan") /\ ~BurstStopped THEN 1 ELSE 0)
        /\ met' = (BurstStopped /\ vtimers = 0)
    BY <1>4 DEF InitEvents
  <2>3. vtimers \in Nat /\ (Loaded("g_scan") \/ versionq = <<>>)
    BY DEF ScanInv
  <2>4. vtimers' \in Nat
    BY <2>2, <2>3
  <2>5. ASSUME versionq # <<>>, vtimers' = 0 PROVE met'
    <3>1. ~(Loaded("g_scan") /\ ~BurstStopped)
      BY <2>2, <2>3, <2>5
    <3>2. BurstStopped /\ vtimers = 0
      BY <2>2, <2>3, <2>5, <3>1
    <3>3. QED
      BY <2>2, <3>2, Zenon
  <2>6. QED
    BY <1>1, <1>2, <2>1, <2>3, <2>4, <2>5 DEF ScanInv, ScanReaches, QueueTimed, Loaded
<1>5. QED
  BY <1>3, <1>4 DEF Linking

\* The chain goes on: g_sessions is called, then scan_nick.
LEMMA ScanHandles ==
    ASSUME ScanInv, Handlers, ~EvhUser
    PROVE  ScanInv'
<1>1. UNCHANGED <<setup, loaded, user, sync, guest>> /\ chain # <<>> /\ Live' = Live
  BY DEF Handlers, EventUsercon, ScanNick, ReadFreed, Handling, Live
<1>2. ASSUME chain' = Tail(chain)
      PROVE  ChainRight' /\ ToSet(chain') = ToSet(chain) \ {Head(chain)} /\ Head(chain) \in ToSet(loaded)
  BY <1>1, <1>2, ChainKept, ChainTail DEF ScanInv
<1>3. CASE EventUsercon /\ UNCHANGED <<fault, scanVars>>
  <2>1. Head(chain) = "g_sessions" /\ chain' = Tail(chain)
    BY <1>3 DEF EventUsercon, Handling, Handled
  <2>2. QED
    BY <1>1, <1>2, <1>3, <2>1, ScanKept DEF Loaded, ScanFollows
<1>4. CASE ScanNick /\ fault' = fault
  <2>1. /\ Head(chain) = "g_scan" /\ guest \in Live /\ chain' = Tail(chain)
        /\ AskVersion(guest) /\ UNCHANGED <<vtimers, met>>
    BY <1>4 DEF ScanNick, Handling, Handled
  <2>2. Loaded("g_scan")
    BY <1>2, <2>1 DEF Loaded
  <2>3. QED
    BY <1>1, <1>2, <1>4, <2>1, <2>2, ScanAsks
<1>5. CASE ReadFreed /\ UNCHANGED scanVars
  <2>1. chain' = chain /\ fault' = "freed user"
    BY <1>5 DEF ReadFreed
  <2>2. ChainRight'
    BY <1>1, <2>1, ChainKept DEF ScanInv
  <2>3. QED
    BY <1>1, <1>5, <2>1, <2>2, ScanKept DEF Loaded, ScanFollows
<1>6. QED
  BY <1>3, <1>4, <1>5 DEF Handlers

\* The module comes: everyone there counts as asked; it goes, and the queue with it.
LEMMA ScanReloads ==
    ASSUME ScanInv, Reloads, ~((LoadWatch \/ UnloadWatch) /\ Exits)
    PROVE  ScanInv'
<1>1. UNCHANGED <<setup, user, chain, guest, sync, fault>> /\ Live' = Live
  BY DEF Reloads, LoadSessions, UnloadSessions, LoadScan, UnloadScan, Live
<1>2. PICK m \in {"g_sessions", "g_scan", "g_joinflood"} : LoadModule(m) \/ UnloadModule(m)
  BY DEF Reloads, LoadSessions, UnloadSessions, LoadScan, UnloadScan
<1>3. chain = <<>>
  BY <1>2 DEF LoadModule, UnloadModule, Calm
<1>4. ChainRight'
  BY <1>1, <1>2, <1>3, ChainKept DEF ScanInv
<1>5. CASE LoadScan
  <2>1. versionq' = <<>> /\ asked' = Live /\ vtimers' = vtimers
    BY <1>5 DEF LoadScan
  <2>2. QED
    BY <1>1, <1>4, <2>1 DEF ScanInv, ScanReaches, EveryoneAsked, QueueTimed
<1>6. CASE UnloadScan
  <2>1. versionq' = <<>> /\ vtimers' = 0 /\ UnloadModule("g_scan")
    BY <1>6 DEF UnloadScan
  <2>2. ~Loaded("g_scan")'
    BY <1>1, <2>1, ModulesComeAndGo DEF ScanInv, ChainRight, LoadModule, UnloadModule
  <2>3. QED
    BY <1>4, <2>1, <2>2 DEF ScanInv, ScanReaches, EveryoneAsked, QueueTimed
<1>7. QED
  <2>1. LoadScan \/ UnloadScan \/ UNCHANGED scanVars
    BY DEF Reloads
  <2>2. ASSUME UNCHANGED scanVars, ~LoadScan, ~UnloadScan
        PROVE  \E x \in {"g_sessions", "g_joinflood"} : LoadModule(x) \/ UnloadModule(x)
    BY <2>2 DEF Reloads, LoadSessions, UnloadSessions
  <2>3. CASE UNCHANGED scanVars /\ ~LoadScan /\ ~UnloadScan
    <3>1. PICK x \in {"g_sessions", "g_joinflood"} : LoadModule(x) \/ UnloadModule(x)
      BY <2>2, <2>3
    <3>2. Loaded("g_scan")' <=> Loaded("g_scan")
      BY <1>1, <3>1, ModulesComeAndGo DEF ScanInv, ChainRight
    <3>3. QED
      BY <1>1, <1>4, <2>3, <3>2, ScanKept DEF ScanFollows
  <2>4. QED
    BY <1>5, <1>6, <2>1, <2>3

\* Steps of the other modules that leave users, chain and scan alone.
LEMMA ScanUntouched ==
    ASSUME ScanInv, UNCHANGED <<visitorVars, scanVars>>
    PROVE  ScanInv'
<1>1. UNCHANGED <<setup, loaded, user, sync, chain, guest, fault, versionq, vtimers, asked, met>>
  BY DEF visitorVars, scanVars
<1>2. Live' = Live
  BY <1>1 DEF Live
<1>3. ChainRight'
  BY <1>1, <1>2, ChainKept DEF ScanInv
<1>4. QED
  BY <1>1, <1>2, <1>3 DEF ScanInv, ScanReaches, EveryoneAsked, QueueTimed, Loaded

LEMMA ScanStep == ScanInv /\ [Next]_vars => ScanInv'
<1> SUFFICES ASSUME ScanInv, [Next]_vars PROVE ScanInv'
  OBVIOUS
<1>1. ASSUME NEW a \in Addr, NEW what \in setup.users, Arrival(a, what) PROVE ScanInv'
  <2>1. ChainRight'
    <3>1. Live' = Live \cup {a} /\ chain' = Listening /\ UNCHANGED <<setup, loaded>>
      BY <1>1 DEF Arrival, AddUser, Live
    <3>2. QED
      BY <3>1, ChainKept DEF ScanInv
  <2>2. QED
    BY <1>1, <2>1, ScanMeets
<1>2. CASE \/ Departure \/ Moves \/ (EvhUser /\ Exits) \/ (EvhWatchqueue /\ Exits)
           \/ /\ \/ \E want \in setup.wants : WatchAdd(want)
                 \/ \E name \in Chans \cup Nicks :
                       WatchRemove(name) \/ \E action \in setup.actions : WatchSet(name, action)
                 \/ SaveWatchdb
                 \/ WatchRehash
              /\ Exits
           \/ (LoadWatch \/ UnloadWatch) /\ Exits
  BY <1>2, LosingSteps, ScanLosesUsers, Zenon
<1>3. CASE Linking
  BY <1>3, ScanLinks
<1>4. CASE Handlers
  <2>1. CASE EvhUser
    <3>1. EvhUser /\ Exits
      <4>1. Head(chain) = "g_watch" /\ guest \in Live
        BY <2>1 DEF EvhUser, Handling
      <4>2. ~EventUsercon /\ ~ScanNick /\ ~ReadFreed
        BY <4>1 DEF EventUsercon, ScanNick, ReadFreed, Handling
      <4>3. QED
        BY <1>4, <4>2 DEF Handlers
    <3>2. QED
      BY <1>2, <3>1
  <2>2. QED
    BY <1>4, <2>1, ScanHandles
<1>5. CASE Timers
  <2>1. CASE Quiet /\ VersionQue
    <3>1. UNCHANGED <<setup, loaded, user, chain>> /\ Live' = Live
      BY <2>1 DEF VersionQue, Live
    <3>2. ChainRight'
      BY <3>1, ChainKept DEF ScanInv
    <3>3. QED
      BY <2>1, <3>2, ScanWorksOff
  <2>2. CASE ScanQue
    <3>1. UNCHANGED <<setup, loaded, user, sync, chain, guest, fault, versionq, vtimers, asked, met>> /\ Live' = Live
      BY <2>2 DEF ScanQue, visitorVars, Live
    <3>2. ChainRight'
      BY <3>1, ChainKept DEF ScanInv
    <3>3. QED
      BY <3>1, <3>2 DEF ScanInv, ScanReaches, EveryoneAsked, QueueTimed, Loaded
  <2>3. QED
    BY <1>2, <1>5, <2>1, <2>2 DEF Timers
<1>6. CASE Commands
  <2>1. CASE \E a \in Live : CmdScan(a)
    <3>1. PICK a \in Live : CmdScan(a)
      BY <2>1
    <3>2. /\ Loaded("g_scan") /\ AskVersion(a) /\ Live' = Live
          /\ UNCHANGED <<setup, loaded, user, sync, guest, chain, fault, vtimers, met>>
      BY <3>1 DEF CmdScan, visitorVars, Live
    <3>3. ChainRight'
      BY <3>2, ChainKept DEF ScanInv
    <3>4. QED
      BY <3>2, <3>3, ScanAsks
  <2>2. CASE UNCHANGED <<visitorVars, scanVars>>
    BY <2>2, ScanUntouched
  <2>3. QED
    BY <1>2, <1>6, <2>1, <2>2 DEF Commands, ExemptDel, ExemptAdd, ExemptLoad, SessionRehash
<1>7. CASE Reloads
  <2>1. CASE (LoadWatch \/ UnloadWatch) /\ Exits
    BY <1>2, <2>1
  <2>2. QED
    BY <1>7, <2>1, ScanReloads
<1>8. CASE Floods \/ ReleaseFloods \/ vars' = vars
  <2>1. UNCHANGED <<visitorVars, scanVars>>
    BY <1>8 DEF Floods, ReleaseFloods, vars
  <2>2. QED
    BY <2>1, ScanUntouched
<1>9. QED
  BY <1>1, <1>2, <1>3, <1>4, <1>5, <1>6, <1>7, <1>8 DEF Next

\* scan_nick, version_que, init_events: on the network is nobody who was neither asked nor waits to be,
\* and a queue that waits has its timer, except after the BURST that a remote user stopped.
THEOREM ScanReachesHolds == Spec => []ScanReaches
<1>1. ScanInv => ScanReaches
  BY DEF ScanInv
<1>2. QED
  BY <1>1, ScanStart, ScanStep, PTL DEF Spec

-----------------------------------------------------------------------------
(* Exemptions *)

\* The exemptions there may be: those of the configuration, of the database and of operators.
Exemptions == ToSet(setup.exempts) \cup ToSet(setup.exrows) \cup [host : setup.patterns, count : Limits]
Listed == [list : Seq(Exemptions), rows : Seq(Exemptions)]

ExemptInv ==
    /\ setup \in Setups /\ ModulesOnce
    /\ exempts \in Seq(Exemptions) /\ exrows \in Seq(Exemptions)
    /\ ExemptsRight

LEMMA FindsExempt ==
    ASSUME NEW E, NEW l \in Seq(E), NEW h
    PROVE  FindExempt(l, h) = 0 <=> \A k \in 1..Len(l) : ~MatchWild(l[k].host, h)
<1> DEFINE I == {k \in 1..Len(l) : MatchWild(l[k].host, h)}
<1>1. FindExempt(l, h) = IF I # {} THEN Min(I) ELSE 0
  BY DEF FindExempt, SelectInSeq
<1>2. Len(l) \in Nat /\ DOMAIN l = 1..Len(l) /\ I \in SUBSET (1..Len(l))
  OBVIOUS
<1>3. (FindExempt(l, h) # 0 => FindExempt(l, h) \in I) /\ (FindExempt(l, h) = 0 => I = {})
  <2> HIDE DEF I
  <2>1. QED
    BY <1>1, <1>2, FoundIn
<1>4. QED
  BY <1>2, <1>3

\* addto_db_entry: the row is there, and the others are as they were.
LEMMA RowKeeps ==
    ASSUME NEW E, NEW l \in Seq(E), NEW e \in E
    PROVE  /\ Row(l, e) \in Seq(E)
           /\ e \in ToSet(Row(l, e))
           /\ \A x \in ToSet(l) : x.host # e.host => x \in ToSet(Row(l, e))
           /\ (\A k \in 1..Len(l) : l[k].host # e.host) => Row(l, e) = Append(l, e)
<1> DEFINE I == {k \in 1..Len(l) : l[k].host = e.host}
           i == IF I # {} THEN Min(I) ELSE 0
           r == Row(l, e)
<1>1. r = IF i = 0 THEN Append(l, e) ELSE [l EXCEPT ![i] = e]
  BY DEF Row, SelectInSeq
<1>2. Len(l) \in Nat /\ DOMAIN l = 1..Len(l) /\ I \in SUBSET (1..Len(l))
  OBVIOUS
<1>3. i \in 0..Len(l) /\ (i # 0 => i \in I) /\ (i = 0 => I = {})
  <2> HIDE DEF I
  <2>1. QED
    BY <1>2, FoundIn
<1>4. i # 0 => l[i].host = e.host
  BY <1>3
<1>5. (\A k \in 1..Len(l) : l[k].host # e.host) => i = 0
  BY <1>3
<1> HIDE DEF i, I, r
<1>6. CASE i = 0
  <2>1. r = Append(l, e)
    BY <1>1, <1>6
  <2>2. r \in Seq(E) /\ Len(r) = Len(l) + 1 /\ r[Len(l) + 1] = e /\ \A k \in 1..Len(l) : r[k] = l[k]
    BY <2>1, AddLast
  <2>3. DOMAIN r = 1..(Len(l) + 1)
    BY <2>2
  <2>4. e \in ToSet(r) /\ \A x \in ToSet(l) : x \in ToSet(r)
    BY <1>2, <2>2, <2>3 DEF ToSet
  <2>5. QED
    BY <2>1, <2>2, <2>4 DEF r
<1>7. CASE i # 0
  <2>1. r = [l EXCEPT ![i] = e] /\ i \in 1..Len(l)
    BY <1>1, <1>2, <1>3, <1>7
  <2>2. r \in Seq(E) /\ DOMAIN r = 1..Len(l) /\ r[i] = e /\ \A k \in 1..Len(l) : k # i => r[k] = l[k]
    BY <1>2, <2>1
  <2>3. e \in ToSet(r)
    BY <2>1, <2>2 DEF ToSet
  <2>4. ASSUME NEW x \in ToSet(l), x.host # e.host PROVE x \in ToSet(r)
    <3>1. PICK k \in 1..Len(l) : l[k] = x
      BY <1>2 DEF ToSet
    <3>2. k # i
      BY <1>4, <1>7, <2>4, <3>1
    <3>3. QED
      BY <2>2, <3>1, <3>2 DEF ToSet
  <2>5. QED
    BY <1>5, <1>7, <2>2, <2>3, <2>4 DEF r
<1>8. QED
  BY <1>6, <1>7

\* add_exempt keeps what the two lists are to each other.
LEMMA ExemptAdded ==
    ASSUME NEW E, NEW st \in [list : Seq(E), rows : Seq(E)], NEW e \in E
    PROVE  /\ AddExempt(st, e) \in [list : Seq(E), rows : Seq(E)]
           /\ ToSet(st.list) \subseteq ToSet(st.rows) => ToSet(AddExempt(st, e).list) \subseteq ToSet(AddExempt(st, e).rows)
           /\ st.list = st.rows => AddExempt(st, e).list = AddExempt(st, e).rows
<1> DEFINE l == st.list
           w == st.rows
<1>1. l \in Seq(E) /\ w \in Seq(E)
  OBVIOUS
<1>2. CASE FindExempt(l, e.host) # 0
  <2>1. AddExempt(st, e) = st
    BY <1>2 DEF AddExempt
  <2>2. QED
    BY <2>1
<1>3. CASE FindExempt(l, e.host) = 0
  <2>1. AddExempt(st, e) = [list |-> Append(l, e), rows |-> Row(w, e)]
    BY <1>3 DEF AddExempt
  <2>2. \A k \in 1..Len(l) : l[k].host # e.host
    BY <1>1, <1>3, FindsExempt DEF MatchWild
  <2> HIDE DEF l, w
  <2>3. /\ Append(l, e) \in Seq(E) /\ Len(Append(l, e)) = Len(l) + 1
        /\ Append(l, e)[Len(l) + 1] = e /\ \A k \in 1..Len(l) : Append(l, e)[k] = l[k]
    BY <1>1, AddLast
  <2>4. Row(w, e) \in Seq(E)
    BY <1>1, RowKeeps
  <2>5. AddExempt(st, e).list = Append(l, e) /\ AddExempt(st, e).rows = Row(w, e)
    BY <2>1
  <2>6. l = w => Append(l, e) = Row(w, e)
    <3>1. Row(l, e) = Append(l, e)
      BY <1>1, <2>2, RowKeeps
    <3>2. QED
      BY <3>1
  <2>7. ASSUME ToSet(l) \subseteq ToSet(w), NEW x \in ToSet(Append(l, e)) PROVE x \in ToSet(Row(w, e))
    <3>1. DOMAIN Append(l, e) = 1..(Len(l) + 1) /\ DOMAIN l = 1..Len(l) /\ Len(l) \in Nat
      BY <1>1, <2>3
    <3>2. PICK k \in 1..(Len(l) + 1) : x = Append(l, e)[k]
      BY <3>1 DEF ToSet
    <3>3. CASE k = Len(l) + 1
      BY <1>1, <2>3, <3>2, <3>3, RowKeeps
    <3>4. CASE k \in 1..Len(l)
      <4>1. x \in ToSet(w) /\ x.host # e.host
        BY <2>2, <2>3, <2>7, <3>1, <3>2, <3>4 DEF ToSet
      <4>2. QED
        BY <1>1, <4>1, RowKeeps
    <3>5. QED
      BY <3>1, <3>3, <3>4
  <2>8. QED
    BY <2>1, <2>3, <2>4, <2>5, <2>6, <2>7 DEF l, w
<1>4. QED
  BY <1>2, <1>3

\* evh_session_rehash goes through the exemptions of the configuration one by one.
LEMMA ConfiguredStages ==
    ASSUME NEW E, NEW st \in [list : Seq(E), rows : Seq(E)], setup.exempts \in Seq(E)
    PROVE  LET N == Len(setup.exempts)
           IN  \E at \in [0..N -> [list : Seq(E), rows : Seq(E)]] :
                  /\ at[0] = st /\ at[N] = Configured(st)
                  /\ \A k \in 0..(N - 1) : at[k + 1] = AddExempt(at[k], setup.exempts[k + 1])
<1> DEFINE A == [list : Seq(E), rows : Seq(E)]
           l == setup.exempts
           N == Len(l)
           F == [x \in (1..N) \X A |-> AddExempt(x[2], l[x[1]])]
<1>1. N \in Nat /\ DOMAIN l = 1..N /\ \A k \in 1..N : l[k] \in E
  OBVIOUS
<1>2. F \in [(1..N) \X A -> A]
  <2>1. ASSUME NEW x \in (1..N) \X A PROVE AddExempt(x[2], l[x[1]]) \in A
    BY <1>1, ExemptAdded
  <2>2. QED
    BY <2>1
<1>3. \A k \in 1..N, x \in A : F[<<k, x>>] = AddExempt(x, l[k])
  OBVIOUS
<1>4. st \in A
  OBVIOUS
<1> HIDE DEF F, A
<1>a. PICK g : Folds(g, A, st, N, F)
  <2> HIDE DEF N
  <2>1. QED
    BY <1>1, <1>2, <1>4, FoldExists
<1>5. /\ g \in [SUBSET (1..N) -> A]
      /\ \A s \in SUBSET (1..N) : g[s] = IF s = {} THEN st ELSE F[<<Max(s), g[s \ {Max(s)}]>>]
  BY <1>a DEF Folds
<1>6. \A s \in SUBSET (1..N) : s # {} => Max(s) \in 1..N
  <2>1. \A s \in SUBSET (1..N) : s # {} => Max(s) \in s
    BY <1>1, GreatestOfSet
  <2>2. QED
    BY <2>1
<1> DEFINE Is(h) == h = [s \in SUBSET (1..N) |-> IF s = {} THEN st ELSE AddExempt(h[s \ {Max(s)}], l[Max(s)])]
<1>7. Is(g)
  <2>1. ASSUME NEW s \in SUBSET (1..N)
        PROVE  g[s] = IF s = {} THEN st ELSE AddExempt(g[s \ {Max(s)}], l[Max(s)])
    <3>1. CASE s = {}
      BY <1>5, <3>1
    <3>2. CASE s # {}
      <4>1. Max(s) \in 1..N /\ s \ {Max(s)} \in SUBSET (1..N)
        BY <1>6, <3>2
      <4>2. g[s \ {Max(s)}] \in A
        BY <1>5, <4>1
      <4>3. g[s] = F[<<Max(s), g[s \ {Max(s)}]>>]
        BY <1>5, <3>2
      <4>4. QED
        BY <1>3, <3>2, <4>1, <4>2, <4>3
    <3>3. QED
      BY <3>1, <3>2
  <2>2. g = [s \in SUBSET (1..N) |-> g[s]]
    BY <1>5
  <2>3. [s \in SUBSET (1..N) |-> g[s]]
          = [s \in SUBSET (1..N) |-> IF s = {} THEN st ELSE AddExempt(g[s \ {Max(s)}], l[Max(s)])]
    BY <2>1, Zenon
  <2>4. QED
    BY <2>2, <2>3
<1> DEFINE f == CHOOSE h : Is(h)
<1>8. Configured(st) = f[1..N]
  BY <1>1 DEF Configured, FoldLeft, MapThenFoldSet
<1> HIDE DEF Is
<1>b. Is(f)
  BY <1>7
<1> HIDE DEF f
<1>9. f = [s \in SUBSET (1..N) |-> IF s = {} THEN st ELSE AddExempt(f[s \ {Max(s)}], l[Max(s)])]
  BY <1>b DEF Is
<1>10. f[{}] = st
  BY <1>9
<1>11. ASSUME NEW k \in 0..(N - 1) PROVE f[1..(k + 1)] = AddExempt(f[1..k], l[k + 1])
  <2>1. k \in Nat
    OBVIOUS
  <2>2. Max(1..(k + 1)) = k + 1 /\ (1..(k + 1)) \ {k + 1} = 1..k /\ 1..(k + 1) # {}
    BY <2>1, FirstNumbers
  <2>3. 1..(k + 1) \in SUBSET (1..N)
    BY <1>1
  <2>4. QED
    BY <1>9, <2>2, <2>3
<1>12. \A k \in 0..N : f[1..k] \in A
  <2> DEFINE G == {k \in 0..N : f[1..k] \in A}
  <2>1. 0 \in G
    <3>1. 1..0 = {}
      OBVIOUS
    <3>2. QED
      BY <1>1, <1>4, <1>10, <3>1
  <2>2. ASSUME NEW k \in 0..(N - 1), k \in G PROVE k + 1 \in G
    <3>1. f[1..k] \in A /\ k + 1 \in 1..N /\ l[k + 1] \in E
      BY <1>1, <2>2
    <3>2. AddExempt(f[1..k], l[k + 1]) \in A
      BY <3>1, ExemptAdded DEF A
    <3>3. QED
      BY <1>1, <1>11, <3>1, <3>2
  <2>3. \A k \in 0..N : k \in G
    <3> HIDE DEF G, N
    <3>1. QED
      BY <1>1, <2>1, <2>2, CountedUp
  <2>4. QED
    BY <2>3
<1> DEFINE at == [k \in 0..N |-> f[1..k]]
<1>13. at \in [0..N -> A] /\ at[0] = st /\ at[N] = Configured(st)
  <2>1. 1..0 = {} /\ 0 \in 0..N /\ N \in 0..N
    BY <1>1
  <2>2. QED
    BY <1>8, <1>10, <1>12, <2>1
<1>14. ASSUME NEW k \in 0..(N - 1) PROVE at[k + 1] = AddExempt(at[k], l[k + 1])
  <2>1. k \in 0..N /\ k + 1 \in 0..N
    BY <1>1
  <2>2. QED
    BY <1>11, <2>1
<1>15. QED
  BY <1>13, <1>14 DEF A

LEMMA ConfiguredKeeps ==
    ASSUME NEW E, NEW st \in [list : Seq(E), rows : Seq(E)], setup.exempts \in Seq(E)
    PROVE  /\ Configured(st) \in [list : Seq(E), rows : Seq(E)]
           /\ ToSet(st.list) \subseteq ToSet(st.rows) => ToSet(Configured(st).list) \subseteq ToSet(Configured(st).rows)
           /\ st.list = st.rows => Configured(st).list = Configured(st).rows
<1> DEFINE A == [list : Seq(E), rows : Seq(E)]
           l == setup.exempts
           N == Len(l)
<1>1. PICK at \in [0..N -> A] : /\ at[0] = st /\ at[N] = Configured(st)
                                /\ \A k \in 0..(N - 1) : at[k + 1] = AddExempt(at[k], l[k + 1])
  BY ConfiguredStages
<1>2. N \in Nat /\ \A k \in 1..N : l[k] \in E
  OBVIOUS
<1> DEFINE Subset(x) == ToSet(x.list) \subseteq ToSet(x.rows)
           Same(x) == x.list = x.rows
           G == {k \in 0..N : (Subset(st) => Subset(at[k])) /\ (Same(st) => Same(at[k]))}
<1>3. 0 \in G
  BY <1>1, <1>2
<1>4. ASSUME NEW k \in 0..(N - 1), k \in G PROVE k + 1 \in G
  <2>1. at[k] \in A /\ l[k + 1] \in E /\ k + 1 \in 0..N
    BY <1>1, <1>2
  <2>2. at[k + 1] = AddExempt(at[k], l[k + 1])
    BY <1>1
  <2>3. (Subset(at[k]) => Subset(at[k + 1])) /\ (Same(at[k]) => Same(at[k + 1]))
    <3> DEFINE x == at[k]
               e == l[k + 1]
    <3>1. x \in [list : Seq(E), rows : Seq(E)] /\ e \in E
      BY <2>1
    <3>2. Subset(x) => Subset(AddExempt(x, e))
      <4> HIDE DEF x, e
      <4>1. QED
        BY <3>1, ExemptAdded
    <3>3. Same(x) => Same(AddExempt(x, e))
      <4> HIDE DEF x, e
      <4>1. QED
        BY <3>1, ExemptAdded
    <3> HIDE DEF Subset, Same
    <3>4. QED
      BY <2>2, <3>2, <3>3
  <2> HIDE DEF Subset, Same
  <2>4. QED
    BY <1>4, <2>1, <2>3
<1>5. N \in G
  <2> HIDE DEF G, N
  <2>1. N \in 0..N
    BY <1>2
  <2>2. QED
    BY <1>2, <1>3, <1>4, <2>1, CountedUp
<1>6. at[N] \in A
  BY <1>1, <1>2
<1>7. QED
  BY <1>1, <1>5, <1>6

\* The exemptions of the configuration and of the database are known to Exemptions.
LEMMA ExemptSources ==
    ASSUME setup \in Setups
    PROVE  /\ setup.exempts \in Seq(Exemptions) /\ setup.exrows \in Seq(Exemptions)
           /\ \A p \in setup.patterns, n \in Limits : [host |-> p, count |-> n] \in Exemptions
<1>1. setup.exempts \in Seq(ToSet(setup.exempts)) /\ setup.exrows \in Seq(ToSet(setup.exrows))
  BY VisitorsAssumption
<1>2. \A S, T : S \subseteq T => Seq(S) \subseteq Seq(T)
  OBVIOUS
<1>3. ToSet(setup.exempts) \subseteq Exemptions /\ ToSet(setup.exrows) \subseteq Exemptions
  BY DEF Exemptions
<1>4. QED
  BY <1>1, <1>2, <1>3 DEF Exemptions

\* A change of the two lists by add_exempt or a rehash.
LEMMA ExemptsGrow ==
    ASSUME ExemptInv, UNCHANGED <<setup, loaded, wild>>, NEW st \in Listed,
           LET old == [list |-> exempts, rows |-> exrows]
           IN  /\ ToSet(old.list) \subseteq ToSet(old.rows) => ToSet(st.list) \subseteq ToSet(st.rows)
               /\ old.list = old.rows => st.list = st.rows,
           exempts' = st.list, exrows' = st.rows
    PROVE  ExemptInv'
<1>1. Exemptions' = Exemptions
  BY DEF Exemptions
<1>2. exempts' \in Seq(Exemptions) /\ exrows' \in Seq(Exemptions)
  BY DEF Listed
<1>3. QED
  BY <1>1, <1>2 DEF ExemptInv, ModulesOnce, ExemptsRight, ExemptsSaved, RowsAreList, Loaded

\* EXEMPT DEL: what stays in the list stays in the database.
LEMMA ExemptGoes ==
    ASSUME ExemptInv, NEW p, ExemptDel(p)
    PROVE  ExemptInv'
<1> DEFINE I == {i \in DOMAIN exempts : ~MatchWild(exempts[i].host, p) /\ ~MatchWild(p, exempts[i].host)}
           J == {i \in DOMAIN exrows : exrows[i].host # p}
<1>1. /\ exempts' = Picked(exempts, I) /\ exrows' = Picked(exrows, J)
      /\ wild' = (wild \/ exempts' # DelRow(exempts, p))
      /\ setup' = setup /\ loaded' = loaded
  BY DEF ExemptDel, DelExempt, DelRow, visitorVars
<1>2. /\ exempts \in Seq(Exemptions) /\ exrows \in Seq(Exemptions)
      /\ DOMAIN exempts = 1..Len(exempts) /\ DOMAIN exrows = 1..Len(exrows)
  BY DEF ExemptInv
<1>3. I \in SUBSET (1..Len(exempts)) /\ J \in SUBSET (1..Len(exrows))
  BY <1>2
<1>4. \A i \in I : exempts[i].host # p
  BY DEF MatchWild
<1>5. Exemptions' = Exemptions
  BY <1>1 DEF Exemptions
<1>6. \A j \in DOMAIN exrows : exrows[j].host # p => j \in J
  OBVIOUS
<1>7. RowsAreList'
  <2> SUFFICES ASSUME Loaded("g_sessions"), ~wild' PROVE exempts' = exrows'
    BY <1>1 DEF RowsAreList, Loaded
  <2>1. ~wild /\ exempts' = DelRow(exempts, p)
    BY <1>1, Zenon
  <2>2. exempts = exrows
    BY <2>1 DEF ExemptInv, ExemptsRight, RowsAreList
  <2>3. exrows' = DelRow(exrows, p)
    BY DEF ExemptDel
  <2>4. QED
    BY <2>1, <2>2, <2>3
<1> HIDE DEF I, J
<1>8. exempts' \in Seq(Exemptions) /\ exrows' \in Seq(Exemptions)
  BY <1>1, <1>2, <1>3, PickedKeeps
<1>9. ASSUME NEW x \in ToSet(exempts') PROVE x \in ToSet(exrows')
  <2>1. PICK i \in I : x = exempts[i]
    BY <1>1, <1>2, <1>3, <1>9, PickedElements
  <2>2. x \in ToSet(exrows) /\ x.host # p
    BY <1>2, <1>3, <1>4, <2>1 DEF ExemptInv, ExemptsRight, ExemptsSaved, ToSet
  <2>3. PICK j \in DOMAIN exrows : x = exrows[j]
    BY <2>2 DEF ToSet
  <2>4. j \in J
    BY <1>6, <2>2, <2>3
  <2>5. QED
    BY <1>1, <1>2, <1>3, <2>3, <2>4, PickedElements
<1>10. QED
  BY <1>1, <1>5, <1>7, <1>8, <1>9 DEF ExemptInv, ModulesOnce, ExemptsRight, ExemptsSaved

LEMMA ExemptStart == Init => ExemptInv
<1> SUFFICES ASSUME Init PROVE ExemptInv
  OBVIOUS
<1>1. setup \in Setups /\ loaded = <<>> /\ exempts = <<>> /\ exrows = setup.exrows
  BY DEF Init, InitVisitors, InitSessions
<1>2. exempts \in Seq(Exemptions) /\ exrows \in Seq(Exemptions)
  BY <1>1, ExemptSources
<1>3. ToSet(exempts) = {} /\ ToSet(loaded) = {}
  BY <1>1 DEF ToSet
<1>4. ModulesOnce
  BY <1>1 DEF ModulesOnce, IsInjective
<1>5. QED
  BY <1>1, <1>2, <1>3, <1>4 DEF ExemptInv, ExemptsRight, ExemptsSaved, RowsAreList, Loaded

\* Only what operators say of exemptions, a rehash and the module's own coming and going change them.
LEMMA ExemptsStay ==
    ASSUME [Next]_vars
    PROVE  \/ \E p \in setup.patterns : ExemptDel(p) \/ \E n \in Limits : ExemptAdd(p, n)
           \/ ExemptLoad \/ SessionRehash \/ LoadSessions \/ UnloadSessions
           \/ UNCHANGED <<setup, loaded, exempts, exrows, wild>>
           \/ /\ UNCHANGED <<setup, exempts, exrows, wild>>
              /\ \E m \in {"g_scan", "g_watch", "g_joinflood"} : LoadModule(m) \/ UnloadModule(m)
<1> DEFINE Same == UNCHANGED <<exempts, exrows, wild>>
<1>1. Exits => Same
  BY DEF Exits, UserExits
<1>2. UNCHANGED sessionVars => Same
  BY DEF sessionVars
<1>3. ASSUME NEW a \in Addr, NEW what \in setup.users, Arrival(a, what) PROVE Same
  BY <1>2, <1>3 DEF Arrival
<1>4. CASE Departure \/ Linking \/ Moves \/ Handlers \/ Timers \/ vars' = vars
  <2>1. Same
    BY <1>1, <1>2, <1>4 DEF Departure, Linking, Moves, Handlers, Timers, EventUsercon, vars
  <2>2. UNCHANGED <<setup, loaded>>
    BY <1>4, OthersChange, Zenon
  <2>3. QED
    BY <2>1, <2>2
<1>5. CASE Commands
  <2>1. UNCHANGED <<setup, loaded>>
    BY <1>5, OthersChange, Zenon
  <2>2. QED
    BY <1>1, <1>2, <1>5, <2>1 DEF Commands
<1>6. CASE Floods \/ ReleaseFloods
  BY <1>2, <1>6 DEF Floods, ReleaseFloods, visitorVars
<1>7. CASE Reloads
  BY <1>1, <1>2, <1>7 DEF Reloads, LoadScan, UnloadScan, LoadWatch, UnloadWatch
<1>8. CASE \E a \in Addr, what \in setup.users : Arrival(a, what)
  BY <1>3, <1>8, OthersChange
<1>9. QED
  BY <1>4, <1>5, <1>6, <1>7, <1>8 DEF Next

LEMMA ExemptStep == ExemptInv /\ [Next]_vars => ExemptInv'
<1> SUFFICES ASSUME ExemptInv, [Next]_vars PROVE ExemptInv'
  OBVIOUS
<1>1. /\ setup \in Setups /\ exempts \in Seq(Exemptions) /\ exrows \in Seq(Exemptions)
      /\ setup.exempts \in Seq(Exemptions)
      /\ \A p \in setup.patterns, n \in Limits : [host |-> p, count |-> n] \in Exemptions
  BY ExemptSources DEF ExemptInv
<1>2. setup' = setup => Exemptions' = Exemptions
  BY DEF Exemptions
<1>3. ASSUME NEW p \in setup.patterns, ExemptDel(p) PROVE ExemptInv'
  BY <1>3, ExemptGoes
<1> DEFINE old == [list |-> exempts, rows |-> exrows]
<1>4. old \in Listed /\ old.list = exempts /\ old.rows = exrows
  BY <1>1 DEF Listed
<1>5. ASSUME NEW p \in setup.patterns, NEW n \in Limits, ExemptAdd(p, n) PROVE ExemptInv'
  <2> DEFINE e == [host |-> p, count |-> n]
             st == AddExempt(old, e)
  <2>1. UNCHANGED <<setup, loaded, wild>> /\ exempts' = st.list /\ exrows' = st.rows
    BY <1>5 DEF ExemptAdd, visitorVars
  <2>2. e \in Exemptions
    BY <1>1
  <2> HIDE DEF e, old
  <2>3. /\ st \in Listed
        /\ ToSet(old.list) \subseteq ToSet(old.rows) => ToSet(st.list) \subseteq ToSet(st.rows)
        /\ old.list = old.rows => st.list = st.rows
    <3>1. old \in [list : Seq(Exemptions), rows : Seq(Exemptions)]
      BY <1>4 DEF Listed
    <3>2. st \in [list : Seq(Exemptions), rows : Seq(Exemptions)]
      BY <2>2, <3>1, ExemptAdded
    <3>3. ToSet(old.list) \subseteq ToSet(old.rows) => ToSet(st.list) \subseteq ToSet(st.rows)
      BY <2>2, <3>1, ExemptAdded
    <3>4. old.list = old.rows => st.list = st.rows
      BY <2>2, <3>1, ExemptAdded
    <3>5. QED
      BY <3>2, <3>3, <3>4 DEF Listed
  <2> HIDE DEF st
  <2>4. QED
    BY <2>1, <2>3, ExemptsGrow DEF old
<1>6. CASE SessionRehash
  <2> DEFINE st == Configured(old)
  <2>1. UNCHANGED <<setup, loaded, wild>> /\ exempts' = st.list /\ exrows' = st.rows
    BY <1>6 DEF SessionRehash, visitorVars
  <2> HIDE DEF old
  <2>2. /\ st \in Listed
        /\ ToSet(old.list) \subseteq ToSet(old.rows) => ToSet(st.list) \subseteq ToSet(st.rows)
        /\ old.list = old.rows => st.list = st.rows
    BY <1>1, <1>4, ConfiguredKeeps DEF Listed
  <2> HIDE DEF st
  <2>3. QED
    BY <2>1, <2>2, ExemptsGrow DEF old
<1>7. CASE ExemptLoad
  <2>1. UNCHANGED <<setup, loaded, exrows>> /\ exempts' = exrows
    BY <1>7 DEF ExemptLoad, LoadExemptdb, visitorVars
  <2>2. QED
    BY <1>1, <1>2, <2>1 DEF ExemptInv, ModulesOnce, ExemptsRight, ExemptsSaved, RowsAreList
<1>8. CASE LoadSessions
  <2> DEFINE rows == [list |-> exrows, rows |-> exrows]
             st == Configured(rows)
  <2>1. setup' = setup /\ LoadModule("g_sessions") /\ exempts' = st.list /\ exrows' = st.rows
    BY <1>8 DEF LoadSessions, LoadExemptdb
  <2>2. ModulesOnce'
    BY <2>1, ModulesComeAndGo DEF ExemptInv
  <2>3. rows \in [list : Seq(Exemptions), rows : Seq(Exemptions)] /\ rows.list = rows.rows
    BY <1>1
  <2> HIDE DEF rows
  <2>4. st \in [list : Seq(Exemptions), rows : Seq(Exemptions)] /\ st.list = st.rows
    BY <1>1, <2>3, ConfiguredKeeps
  <2> HIDE DEF st
  <2>5. exempts' \in Seq(Exemptions) /\ exempts' = exrows'
    BY <2>1, <2>4
  <2>6. QED
    BY <1>1, <1>2, <2>1, <2>2, <2>5 DEF ExemptInv, ExemptsRight, ExemptsSaved, RowsAreList
<1>9. CASE UnloadSessions
  <2>1. setup' = setup /\ UnloadModule("g_sessions") /\ exempts' = <<>> /\ exrows' = exrows
    BY <1>9 DEF UnloadSessions
  <2>2. ModulesOnce' /\ ~Loaded("g_sessions")'
    BY <2>1, ModulesComeAndGo DEF ExemptInv, LoadModule, UnloadModule
  <2>3. ToSet(exempts') = {}
    BY <2>1 DEF ToSet
  <2>4. QED
    BY <1>1, <1>2, <2>1, <2>2, <2>3 DEF ExemptInv, ExemptsRight, ExemptsSaved, RowsAreList
<1>10. CASE UNCHANGED <<setup, loaded, exempts, exrows, wild>>
  BY <1>2, <1>10 DEF ExemptInv, ModulesOnce, ExemptsRight, ExemptsSaved, RowsAreList, Loaded
<1>11. CASE /\ UNCHANGED <<setup, exempts, exrows, wild>>
            /\ \E m \in {"g_scan", "g_watch", "g_joinflood"} : LoadModule(m) \/ UnloadModule(m)
  <2>1. ModulesOnce' /\ (Loaded("g_sessions")' <=> Loaded("g_sessions"))
    BY <1>11, ModulesComeAndGo DEF ExemptInv
  <2>2. QED
    BY <1>2, <1>11, <2>1 DEF ExemptInv, ExemptsRight, ExemptsSaved, RowsAreList
<1>12. QED
  BY <1>3, <1>5, <1>6, <1>7, <1>8, <1>9, <1>10, <1>11, ExemptsStay

\* add_exempt, del_exempt, load_exemptdb, evh_session_rehash: every exemption in force is in the database,
\* and a reload of the module or a LOAD changes none and not their order, whatever was added and deleted,
\* unless a DEL took other exemptions along.
THEOREM ExemptsRightHolds == Spec => []ExemptsRight
<1>1. ExemptInv => ExemptsRight
  BY DEF ExemptInv
<1>2. QED
  BY <1>1, ExemptStart, ExemptStep, PTL DEF Spec

-----------------------------------------------------------------------------
(* The types of users and channels *)

NetTypes ==
    /\ setup \in Setups
    /\ Range(user) \subseteq setup.users
    /\ members \in [Chans -> SUBSET (Live \cup {Guardian})]
    /\ sync \in {"startup", "bursting", "running"} /\ linked \in BOOLEAN
    /\ fault \in {"none", "freed user", "freed rule", "freed host", "freed channel"}

Placed == Range(user) \subseteq setup.users /\ members \in [Chans -> SUBSET (Live \cup {Guardian})]

\* exit_user: who goes is on no channel any more.
LEMMA PlacedExit ==
    ASSUME Placed, setup' = setup, NEW S, ExitUsers(S)
    PROVE  Placed'
<1>1. user' = [x \in Live \ S |-> user[x]] /\ members' = [c \in Chans |-> members[c] \ S]
  BY DEF ExitUsers, Restrict
<1>2. Live' = Live \ S /\ \A x \in Live' : user'[x] = user[x]
  BY <1>1 DEF Live
<1>3. Range(user') \subseteq setup.users
  BY <1>2 DEF Placed, Range, Live
<1>4. ASSUME NEW c \in Chans PROVE members[c] \ S \subseteq Live' \cup {Guardian}
  BY <1>2 DEF Placed
<1>5. QED
  BY <1>1, <1>3, <1>4 DEF Placed, Chans

\* take_action: the same of those it kills; who is kicked is off one channel.
LEMMA PlacedStrike ==
    ASSUME Placed, setup' = setup, NEW acts, NEW ours, Strike(acts, ours)
    PROVE  Placed'
<1> DEFINE D == Deaths(acts)
           M(c) == ((members[c] \ {Guardian}) \ (D \cup Kicked(acts, c)))
                      \cup (IF c \in ours THEN {Guardian} ELSE {})
<1>1. user' = [x \in Live \ D |-> user[x]] /\ members' = [c \in Chans |-> M(c)]
  BY DEF Strike, Restrict
<1>a. ASSUME NEW c \in Chans PROVE M(c) \subseteq (members[c] \ D) \cup {Guardian}
  OBVIOUS
<1> HIDE DEF D, M
<1>2. Live' = Live \ D /\ \A x \in Live' : user'[x] = user[x]
  BY <1>1 DEF Live
<1>3. Range(user') \subseteq setup.users
  BY <1>2 DEF Placed, Range, Live
<1>4. ASSUME NEW c \in Chans PROVE M(c) \subseteq Live' \cup {Guardian}
  BY <1>2, <1>a DEF Placed
<1>5. QED
  BY <1>1, <1>3, <1>4 DEF Placed, Chans

\* The same of one user who meets a rule.
LEMMA PlacedMeets ==
    ASSUME Placed, setup' = setup, NEW on \in [Chans -> SUBSET (Live \cup {Guardian})],
           NEW a, NEW x, NEW others, Meets(a, x, others), members' = Left(on, a, x)
    PROVE  Placed'
<1>1. CASE sync = "bursting"
  <2>1. user' = user /\ members' = on
    BY <1>1 DEF Meets, Left
  <2>2. QED
    BY <2>1 DEF Placed, Live, Chans
<1>2. CASE sync # "bursting"
  <2> DEFINE D == Deaths({<<{a}, x>>})
             M(c) == on[c] \ (D \cup Kicked({<<{a}, x>>}, c))
  <2>1. user' = [y \in Live \ D |-> user[y]] /\ members' = [c \in Chans |-> M(c)]
    BY <1>2 DEF Meets, Left, Restrict
  <2>2. ASSUME NEW c \in Chans PROVE M(c) \subseteq (Live \ D) \cup {Guardian}
    OBVIOUS
  <2> HIDE DEF D, M
  <2>3. Live' = Live \ D /\ \A y \in Live' : user'[y] = user[y]
    BY <2>1 DEF Live
  <2>4. Range(user') \subseteq setup.users
    BY <2>3 DEF Placed, Range, Live
  <2>5. QED
    BY <2>1, <2>2, <2>3, <2>4 DEF Placed, Chans
<1>3. QED
  BY <1>1, <1>2

LEMMA PlacedJoin ==
    ASSUME Placed, NEW a \in Live, NEW c \in Chans, Join(a, c)
    PROVE  Placed'
<1> DEFINE on == [members EXCEPT ![c] = members[c] \cup {a}]
<1>1. on \in [Chans -> SUBSET (Live \cup {Guardian})]
  BY DEF Placed
<1>2. setup' = setup
  BY DEF Join
<1>3. CASE members' = on /\ user' = user
  BY <1>1, <1>2, <1>3 DEF Placed, Chans, Live
<1>4. CASE \E x, others : Meets(a, x, others) /\ members' = Left(on, a, x)
  <2> HIDE DEF on
  <2>1. QED
    BY <1>1, <1>2, <1>4, PlacedMeets
<1>5. QED
  BY <1>3, <1>4 DEF Join

LEMMA PlacedUser ==
    ASSUME Placed, EvhUser
    PROVE  Placed'
<1>1. setup' = setup /\ members \in [Chans -> SUBSET (Live \cup {Guardian})]
  BY DEF EvhUser, Placed
<1>2. CASE UNCHANGED <<user, members>>
  BY <1>1, <1>2 DEF Placed, Chans, Live
<1>3. CASE \E x, others : Meets(guest, x, others) /\ members' = Left(members, guest, x)
  BY <1>1, <1>3, PlacedMeets
<1>4. QED
  BY <1>2, <1>3 DEF EvhUser

\* NewNick, or a mode: the user is of another kind that the setup knows.
LEMMA PlacedChange ==
    ASSUME Placed, NEW a \in Live, NEW what \in setup.users, Change(a, what)
    PROVE  Placed'
<1>1. user' = [user EXCEPT ![a] = what] /\ setup' = setup /\ members' = members
  BY DEF Change
<1>2. Live' = Live /\ \A x \in Live' : user'[x] = IF x = a THEN what ELSE user[x]
  BY <1>1 DEF Live
<1>3. Range(user') \subseteq setup.users
  BY <1>2 DEF Placed, Range, Live
<1>4. QED
  BY <1>1, <1>2, <1>3 DEF Placed, Chans

\* AddUser: the new user is of a kind the setup knows.
LEMMA PlacedArrival ==
    ASSUME Placed, NEW a, NEW what \in setup.users, AddUser(a, what)
    PROVE  Placed'
<1>1. user' = [x \in Live \cup {a} |-> IF x = a THEN what ELSE user[x]] /\ setup' = setup /\ members' = members
  BY DEF AddUser
<1>2. Live' = Live \cup {a}
  BY <1>1 DEF Live
<1>3. \A x \in Live' : user'[x] = IF x = a THEN what ELSE user[x]
  BY <1>1 DEF Live
<1>4. Range(user') \subseteq setup.users
  BY <1>2, <1>3 DEF Placed, Range, Live
<1>5. QED
  BY <1>1, <1>2, <1>4 DEF Placed, Chans

\* What a step does to users and channels is one of these.
LEMMA UsersAndChannels ==
    ASSUME [Next]_vars
    PROVE  /\ setup' = setup
           /\ \/ UNCHANGED <<user, members>>
              \/ \E a \in Addr, what \in setup.users : AddUser(a, what)
              \/ \E S : ExitUsers(S)
              \/ \E acts, ours : Strike(acts, ours)
              \/ \E a \in Live, what \in setup.users : Change(a, what)
              \/ EvhUser
              \/ \E a \in Live, c \in Chans : Join(a, c) \/ Part(a, c)
              \/ \E c \in Chans : KickGuardian(c)
<1> DEFINE Same == UNCHANGED <<user, members>>
           Struck == \E acts, ours : Strike(acts, ours)
<1>1. CASE \E a \in Addr, what \in setup.users : Arrival(a, what)
  BY <1>1 DEF Arrival, AddUser
<1>2. CASE Departure
  BY <1>2 DEF Departure, LoseLink, Quit
<1>3. CASE Linking
  BY <1>3 DEF Linking, Connect, EndBurst
<1>4. CASE Moves
  BY <1>4 DEF Moves, Join, Part, KickGuardian, UserChanges, Change
<1>5. CASE Handlers
  <2>1. EvhUser => setup' = setup
    BY DEF EvhUser
  <2>2. QED
    BY <1>5, <2>1 DEF Handlers, ReadFreed
<1>6. CASE Timers
  <2>1. EvhWatchqueue => setup' = setup /\ (Same \/ Struck)
    BY DEF EvhWatchqueue
  <2>2. QED
    BY <1>6, <2>1 DEF Timers, VersionQue, ScanQue, visitorVars
<1>7. CASE Commands
  <2>1. ASSUME NEW want, WatchAdd(want) PROVE setup' = setup /\ Struck
    BY <2>1 DEF WatchAdd, AddWatch
  <2>2. ASSUME NEW name, WatchRemove(name) PROVE setup' = setup /\ Struck
    BY <2>2 DEF WatchRemove
  <2>3. WatchRehash => setup' = setup /\ Struck
    BY DEF WatchRehash, AddWatch
  <2>4. QED
    BY <1>7, <2>1, <2>2, <2>3 DEF Commands, ExemptDel, ExemptAdd, ExemptLoad, CmdScan, WatchSet, SaveWatchdb,
                                  SessionRehash, visitorVars
<1>8. CASE Reloads
  <2>1. LoadWatch => setup' = setup /\ Struck
    BY DEF LoadWatch
  <2>2. UnloadWatch => setup' = setup /\ Struck
    BY DEF UnloadWatch
  <2>3. QED
    BY <1>8, <2>1, <2>2 DEF Reloads, LoadSessions, UnloadSessions, LoadScan, UnloadScan
<1>9. CASE Floods \/ ReleaseFloods \/ vars' = vars
  BY <1>9 DEF Floods, ReleaseFloods, vars, visitorVars
<1>10. QED
  BY <1>1, <1>2, <1>3, <1>4, <1>5, <1>6, <1>7, <1>8, <1>9 DEF Next

LEMMA PlacedStep ==
    ASSUME Placed, [Next]_vars
    PROVE  Placed'
<1>1. setup' = setup
  BY UsersAndChannels
<1>2. CASE UNCHANGED <<user, members>>
  BY <1>1, <1>2 DEF Placed, Live, Chans
<1>3. CASE \E a \in Addr, what \in setup.users : AddUser(a, what)
  BY <1>3, PlacedArrival
<1>4. CASE \E S : ExitUsers(S)
  BY <1>1, <1>4, PlacedExit
<1>5. CASE \E acts, ours : Strike(acts, ours)
  BY <1>1, <1>5, PlacedStrike
<1>6. ASSUME NEW a \in Live, NEW c \in Chans, Join(a, c) PROVE Placed'
  BY <1>6, PlacedJoin
<1>7. ASSUME NEW a, NEW c \in Chans, Part(a, c) \/ KickGuardian(c) PROVE Placed'
  <2>1. user' = user /\ \E S : members' = [members EXCEPT ![c] = members[c] \ S]
    BY <1>7 DEF Part, KickGuardian
  <2>2. QED
    BY <1>1, <2>1 DEF Placed, Live, Chans
<1>8. ASSUME NEW a \in Live, NEW what \in setup.users, Change(a, what) PROVE Placed'
  BY <1>8, PlacedChange
<1>9. EvhUser => Placed'
  BY PlacedUser
<1>10. QED
  BY <1>2, <1>3, <1>4, <1>5, <1>6, <1>7, <1>8, <1>9, UsersAndChannels, Zenon

\* The link, the burst and what may have been read.
LEMMA LinkTypes ==
    ASSUME NetTypes, [Next]_vars
    PROVE  /\ sync' \in {"startup", "bursting", "running"} /\ linked' \in BOOLEAN
           /\ fault' \in {"none", "freed user", "freed rule", "freed host", "freed channel"}
<1> DEFINE Faults == {"none", "freed user", "freed rule", "freed host", "freed channel"}
           Typed == sync' \in {"startup", "bursting", "running"} /\ linked' \in BOOLEAN /\ fault' \in Faults
<1>1. \A acts : Misread(acts) \in Faults
  BY DEF Misread, NetTypes
<1>2. UNCHANGED <<sync, linked, fault>> => Typed
  BY DEF NetTypes
<1>3. UNCHANGED <<sync, linked>> /\ (fault' \in Faults \ {"none"} \/ \E acts : fault' = Misread(acts)) => Typed
  BY <1>1 DEF NetTypes
<1>a. \A rs : Fallen(rs) \in Faults
  BY DEF Fallen, NetTypes
<1>b. ASSUME NEW kept, NEW wants, NEW config, NEW ours, NEW rows, NEW before \in Faults,
             AddWatch(kept, wants, config, ours, rows, before)
      PROVE  fault' \in Faults
  BY <1>1, <1>b DEF AddWatch
<1>c. ASSUME NEW a, NEW x, NEW others, Meets(a, x, others) PROVE fault' = fault \/ \E acts : fault' = Misread(acts)
  BY <1>c DEF Meets
<1>4. CASE \E a \in Addr, what \in setup.users : Arrival(a, what)
  BY <1>2, <1>4 DEF Arrival, AddUser
<1>5. CASE Departure
  BY <1>2, <1>5 DEF Departure, LoseLink, Quit, NetTypes
<1>6. CASE Linking
  BY <1>6 DEF Linking, Connect, EndBurst, NetTypes
<1>7. CASE Moves
  <2>1. ASSUME NEW a, NEW c, Join(a, c) PROVE Typed
    <3>1. UNCHANGED <<sync, linked>> /\ (fault' = fault \/ \E x, others : Meets(a, x, others))
      BY <2>1 DEF Join
    <3>2. QED
      BY <1>2, <1>3, <1>c, <3>1
  <2>2. QED
    BY <1>2, <1>7, <2>1 DEF Moves, Part, KickGuardian, UserChanges, Change
<1>8. CASE Handlers
  <2>1. EvhUser => Typed
    <3>1. EvhUser => UNCHANGED <<sync, linked>> /\ (fault' = fault \/ \E x, others : Meets(guest, x, others))
      BY DEF EvhUser
    <3>2. QED
      BY <1>2, <1>3, <1>c, <3>1
  <2>2. QED
    BY <1>2, <1>3, <1>8, <2>1 DEF Handlers, ReadFreed
<1>9. CASE Timers
  <2>1. EvhWatchqueue => Typed
    BY <1>2, <1>3 DEF EvhWatchqueue
  <2>2. VersionQue => Typed
    BY <1>2, <1>3 DEF VersionQue
  <2>3. QED
    BY <1>2, <1>9, <2>1, <2>2 DEF Timers, ScanQue, visitorVars
<1>10. CASE Commands
  <2>1. ASSUME NEW want, WatchAdd(want) PROVE Typed
    <3>1. UNCHANGED <<sync, linked>> /\ AddWatch(rules, <<want>>, FALSE, Ours, wrows, fault) /\ fault \in Faults
      BY <2>1 DEF WatchAdd, NetTypes
    <3>2. fault' \in Faults
      BY <1>b, <3>1
    <3>3. QED
      BY <3>1, <3>2 DEF NetTypes
  <2>2. ASSUME NEW name, WatchRemove(name) PROVE Typed
    <3>1. UNCHANGED <<sync, linked>> /\ \E rs : fault' = Fallen(rs)
      BY <2>2 DEF WatchRemove
    <3>2. QED
      BY <1>a, <3>1 DEF NetTypes
  <2>3. WatchRehash => Typed
    <3>1. ASSUME WatchRehash
          PROVE  UNCHANGED <<sync, linked>> /\ \E rs, kept, ours, rows : AddWatch(kept, setup.watches, TRUE, ours, rows, Fallen(rs))
      BY <3>1 DEF WatchRehash
    <3>2. ASSUME WatchRehash PROVE fault' \in Faults
      <4>1. PICK rs, kept, ours, rows : AddWatch(kept, setup.watches, TRUE, ours, rows, Fallen(rs))
        BY <3>1, <3>2
      <4>2. QED
        BY <1>a, <1>b, <4>1
    <3>3. QED
      BY <3>1, <3>2 DEF NetTypes
  <2>4. QED
    BY <1>2, <1>10, <2>1, <2>2, <2>3 DEF Commands, ExemptDel, ExemptAdd, ExemptLoad, CmdScan, WatchSet, SaveWatchdb,
                                         SessionRehash, visitorVars
<1>11. CASE Reloads
  <2>1. LoadWatch => Typed
    BY <1>3 DEF LoadWatch
  <2>2. UnloadWatch => Typed
    <3>1. UnloadWatch => UNCHANGED <<sync, linked>> /\ \E rs : fault' = Fallen(rs)
      BY DEF UnloadWatch
    <3>2. QED
      BY <1>a, <3>1 DEF NetTypes
  <2>3. QED
    BY <1>2, <1>11, <2>1, <2>2 DEF Reloads, LoadSessions, UnloadSessions, LoadScan, UnloadScan
<1>12. CASE Floods \/ ReleaseFloods \/ vars' = vars
  BY <1>2, <1>12 DEF Floods, ReleaseFloods, vars, visitorVars
<1>13. QED
  BY <1>4, <1>5, <1>6, <1>7, <1>8, <1>9, <1>10, <1>11, <1>12 DEF Next

-----------------------------------------------------------------------------
(* The types of the version scan *)

ScanTypes ==
    /\ ToSet(versionq) \subseteq Live \cup {Freed} /\ asked \subseteq Live
    /\ vtimers \in 0..MaxTimers /\ stimers \in 0..MaxTimers

LEMMA ScanTypesLose ==
    ASSUME ScanTypes, ScanLoses(Live \ Live')
    PROVE  ScanTypes'
<1>1. /\ versionq' = [i \in DOMAIN versionq |-> IF versionq[i] \in Live \ Live' THEN Freed ELSE versionq[i]]
      /\ asked' = asked \ (Live \ Live') /\ UNCHANGED <<vtimers, stimers>>
  BY DEF ScanLoses
<1>2. ASSUME NEW i \in DOMAIN versionq PROVE versionq'[i] \in Live' \cup {Freed}
  <2>1. versionq[i] \in Live \cup {Freed}
    BY DEF ScanTypes, ToSet
  <2>2. QED
    BY <1>1, <2>1
<1>3. DOMAIN versionq' = DOMAIN versionq
  BY <1>1
<1>4. QED
  BY <1>1, <1>2, <1>3 DEF ScanTypes, ToSet

LEMMA ScanTypesAsk ==
    ASSUME ScanInv, ScanTypes, NEW a \in Live, AskVersion(a), UNCHANGED <<user, vtimers, stimers>>
    PROVE  ScanTypes'
<1>1. Live' = Live
  BY DEF Live
<1>2. CASE sync = "running"
  BY <1>1, <1>2 DEF AskVersion, ScanTypes
<1>3. CASE sync # "running"
  <2>1. versionq' = Append(versionq, a) /\ versionq \in Seq(Addr \cup {Freed}) /\ asked' = asked /\ a \in Addr \cup {Freed}
    BY <1>3 DEF AskVersion, ScanInv, ChainRight
  <2>2. /\ versionq' \in Seq(Addr \cup {Freed}) /\ Len(versionq') = Len(versionq) + 1
        /\ versionq'[Len(versionq) + 1] = a /\ \A k \in 1..Len(versionq) : versionq'[k] = versionq[k]
    BY <2>1, AddLast
  <2>3. DOMAIN versionq = 1..Len(versionq) /\ DOMAIN versionq' = 1..(Len(versionq) + 1) /\ Len(versionq) \in Nat
    BY <2>1, <2>2
  <2>4. ASSUME NEW k \in 1..(Len(versionq) + 1) PROVE versionq'[k] \in Live \cup {Freed}
    <3>1. CASE k = Len(versionq) + 1
      BY <2>2, <3>1
    <3>2. CASE k \in 1..Len(versionq)
      BY <2>2, <2>3, <3>2 DEF ScanTypes, ToSet
    <3>3. QED
      BY <2>3, <3>1, <3>2
  <2>5. QED
    BY <1>1, <2>1, <2>3, <2>4 DEF ScanTypes, ToSet
<1>4. QED
  BY <1>2, <1>3

\* version_que asks whom it takes off the queue: none of them is gone.
LEMMA ScanTypesWork ==
    ASSUME ScanInv, ScanTypes, VersionQue
    PROVE  ScanTypes'
<1> DEFINE n == Min({PerRun, Len(versionq)})
           one == SubSeq(versionq, 1, n)
           two == SubSeq(versionq, n + 1, Len(versionq))
<1>1. Live' = Live
  BY DEF VersionQue, Live
<1>2. \/ UNCHANGED scanVars
      \/ /\ Freed \notin ToSet(one) /\ asked' = asked \cup ToSet(one) /\ versionq' = two
         /\ vtimers' \in {vtimers, vtimers - 1} /\ stimers' = stimers
  BY DEF VersionQue
<1>3. CASE UNCHANGED scanVars
  BY <1>1, <1>3 DEF ScanTypes, scanVars
<1>4. CASE /\ Freed \notin ToSet(one) /\ asked' = asked \cup ToSet(one) /\ versionq' = two
           /\ vtimers' \in {vtimers, vtimers - 1} /\ stimers' = stimers
  <2>1. versionq \in Seq(Addr \cup {Freed}) /\ Len(versionq) \in Nat
    BY DEF ScanInv
  <2>2. n \in 0..Len(versionq)
    <3>1. n = IF PerRun <= Len(versionq) THEN PerRun ELSE Len(versionq)
      BY <2>1, MinOfTwo, ScanAssumption
    <3>2. QED
      BY <2>1, <3>1, ScanAssumption
  <2> HIDE DEF n
  <2>3. /\ one \in Seq(Addr \cup {Freed}) /\ Len(one) = n /\ \A k \in 1..n : one[k] = versionq[k]
        /\ two \in Seq(Addr \cup {Freed}) /\ Len(two) = Len(versionq) - n
        /\ \A k \in 1..(Len(versionq) - n) : two[k] = versionq[k + n]
    BY <2>1, <2>2
  <2> HIDE DEF one, two
  <2>4. DOMAIN versionq = 1..Len(versionq) /\ DOMAIN one = 1..n /\ DOMAIN two = 1..(Len(versionq) - n)
    BY <2>1, <2>3
  <2>5. ASSUME NEW x \in ToSet(one) \cup ToSet(two) PROVE x \in ToSet(versionq)
    <3>1. CASE x \in ToSet(one)
      <4>1. PICK k \in 1..n : one[k] = x
        BY <2>4, <3>1 DEF ToSet
      <4>2. k \in 1..Len(versionq) /\ versionq[k] = x
        BY <2>1, <2>2, <2>3, <4>1
      <4>3. QED
        BY <2>4, <4>2 DEF ToSet
    <3>2. CASE x \in ToSet(two)
      <4>1. PICK k \in 1..(Len(versionq) - n) : two[k] = x
        BY <2>4, <3>2 DEF ToSet
      <4>2. k + n \in 1..Len(versionq) /\ versionq[k + n] = x
        BY <2>1, <2>2, <2>3, <4>1
      <4>3. QED
        BY <2>4, <4>2 DEF ToSet
    <3>3. QED
      BY <2>5, <3>1, <3>2
  <2>6. vtimers' \in 0..MaxTimers
    <3>1. vtimers > 0
      BY DEF VersionQue
    <3>2. QED
      BY <1>4, <3>1, ScanAssumption DEF ScanTypes
  <2>7. QED
    BY <1>1, <1>4, <2>5, <2>6 DEF ScanTypes
<1>5. QED
  BY <1>2, <1>3, <1>4

LEMMA ScanTypesKept ==
    ASSUME ScanTypes, UNCHANGED <<user, versionq, asked, vtimers, stimers>>
    PROVE  ScanTypes'
BY DEF ScanTypes, Live

LEMMA ScanTypesStep ==
    ASSUME ScanInv, ScanTypes, [Next]_vars
    PROVE  ScanTypes'
<1>1. CASE \E a \in Addr, what \in setup.users : Arrival(a, what)
  <2>1. Live \subseteq Live' /\ UNCHANGED <<versionq, asked, vtimers, stimers>>
    BY <1>1 DEF Arrival, AddUser, scanVars, Live
  <2>2. QED
    BY <2>1 DEF ScanTypes
<1>2. CASE \/ Departure \/ Moves \/ (EvhUser /\ Exits) \/ (EvhWatchqueue /\ Exits)
           \/ /\ \/ \E want \in setup.wants : WatchAdd(want)
                 \/ \E name \in Chans \cup Nicks :
                       WatchRemove(name) \/ \E action \in setup.actions : WatchSet(name, action)
                 \/ SaveWatchdb
                 \/ WatchRehash
              /\ Exits
           \/ (LoadWatch \/ UnloadWatch) /\ Exits
  <2>1. UsersGo
    BY <1>2, LosingSteps, Zenon
  <2>2. ScanLoses(Live \ Live')
    BY <2>1 DEF UsersGo, Exits, Leavers, Live
  <2>3. QED
    BY <2>2, ScanTypesLose
<1>3. CASE Linking
  <2>1. Live' = Live /\ versionq' = versionq /\ asked' = asked
    BY <1>3 DEF Linking, Connect, EndBurst, InitEvents, scanVars, Live
  <2>2. CASE UNCHANGED scanVars
    BY <2>1, <2>2 DEF ScanTypes, scanVars
  <2>3. CASE InitEvents
    BY <2>1, <2>3, ScanAssumption DEF ScanTypes, InitEvents
  <2>4. QED
    BY <1>3, <2>2, <2>3 DEF Linking
<1>4. CASE Handlers
  <2>1. CASE ScanNick /\ user' = user
    BY <2>1, ScanTypesAsk DEF ScanNick
  <2>2. CASE user' = user /\ UNCHANGED scanVars
    BY <2>2, ScanTypesKept DEF scanVars
  <2>3. QED
    BY <1>2, <1>4, <2>1, <2>2 DEF Handlers, ReadFreed
<1>5. CASE Timers
  <2>1. CASE VersionQue
    BY <2>1, ScanTypesWork
  <2>2. CASE ScanQue
    <3>1. stimers > 0 /\ stimers' = stimers - 1 /\ UNCHANGED <<user, versionq, asked, vtimers>>
      BY <2>2 DEF ScanQue, visitorVars
    <3>2. QED
      BY <3>1, ScanAssumption DEF ScanTypes, Live
  <2>3. QED
    BY <1>2, <1>5, <2>1, <2>2 DEF Timers
<1>6. CASE Commands
  <2>1. CASE \E a \in Live : CmdScan(a)
    BY <2>1, ScanTypesAsk DEF CmdScan, visitorVars
  <2>2. CASE UNCHANGED <<visitorVars, scanVars>>
    BY <2>2, ScanTypesKept DEF visitorVars, scanVars
  <2>3. QED
    BY <1>2, <1>6, <2>1, <2>2 DEF Commands, ExemptDel, ExemptAdd, ExemptLoad, SessionRehash
<1>7. CASE Reloads
  <2>1. CASE LoadScan
    <3>1. versionq' = <<>> /\ asked' = Live /\ UNCHANGED <<user, vtimers, stimers>>
      BY <2>1 DEF LoadScan
    <3>2. Live' = Live /\ ToSet(versionq') = {}
      BY <3>1 DEF Live, ToSet
    <3>3. QED
      BY <3>1, <3>2 DEF ScanTypes
  <2>2. CASE UnloadScan
    <3>1. versionq' = <<>> /\ asked' = {} /\ vtimers' = 0 /\ stimers' = 0
      BY <2>2 DEF UnloadScan
    <3>2. ToSet(versionq') = {}
      BY <3>1 DEF ToSet
    <3>3. QED
      BY <3>1, <3>2, ScanAssumption DEF ScanTypes
  <2>3. CASE user' = user /\ UNCHANGED scanVars
    BY <2>3, ScanTypesKept DEF scanVars
  <2>4. QED
    BY <1>2, <1>7, <2>1, <2>2, <2>3 DEF Reloads, LoadSessions, UnloadSessions
<1>8. CASE Floods \/ ReleaseFloods \/ vars' = vars
  BY <1>8, ScanTypesKept DEF Floods, ReleaseFloods, vars, visitorVars, scanVars
<1>9. QED
  BY <1>1, <1>2, <1>3, <1>4, <1>5, <1>6, <1>7, <1>8 DEF Next

-----------------------------------------------------------------------------
(* The sessions of a host *)

\* Who is taken from a set leaves at most as many fewer.
LEMMA FewerLeft ==
    ASSUME NEW C, IsFiniteSet(C), NEW G, IsFiniteSet(G)
    PROVE  /\ Cardinality(C) \in Nat /\ Cardinality(G) \in Nat /\ Cardinality(C \ G) \in Nat
           /\ Cardinality(C) - Cardinality(G) <= Cardinality(C \ G)
           /\ G \subseteq C => Cardinality(C \ G) = Cardinality(C) - Cardinality(G) /\ Cardinality(G) <= Cardinality(C)
<1>1. Cardinality(C) \in Nat /\ Cardinality(G) \in Nat
  BY FS_CardinalityType
<1>2. Cardinality(C \ G) = Cardinality(C) - Cardinality(C \cap G) /\ IsFiniteSet(C \ G)
  BY FS_Difference
<1>3. Cardinality(C \ G) \in Nat
  BY <1>2, FS_CardinalityType
<1>4. C \cap G \in SUBSET G
  OBVIOUS
<1>5. Cardinality(C \cap G) <= Cardinality(G) /\ Cardinality(C \cap G) \in Nat
  BY <1>4, FS_Subset, FS_CardinalityType
<1>6. G \subseteq C => C \cap G = G
  OBVIOUS
<1>7. QED
  BY <1>1, <1>2, <1>3, <1>5, <1>6

\* Who is counted on a host is there.
LEMMA OnHost ==
    ASSUME ChainRight
    PROVE  \A h : /\ On(h) \subseteq Live /\ IsFiniteSet(On(h)) /\ IsFiniteSet(On(h) \ Waiting)
                  /\ Cardinality(On(h)) \in Nat /\ Cardinality(On(h) \ Waiting) \in Nat
                  /\ Cardinality(On(h) \ Waiting) <= Cardinality(On(h))
<1> SUFFICES ASSUME NEW h
             PROVE  /\ On(h) \subseteq Live /\ IsFiniteSet(On(h)) /\ IsFiniteSet(On(h) \ Waiting)
                    /\ Cardinality(On(h)) \in Nat /\ Cardinality(On(h) \ Waiting) \in Nat
                    /\ Cardinality(On(h) \ Waiting) <= Cardinality(On(h))
  OBVIOUS
<1>1. On(h) \in SUBSET Live /\ IsFiniteSet(Live)
  BY DEF On, ChainRight
<1>2. IsFiniteSet(On(h))
  BY <1>1, FS_Subset
<1>3. On(h) \ Waiting \in SUBSET On(h)
  OBVIOUS
<1>4. IsFiniteSet(On(h) \ Waiting) /\ Cardinality(On(h) \ Waiting) <= Cardinality(On(h))
  BY <1>2, <1>3, FS_Subset
<1>5. QED
  BY <1>1, <1>2, <1>4, FS_CardinalityType

\* What a step does when users go: the module, if it is there, counts each of them down.
LEMMA CountsLose ==
    ASSUME ChainRight, CountsRight, UsersGo
    PROVE  CountsRight'
<1> DEFINE S == Live \ Live'
           gone(h) == {a \in S : user[a].host = h}
           C(h) == On(h) \ Waiting
<1>1. /\ fault = "none" /\ UserExits(S) /\ setup' = setup /\ guest' = guest
      /\ Live' \subseteq Live /\ \A a \in Live' : user'[a].host = user[a].host
  BY DEF UsersGo, Exits, Leavers, Live
<1>2. Waiting' = Waiting
  <2>1. "g_sessions" \in ToSet(chain') <=> "g_sessions" \in ToSet(chain)
    <3>1. CASE chain' = chain
      BY <3>1
    <3>2. CASE Handling("g_watch") /\ chain' = Tail(chain)
      BY <3>2, ChainTail DEF Handling
    <3>3. QED
      BY <3>1, <3>2 DEF UsersGo
  <2>2. QED
    BY <1>1, <2>1 DEF Waiting
<1>3. Loaded("g_sessions")' <=> Loaded("g_sessions")
  <2>1. CASE loaded' = loaded
    BY <2>1 DEF Loaded
  <2>2. CASE LoadModule("g_watch") \/ UnloadModule("g_watch")
    BY <1>1, <2>2, ModulesComeAndGo DEF ChainRight
  <2>3. QED
    BY <2>1, <2>2 DEF UsersGo
<1>4. Hosts' = Hosts
  BY <1>1 DEF Hosts
<1>5. \A h : On(h)' = On(h) \ gone(h)
  BY <1>1 DEF On
<1>6. \A h : (On(h) \ Waiting)' = C(h) \ gone(h)
  BY <1>2, <1>5
<1>7. CASE ~Loaded("g_sessions")
  <2>1. sessions = <<>> /\ sessions' = <<>>
    BY <1>1, <1>7 DEF CountsRight, UserExits
  <2>2. DOMAIN sessions' = {}
    BY <2>1
  <2>3. QED
    BY <1>3, <1>7, <2>1, <2>2 DEF CountsRight, SessionsExact
<1>8. CASE Loaded("g_sessions")
  <2> DEFINE kept == {h \in DOMAIN sessions : Cardinality(gone(h)) <= sessions[h]}
  <2>1. sessions' = [h \in kept |-> sessions[h] - Cardinality(gone(h))]
    BY <1>1, <1>8 DEF UserExits, DelSession
  <2>2. \A h : /\ Cardinality(C(h)) \in Nat /\ Cardinality(gone(h)) \in Nat
               /\ Cardinality(C(h) \ gone(h)) \in Nat
               /\ Cardinality(C(h)) - Cardinality(gone(h)) <= Cardinality(C(h) \ gone(h))
               /\ gone(h) \subseteq C(h) => /\ Cardinality(C(h) \ gone(h)) = Cardinality(C(h)) - Cardinality(gone(h))
                                            /\ Cardinality(gone(h)) <= Cardinality(C(h))
    <3> SUFFICES ASSUME NEW h
                 PROVE  /\ Cardinality(C(h)) \in Nat /\ Cardinality(gone(h)) \in Nat
                        /\ Cardinality(C(h) \ gone(h)) \in Nat
                        /\ Cardinality(C(h)) - Cardinality(gone(h)) <= Cardinality(C(h) \ gone(h))
                        /\ gone(h) \subseteq C(h) => /\ Cardinality(C(h) \ gone(h)) = Cardinality(C(h)) - Cardinality(gone(h))
                                                     /\ Cardinality(gone(h)) <= Cardinality(C(h))
      OBVIOUS
    <3>1. IsFiniteSet(C(h))
      BY OnHost
    <3>2. IsFiniteSet(Live) /\ gone(h) \in SUBSET Live
      BY DEF ChainRight
    <3>3. IsFiniteSet(gone(h))
      BY <3>2, FS_Subset
    <3> HIDE DEF C, gone
    <3>4. QED
      BY <3>1, <3>3, FewerLeft
  <2>3. ASSUME NEW h, h \notin blind' PROVE gone(h) \subseteq C(h)
    <3>1. ASSUME NEW a \in gone(h) PROVE a \notin Waiting
      <4>1. a \in S /\ user[a].host = h
        OBVIOUS
      <4>2. a \in S \cap Waiting => h \in blind'
        BY <1>1, <4>1 DEF UserExits
      <4>3. QED
        BY <2>3, <4>1, <4>2
    <3>2. gone(h) \subseteq On(h)
      BY DEF On
    <3>3. QED
      BY <3>1, <3>2
  <2>4. blind \subseteq blind'
    BY <1>1 DEF UserExits
  <2>5. /\ \A h \in DOMAIN sessions : h \in Hosts /\ sessions[h] \in Nat /\ sessions[h] <= Cardinality(C(h))
        /\ \A h \in Hosts \ blind : (IF h \in DOMAIN sessions THEN sessions[h] ELSE 0) = Cardinality(C(h))
    BY <1>1, <1>8 DEF CountsRight, SessionsExact
  <2> HIDE DEF gone, C, S
  <2>6. DOMAIN sessions' = kept /\ kept \subseteq DOMAIN sessions /\ \A h \in kept : sessions'[h] = sessions[h] - Cardinality(gone(h))
    BY <2>1
  <2>7. ASSUME NEW h \in kept PROVE sessions'[h] \in Nat /\ sessions'[h] <= Cardinality(C(h) \ gone(h))
    <3>1. /\ sessions'[h] = sessions[h] - Cardinality(gone(h)) /\ Cardinality(gone(h)) <= sessions[h]
          /\ sessions[h] \in Nat /\ sessions[h] <= Cardinality(C(h))
      BY <2>5, <2>6
    <3>2. QED
      BY <2>2, <3>1
  <2>8. ASSUME NEW h \in Hosts \ blind'
        PROVE  (IF h \in kept THEN sessions'[h] ELSE 0) = Cardinality(C(h) \ gone(h))
    <3>1. /\ Cardinality(C(h) \ gone(h)) = Cardinality(C(h)) - Cardinality(gone(h))
          /\ Cardinality(gone(h)) <= Cardinality(C(h)) /\ Cardinality(gone(h)) \in Nat /\ Cardinality(C(h)) \in Nat
      BY <2>2, <2>3
    <3>2. (IF h \in DOMAIN sessions THEN sessions[h] ELSE 0) = Cardinality(C(h))
      BY <2>4, <2>5
    <3>3. CASE h \in DOMAIN sessions
      <4>1. h \in kept
        BY <3>1, <3>2, <3>3
      <4>2. QED
        BY <2>6, <3>1, <3>2, <3>3, <4>1
    <3>4. CASE h \notin DOMAIN sessions
      BY <2>6, <3>1, <3>2, <3>4
    <3>5. QED
      BY <3>3, <3>4
  <2> HIDE DEF kept
  <2>9. DOMAIN sessions' \subseteq Hosts' /\ \A h \in DOMAIN sessions' : sessions'[h] \in Nat
    BY <1>4, <2>5, <2>6, <2>7
  <2>10. \A h \in DOMAIN sessions' : sessions'[h] <= Cardinality((On(h) \ Waiting)')
    BY <1>6, <2>6, <2>7
  <2>11. SessionsExact'
    BY <1>4, <1>6, <2>6, <2>8 DEF SessionsExact
  <2>12. QED
    BY <1>3, <1>8, <2>9, <2>10, <2>11 DEF CountsRight
<1>9. QED
  BY <1>7, <1>8

\* AddUser: the new user is not counted yet.
LEMMA CountsMeet ==
    ASSUME ChainRight, CountsRight, NEW a, NEW what, Arrival(a, what)
    PROVE  CountsRight'
<1>1. /\ chain = <<>> /\ a \notin Live /\ Live' = Live \cup {a} /\ \A x \in Live : user'[x] = user[x]
      /\ chain' = Listening /\ guest' = a /\ UNCHANGED <<setup, loaded, fault, sessions, blind>>
  BY DEF Arrival, AddUser, Quiet, Calm, Live, sessionVars
<1>2. Hosts' = Hosts /\ (Loaded("g_sessions")' <=> Loaded("g_sessions"))
  BY <1>1 DEF Hosts, Loaded
<1>3. CASE ~Loaded("g_sessions")
  <2>1. sessions = <<>> /\ DOMAIN sessions = {}
    BY <1>3 DEF CountsRight
  <2>2. QED
    BY <1>1, <1>2, <1>3, <2>1 DEF CountsRight, SessionsExact
<1>4. CASE Loaded("g_sessions")
  <2>1. Waiting = {} /\ Waiting' = {a}
    <3>1. "g_sessions" \in ToSet(chain')
      BY <1>1, <1>4, ChainBegins DEF Loaded
    <3>2. ToSet(chain) = {}
      BY <1>1 DEF ToSet
    <3>3. QED
      BY <1>1, <3>1, <3>2 DEF Waiting
  <2>2. \A h : (On(h) \ Waiting)' = On(h) \ Waiting
    <3>1. \A h : On(h)' \ {a} = On(h)
      BY <1>1 DEF On
    <3>2. QED
      BY <2>1, <3>1
  <2>3. QED
    BY <1>1, <1>2, <2>2 DEF CountsRight, SessionsExact
<1>5. QED
  BY <1>3, <1>4

\* event_usercon: the guest is counted, unless he is a service.
LEMMA CountsHandle ==
    ASSUME ChainRight, CountsRight, Placed, EventUsercon, UNCHANGED <<setup, loaded, user, guest, fault>>
    PROVE  CountsRight'
<1> DEFINE h0 == user[guest].host
           C(h) == On(h) \ Waiting
<1>1. /\ chain # <<>> /\ Head(chain) = "g_sessions" /\ chain' = Tail(chain) /\ guest \in Live /\ fault = "none"
  BY DEF EventUsercon, Handling, Handled
<1>2. Waiting = {guest} /\ Waiting' = {} /\ Loaded("g_sessions")
  <2>1. ToSet(chain') = ToSet(chain) \ {"g_sessions"} /\ "g_sessions" \in ToSet(loaded)
    BY <1>1, ChainTail
  <2>2. "g_sessions" \in ToSet(chain)
    BY <1>1, TailKeeps DEF ChainRight
  <2>3. QED
    BY <2>1, <2>2 DEF Waiting, Loaded
<1>3. Hosts' = Hosts /\ (Loaded("g_sessions")' <=> Loaded("g_sessions")) /\ \A h : On(h)' = On(h)
  BY DEF Hosts, Loaded, On, Live
<1>4. \A h : (On(h) \ Waiting)' = On(h)
  BY <1>2, <1>3
<1>5. h0 \in Hosts
  BY <1>1 DEF Placed, Hosts, Range, Live
<1>6. \A h : h # h0 => On(h) = C(h)
  BY <1>2 DEF On
<1>7. guest \in On(h0) /\ C(h0) = On(h0) \ {guest}
  BY <1>1, <1>2 DEF On
<1>8. \A h : Cardinality(On(h)) \in Nat /\ Cardinality(C(h)) \in Nat /\ Cardinality(C(h)) <= Cardinality(On(h))
  BY OnHost
<1>9. Cardinality(On(h0)) = Cardinality(C(h0)) + 1
  <2>1. IsFiniteSet(On(h0))
    BY OnHost
  <2>2. Cardinality(On(h0) \ {guest}) = Cardinality(On(h0)) - 1
    BY <1>7, <2>1, FS_RemoveElement
  <2>3. QED
    BY <1>7, <1>8, <2>2
<1>10. /\ \A h \in DOMAIN sessions : h \in Hosts /\ sessions[h] \in Nat /\ sessions[h] <= Cardinality(C(h))
       /\ \A h \in Hosts \ blind : (IF h \in DOMAIN sessions THEN sessions[h] ELSE 0) = Cardinality(C(h))
  BY <1>1, <1>2 DEF CountsRight, SessionsExact
<1> HIDE DEF C, h0
<1>11. CASE blind' = blind \cup {h0} /\ sessions' = sessions
  <2>1. ASSUME NEW h \in DOMAIN sessions PROVE sessions'[h] <= Cardinality((On(h) \ Waiting)')
    <3>1. sessions[h] \in Nat /\ sessions[h] <= Cardinality(C(h)) /\ Cardinality(C(h)) <= Cardinality(On(h))
          /\ Cardinality(C(h)) \in Nat /\ Cardinality(On(h)) \in Nat
      BY <1>8, <1>10
    <3>2. sessions[h] <= Cardinality(On(h))
      BY <3>1
    <3>3. QED
      BY <1>4, <1>11, <3>2
  <2>2. SessionsExact'
    BY <1>3, <1>4, <1>6, <1>10, <1>11 DEF SessionsExact
  <2>3. QED
    BY <1>2, <1>3, <1>10, <1>11, <2>1, <2>2 DEF CountsRight
<1>12. CASE AddSession(h0) /\ blind' = blind
  <2>1. sessions' = [x \in DOMAIN sessions \cup {h0} |->
                       IF x # h0 THEN sessions[x] ELSE IF h0 \in DOMAIN sessions THEN sessions[h0] + 1 ELSE 1]
    BY <1>12 DEF AddSession
  <2>2. DOMAIN sessions' = DOMAIN sessions \cup {h0}
    BY <2>1
  <2>3. /\ \A h \in DOMAIN sessions : h # h0 => sessions'[h] = sessions[h]
        /\ sessions'[h0] = IF h0 \in DOMAIN sessions THEN sessions[h0] + 1 ELSE 1
    BY <2>1
  <2>4. sessions'[h0] \in Nat /\ sessions'[h0] <= Cardinality(On(h0))
    <3>1. CASE h0 \in DOMAIN sessions
      BY <1>8, <1>9, <1>10, <2>3, <3>1
    <3>2. CASE h0 \notin DOMAIN sessions
      BY <1>8, <1>9, <2>3, <3>2
    <3>3. QED
      BY <3>1, <3>2
  <2>5. ASSUME NEW h \in DOMAIN sessions' PROVE h \in Hosts /\ sessions'[h] \in Nat /\ sessions'[h] <= Cardinality(On(h))
    <3>1. CASE h = h0
      BY <1>5, <2>4, <3>1
    <3>2. CASE h # h0
      BY <1>6, <1>10, <2>2, <2>3, <3>2
    <3>3. QED
      BY <3>1, <3>2
  <2>6. ASSUME NEW h \in Hosts \ blind
        PROVE  (IF h \in DOMAIN sessions' THEN sessions'[h] ELSE 0) = Cardinality(On(h))
    <3>1. CASE h = h0
      <4>1. CASE h0 \in DOMAIN sessions
        BY <1>8, <1>9, <1>10, <2>2, <2>3, <3>1, <4>1
      <4>2. CASE h0 \notin DOMAIN sessions
        BY <1>8, <1>9, <1>10, <2>2, <2>3, <3>1, <4>2
      <4>3. QED
        BY <4>1, <4>2
    <3>2. CASE h # h0
      BY <1>6, <1>10, <2>2, <2>3, <3>2
    <3>3. QED
      BY <3>1, <3>2
  <2>7. \A h \in DOMAIN sessions' : sessions'[h] <= Cardinality((On(h) \ Waiting)')
    BY <1>4, <2>5
  <2>8. SessionsExact'
    BY <1>3, <1>4, <1>12, <2>6 DEF SessionsExact
  <2>9. QED
    BY <1>2, <1>3, <2>5, <2>7, <2>8 DEF CountsRight
<1>13. QED
  BY <1>11, <1>12 DEF EventUsercon, h0

\* Module_Init and Module_Close: a new instance counts nobody who is there.
LEMMA CountsReload ==
    ASSUME ChainRight, CountsRight, LoadSessions \/ UnloadSessions
    PROVE  CountsRight'
<1>1. sessions' = <<>> /\ UNCHANGED <<setup, user, chain, guest, fault>>
  BY DEF LoadSessions, UnloadSessions
<1>2. DOMAIN sessions' = {} /\ Hosts' = Hosts /\ \A h : On(h)' = On(h)
  BY <1>1 DEF Hosts, On, Live
<1>3. CASE LoadSessions
  <2>1. blind' = {user[a].host : a \in Live}
    BY <1>3 DEF LoadSessions
  <2>2. ASSUME NEW h, h \notin blind' PROVE Cardinality((On(h) \ Waiting)') = 0
    <3>1. On(h) = {}
      BY <2>1, <2>2 DEF On
    <3>2. (On(h) \ Waiting)' = {}
      BY <1>2, <3>1
    <3>3. QED
      BY <3>2, FS_EmptySet
  <2>3. SessionsExact'
    BY <1>2, <2>2 DEF SessionsExact
  <2>4. QED
    BY <1>1, <1>2, <2>3 DEF CountsRight
<1>4. CASE UnloadSessions
  <2>1. ~Loaded("g_sessions")'
    BY <1>1, <1>4, ModulesComeAndGo DEF UnloadSessions, ChainRight, LoadModule, UnloadModule
  <2>2. QED
    BY <1>1, <1>2, <2>1 DEF CountsRight, SessionsExact
<1>5. QED
  BY <1>3, <1>4

\* Steps on which nobody comes, goes or is counted.
LEMMA CountsKept ==
    ASSUME CountsRight, UNCHANGED <<setup, user, guest, sessions, blind>>, fault' = "none" => fault = "none",
           Loaded("g_sessions")' <=> Loaded("g_sessions"),
           "g_sessions" \in ToSet(chain') <=> "g_sessions" \in ToSet(chain)
    PROVE  CountsRight'
<1>1. Hosts' = Hosts /\ Waiting' = Waiting /\ \A h : On(h)' = On(h)
  BY DEF Hosts, On, Live, Waiting
<1>2. QED
  BY <1>1 DEF CountsRight, SessionsExact

LEMMA CountsStep ==
    ASSUME ChainRight, CountsRight, Placed, [Next]_vars
    PROVE  CountsRight'
<1>1. ASSUME UNCHANGED <<setup, loaded, user, guest, chain, sessions, blind>>, fault' = "none" => fault = "none"
      PROVE  CountsRight'
  BY <1>1, CountsKept DEF Loaded
<1>2. CASE \/ Departure \/ Moves \/ (EvhUser /\ Exits) \/ (EvhWatchqueue /\ Exits)
           \/ /\ \/ \E want \in setup.wants : WatchAdd(want)
                 \/ \E name \in Chans \cup Nicks :
                       WatchRemove(name) \/ \E action \in setup.actions : WatchSet(name, action)
                 \/ SaveWatchdb
                 \/ WatchRehash
              /\ Exits
           \/ (LoadWatch \/ UnloadWatch) /\ Exits
  BY <1>2, LosingSteps, CountsLose, Zenon
<1>3. CASE \E a \in Addr, what \in setup.users : Arrival(a, what)
  BY <1>3, CountsMeet
<1>4. CASE Linking
  BY <1>1, <1>4 DEF Linking, Connect, EndBurst, sessionVars
<1>5. CASE Handlers
  <2>1. CASE EventUsercon /\ UNCHANGED <<setup, loaded, user, guest, fault>>
    BY <2>1, CountsHandle
  <2>2. CASE ScanNick /\ UNCHANGED <<setup, loaded, user, guest, fault, sessionVars>>
    <3>1. chain # <<>> /\ Head(chain) = "g_scan" /\ chain' = Tail(chain)
      BY <2>2 DEF ScanNick, Handling, Handled
    <3>2. ToSet(chain') = ToSet(chain) \ {"g_scan"}
      BY <3>1, ChainTail
    <3>3. "g_sessions" \in ToSet(chain') <=> "g_sessions" \in ToSet(chain)
      BY <3>2
    <3>4. QED
      BY <2>2, <3>3, CountsKept DEF Loaded, sessionVars
  <2>3. CASE ReadFreed /\ UNCHANGED sessionVars
    BY <1>1, <2>3 DEF ReadFreed, sessionVars
  <2>4. QED
    BY <1>2, <1>5, <2>1, <2>2, <2>3 DEF Handlers
<1>6. CASE Timers
  <2>1. CASE Quiet /\ VersionQue /\ UNCHANGED sessionVars
    <3>1. fault = "none" /\ UNCHANGED <<setup, loaded, user, guest, chain, sessions, blind>>
      BY <2>1 DEF VersionQue, Quiet, Calm, sessionVars
    <3>2. QED
      BY <1>1, <3>1
  <2>2. CASE ScanQue /\ UNCHANGED sessionVars
    BY <1>1, <2>2 DEF ScanQue, visitorVars, sessionVars
  <2>3. QED
    BY <1>2, <1>6, <2>1, <2>2 DEF Timers
<1>7. CASE Commands
  <2>1. CASE UNCHANGED <<visitorVars, sessions, blind>>
    BY <1>1, <2>1 DEF visitorVars
  <2>2. QED
    BY <1>2, <1>7, <2>1 DEF Commands, ExemptDel, ExemptAdd, ExemptLoad, SessionRehash, CmdScan, sessionVars
<1>8. CASE Reloads
  <2>1. CASE LoadSessions \/ UnloadSessions
    BY <2>1, CountsReload
  <2>2. ASSUME NEW m \in {"g_scan", "g_joinflood"}, LoadModule(m) \/ UnloadModule(m),
               UNCHANGED <<setup, user, chain, guest, fault, sessionVars>>
        PROVE  CountsRight'
    <3>1. Loaded("g_sessions")' <=> Loaded("g_sessions")
      BY <2>2, ModulesComeAndGo DEF ChainRight
    <3>2. QED
      BY <2>2, <3>1, CountsKept DEF sessionVars
  <2>3. QED
    BY <1>2, <1>8, <2>1, <2>2 DEF Reloads, LoadScan, UnloadScan
<1>9. CASE Floods \/ ReleaseFloods \/ vars' = vars
  BY <1>1, <1>9 DEF Floods, ReleaseFloods, vars, visitorVars, sessionVars
<1>10. QED
  BY <1>2, <1>3, <1>4, <1>5, <1>6, <1>7, <1>8, <1>9 DEF Next

LEMMA CountsStart == Init => CountsRight
<1> SUFFICES ASSUME Init PROVE CountsRight
  OBVIOUS
<1>1. sessions = <<>> /\ loaded = <<>>
  BY DEF Init, InitVisitors, InitSessions
<1>2. DOMAIN sessions = {} /\ ToSet(loaded) = {}
  BY <1>1 DEF ToSet
<1>3. QED
  BY <1>1, <1>2 DEF CountsRight, SessionsExact, Loaded

-----------------------------------------------------------------------------
(* The watch list: rules and pointers *)

IsRules(l) == l \in Seq(ToSet(l)) /\ \A r \in ToSet(l) : "id" \in DOMAIN r
Ids(l) == {r.id : r \in ToSet(l)}

\* A list of so many nodes does not use more addresses.
LEMMA FreeAddrFree ==
    ASSUME NEW l, l \in Seq(ToSet(l)), rules \in Seq(ToSet(rules))
    PROVE  FreeAddr(l) \in Nat /\ FreeAddr(l) \notin Ids(l) /\ FreeAddr(l) \notin Ids(rules)
<1> DEFINE m == Len(l)
           n == Len(rules)
           used == Ids(l) \cup Ids(rules)
           N == m + n + 1
           at == [k \in 1..(m + n) |-> IF k <= m THEN l[k].id ELSE rules[k - m].id]
<1>1. m \in Nat /\ n \in Nat /\ DOMAIN l = 1..m /\ DOMAIN rules = 1..n
  OBVIOUS
<1>2. \E id \in 1..N : id \notin used
  <2> SUFFICES ASSUME 1..N \subseteq used PROVE FALSE
    OBVIOUS
  <2>1. ASSUME NEW id \in 1..N PROVE \E k \in 1..(m + n) : at[k] = id
    <3>1. CASE id \in Ids(l)
      <4>1. PICK k \in 1..m : l[k].id = id
        BY <1>1, <3>1 DEF Ids, ToSet
      <4>2. k \in 1..(m + n) /\ k <= m
        BY <1>1
      <4>3. QED
        BY <4>1, <4>2
    <3>2. CASE id \in Ids(rules)
      <4>1. PICK k \in 1..n : rules[k].id = id
        BY <1>1, <3>2 DEF Ids, ToSet
      <4>2. k + m \in 1..(m + n) /\ ~(k + m <= m) /\ (k + m) - m = k
        BY <1>1
      <4>3. QED
        BY <4>1, <4>2
    <3>3. QED
      BY <3>1, <3>2
  <2> DEFINE U == {at[k] : k \in 1..(m + n)}
  <2>2. at \in Surjection(1..(m + n), U)
    BY DEF Surjection
  <2>3. IsFiniteSet(1..(m + n)) /\ Cardinality(1..(m + n)) = m + n
    <3> DEFINE k == m + n
    <3>1. k \in Nat
      BY <1>1
    <3> HIDE DEF k
    <3>2. IsFiniteSet(1..k) /\ Cardinality(1..k) = IF 1 > k THEN 0 ELSE k - 1 + 1
      BY <3>1, FS_Interval
    <3>3. Cardinality(1..k) = k
      BY <3>1, <3>2
    <3>4. QED
      BY <3>2, <3>3 DEF k
  <2>4. 1..N \in SUBSET U
    BY <2>1
  <2> HIDE DEF at, U
  <2>5. IsFiniteSet(U) /\ Cardinality(U) <= m + n
    BY <2>2, <2>3, FS_Surjection
  <2>6. Cardinality(1..N) <= Cardinality(U)
    BY <2>4, <2>5, FS_Subset
  <2>7. Cardinality(1..N) = m + n + 1
    <3>1. N \in Nat /\ ~(1 > N) /\ N - 1 + 1 = N
      BY <1>1
    <3> HIDE DEF N
    <3>2. Cardinality(1..N) = N
      BY <3>1, FS_Interval
    <3>3. QED
      BY <3>2 DEF N
  <2>8. Cardinality(U) \in Nat
    BY <2>5, FS_CardinalityType
  <2> HIDE DEF N, m, n
  <2>9. QED
    BY <1>1, <2>5, <2>6, <2>7, <2>8
<1>3. PICK id \in 1..N : \A r \in ToSet(l) \cup ToSet(rules) : r.id # id
  BY <1>2 DEF Ids
<1>4. FreeAddr(l) \in 1..N /\ \A r \in ToSet(l) \cup ToSet(rules) : r.id # FreeAddr(l)
  BY <1>3 DEF FreeAddr
<1>5. QED
  BY <1>1, <1>4 DEF Ids

\* Who leaves a channel may leave a rule with a pointer to nothing; the rules stay the same.
LEMMA OrphanedList ==
    ASSUME NEW l, IsRules(l)
    PROVE  /\ IsRules(Orphaned(l)) /\ Ids(Orphaned(l)) = Ids(l)
           /\ DOMAIN Orphaned(l) = DOMAIN l
<1> DEFINE o == Orphaned(l)
<1>1. l \in Seq(ToSet(l)) /\ DOMAIN l = 1..Len(l) /\ Len(l) \in Nat
  BY DEF IsRules
<1>2. ASSUME NEW r, "id" \in DOMAIN r
      PROVE  [r EXCEPT !.lost = TRUE].id = r.id /\ "id" \in DOMAIN [r EXCEPT !.lost = TRUE]
  BY <1>2
<1>3. DOMAIN o = DOMAIN l
  BY DEF Orphaned
<1>4. ASSUME NEW i \in DOMAIN l PROVE "id" \in DOMAIN o[i] /\ o[i].id = l[i].id
  <2>1. "id" \in DOMAIN l[i]
    BY DEF IsRules, ToSet
  <2>2. o[i] = l[i] \/ o[i] = [l[i] EXCEPT !.lost = TRUE]
    BY DEF Orphaned
  <2>3. QED
    BY <1>2, <2>1, <2>2
<1>5. o = [i \in 1..Len(l) |-> o[i]]
  BY <1>1 DEF Orphaned
<1> HIDE DEF o
<1>6. o \in Seq(ToSet(o))
  <2>1. \A i \in 1..Len(l) : o[i] \in ToSet(o)
    BY <1>1, <1>3 DEF ToSet
  <2>2. QED
    BY <1>1, <1>5, <2>1
<1>7. IsRules(o)
  BY <1>3, <1>4, <1>6 DEF IsRules, ToSet
<1>8. Ids(o) = Ids(l)
  BY <1>3, <1>4 DEF Ids, ToSet
<1>9. QED
  BY <1>3, <1>7, <1>8 DEF o

\* The queue points to users and rules that are there.
Pointing(queue, live, list) ==
    \A q \in ToSet(queue) :
        /\ q.user \in live \cup {Freed}
        /\ q.rule = Freed \/ \E r \in ToSet(list) : r.id = q.rule

LEMMA DanglingList ==
    ASSUME NEW q, q \in Seq(ToSet(q))
    PROVE  Dangling(q) \in Seq(ToSet(Dangling(q))) /\ Pointing(Dangling(q), Live', rules')
<1> DEFINE d == Dangling(q)
<1>1. DOMAIN q = 1..Len(q) /\ Len(q) \in Nat
  OBVIOUS
<1>2. DOMAIN d = DOMAIN q
  BY DEF Dangling
<1>3. ASSUME NEW i \in DOMAIN q
      PROVE  /\ d[i].user \in Live' \cup {Freed}
             /\ d[i].rule = Freed \/ \E r \in ToSet(rules') : r.id = d[i].rule
  BY DEF Dangling, Live
<1>4. d = [i \in 1..Len(q) |-> d[i]]
  BY <1>1 DEF Dangling
<1> HIDE DEF d
<1>5. d \in Seq(ToSet(d))
  <2>1. \A i \in 1..Len(q) : d[i] \in ToSet(d)
    BY <1>1, <1>2 DEF ToSet
  <2>2. QED
    BY <1>1, <1>4, <2>1
<1>6. Pointing(d, Live', rules')
  <2> SUFFICES ASSUME NEW x \in ToSet(d)
               PROVE  x.user \in Live' \cup {Freed} /\ (x.rule = Freed \/ \E r \in ToSet(rules') : r.id = x.rule)
    BY DEF Pointing
  <2>1. PICK i \in DOMAIN q : x = d[i]
    BY <1>2 DEF ToSet
  <2>2. QED
    BY <1>3, <2>1
<1>7. QED
  BY <1>5, <1>6 DEF d

\* add_watch for one of those wanted, on a list l that began as list.
AddOne(l, w, list, config, ours) ==
    IF IsWatched(l, w.pattern) # 0 THEN l
    ELSE Append(l, Rule(FreeAddr(l), w, config,
                        \/ w.pattern \in ours
                        \/ \E r \in ToSet(l) \ ToSet(list) : r.chan = w.pattern))

RulesFor(wants) == {Rule(id, w, config, existing) : id \in Nat, w \in ToSet(wants), config \in BOOLEAN, existing \in BOOLEAN}

LEMMA AddOneKeeps ==
    ASSUME NEW list, NEW wants, NEW config \in BOOLEAN, NEW ours, rules \in Seq(ToSet(rules)),
           NEW l \in Seq(ToSet(list) \cup RulesFor(wants)), NEW w \in ToSet(wants)
    PROVE  AddOne(l, w, list, config, ours) \in Seq(ToSet(list) \cup RulesFor(wants))
<1> DEFINE R == ToSet(list) \cup RulesFor(wants)
           e == (w.pattern \in ours \/ \E r \in ToSet(l) \ ToSet(list) : r.chan = w.pattern)
<1>1. CASE IsWatched(l, w.pattern) # 0
  BY <1>1 DEF AddOne
<1>2. CASE IsWatched(l, w.pattern) = 0
  <2>1. l \in Seq(ToSet(l))
    <3>1. DOMAIN l = 1..Len(l) /\ Len(l) \in Nat /\ l = [i \in 1..Len(l) |-> l[i]]
      OBVIOUS
    <3>2. \A i \in 1..Len(l) : l[i] \in ToSet(l)
      BY <3>1 DEF ToSet
    <3>3. QED
      BY <3>1, <3>2
  <2>2. FreeAddr(l) \in Nat
    BY <2>1, FreeAddrFree
  <2> HIDE DEF e
  <2>3. Rule(FreeAddr(l), w, config, e) \in R
    <3>1. e \in BOOLEAN
      BY DEF e
    <3> DEFINE id == FreeAddr(l)
    <3>2. id \in Nat
      BY <2>2
    <3> HIDE DEF id
    <3>3. \E i \in Nat, x \in ToSet(wants), c \in BOOLEAN, f \in BOOLEAN :
              Rule(id, w, config, e) = Rule(i, x, c, f)
      BY <3>1, <3>2, Zenon
    <3>4. Rule(id, w, config, e) \in RulesFor(wants)
      BY <3>3 DEF RulesFor
    <3>5. QED
      BY <3>4 DEF id
  <2>4. AddOne(l, w, list, config, ours) = Append(l, Rule(FreeAddr(l), w, config, e))
    BY <1>2 DEF AddOne, e
  <2> HIDE DEF R
  <2>5. l \in Seq(R)
    BY DEF R
  <2>6. Append(l, Rule(FreeAddr(l), w, config, e)) \in Seq(R)
    BY <2>3, <2>5
  <2>7. QED
    BY <2>4, <2>6 DEF R
<1>3. QED
  BY <1>1, <1>2

\* load_watch and the like go through those wanted one by one.
Stages(at, list, wants, config, ours) ==
    /\ at \in [0..Len(wants) -> Seq(ToSet(list) \cup RulesFor(wants))]
    /\ at[0] = list /\ at[Len(wants)] = Added(list, wants, config, ours)
    /\ \A k \in 0..(Len(wants) - 1) : at[k + 1] = AddOne(at[k], wants[k + 1], list, config, ours)

LEMMA AddedStages ==
    ASSUME NEW list, NEW wants, NEW config \in BOOLEAN, NEW ours, rules \in Seq(ToSet(rules)),
           list \in Seq(ToSet(list)), wants \in Seq(ToSet(wants))
    PROVE  \E at : Stages(at, list, wants, config, ours)
<1> DEFINE A == Seq(ToSet(list) \cup RulesFor(wants))
           N == Len(wants)
           F == [x \in (1..N) \X A |-> AddOne(x[2], wants[x[1]], list, config, ours)]
<1>1. N \in Nat /\ DOMAIN wants = 1..N /\ \A k \in 1..N : wants[k] \in ToSet(wants)
  OBVIOUS
<1>2. \A x \in A, k \in 1..N : AddOne(x, wants[k], list, config, ours) \in A
  BY <1>1, AddOneKeeps
<1>3. list \in A
  <2>1. \A S, T : S \subseteq T => Seq(S) \subseteq Seq(T)
    OBVIOUS
  <2>2. QED
    BY <2>1
<1> HIDE DEF A
<1>4. F \in [(1..N) \X A -> A]
  BY <1>2
<1>5. \A k \in 1..N, x \in A : F[<<k, x>>] = AddOne(x, wants[k], list, config, ours)
  OBVIOUS
<1> HIDE DEF F
<1>6. PICK g : Folds(g, A, list, N, F)
  <2> HIDE DEF N
  <2>1. QED
    BY <1>1, <1>3, <1>4, FoldExists
<1>7. /\ g \in [SUBSET (1..N) -> A]
      /\ \A s \in SUBSET (1..N) : g[s] = IF s = {} THEN list ELSE F[<<Max(s), g[s \ {Max(s)}]>>]
  BY <1>6 DEF Folds
<1>8. \A s \in SUBSET (1..N) : s # {} => Max(s) \in 1..N
  <2>1. \A s \in SUBSET (1..N) : s # {} => Max(s) \in s
    BY <1>1, GreatestOfSet
  <2>2. QED
    BY <2>1
<1> DEFINE Is(h) == h = [s \in SUBSET (1..N) |->
                           IF s = {} THEN list
                           ELSE IF IsWatched(h[s \ {Max(s)}], wants[Max(s)].pattern) # 0 THEN h[s \ {Max(s)}]
                           ELSE Append(h[s \ {Max(s)}],
                                       Rule(FreeAddr(h[s \ {Max(s)}]), wants[Max(s)], config,
                                            \/ wants[Max(s)].pattern \in ours
                                            \/ \E r \in ToSet(h[s \ {Max(s)}]) \ ToSet(list) : r.chan = wants[Max(s)].pattern))]
<1>9. ASSUME NEW h PROVE Is(h) <=> h = [s \in SUBSET (1..N) |->
                           IF s = {} THEN list ELSE AddOne(h[s \ {Max(s)}], wants[Max(s)], list, config, ours)]
  BY DEF AddOne
<1>10. Is(g)
  <2>1. ASSUME NEW s \in SUBSET (1..N)
        PROVE  g[s] = IF s = {} THEN list ELSE AddOne(g[s \ {Max(s)}], wants[Max(s)], list, config, ours)
    <3>1. CASE s = {}
      BY <1>7, <3>1
    <3>2. CASE s # {}
      <4>1. Max(s) \in 1..N /\ s \ {Max(s)} \in SUBSET (1..N)
        BY <1>8, <3>2
      <4>2. g[s \ {Max(s)}] \in A
        BY <1>7, <4>1
      <4>3. g[s] = F[<<Max(s), g[s \ {Max(s)}]>>]
        BY <1>7, <3>2
      <4>4. QED
        BY <1>5, <3>2, <4>1, <4>2, <4>3
    <3>3. QED
      BY <3>1, <3>2
  <2>2. g = [s \in SUBSET (1..N) |-> g[s]]
    BY <1>7
  <2>3. [s \in SUBSET (1..N) |-> g[s]]
          = [s \in SUBSET (1..N) |-> IF s = {} THEN list ELSE AddOne(g[s \ {Max(s)}], wants[Max(s)], list, config, ours)]
    BY <2>1, Zenon
  <2>4. g = [s \in SUBSET (1..N) |-> IF s = {} THEN list ELSE AddOne(g[s \ {Max(s)}], wants[Max(s)], list, config, ours)]
    BY <2>2, <2>3
  <2> HIDE DEF Is
  <2>5. QED
    BY <1>9, <2>4
<1> DEFINE f == CHOOSE h : Is(h)
<1>11. Added(list, wants, config, ours) = f[1..N]
  BY <1>1 DEF Added, FoldLeft, MapThenFoldSet
<1> HIDE DEF Is
<1>12. Is(f)
  BY <1>10
<1> HIDE DEF f
<1>13. f = [s \in SUBSET (1..N) |-> IF s = {} THEN list ELSE AddOne(f[s \ {Max(s)}], wants[Max(s)], list, config, ours)]
  BY <1>9, <1>12
<1>14. f[{}] = list
  BY <1>13
<1>15. ASSUME NEW k \in 0..(N - 1) PROVE f[1..(k + 1)] = AddOne(f[1..k], wants[k + 1], list, config, ours)
  <2>1. k \in Nat
    OBVIOUS
  <2>2. Max(1..(k + 1)) = k + 1 /\ (1..(k + 1)) \ {k + 1} = 1..k /\ 1..(k + 1) # {}
    BY <2>1, FirstNumbers
  <2>3. 1..(k + 1) \in SUBSET (1..N)
    BY <1>1
  <2>4. QED
    BY <1>13, <2>2, <2>3
<1>16. \A k \in 0..N : f[1..k] \in A
  <2> DEFINE G == {k \in 0..N : f[1..k] \in A}
  <2>1. 0 \in G
    <3>1. 1..0 = {}
      OBVIOUS
    <3>2. QED
      BY <1>1, <1>3, <1>14, <3>1
  <2>2. ASSUME NEW k \in 0..(N - 1), k \in G PROVE k + 1 \in G
    <3>1. f[1..k] \in A /\ k + 1 \in 1..N
      BY <1>1, <2>2
    <3>2. AddOne(f[1..k], wants[k + 1], list, config, ours) \in A
      BY <1>2, <3>1
    <3>3. QED
      BY <1>1, <1>15, <3>1, <3>2
  <2>3. \A k \in 0..N : k \in G
    <3> HIDE DEF G, N
    <3>1. QED
      BY <1>1, <2>1, <2>2, CountedUp
  <2>4. QED
    BY <2>3
<1> DEFINE at == [k \in 0..N |-> f[1..k]]
<1>17. at \in [0..N -> A] /\ at[0] = list /\ at[N] = Added(list, wants, config, ours)
  <2>1. 1..0 = {} /\ 0 \in 0..N /\ N \in 0..N
    BY <1>1
  <2>2. QED
    BY <1>11, <1>14, <1>16, <2>1
<1>18. ASSUME NEW k \in 0..(N - 1) PROVE at[k + 1] = AddOne(at[k], wants[k + 1], list, config, ours)
  <2>1. k \in 0..N /\ k + 1 \in 0..N
    BY <1>1
  <2>2. QED
    BY <1>15, <2>1
<1>19. QED
  BY <1>17, <1>18 DEF A, Stages

LEMMA ListOf ==
    ASSUME NEW S, NEW l \in Seq(S)
    PROVE  l \in Seq(ToSet(l)) /\ ToSet(l) \subseteq S /\ IsFiniteSet(ToSet(l))
<1>1. DOMAIN l = 1..Len(l) /\ Len(l) \in Nat /\ l = [i \in 1..Len(l) |-> l[i]] /\ \A i \in 1..Len(l) : l[i] \in S
  OBVIOUS
<1>2. \A i \in 1..Len(l) : l[i] \in ToSet(l)
  BY <1>1 DEF ToSet
<1>3. l \in [1..Len(l) -> ToSet(l)]
  BY <1>1, <1>2
<1>4. l \in Surjection(1..Len(l), ToSet(l))
  BY <1>1, <1>3 DEF Surjection, ToSet
<1> DEFINE n == Len(l)
<1>5. IsFiniteSet(1..n)
  <2>1. n \in Nat
    BY <1>1
  <2> HIDE DEF n
  <2>2. QED
    BY <2>1, FS_Interval
<1>6. IsFiniteSet(ToSet(l))
  BY <1>4, <1>5, FS_Surjection
<1>7. l \in Seq(ToSet(l))
  BY <1>1, <1>3
<1>8. QED
  BY <1>1, <1>6, <1>7 DEF ToSet

LEMMA RulesOf ==
    ASSUME NEW S, NEW l \in Seq(S), \A r \in S : "id" \in DOMAIN r
    PROVE  IsRules(l)
BY ListOf DEF IsRules

\* add_watch makes a list of rules.
LEMMA AddedList ==
    ASSUME NEW list, NEW wants, NEW config \in BOOLEAN, NEW ours, IsRules(rules),
           IsRules(list), wants \in Seq(ToSet(wants))
    PROVE  IsRules(Added(list, wants, config, ours))
<1> DEFINE N == Len(wants)
           S == ToSet(list) \cup RulesFor(wants)
<1>1. PICK at \in [0..N -> Seq(S)] : at[N] = Added(list, wants, config, ours)
  <2>1. rules \in Seq(ToSet(rules)) /\ list \in Seq(ToSet(list))
    BY DEF IsRules
  <2>2. PICK at : Stages(at, list, wants, config, ours)
    BY <2>1, AddedStages
  <2>3. QED
    BY <2>2 DEF Stages
<1>2. N \in 0..N
  OBVIOUS
<1>3. \A r \in S : "id" \in DOMAIN r
  BY DEF IsRules, RulesFor, Rule
<1> HIDE DEF S, N
<1>4. Added(list, wants, config, ours) \in Seq(S)
  BY <1>1, <1>2
<1>5. QED
  BY <1>3, <1>4, RulesOf

\* Rows are of finitely many names.
LEMMA WrittenFinite ==
    ASSUME NEW rs, IsFiniteSet(rs), NEW rows, IsFiniteSet(DOMAIN rows)
    PROVE  IsFiniteSet(DOMAIN Written(rs, rows))
<1> DEFINE f == [r \in rs |-> r.name]
           T == {r.name : r \in rs}
<1>1. f \in Surjection(rs, T)
  BY DEF Surjection
<1>2. DOMAIN Written(rs, rows) = T \cup DOMAIN rows
  BY DEF SavedAs, Written
<1> HIDE DEF f, T
<1>3. IsFiniteSet(T)
  BY <1>1, FS_Surjection
<1>4. QED
  BY <1>2, <1>3, FS_Union

\* The rows come in some order.
LEMMA RowsInOrder ==
    ASSUME IsFiniteSet(DOMAIN wrows)
    PROVE  RowsAsWants \in Seq(ToSet(RowsAsWants))
<1> DEFINE row(n) == [pattern |-> n, action |-> wrows[n].action, ignores |-> wrows[n].ignores]
           S == {row(n) : n \in DOMAIN wrows}
           f == [n \in DOMAIN wrows |-> row(n)]
           F == {x \in [1..Cardinality(S) -> S] : IsInjective(x)}
<1>1. f \in Surjection(DOMAIN wrows, S)
  BY DEF Surjection
<1>2. RowsAsWants = CHOOSE x \in [1..Cardinality(S) -> S] : IsInjective(x)
  BY DEF RowsAsWants, SetToSeq
<1> HIDE DEF f, S
<1>3. IsFiniteSet(S)
  BY <1>1, FS_Surjection
<1>4. Cardinality(S) \in Nat /\ ExistsBijection(1..Cardinality(S), S)
  BY <1>3, FS_CardinalityType
<1>5. \E x \in [1..Cardinality(S) -> S] : IsInjective(x)
  BY <1>4 DEF ExistsBijection, Bijection, Injection, IsInjective
<1>6. RowsAsWants \in [1..Cardinality(S) -> S]
  BY <1>2, <1>5
<1>7. RowsAsWants \in Seq(S)
  BY <1>4, <1>6
<1>8. QED
  BY <1>7, ListOf

-----------------------------------------------------------------------------
(* The queue of the watch *)

Pointers ==
    /\ IsRules(rules)
    /\ watchq \in Seq(ToSet(watchq)) /\ Pointing(watchq, Live, rules)
    /\ IsFiniteSet(DOMAIN wrows)
    /\ taken \in 0..Batch /\ wtimer \in BOOLEAN

\* Users may come, rules may change as long as the same are there.
LEMMA PointersKept ==
    ASSUME Pointers, Live \subseteq Live', watchq' = watchq,
           IsRules(rules'), Ids(rules') = Ids(rules), IsFiniteSet(DOMAIN wrows'),
           taken' \in 0..Batch, wtimer' \in BOOLEAN
    PROVE  Pointers'
<1>1. \A x : (\E r \in ToSet(rules) : r.id = x) => \E r \in ToSet(rules') : r.id = x
  BY DEF Ids
<1>2. Pointing(watchq', Live', rules')
  <2> SUFFICES ASSUME NEW q \in ToSet(watchq)
               PROVE  /\ q.user \in Live' \cup {Freed}
                      /\ q.rule = Freed \/ \E r \in ToSet(rules') : r.id = q.rule
    BY DEF Pointing
  <2>1. q.user \in Live \cup {Freed} /\ (q.rule = Freed \/ \E r \in ToSet(rules) : r.id = q.rule)
    BY DEF Pointers, Pointing
  <2>2. QED
    BY <1>1, <2>1
<1>3. watchq' \in Seq(ToSet(watchq'))
  BY DEF Pointers
<1>4. QED
  BY <1>2, <1>3 DEF Pointers

LEMMA PointersSame ==
    ASSUME Pointers, Live \subseteq Live', UNCHANGED watchVars
    PROVE  Pointers'
<1>1. /\ rules' = rules /\ watchq' = watchq /\ wrows' = wrows /\ taken' = taken /\ wtimer' = wtimer
  BY DEF watchVars
<1>2. IsRules(rules) /\ IsFiniteSet(DOMAIN wrows) /\ taken \in 0..Batch /\ wtimer \in BOOLEAN
  BY DEF Pointers
<1>3. IsRules(rules') /\ Ids(rules') = Ids(rules) /\ IsFiniteSet(DOMAIN wrows') /\ taken' \in 0..Batch /\ wtimer' \in BOOLEAN
  BY <1>1, <1>2
<1>4. QED
  BY <1>1, <1>3, PointersKept

\* What goes leaves the queue with pointers to nothing.
LEMMA PointersFollow ==
    ASSUME NEW list, IsRules(list), rules' = Orphaned(list),
           NEW q, q \in Seq(ToSet(q)), watchq' = Dangling(q),
           IsFiniteSet(DOMAIN wrows'), taken' \in 0..Batch, wtimer' \in BOOLEAN
    PROVE  Pointers'
<1>1. IsRules(rules')
  BY OrphanedList
<1>2. watchq' \in Seq(ToSet(watchq')) /\ Pointing(watchq', Live', rules')
  BY DanglingList
<1>3. QED
  BY <1>1, <1>2 DEF Pointers

\* Module_Init and Module_Close: the queue is empty.
LEMMA PointersEmpty ==
    ASSUME IsRules(rules'), watchq' = <<>>, IsFiniteSet(DOMAIN wrows'), taken' \in 0..Batch, wtimer' \in BOOLEAN
    PROVE  Pointers'
<1>1. ToSet(watchq') = {} /\ watchq' \in Seq(ToSet(watchq'))
  BY DEF ToSet
<1>2. Pointing(watchq', Live', rules')
  BY <1>1 DEF Pointing
<1>3. QED
  BY <1>1, <1>2 DEF Pointers

\* A match of the burst: a user and a rule that are there.
LEMMA PointersQueue ==
    ASSUME Pointers, NEW a \in Live, NEW r \in ToSet(rules), Queue(a, r),
           UNCHANGED <<user, rules, wtimer, taken, wrows>>
    PROVE  Pointers'
<1> DEFINE x == [user |-> a, rule |-> r.id]
           S == ToSet(watchq) \cup {x}
<1>1. watchq' = Append(watchq, x)
  BY DEF Queue
<1>2. \A y \in S : y.user \in Live \cup {Freed} /\ (y.rule = Freed \/ \E t \in ToSet(rules) : t.id = y.rule)
  BY DEF Pointers, Pointing
<1>3. watchq \in Seq(S) /\ x \in S
  <2>1. \A T, U : T \subseteq U => Seq(T) \subseteq Seq(U)
    OBVIOUS
  <2>2. ToSet(watchq) \subseteq S /\ watchq \in Seq(ToSet(watchq))
    BY DEF Pointers
  <2>3. QED
    BY <2>1, <2>2
<1> HIDE DEF x, S
<1>4. watchq' \in Seq(S)
  BY <1>1, <1>3
<1>5. watchq' \in Seq(ToSet(watchq')) /\ ToSet(watchq') \subseteq S
  BY <1>4, ListOf
<1>6. Live' = Live
  BY DEF Live
<1>7. Pointing(watchq', Live', rules')
  BY <1>2, <1>5, <1>6 DEF Pointing
<1>8. QED
  BY <1>5, <1>7 DEF Pointers

\* A rule that is found is there.
LEMMA WatchedRule ==
    ASSUME Pointers, NEW name, IsWatched(rules, name) # 0
    PROVE  IsWatched(rules, name) \in DOMAIN rules /\ rules[IsWatched(rules, name)] \in ToSet(rules)
<1> DEFINE I == {i \in 1..Len(rules) : rules[i].name = name}
           i == IsWatched(rules, name)
<1>1. DOMAIN rules = 1..Len(rules) /\ Len(rules) \in Nat /\ rules \in Seq(ToSet(rules))
  BY DEF Pointers, IsRules
<1>2. i = IF I # {} THEN Min(I) ELSE 0
  BY DEF IsWatched, SelectInSeq
<1>3. I \in SUBSET (1..Len(rules))
  OBVIOUS
<1> HIDE DEF I
<1>4. i \in 0..Len(rules)
  BY <1>1, <1>2, <1>3, FoundIn
<1>5. i \in DOMAIN rules
  BY <1>1, <1>4
<1>6. QED
  BY <1>5 DEF ToSet

LEMMA FollowedKeeps ==
    ASSUME Pointers, WatchFollows
    PROVE  Pointers'
<1>1. IsRules(rules) /\ watchq \in Seq(ToSet(watchq)) /\ IsFiniteSet(DOMAIN wrows) /\ taken \in 0..Batch /\ wtimer \in BOOLEAN
  BY DEF Pointers
<1>2. rules' = Orphaned(rules) /\ watchq' = Dangling(watchq) /\ UNCHANGED <<wtimer, taken, wrows>>
  BY DEF WatchFollows
<1>3. IsFiniteSet(DOMAIN wrows') /\ taken' \in 0..Batch /\ wtimer' \in BOOLEAN
  BY <1>1, <1>2
<1>4. QED
  BY <1>1, <1>2, <1>3, PointersFollow

\* A user meets a rule: he is queued or dealt with.
LEMMA MeetsPoints ==
    ASSUME Pointers, NEW a \in Live, NEW x \in ToSet(rules), NEW others, Meets(a, x, others),
           UNCHANGED <<wtimer, taken, wrows>>
    PROVE  Pointers'
<1>1. CASE sync = "bursting"
  <2>1. Queue(a, x) /\ UNCHANGED <<user, rules>>
    BY <1>1 DEF Meets
  <2>2. QED
    BY <2>1, PointersQueue
<1>2. CASE sync # "bursting"
  <2>1. /\ IsRules(rules) /\ watchq \in Seq(ToSet(watchq)) /\ IsFiniteSet(DOMAIN wrows)
        /\ taken \in 0..Batch /\ wtimer \in BOOLEAN
    BY DEF Pointers
  <2>2. rules' = Orphaned(rules) /\ watchq' = Dangling(watchq)
    BY <1>2 DEF Meets
  <2>3. IsFiniteSet(DOMAIN wrows') /\ taken' \in 0..Batch /\ wtimer' \in BOOLEAN
    BY <2>1
  <2>4. QED
    BY <2>1, <2>2, <2>3, PointersFollow
<1>3. QED
  BY <1>1, <1>2

LEMMA PointersStay ==
    ASSUME Pointers, UNCHANGED <<user, rules, watchq, wtimer, taken, wrows>>
    PROVE  Pointers'
BY PointersKept DEF Pointers, Live

LEMMA JoinPoints ==
    ASSUME Pointers, NEW a \in Live, NEW c, Join(a, c)
    PROVE  Pointers'
<1> DEFINE i == IsWatched(rules, c)
<1>1. UNCHANGED <<wtimer, taken, wrows>>
  BY DEF Join
<1>2. CASE UNCHANGED <<user, rules, watchq>>
  BY <1>1, <1>2, PointersStay
<1>3. CASE i # 0 /\ \E others : Meets(a, rules[i], others)
  <2>1. rules[i] \in ToSet(rules)
    BY <1>3, WatchedRule
  <2>2. QED
    BY <1>1, <1>3, <2>1, MeetsPoints
<1>4. QED
  BY <1>2, <1>3 DEF Join

LEMMA KickPoints ==
    ASSUME Pointers, NEW c, KickGuardian(c)
    PROVE  Pointers'
<1>1. rules' = Orphaned(rules) /\ UNCHANGED <<user, watchq, wtimer, taken, wrows>>
  BY DEF KickGuardian
<1>2. IsRules(rules') /\ Ids(rules') = Ids(rules)
  BY <1>1, OrphanedList DEF Pointers
<1>3. QED
  BY <1>1, <1>2, PointersKept DEF Pointers, Live

LEMMA UserPoints ==
    ASSUME Pointers, EvhUser
    PROVE  Pointers'
<1> DEFINE i == SelectInSeq(rules, LAMBDA r : r.chan \in user[guest].odd)
<1>1. guest \in Live /\ UNCHANGED <<wtimer, taken, wrows>>
  BY DEF EvhUser
<1>2. CASE UNCHANGED <<user, rules, watchq>>
  BY <1>1, <1>2, PointersStay
<1>3. CASE i # 0 /\ \E others : Meets(guest, rules[i], others)
  <2>1. rules[i] \in ToSet(rules)
    <3> DEFINE I == {k \in 1..Len(rules) : rules[k].chan \in user[guest].odd}
    <3>1. DOMAIN rules = 1..Len(rules) /\ Len(rules) \in Nat
      BY DEF Pointers, IsRules
    <3>2. i = IF I # {} THEN Min(I) ELSE 0
      BY DEF SelectInSeq
    <3>3. I \in SUBSET (1..Len(rules))
      OBVIOUS
    <3> HIDE DEF I
    <3>4. i \in 0..Len(rules)
      BY <3>1, <3>2, <3>3, FoundIn
    <3> HIDE DEF i
    <3>5. i \in DOMAIN rules
      BY <1>3, <3>1, <3>4
    <3>6. QED
      BY <3>5 DEF ToSet
  <2> HIDE DEF i
  <2>2. QED
    BY <1>1, <1>3, <2>1, MeetsPoints
<1>4. QED
  BY <1>2, <1>3 DEF EvhUser

LEMMA QueuePoints ==
    ASSUME Pointers, EvhWatchqueue
    PROVE  Pointers'
<1>1. IsRules(rules) /\ watchq \in Seq(ToSet(watchq)) /\ IsFiniteSet(DOMAIN wrows) /\ taken \in 0..Batch /\ wtimer \in BOOLEAN
  BY DEF Pointers
<1>2. wrows' = wrows /\ taken' \in 0..Batch /\ wtimer' \in BOOLEAN
  <2>1. taken' = 0 \/ (taken < Batch /\ taken' = taken + 1)
    BY DEF EvhWatchqueue
  <2>2. taken' \in 0..Batch
    BY <1>1, <2>1, WatchAssumption
  <2>3. wtimer' \in {wtimer, FALSE} /\ wrows' = wrows
    BY DEF EvhWatchqueue
  <2>4. QED
    BY <1>1, <2>2, <2>3
<1>3. \/ UNCHANGED <<user, rules, watchq>>
      \/ watchq # <<>> /\ rules' = Orphaned(rules) /\ watchq' = Dangling(Tail(watchq))
  BY DEF EvhWatchqueue
<1>4. CASE UNCHANGED <<user, rules, watchq>>
  BY <1>1, <1>2, <1>4, PointersKept DEF Live
<1>5. CASE watchq # <<>> /\ rules' = Orphaned(rules) /\ watchq' = Dangling(Tail(watchq))
  <2> DEFINE q == Tail(watchq)
  <2>1. q \in Seq(ToSet(watchq))
    BY <1>1, <1>5
  <2>2. q \in Seq(ToSet(q))
    BY <2>1, ListOf
  <2>3. watchq' = Dangling(q)
    BY <1>5
  <2> HIDE DEF q
  <2>4. QED
    BY <1>1, <1>2, <1>5, <2>2, <2>3, PointersFollow
<1>6. QED
  BY <1>3, <1>4, <1>5

\* add_watch: new rules, and their rows.
LEMMA AddPoints ==
    ASSUME Pointers, NEW kept, IsRules(kept), NEW wants, wants \in Seq(ToSet(wants)),
           NEW config \in BOOLEAN, NEW ours, NEW rows, IsFiniteSet(DOMAIN rows), NEW before,
           AddWatch(kept, wants, config, ours, rows, before),
           watchq' = Dangling(watchq), UNCHANGED <<wtimer, taken>>
    PROVE  Pointers'
<1> DEFINE list == Added(kept, wants, config, ours)
           new == ToSet(list) \ ToSet(kept)
<1>1. IsRules(rules) /\ watchq \in Seq(ToSet(watchq)) /\ IsFiniteSet(DOMAIN wrows) /\ taken \in 0..Batch /\ wtimer \in BOOLEAN
  BY DEF Pointers
<1>2. IsRules(list)
  BY <1>1, AddedList
<1>3. rules' = Orphaned(list) /\ wrows' \in {rows, Written(new, rows)}
  BY DEF AddWatch
<1> HIDE DEF list
<1>4. IsFiniteSet(new)
  <2>1. IsFiniteSet(ToSet(list))
    BY <1>2, ListOf DEF IsRules
  <2>2. new \in SUBSET ToSet(list)
    OBVIOUS
  <2>3. QED
    BY <2>1, <2>2, FS_Subset
<1> HIDE DEF new
<1>5. IsFiniteSet(DOMAIN wrows')
  BY <1>1, <1>3, <1>4, WrittenFinite
<1>6. taken' \in 0..Batch /\ wtimer' \in BOOLEAN
  BY <1>1
<1>7. QED
  BY <1>1, <1>2, <1>3, <1>5, <1>6, PointersFollow

LEMMA RemovePoints ==
    ASSUME Pointers, NEW name, WatchRemove(name)
    PROVE  Pointers'
<1> DEFINE r == rules[IsWatched(rules, name)]
           list == RemoveFirst(rules, r)
<1>1. IsRules(rules) /\ watchq \in Seq(ToSet(watchq)) /\ IsFiniteSet(DOMAIN wrows) /\ taken \in 0..Batch /\ wtimer \in BOOLEAN
  BY DEF Pointers
<1>2. /\ rules' = Orphaned(list) /\ watchq' = Dangling(watchq) /\ UNCHANGED <<wtimer, taken>>
      /\ wrows' \in {wrows, Restrict(wrows, DOMAIN wrows \ {name})}
  BY DEF WatchRemove
<1>3. list \in Seq(ToSet(rules))
  BY <1>1, RemovedIsList DEF IsRules
<1> HIDE DEF list
<1>4. IsRules(list)
  BY <1>1, <1>3, RulesOf DEF IsRules
<1>5. IsFiniteSet(DOMAIN wrows')
  <2>1. DOMAIN wrows' \in SUBSET DOMAIN wrows
    BY <1>2 DEF Restrict
  <2>2. QED
    BY <1>1, <2>1, FS_Subset
<1>6. taken' \in 0..Batch /\ wtimer' \in BOOLEAN
  BY <1>1, <1>2
<1>7. QED
  BY <1>1, <1>2, <1>4, <1>5, <1>6, PointersFollow

LEMMA SetPoints ==
    ASSUME Pointers, NEW name, NEW action, WatchSet(name, action)
    PROVE  Pointers'
<1> DEFINE i == IsWatched(rules, name)
           new == [rules[i] EXCEPT !.action = IF name \in Nicks /\ action = "kick" THEN "kill" ELSE action]
           S == ToSet(rules) \cup {new}
<1>1. IsRules(rules) /\ i \in DOMAIN rules /\ rules[i] \in ToSet(rules)
  BY WatchedRule DEF Pointers, WatchSet
<1>2. rules' = [rules EXCEPT ![i] = new] /\ UNCHANGED <<user, watchq, wtimer, taken, wrows>>
  BY DEF WatchSet, visitorVars
<1>3. "id" \in DOMAIN new /\ new.id = rules[i].id
  BY <1>1 DEF IsRules
<1> HIDE DEF new, i
<1>4. rules \in Seq(ToSet(rules)) /\ DOMAIN rules = 1..Len(rules) /\ \A r \in S : "id" \in DOMAIN r
  BY <1>1, <1>3 DEF IsRules
<1>5. rules' \in Seq(S)
  <2>1. \A k \in 1..Len(rules) : rules[k] \in S
    BY <1>4
  <2>2. QED
    BY <1>1, <1>2, <1>4, <2>1
<1>6. IsRules(rules')
  BY <1>4, <1>5, RulesOf
<1>7. DOMAIN rules' = DOMAIN rules /\ \A k \in DOMAIN rules : rules'[k].id = rules[k].id
  BY <1>2, <1>3
<1>8. Ids(rules') = Ids(rules)
  BY <1>7 DEF Ids, ToSet
<1>9. QED
  BY <1>2, <1>6, <1>8, PointersKept DEF Pointers, Live

LEMMA OwnRulesList ==
    ASSUME Pointers
    PROVE  IsRules(OwnRules) /\ IsFiniteSet(ToSet(OwnRules))
<1> DEFINE I == {i \in DOMAIN rules : ~rules[i].config}
<1>1. rules \in Seq(ToSet(rules)) /\ I \in SUBSET (1..Len(rules)) /\ OwnRules = Picked(rules, I)
      /\ \A r \in ToSet(rules) : "id" \in DOMAIN r
  BY DEF Pointers, IsRules, OwnRules
<1> HIDE DEF I
<1>2. OwnRules \in Seq(ToSet(rules))
  BY <1>1, PickedKeeps
<1>3. QED
  BY <1>1, <1>2, RulesOf, ListOf

LEMMA LoadPoints ==
    ASSUME Pointers, setup.watches \in Seq(ToSet(setup.watches)), LoadWatch
    PROVE  Pointers'
<1> DEFINE wants == RowsAsWants
           own  == Added(<<>>, wants, FALSE, Ours)
           ours == Ours \cup {r.chan : r \in ToSet(own)}
           cfg  == setup.watches
           list == Added(own, cfg, TRUE, ours)
<1>1. IsRules(rules) /\ IsFiniteSet(DOMAIN wrows) /\ taken \in 0..Batch /\ FALSE \in BOOLEAN /\ TRUE \in BOOLEAN
  BY DEF Pointers
<1>2. rules' = Orphaned(list) /\ watchq' = <<>> /\ wtimer' = TRUE /\ UNCHANGED <<taken, wrows>>
  BY DEF LoadWatch
<1>3. wants \in Seq(ToSet(wants))
  BY <1>1, RowsInOrder
<1>4. IsRules(<<>>)
  BY DEF IsRules, ToSet
<1> HIDE DEF wants
<1>5. IsRules(own)
  BY <1>1, <1>3, <1>4, AddedList
<1>6. cfg \in Seq(ToSet(cfg))
  OBVIOUS
<1> HIDE DEF own, ours, cfg
<1>7. IsRules(list)
  BY <1>1, <1>5, <1>6, AddedList
<1> HIDE DEF list
<1>8. IsRules(rules')
  BY <1>2, <1>7, OrphanedList
<1>9. QED
  BY <1>1, <1>2, <1>8, PointersEmpty

LEMMA ClosePoints ==
    ASSUME Pointers, UnloadWatch
    PROVE  Pointers'
<1>1. IsFiniteSet(DOMAIN wrows) /\ taken \in 0..Batch /\ IsFiniteSet(ToSet(OwnRules))
  BY OwnRulesList DEF Pointers
<1>2. rules' = <<>> /\ watchq' = <<>> /\ wtimer' = FALSE /\ taken' = taken /\ wrows' = Written(ToSet(OwnRules), wrows)
  BY DEF UnloadWatch
<1>3. IsRules(<<>>)
  BY DEF IsRules, ToSet
<1>4. IsFiniteSet(DOMAIN wrows')
  BY <1>1, <1>2, WrittenFinite
<1>5. QED
  BY <1>1, <1>2, <1>3, <1>4, PointersEmpty

LEMMA PointersStep ==
    ASSUME Pointers, setup \in Setups, [Next]_vars
    PROVE  Pointers'
<1>1. setup.watches \in Seq(ToSet(setup.watches))
  BY VisitorsAssumption
<1>2. ASSUME UNCHANGED user, UNCHANGED watchVars PROVE Pointers'
  BY <1>2, PointersSame DEF Live
<1>3. CASE \E a \in Addr, what \in setup.users : Arrival(a, what)
  <2>1. Live \subseteq Live' /\ UNCHANGED watchVars
    BY <1>3 DEF Arrival, AddUser, Live
  <2>2. QED
    BY <2>1, PointersSame
<1>4. CASE Departure
  BY <1>4, FollowedKeeps DEF Departure
<1>5. CASE Linking
  BY <1>2, <1>5 DEF Linking, Connect, EndBurst
<1>6. CASE Moves
  <2>1. ASSUME NEW a \in Live, NEW what \in setup.users, UserChanges(a, what) PROVE Pointers'
    <3>1. user' = [user EXCEPT ![a] = what] /\ UNCHANGED <<rules, watchq, wtimer, taken, wrows>>
      BY <2>1 DEF UserChanges, Change
    <3>2. Live' = Live
      BY <3>1 DEF Live
    <3>3. QED
      BY <3>1, <3>2, PointersKept DEF Pointers
  <2>2. QED
    BY <1>6, <2>1, JoinPoints, KickPoints, FollowedKeeps DEF Moves, Part
<1>7. CASE Handlers
  BY <1>2, <1>7, UserPoints DEF Handlers, ReadFreed
<1>8. CASE Timers
  BY <1>2, <1>8, QueuePoints DEF Timers, VersionQue, ScanQue, visitorVars
<1>9. CASE Commands
  <2>1. ASSUME NEW want, WatchAdd(want) PROVE Pointers'
    <3> DEFINE wants == <<want>>
    <3>1. wants \in Seq(ToSet(wants))
      <4>1. wants \in Seq({want})
        OBVIOUS
      <4>2. QED
        BY <4>1, ListOf
    <3>2. /\ AddWatch(rules, wants, FALSE, Ours, wrows, fault) /\ IsFiniteSet(DOMAIN wrows) /\ watchq' = Dangling(watchq) /\ UNCHANGED <<wtimer, taken>>
          /\ FALSE \in BOOLEAN /\ IsRules(rules)
      BY <2>1 DEF WatchAdd, Pointers
    <3> HIDE DEF wants
    <3>3. QED
      BY <3>1, <3>2, AddPoints
  <2>2. CASE WatchRehash
    <3> DEFINE cfg == setup.watches
               I    == DOMAIN rules \ ConfigGoes
               kept == Picked(rules, I)
               gone == {rules[i] : i \in ConfigGoes}
               ours == Staying(gone)
               rows == Restrict(wrows, DOMAIN wrows \ {x.name : x \in {y \in gone : ~y.config}})
               before == Fallen(gone)
    <3>1. AddWatch(kept, cfg, TRUE, ours, rows, before) /\ watchq' = Dangling(watchq) /\ UNCHANGED <<wtimer, taken>>
      BY <2>2 DEF WatchRehash
    <3>2. IsFiniteSet(DOMAIN rows)
      <4>1. DOMAIN rows \in SUBSET DOMAIN wrows /\ IsFiniteSet(DOMAIN wrows)
        BY DEF Restrict, Pointers
      <4>2. QED
        BY <4>1, FS_Subset
    <3>3. IsRules(kept)
      <4>1. /\ rules \in Seq(ToSet(rules)) /\ I \in SUBSET (1..Len(rules))
            /\ \A x \in ToSet(rules) : "id" \in DOMAIN x
        BY DEF Pointers, IsRules
      <4> HIDE DEF I
      <4>2. kept \in Seq(ToSet(rules))
        BY <4>1, PickedKeeps
      <4> HIDE DEF kept
      <4>3. QED
        BY <4>1, <4>2, RulesOf
    <3>4. TRUE \in BOOLEAN /\ cfg \in Seq(ToSet(cfg))
      BY <1>1
    <3> HIDE DEF cfg, kept, ours, rows, before
    <3>5. QED
      BY <3>1, <3>2, <3>3, <3>4, AddPoints
  <2>3. CASE SaveWatchdb
    <3>1. /\ Live' = Live /\ rules' = rules /\ watchq' = watchq /\ taken' = taken /\ wtimer' = wtimer
          /\ wrows' = Written(ToSet(OwnRules), wrows)
      BY <2>3 DEF SaveWatchdb, visitorVars, Live
    <3>2. /\ IsRules(rules) /\ IsFiniteSet(DOMAIN wrows) /\ taken \in 0..Batch /\ wtimer \in BOOLEAN
          /\ IsFiniteSet(ToSet(OwnRules))
      BY OwnRulesList DEF Pointers
    <3>3. IsFiniteSet(DOMAIN wrows')
      BY <3>1, <3>2, WrittenFinite
    <3>4. IsRules(rules') /\ Ids(rules') = Ids(rules) /\ taken' \in 0..Batch /\ wtimer' \in BOOLEAN
      BY <3>1, <3>2
    <3>5. QED
      BY <3>1, <3>3, <3>4, PointersKept
  <2>4. CASE UNCHANGED <<user, watchVars>>
    BY <1>2, <2>4
  <2>5. QED
    BY <1>9, <2>1, <2>2, <2>3, <2>4, RemovePoints, SetPoints
       DEF Commands, ExemptDel, ExemptAdd, ExemptLoad, CmdScan, SessionRehash, visitorVars
<1>10. CASE Reloads
  BY <1>1, <1>2, <1>10, LoadPoints, ClosePoints DEF Reloads, LoadSessions, UnloadSessions, LoadScan, UnloadScan
<1>11. CASE Floods \/ ReleaseFloods \/ vars' = vars
  BY <1>2, <1>11 DEF Floods, ReleaseFloods, vars, visitorVars
<1>12. QED
  BY <1>3, <1>4, <1>5, <1>6, <1>7, <1>8, <1>9, <1>10, <1>11 DEF Next

-----------------------------------------------------------------------------
(* The sessions, and the types of all variables *)

SessionsInv == ScanInv /\ NetTypes /\ ScanTypes /\ Pointers /\ CountsRight

LEMMA SessionsStart == Init => SessionsInv
<1> SUFFICES ASSUME Init PROVE SessionsInv
  OBVIOUS
<1>1. ScanInv /\ CountsRight
  BY ScanStart, CountsStart
<1>2. Range(user) = {} /\ Live = {} /\ ToSet(versionq) = {}
  BY DEF Init, InitVisitors, InitScan, Live, Range, ToSet
<1>3. NetTypes
  BY <1>2 DEF Init, InitVisitors, NetTypes, Chans
<1>4. ScanTypes
  BY <1>2, ScanAssumption DEF Init, InitScan, ScanTypes
<1>5. Pointers
  <2>1. rules = <<>> /\ watchq = <<>> /\ wtimer = FALSE /\ taken = 0 /\ wrows = <<>>
    BY DEF Init, InitWatch
  <2>2. IsRules(rules) /\ watchq \in Seq(ToSet(watchq)) /\ ToSet(watchq) = {} /\ DOMAIN wrows = {}
    BY <2>1 DEF IsRules, ToSet
  <2>3. IsFiniteSet(DOMAIN wrows)
    BY <2>2, FS_EmptySet
  <2>4. taken \in 0..Batch /\ wtimer \in BOOLEAN
    <3>1. taken \in 0..Batch
      BY <2>1, WatchAssumption
    <3>2. wtimer \in BOOLEAN
      BY <2>1
    <3>3. QED
      BY <3>1, <3>2
  <2>5. Pointing(watchq, Live, rules)
    BY <2>2 DEF Pointing
  <2>6. QED
    BY <2>2, <2>3, <2>4, <2>5 DEF Pointers
<1>6. QED
  BY <1>1, <1>3, <1>4, <1>5 DEF SessionsInv

LEMMA SessionsStep == SessionsInv /\ [Next]_vars => SessionsInv'
<1> SUFFICES ASSUME SessionsInv, [Next]_vars PROVE SessionsInv'
  OBVIOUS
<1>1. ScanInv /\ NetTypes /\ ScanTypes /\ Pointers /\ CountsRight /\ ChainRight
  BY DEF SessionsInv, ScanInv
<1>2. ScanInv'
  BY <1>1, ScanStep
<1>3. NetTypes'
  <2>1. Placed /\ setup \in Setups
    BY <1>1 DEF NetTypes, Placed
  <2>2. Placed'
    BY <2>1, PlacedStep
  <2>3. setup' \in Setups
    BY <2>1, UsersAndChannels
  <2>4. /\ sync' \in {"startup", "bursting", "running"} /\ linked' \in BOOLEAN
        /\ fault' \in {"none", "freed user", "freed rule", "freed host", "freed channel"}
    BY <1>1, LinkTypes
  <2>5. QED
    BY <2>2, <2>3, <2>4 DEF NetTypes, Placed
<1>4. ScanTypes'
  BY <1>1, ScanTypesStep
<1>5. Pointers'
  BY <1>1, PointersStep DEF NetTypes
<1>6. CountsRight'
  <2>1. Placed
    BY <1>1 DEF NetTypes, Placed
  <2>2. QED
    BY <1>1, <2>1, CountsStep
<1>7. QED
  BY <1>2, <1>3, <1>4, <1>5, <1>6 DEF SessionsInv

LEMMA SessionsAreRight == SessionsInv => SessionsRight
<1> SUFFICES ASSUME SessionsInv PROVE SessionsRight
  OBVIOUS
<1>1. TypeOK
  BY DEF SessionsInv, ScanInv, ChainRight, ModulesOnce, NetTypes, ScanTypes, Pointers, Pointing, CountsRight, TypeOK
<1>2. ASSUME fault = "none", NEW h \in DOMAIN sessions PROVE sessions[h] <= Cardinality(On(h))
  <2>1. sessions[h] \in Nat /\ sessions[h] <= Cardinality(On(h) \ Waiting)
    BY <1>2 DEF SessionsInv, CountsRight
  <2>2. /\ Cardinality(On(h)) \in Nat /\ Cardinality(On(h) \ Waiting) \in Nat
        /\ Cardinality(On(h) \ Waiting) <= Cardinality(On(h))
    BY OnHost DEF SessionsInv, ScanInv
  <2>3. QED
    BY <2>1, <2>2
<1>3. SessionsExact
  BY DEF SessionsInv, CountsRight
<1>4. QED
  BY <1>1, <1>2, <1>3 DEF SessionsRight, SessionsNeverOver

\* Whatever users, modules and operators do in whatever order, no host is said to have more
\* sessions than it has, and one of whose users none went uncounted is said to have exactly those
\* it has (g_sessions.c); and every variable has its type, the pointers in the queues of g_scan
\* and g_watch being to users and rules that are there, or known to dangle.
THEOREM SessionsRightHolds == Spec => []SessionsRight
<1>1. Init => SessionsInv
  BY SessionsStart
<1>2. SessionsInv /\ [Next]_vars => SessionsInv'
  BY SessionsStep
<1>3. SessionsInv => SessionsRight
  BY SessionsAreRight
<1>4. QED
  BY <1>1, <1>2, <1>3, PTL DEF Spec

-----------------------------------------------------------------------------
(* The watch: the invariant *)

Names == Chans \cup Nicks
Pair(a, r) == [user |-> a, rule |-> r.id]

\* A rule names nothing that is not there, and take_action can do what it says.
RuleRight(r) ==
    /\ r = [id |-> r.id, name |-> r.name, chan |-> r.chan, action |-> r.action, ignores |-> r.ignores,
            config |-> r.config, existing |-> r.existing, lost |-> r.lost]
    /\ r.chan \in Names /\ r.name = NameOf(r.chan) /\ r.name \in Names
    /\ r.action \in Actions /\ (r.chan \in Nicks => r.action # "kick")
    /\ r.config \in BOOLEAN /\ r.lost \in BOOLEAN

\* No two rules watch the same, unless its name is cut, and none has the address of another.
RulesRight(l) ==
    /\ l \in Seq(ToSet(l)) /\ IsInjective(l)
    /\ \A r \in ToSet(l) : RuleRight(r)
    /\ \A r, s \in ToSet(l) : r.id = s.id \/ (Apart(r.chan) /\ r.chan = s.chan) => r = s

WatchedKept ==
    \A r \in ToSet(rules) :
        r.chan \notin Nicks \cup ousted /\ Apart(r.chan) => Guardian \in members[r.chan] /\ ~r.lost

\* The handler that looks at his nick is yet to be called.
Due(a, r) == r.chan \in Nicks /\ a = guest /\ "g_watch" \in ToSet(chain)

\* They wait in the queue that its timer works off, or have been passed by.
Excused == missed \cup (IF wtimer THEN ToSet(watchq) ELSE {})

Caught == \A r \in ToSet(rules), a \in Live : Wanted(a, r) => Due(a, r) \/ Pair(a, r) \in Excused

\* Of the names that are not cut, those of the rules of operators in l have rows.
Rowed(l, rows) ==
    \A n \in Names : Apart(n) => (n \in DOMAIN rows <=> \E r \in ToSet(l) : ~r.config /\ r.name = n)

\* What is in the database could be a rule, and is one while the module is there.
RowsRight ==
    /\ DOMAIN wrows \subseteq Names /\ \A n \in DOMAIN wrows : wrows[n].action \in Actions
    /\ Loaded("g_watch") => Rowed(rules, wrows)

WatchInv ==
    /\ SessionsInv
    /\ RulesRight(rules) /\ (Loaded("g_watch") \/ rules = <<>>)
    /\ WatchedKept /\ Caught /\ RowsRight

-----------------------------------------------------------------------------
(* The watch: lists of rules *)

\* Who leaves a channel changes of the rules but their pointers.
Alike(r, s) ==
    /\ r.id = s.id /\ r.name = s.name /\ r.chan = s.chan /\ r.action = s.action /\ r.ignores = s.ignores
    /\ r.config = s.config

LEMMA OrphanedAlike ==
    ASSUME NEW l, RulesRight(l)
    PROVE  /\ RulesRight(Orphaned(l))
           /\ \A s \in ToSet(Orphaned(l)) : \E r \in ToSet(l) :
                 /\ Alike(r, s)
                 /\ s.lost => r.lost \/ (r.chan \notin Nicks /\ members[r.chan] # {} /\ members'[r.chan] = {})
           /\ \A r \in ToSet(l) : \E s \in ToSet(Orphaned(l)) : Alike(r, s)
<1> DEFINE o == Orphaned(l)
           Lost(r) == r.chan \notin Nicks /\ members[r.chan] # {} /\ members'[r.chan] = {}
<1>1. DOMAIN l = 1..Len(l) /\ Len(l) \in Nat /\ o = [i \in 1..Len(l) |-> o[i]] /\ DOMAIN o = DOMAIN l
  BY DEF Orphaned, RulesRight
<1>2. ASSUME NEW i \in DOMAIN l
      PROVE  RuleRight(o[i]) /\ Alike(l[i], o[i]) /\ (o[i].lost => l[i].lost \/ Lost(l[i]))
  <2>1. RuleRight(l[i])
    BY DEF RulesRight, ToSet
  <2>2. CASE Lost(l[i])
    <3>1. o[i] = [l[i] EXCEPT !.lost = TRUE]
      BY <2>2 DEF Orphaned
    <3>2. o[i] = [id |-> l[i].id, name |-> l[i].name, chan |-> l[i].chan, action |-> l[i].action,
                  ignores |-> l[i].ignores, config |-> l[i].config, existing |-> l[i].existing,
                  lost |-> TRUE]
      BY <2>1, <3>1 DEF RuleRight
    <3>3. QED
      BY <2>1, <2>2, <3>2 DEF RuleRight, Alike
  <2>3. CASE ~Lost(l[i])
    <3>1. o[i] = l[i]
      BY <2>3 DEF Orphaned
    <3>2. QED
      BY <2>1, <3>1 DEF Alike
  <2>4. QED
    BY <2>2, <2>3
<1> HIDE DEF o, Lost
<1>3. o \in Seq(ToSet(o))
  <2>1. \A i \in 1..Len(l) : o[i] \in ToSet(o)
    BY <1>1 DEF ToSet
  <2>2. QED
    BY <1>1, <2>1
<1>4. ASSUME NEW i \in DOMAIN l, NEW j \in DOMAIN l,
             o[i].id = o[j].id \/ (Apart(o[i].chan) /\ o[i].chan = o[j].chan)
      PROVE  i = j
  <2>1. l[i].id = l[j].id \/ (Apart(l[i].chan) /\ l[i].chan = l[j].chan)
    BY <1>2, <1>4 DEF Alike
  <2>2. l[i] = l[j]
    BY <2>1 DEF RulesRight, ToSet
  <2>3. QED
    BY <2>2 DEF RulesRight, IsInjective
<1>5. RulesRight(o)
  <2>1. IsInjective(o)
    BY <1>1, <1>4 DEF IsInjective
  <2>2. \A r \in ToSet(o) : RuleRight(r)
    BY <1>1, <1>2 DEF ToSet
  <2>3. \A r, s \in ToSet(o) : r.id = s.id \/ (Apart(r.chan) /\ r.chan = s.chan) => r = s
    BY <1>1, <1>4 DEF ToSet
  <2>4. QED
    BY <1>3, <2>1, <2>2, <2>3 DEF RulesRight
<1>6. \A s \in ToSet(o) : \E r \in ToSet(l) : Alike(r, s) /\ (s.lost => r.lost \/ Lost(r))
  BY <1>1, <1>2 DEF ToSet
<1>7. \A r \in ToSet(l) : \E s \in ToSet(o) : Alike(r, s)
  BY <1>1, <1>2 DEF ToSet
<1>8. QED
  BY <1>5, <1>6, <1>7 DEF o, Lost

\* A name that is not cut is that of one pattern.
LEMMA NamesApart ==
    ASSUME setup \in Setups
    PROVE  /\ \A r : RuleRight(r) => \A n \in Names : Apart(n) => (r.name = n <=> r.chan = n)
           /\ \A n \in Names : NameOf(n) \in Names /\ (Apart(n) => NameOf(n) = n)
<1>1. Nicks \cap Chans = {} /\ \A c \in Chans : Cut[c] \in Chans
  BY RulesAssumption DEF Chans
<1>2. \A n \in Names : NameOf(n) \in Names /\ (Apart(n) => NameOf(n) = n)
  BY <1>1 DEF NameOf, Apart, Names
<1>3. ASSUME NEW r, RuleRight(r), NEW n \in Names, Apart(n) PROVE r.name = n <=> r.chan = n
  <2>1. r.chan \in Names /\ r.name = NameOf(r.chan)
    BY <1>3 DEF RuleRight
  <2>2. CASE r.chan = n
    BY <1>2, <1>3, <2>1, <2>2
  <2>3. CASE r.name = n /\ r.chan \in Nicks
    BY <2>1, <2>3 DEF NameOf
  <2>4. CASE r.name = n /\ r.chan \notin Nicks
    <3>1. r.chan \in Chans /\ Cut[r.chan] = n
      BY <2>1, <2>4 DEF NameOf, Names
    <3>2. n \notin Nicks
      BY <1>1, <3>1
    <3>3. QED
      BY <1>3, <2>4, <3>1, <3>2 DEF Apart
  <2>5. QED
    BY <2>2, <2>3, <2>4
<1>4. QED
  BY <1>2, <1>3

\* is_watched finds a rule of a name, if there is one.
LEMMA IsWatchedFinds ==
    ASSUME NEW l, RulesRight(l), NEW name
    PROVE  /\ IsWatched(l, name) # 0 => /\ IsWatched(l, name) \in DOMAIN l
                                        /\ l[IsWatched(l, name)] \in ToSet(l)
                                        /\ l[IsWatched(l, name)].name = name
           /\ IsWatched(l, name) = 0 => \A r \in ToSet(l) : r.name # name
<1> DEFINE I == {i \in 1..Len(l) : l[i].name = name}
           k == IsWatched(l, name)
<1>1. DOMAIN l = 1..Len(l) /\ Len(l) \in Nat
  BY DEF RulesRight
<1>2. k = IF I # {} THEN Min(I) ELSE 0
  BY DEF IsWatched, SelectInSeq
<1>3. I \in SUBSET (1..Len(l)) /\ \A i \in I : l[i].name = name
  OBVIOUS
<1>4. I = {} => \A i \in 1..Len(l) : l[i].name # name
  OBVIOUS
<1>5. \A i \in 1..Len(l) : l[i] \in ToSet(l)
  BY <1>1 DEF ToSet
<1> HIDE DEF I, k
<1>6. k \in 0..Len(l) /\ (k # 0 => k \in I) /\ (k = 0 => I = {})
  BY <1>1, <1>2, <1>3, FoundIn
<1>7. k # 0 => k \in DOMAIN l /\ l[k] \in ToSet(l) /\ l[k].name = name
  BY <1>1, <1>3, <1>5, <1>6
<1>8. k = 0 => \A r \in ToSet(l) : r.name # name
  BY <1>1, <1>4, <1>5, <1>6 DEF ToSet
<1>9. QED
  BY <1>7, <1>8 DEF k

\* The rules that add_watch makes for a list of those wanted.
Wants(wants) == \A w \in ToSet(wants) : w.pattern \in Names /\ w.action \in Actions

IsNew(r, wants, config) ==
    /\ RuleRight(r) /\ r.config = config /\ ~r.lost
    /\ \E w \in ToSet(wants) : w.pattern = r.chan

LEMMA NewRule ==
    ASSUME setup \in Setups, NEW wants, Wants(wants), NEW w \in ToSet(wants),
           NEW id, NEW config \in BOOLEAN, NEW e
    PROVE  /\ IsNew(Rule(id, w, config, e), wants, config)
           /\ Rule(id, w, config, e).id = id /\ Rule(id, w, config, e).chan = w.pattern
<1> DEFINE r == Rule(id, w, config, e)
<1>1. w.pattern \in Names /\ w.action \in Actions /\ NameOf(w.pattern) \in Names
  BY NamesApart DEF Wants
<1>2. r = [id |-> id, name |-> NameOf(w.pattern), chan |-> w.pattern,
           action |-> IF w.pattern \in Nicks /\ w.action = "kick" THEN "kill" ELSE w.action,
           ignores |-> w.ignores \cup (IF w.pattern \in Nicks THEN {"oper"} ELSE {}),
           config |-> config, existing |-> e, lost |-> FALSE]
  BY DEF Rule
<1> HIDE DEF r
<1>3. RuleRight(r)
  BY <1>1, <1>2 DEF RuleRight, Actions
<1>4. QED
  BY <1>2, <1>3 DEF IsNew, r

\* After so many of those wanted: the rules there were, and new ones with fresh addresses.
SoFar(l, list, wants, config, k) ==
    /\ RulesRight(l) /\ ToSet(list) \subseteq ToSet(l)
    /\ \A r \in ToSet(l) \ ToSet(list) : IsNew(r, wants, config) /\ r.id \notin Ids(rules)
    /\ \A i \in 1..k : Apart(wants[i].pattern) => \E r \in ToSet(l) : r.name = wants[i].pattern

LEMMA AddOneRight ==
    ASSUME setup \in Setups, NEW wants, wants \in Seq(ToSet(wants)), Wants(wants),
           rules \in Seq(ToSet(rules)), NEW config \in BOOLEAN, NEW ours, NEW list, NEW l,
           NEW k \in 0..(Len(wants) - 1), SoFar(l, list, wants, config, k)
    PROVE  SoFar(AddOne(l, wants[k + 1], list, config, ours), list, wants, config, k + 1)
<1> DEFINE w == wants[k + 1]
           e == (w.pattern \in ours \/ \E r \in ToSet(l) \ ToSet(list) : r.chan = w.pattern)
           id == FreeAddr(l)
           r == Rule(id, w, config, e)
           m == AddOne(l, w, list, config, ours)
<1>1. w \in ToSet(wants)
  BY DEF ToSet
<1>2. RulesRight(l) /\ l \in Seq(ToSet(l))
  BY DEF SoFar, RulesRight
<1>3. \A i \in 1..(k + 1) : i \in 1..k \/ i = k + 1
  OBVIOUS
<1>4. CASE IsWatched(l, w.pattern) # 0
  <2>1. m = l
    BY <1>4 DEF AddOne
  <2>2. \E x \in ToSet(l) : x.name = wants[k + 1].pattern
    BY <1>2, <1>4, IsWatchedFinds
  <2>3. QED
    BY <1>3, <2>1, <2>2 DEF SoFar
<1>5. CASE IsWatched(l, w.pattern) = 0
  <2>1. \A x \in ToSet(l) : x.name # w.pattern
    BY <1>2, <1>5, IsWatchedFinds
  <2>a. w.pattern \in Names
    BY <1>1 DEF Wants
  <2>b. /\ \A x \in ToSet(l) : x.id # id /\ (Apart(w.pattern) => x.chan # w.pattern)
        /\ Apart(w.pattern) => NameOf(w.pattern) = w.pattern
    <3>1. \A x \in ToSet(l) : RuleRight(x)
      BY <1>2 DEF RulesRight
    <3>2. \A x \in ToSet(l) : Apart(w.pattern) => x.chan # w.pattern
      <4> DEFINE p == w.pattern
      <4>1. p \in Names /\ \A x \in ToSet(l) : x.name # p
        BY <2>1, <2>a
      <4> HIDE DEF p
      <4>2. \A x \in ToSet(l) : Apart(p) => x.chan # p
        BY <3>1, <4>1, NamesApart
      <4>3. QED
        BY <4>2 DEF p
    <3>3. \A x \in ToSet(l) : x.id # id
      BY <1>2, FreeAddrFree DEF Ids
    <3>4. QED
      BY <2>a, <3>2, <3>3, NamesApart
  <2>2. id \notin Ids(l) /\ id \notin Ids(rules)
    BY <1>2, FreeAddrFree
  <2>3. m = Append(l, r)
    BY <1>5 DEF AddOne
  <2> HIDE DEF id, e, m
  <2>4. IsNew(r, wants, config) /\ r.id = id /\ r.chan = w.pattern
    BY <1>1, NewRule
  <2> HIDE DEF r, w
  <2>5. r \notin ToSet(l)
    BY <2>b, <2>4
  <2>6. m \in Seq(ToSet(l) \cup {r}) /\ IsInjective(m) /\ ToSet(m) = ToSet(l) \cup {r}
    <3> DEFINE S == ToSet(l) \cup {r}
    <3>1. l \in Seq(S) /\ r \in S /\ IsInjective(l)
      <4>1. \A T, U : T \subseteq U => Seq(T) \subseteq Seq(U)
        OBVIOUS
      <4>2. ToSet(l) \subseteq S /\ IsInjective(l)
        BY <1>2 DEF RulesRight
      <4>3. QED
        BY <1>2, <4>1, <4>2
    <3> HIDE DEF S
    <3>2. Append(l, r) \in Seq(S) /\ IsInjective(Append(l, r)) /\ ToSet(Append(l, r)) = ToSet(l) \cup {r}
      BY <2>5, <3>1, AppendKeeps
    <3>3. QED
      BY <2>3, <3>2 DEF S
  <2>7. RulesRight(m)
    <3>1. \A x \in ToSet(m) : RuleRight(x)
      BY <1>2, <2>4, <2>6 DEF RulesRight, IsNew
    <3>2. \A x \in ToSet(l) : x.id # r.id /\ (Apart(r.chan) => x.chan # r.chan)
      BY <2>b, <2>4
    <3>3. \A x, y \in ToSet(m) : x.id = y.id \/ (Apart(x.chan) /\ x.chan = y.chan) => x = y
      BY <1>2, <2>6, <3>2 DEF RulesRight
    <3>4. QED
      BY <2>6, <3>1, <3>3 DEF RulesRight
  <2>8. \A x \in ToSet(m) \ ToSet(list) : IsNew(x, wants, config) /\ x.id \notin Ids(rules)
    BY <2>2, <2>4, <2>6 DEF SoFar
  <2>9. \A i \in 1..(k + 1) : Apart(wants[i].pattern) => \E x \in ToSet(m) : x.name = wants[i].pattern
    <3>1. Apart(w.pattern) => r.name = w.pattern
      BY <2>4, <2>b DEF IsNew, RuleRight
    <3>2. QED
      BY <1>3, <2>6, <3>1 DEF SoFar, w
  <2>10. ToSet(list) \subseteq ToSet(m)
    BY <2>6 DEF SoFar
  <2>11. SoFar(m, list, wants, config, k + 1)
    BY <2>7, <2>8, <2>9, <2>10 DEF SoFar
  <2>12. QED
    BY <2>11 DEF m, w
<1>6. QED
  BY <1>4, <1>5

LEMMA AddedRight ==
    ASSUME setup \in Setups, NEW wants, wants \in Seq(ToSet(wants)), Wants(wants),
           rules \in Seq(ToSet(rules)), NEW config \in BOOLEAN, NEW ours, NEW list, RulesRight(list)
    PROVE  SoFar(Added(list, wants, config, ours), list, wants, config, Len(wants))
<1> DEFINE N == Len(wants)
<1>1. PICK at : Stages(at, list, wants, config, ours)
  BY AddedStages DEF RulesRight
<1>2. /\ at[0] = list /\ at[N] = Added(list, wants, config, ours) /\ N \in Nat
      /\ \A k \in 0..(N - 1) : at[k + 1] = AddOne(at[k], wants[k + 1], list, config, ours)
  BY <1>1 DEF Stages
<1> DEFINE G == {k \in 0..N : SoFar(at[k], list, wants, config, k)}
<1>3. 0 \in G
  <2>1. 1..0 = {} /\ 0 \in 0..N
    BY <1>2
  <2>2. SoFar(list, list, wants, config, 0)
    BY <2>1 DEF SoFar
  <2>3. QED
    BY <1>2, <2>1, <2>2
<1>4. ASSUME NEW k \in 0..(N - 1), k \in G PROVE k + 1 \in G
  <2>1. SoFar(at[k], list, wants, config, k)
    BY <1>4
  <2>2. SoFar(at[k + 1], list, wants, config, k + 1)
    BY <1>2, <2>1, AddOneRight
  <2>3. k + 1 \in 0..N
    BY <1>2
  <2>4. QED
    BY <2>2, <2>3
<1>5. N \in G
  <2>1. N \in Nat
    BY <1>2
  <2> HIDE DEF G, N
  <2>2. \A k \in 0..N : k \in G
    BY <1>3, <1>4, <2>1, CountedUp
  <2>3. QED
    BY <2>1, <2>2
<1>6. QED
  BY <1>2, <1>5

-----------------------------------------------------------------------------
(* The watch: what is done to users *)

LEMMA GuardianIsOurs ==
    ASSUME ChainRight
    PROVE  Guardian \notin Live
BY GuardianAssumption DEF ChainRight

\* take_action: who is killed is gone, who is kicked is off one channel, and Guardian is where
\* the caller says.
LEMMA StrikeDoes ==
    ASSUME ChainRight, NEW acts, NEW ours, Strike(acts, ours), setup' = setup
    PROVE  /\ Live' = Live \ Deaths(acts) /\ \A a \in Live' : user'[a] = user[a]
           /\ \A c \in Chans : Guardian \in members'[c] <=> c \in ours
           /\ \A c \in Chans, a \in Live' : a \in members'[c] <=> a \in members[c] /\ a \notin Kicked(acts, c)
<1> DEFINE D == Deaths(acts)
           M(c) == ((members[c] \ {Guardian}) \ (D \cup Kicked(acts, c)))
                      \cup (IF c \in ours THEN {Guardian} ELSE {})
<1>1. user' = [x \in Live \ D |-> user[x]] /\ members' = [c \in Chans |-> M(c)]
  BY DEF Strike, Restrict
<1>2. Live' = Live \ D /\ \A a \in Live' : user'[a] = user[a]
  <2> HIDE DEF D
  <2>1. QED
    BY <1>1 DEF Live
<1>3. Guardian \notin Live
  BY GuardianIsOurs
<1>4. ASSUME NEW c \in Chans PROVE members'[c] = M(c)
  BY <1>1
<1>5. ASSUME NEW c \in Chans PROVE Guardian \in members'[c] <=> c \in ours
  BY <1>4
<1>6. ASSUME NEW c \in Chans, NEW a \in Live'
      PROVE  a \in members'[c] <=> a \in members[c] /\ a \notin Kicked(acts, c)
  <2>1. a # Guardian /\ a \notin D
    BY <1>2, <1>3
  <2>2. QED
    BY <1>4, <2>1
<1>7. QED
  BY <1>2, <1>5, <1>6

\* What is said about a user does not change while he is there, but that he is not there any more.
LEMMA WantedStays ==
    ASSUME RulesRight(rules), NEW r, NEW s, Alike(r, s), RuleRight(r), setup' = setup,
           NEW a \in Live, a \in Live', user'[a] = user[a],
           r.chan \notin Nicks /\ a \in members'[r.chan] => a \in members[r.chan],
           Wanted(a, s)'
    PROVE  Wanted(a, r)
<1>1. s.chan = r.chan /\ s.action = r.action /\ s.ignores = r.ignores
  BY DEF Alike
<1>2. a \in Present(s)' /\ a \in Hit({a}, s)' /\ s.action # "none" /\ ~user'[a].service
  BY DEF Wanted, Hit
<1>3. user'[a].is \cap s.ignores = {}
  BY <1>2 DEF Hit
<1>4. a \in Hit({a}, r)
  BY <1>1, <1>3 DEF Hit
<1>5. a \in Present(r)
  <2>1. CASE r.chan \in Nicks
    BY <1>1, <1>2, <2>1 DEF Present
  <2>2. CASE r.chan \notin Nicks
    BY <1>1, <1>2, <2>2 DEF Present
  <2>3. QED
    BY <2>1, <2>2
<1>6. QED
  BY <1>1, <1>2, <1>4, <1>5 DEF Wanted, Hit

\* Whoever take_action was called for, is gone or off the channel, if the rule says anything.
LEMMA StruckDown ==
    ASSUME NEW acts, setup' = setup, Live' = Live \ Deaths(acts),
           NEW r, RuleRight(r), NEW P, <<P, r>> \in acts, NEW a \in P, a \in Live, a \in Live', user'[a] = user[a],
           \A c \in Chans : a \in members'[c] => a \notin Kicked(acts, c)
    PROVE  ~Wanted(a, r)'
<1> SUFFICES ASSUME Wanted(a, r)' PROVE FALSE
  OBVIOUS
<1>1. a \in Present(r)' /\ a \in Hit({a}, r)' /\ r.action # "none"
  BY DEF Wanted, Hit
<1>2. a \in Hit(P, r)
  BY <1>1 DEF Hit
<1>3. r.action \notin {"kill", "gline"}
  <2> SUFFICES ASSUME r.action \in {"kill", "gline"} PROVE FALSE
    OBVIOUS
  <2>1. a \in Killed(P, r)
    BY <1>2 DEF Killed
  <2>2. a \in Deaths(acts)
    BY <2>1 DEF Deaths
  <2>3. QED
    BY <2>2
<1>4. r.action = "kick" /\ r.chan \notin Nicks /\ r.chan \in Chans
  BY <1>1, <1>3 DEF RuleRight, Actions, Names
<1>5. a \in members'[r.chan]
  BY <1>1, <1>4 DEF Present
<1>6. a \in Kicked(acts, r.chan)
  <2> DEFINE f(x) == IF x[2].action = "kick" /\ x[2].chan = r.chan THEN Hit(x[1], x[2]) ELSE {}
  <2>1. a \in f(<<P, r>>)
    BY <1>2, <1>4
  <2>2. Kicked(acts, r.chan) = UNION {f(x) : x \in acts}
    BY DEF Kicked
  <2> HIDE DEF f
  <2>3. QED
    BY <2>1, <2>2
<1>7. QED
  BY <1>4, <1>5, <1>6

\* A match waits in the queue as long as the user and the rule are there.
LEMMA WaitsOn ==
    ASSUME NEW q, q \in Seq(ToSet(q)), NEW a \in Live', NEW id, \E r \in ToSet(rules') : r.id = id,
           [user |-> a, rule |-> id] \in ToSet(q)
    PROVE  [user |-> a, rule |-> id] \in ToSet(Dangling(q))
<1>1. PICK i \in DOMAIN q : q[i] = [user |-> a, rule |-> id]
  BY DEF ToSet
<1>2. q[i].user = a /\ q[i].rule = id
  BY <1>1
<1>3. Dangling(q)[i] = [user |-> a, rule |-> id] /\ i \in DOMAIN Dangling(q)
  BY <1>2 DEF Dangling, Live
<1>4. QED
  BY <1>3 DEF ToSet

-----------------------------------------------------------------------------
(* The watch: a step, for the rules it leaves *)

\* The rules after a step are those of the list, with a pointer less where a channel went.
Follows(list) ==
    /\ RulesRight(list) /\ RulesRight(rules)'
    /\ \A s \in ToSet(rules') : \E r \in ToSet(list) :
          Alike(r, s) /\ (s.lost => r.lost \/ (r.chan \notin Nicks /\ members'[r.chan] = {}))
    /\ \A r \in ToSet(list) : \E s \in ToSet(rules') : Alike(r, s)

LEMMA FollowsOrphaned ==
    ASSUME NEW list, RulesRight(list), rules' = Orphaned(list), setup' = setup
    PROVE  Follows(list)
<1>1. RulesRight(rules') /\ rules' = Orphaned(list)
  BY OrphanedAlike
<1>2. RulesRight(rules)'
  BY <1>1 DEF RulesRight, RuleRight, Names, Chans, Apart
<1>3. \A s \in ToSet(rules') : \E r \in ToSet(list) :
          Alike(r, s) /\ (s.lost => r.lost \/ (r.chan \notin Nicks /\ members'[r.chan] = {}))
  BY OrphanedAlike
<1>4. \A r \in ToSet(list) : \E s \in ToSet(rules') : Alike(r, s)
  BY OrphanedAlike
<1>5. QED
  BY <1>2, <1>3, <1>4 DEF Follows

LEMMA FollowsSame ==
    ASSUME RulesRight(rules), rules' = rules, setup' = setup
    PROVE  Follows(rules)
<1>1. RulesRight(rules)'
  BY DEF RulesRight, RuleRight, Names, Chans, Apart
<1>2. \A r : Alike(r, r)
  BY DEF Alike
<1>3. QED
  BY <1>1, <1>2 DEF Follows

LEMMA OwnRulesAre ==
    ASSUME RulesRight(rules)
    PROVE  ToSet(OwnRules) = {r \in ToSet(rules) : ~r.config}
<1> DEFINE I == {i \in DOMAIN rules : ~rules[i].config}
<1>1. /\ rules \in Seq(ToSet(rules)) /\ I \in SUBSET (1..Len(rules)) /\ IsInjective(rules)
      /\ OwnRules = Picked(rules, I)
  BY DEF RulesRight, OwnRules
<1>2. {rules[i] : i \in I} = {r \in ToSet(rules) : ~r.config}
  BY DEF ToSet
<1> DEFINE S == ToSet(rules)
<1> HIDE DEF I, S
<1>3. rules \in Seq(S) /\ IsInjective(rules) /\ I \in SUBSET (1..Len(rules))
  BY <1>1 DEF S
<1>4. ToSet(Picked(rules, I)) = {rules[i] : i \in I}
  BY <1>3, PickedInjective
<1>5. QED
  BY <1>1, <1>2, <1>4

\* A rule is as wanted as one that differs in its pointer only.
LEMMA WantedAlike ==
    ASSUME NEW r, NEW s, Alike(r, s), NEW a
    PROVE  Wanted(a, s)' => Wanted(a, r)'
BY DEF Alike, Wanted, Present, Hit

\* Whom a rule says to do something about, is owed it.
LEMMA OwedIs ==
    /\ \A r \in ToSet(rules), a \in Live : Wanted(a, r) => Pair(a, r) \in Owed
    /\ \A p \in Owed : \E r \in ToSet(rules), a \in Live : Wanted(a, r) /\ p = Pair(a, r)
<1>1. \A m : m \in Matches <=> m \in Live \X ToSet(rules) /\ Wanted(m[1], m[2])
  BY DEF Matches
<1>2. Owed = {[user |-> m[1], rule |-> m[2].id] : m \in Matches}
  BY DEF Owed
<1>3. ASSUME NEW r \in ToSet(rules), NEW a \in Live, Wanted(a, r) PROVE Pair(a, r) \in Owed
  <2>1. <<a, r>> \in Matches
    BY <1>1, <1>3
  <2>2. QED
    BY <1>2, <2>1 DEF Pair
<1>4. ASSUME NEW p \in Owed PROVE \E r \in ToSet(rules), a \in Live : Wanted(a, r) /\ p = Pair(a, r)
  <2>1. PICK m \in Matches : p = [user |-> m[1], rule |-> m[2].id]
    BY <1>2
  <2>2. QED
    BY <1>1, <2>1 DEF Pair
<1>5. QED
  BY <1>3, <1>4

\* So it is after a step.
LEMMA OwedNext ==
    \A r \in ToSet(rules'), a \in Live' : Wanted(a, r)' => Pair(a, r) \in Owed'
<1> SUFFICES ASSUME NEW r \in ToSet(rules'), NEW a \in Live', Wanted(a, r)' PROVE Pair(a, r) \in Owed'
  OBVIOUS
<1>1. <<a, r>> \in Matches'
  <2>1. Matches' = {m \in Live' \X ToSet(rules') : Wanted(m[1], m[2])'}
    BY DEF Matches
  <2>2. <<a, r>> \in Live' \X ToSet(rules') /\ Wanted(<<a, r>>[1], <<a, r>>[2])'
    OBVIOUS
  <2>3. QED
    BY <2>1, <2>2
<1>2. Owed' = {[user |-> m[1], rule |-> m[2].id] : m \in Matches'}
  BY DEF Owed
<1>3. QED
  BY <1>1, <1>2 DEF Pair

\* What each step has to show of the rules of its list; M are those known to be passed by.
LEMMA WatchFrom ==
    ASSUME setup' = setup, SessionsInv', NEW list, Follows(list), NEW M, M \cap Owed' \subseteq missed',
           Loaded("g_watch")' \/ list = <<>>,
           \A r \in ToSet(list) : r.chan \notin Nicks \cup ousted' /\ Apart(r.chan) => Guardian \in members'[r.chan] /\ ~r.lost,
           \A r \in ToSet(list), a \in Live' :
               Wanted(a, r)' => Due(a, r)' \/ Pair(a, r) \in M \/ (wtimer' /\ Pair(a, r) \in ToSet(watchq')),
           DOMAIN wrows' \subseteq Names, \A n \in DOMAIN wrows' : wrows'[n].action \in Actions,
           Loaded("g_watch")' => Rowed(list, wrows')
    PROVE  WatchInv'
<1>1. RulesRight(rules)'
  BY DEF Follows
<1>a. Names' = Names /\ \A n : Apart(n)' <=> Apart(n)
  BY DEF Names, Chans, Apart
<1>2. Loaded("g_watch")' \/ rules' = <<>>
  <2>1. CASE list = <<>>
    <3>1. ToSet(list) = {}
      BY <2>1 DEF ToSet
    <3>2. ToSet(rules') = {}
      BY <3>1 DEF Follows
    <3>3. rules' \in Seq(ToSet(rules'))
      BY <1>1 DEF RulesRight
    <3>4. QED
      BY <3>2, <3>3
  <2>2. QED
    BY <2>1
<1>3. WatchedKept'
  <2> SUFFICES ASSUME NEW s \in ToSet(rules'), s.chan \notin Nicks \cup ousted', Apart(s.chan)'
               PROVE  Guardian \in members'[s.chan] /\ ~s.lost
    BY DEF WatchedKept
  <2>1. PICK r \in ToSet(list) : Alike(r, s) /\ (s.lost => r.lost \/ (r.chan \notin Nicks /\ members'[r.chan] = {}))
    BY DEF Follows
  <2>2. r.chan = s.chan /\ Apart(s.chan)
    BY <1>a, <2>1 DEF Alike
  <2>3. QED
    BY <2>1, <2>2
<1>4. Caught'
  <2> SUFFICES ASSUME NEW s \in ToSet(rules'), NEW a \in Live', Wanted(a, s)'
               PROVE  Due(a, s)' \/ Pair(a, s) \in missed' \/ (wtimer' /\ Pair(a, s) \in ToSet(watchq'))
    BY DEF Caught, Excused, Pair
  <2>1. PICK r \in ToSet(list) : Alike(r, s)
    BY DEF Follows
  <2>2. r.chan = s.chan /\ Pair(a, r) = Pair(a, s)
    BY <2>1 DEF Alike, Pair
  <2>3. Wanted(a, r)' /\ Pair(a, s) \in Owed'
    BY <2>1, WantedAlike, OwedNext
  <2>4. Due(a, r)' \/ Pair(a, s) \in missed' \/ (wtimer' /\ Pair(a, s) \in ToSet(watchq'))
    BY <2>2, <2>3
  <2>5. QED
    BY <2>2, <2>4 DEF Due
<1>5. RowsRight'
  <2>1. ASSUME Loaded("g_watch")', NEW n \in Names, Apart(n)
        PROVE  n \in DOMAIN wrows' <=> \E s \in ToSet(rules') : ~s.config /\ s.name = n
    <3>1. n \in DOMAIN wrows' <=> \E r \in ToSet(list) : ~r.config /\ r.name = n
      BY <2>1 DEF Rowed
    <3>2. ASSUME NEW s \in ToSet(rules'), ~s.config, s.name = n PROVE \E r \in ToSet(list) : ~r.config /\ r.name = n
      <4>1. PICK r \in ToSet(list) : Alike(r, s)
        BY DEF Follows
      <4>2. QED
        BY <3>2, <4>1 DEF Alike
    <3>3. ASSUME NEW r \in ToSet(list), ~r.config, r.name = n PROVE \E s \in ToSet(rules') : ~s.config /\ s.name = n
      <4>1. PICK s \in ToSet(rules') : Alike(r, s)
        BY DEF Follows
      <4>2. QED
        BY <3>3, <4>1 DEF Alike
    <3>4. QED
      BY <3>1, <3>2, <3>3
  <2>2. Loaded("g_watch")' => Rowed(rules, wrows)'
    BY <1>a, <2>1 DEF Rowed
  <2>3. QED
    BY <1>a, <2>2 DEF RowsRight
<1>6. QED
  BY <1>1, <1>2, <1>3, <1>4, <1>5 DEF WatchInv

-----------------------------------------------------------------------------
(* The watch: the steps *)

\* What the steps need of the invariant.
LEMMA WatchFacts ==
    ASSUME WatchInv
    PROVE  /\ SessionsInv /\ ChainRight /\ setup \in Setups /\ Guardian \notin Live
           /\ \A c \in Chans : members[c] \subseteq Live \cup {Guardian}
           /\ watchq \in Seq(ToSet(watchq)) /\ rules \in Seq(ToSet(rules)) /\ IsFiniteSet(DOMAIN wrows)
           /\ RulesRight(rules) /\ (Loaded("g_watch") \/ rules = <<>>)
           /\ \A r \in ToSet(rules) : RuleRight(r)
           /\ \A r \in ToSet(rules) : r.chan \notin Nicks \cup ousted /\ Apart(r.chan) => Guardian \in members[r.chan] /\ ~r.lost
           /\ DOMAIN wrows \subseteq Names /\ \A n \in DOMAIN wrows : wrows[n].action \in Actions
           /\ Loaded("g_watch") => Rowed(rules, wrows)
<1>1. ChainRight /\ setup \in Setups /\ members \in [Chans -> SUBSET (Live \cup {Guardian})]
  BY DEF WatchInv, SessionsInv, ScanInv, NetTypes
<1>2. Guardian \notin Live
  BY <1>1, GuardianIsOurs
<1>3. \A c \in Chans : members[c] \subseteq Live \cup {Guardian}
  BY <1>1
<1>4. watchq \in Seq(ToSet(watchq)) /\ IsFiniteSet(DOMAIN wrows)
  BY DEF WatchInv, SessionsInv, Pointers
<1>5. RulesRight(rules) /\ rules \in Seq(ToSet(rules)) /\ \A r \in ToSet(rules) : RuleRight(r)
  BY DEF WatchInv, RulesRight
<1>6. QED
  BY <1>1, <1>2, <1>3, <1>4, <1>5 DEF WatchInv, WatchedKept, RowsRight

\* Who is caught by a rule that was there, already was.
LEMMA OldRule ==
    ASSUME WatchInv, setup' = setup, NEW r \in ToSet(rules), NEW a \in Live, a \in Live', user'[a] = user[a],
           r.chan \notin Nicks /\ a \in members'[r.chan] => a \in members[r.chan],
           Wanted(a, r)'
    PROVE  Due(a, r) \/ Pair(a, r) \in missed \/ (wtimer /\ Pair(a, r) \in ToSet(watchq))
<1>1. RulesRight(rules) /\ RuleRight(r)
  BY WatchFacts
<1>2. Alike(r, r)
  BY DEF Alike
<1>3. Wanted(a, r)
  BY <1>1, <1>2, WantedStays
<1>4. QED
  BY <1>3 DEF WatchInv, Caught, Excused

\* Between events, all that is owed is excused.
LEMMA OwedBefore ==
    ASSUME WatchInv, chain = <<>>, NEW p \in Owed
    PROVE  p \in missed \/ (wtimer /\ p \in ToSet(watchq))
<1>1. PICK r \in ToSet(rules), a \in Live : Wanted(a, r) /\ p = Pair(a, r)
  BY OwedIs
<1>2. ~Due(a, r)
  BY DEF Due, ToSet
<1>3. QED
  BY <1>1, <1>2 DEF WatchInv, Caught, Excused

\* Nothing happens that the watch is about.
LEMMA WatchRests ==
    ASSUME WatchInv, setup' = setup, SessionsInv', UNCHANGED <<user, members, rules, watchq, wrows, ousted, missed>>,
           wtimer => wtimer' \/ watchq = <<>>,
           Loaded("g_watch")' = Loaded("g_watch"),
           \A a \in Live : a = guest /\ "g_watch" \in ToSet(chain) => a = guest' /\ "g_watch" \in ToSet(chain')
    PROVE  WatchInv'
<1>1. rules' = rules /\ watchq' = watchq /\ wrows' = wrows /\ ousted' = ousted /\ Live' = Live /\ missed' = missed
  BY DEF Live
<1>2. Follows(rules)
  BY <1>1, FollowsSame, WatchFacts
<1> DEFINE M == missed
<1>3. ASSUME NEW r \in ToSet(rules), NEW a \in Live', Wanted(a, r)'
      PROVE  Due(a, r)' \/ Pair(a, r) \in M \/ (wtimer' /\ Pair(a, r) \in ToSet(watchq'))
  <2>1. Due(a, r) \/ Pair(a, r) \in missed \/ (wtimer /\ Pair(a, r) \in ToSet(watchq))
    BY <1>1, <1>3, OldRule
  <2>2. Due(a, r) => Due(a, r)'
    BY <1>1 DEF Due
  <2>3. watchq = <<>> => ToSet(watchq) = {}
    BY DEF ToSet
  <2>4. QED
    BY <1>1, <2>1, <2>2, <2>3
<1>4. M \cap Owed' \subseteq missed'
  BY <1>1
<1> HIDE DEF M
<1>5. QED
  BY <1>1, <1>2, <1>3, <1>4, WatchFrom, WatchFacts

\* Users go, or leave channels.
LEMMA WatchFollowsOn ==
    ASSUME WatchInv, setup' = setup, SessionsInv', WatchFollows, UNCHANGED <<loaded, chain, guest>>,
           Live' \subseteq Live, \A a \in Live' : user'[a] = user[a],
           \A c \in Chans : /\ \A a \in Live' : a \in members'[c] => a \in members[c]
                            /\ Guardian \in members[c] => Guardian \in members'[c]
    PROVE  WatchInv'
<1>1. /\ rules' = Orphaned(rules) /\ watchq' = Dangling(watchq) /\ wrows' = wrows /\ ousted' = ousted
      /\ wtimer' = wtimer /\ Missing({})
  BY DEF WatchFollows
<1>2. Follows(rules)
  BY <1>1, FollowsOrphaned, WatchFacts
<1>3. ASSUME NEW r \in ToSet(rules) PROVE r.chan \notin Nicks => r.chan \in Chans
  BY WatchFacts DEF RuleRight, Names
<1> DEFINE M == missed
<1>4. ASSUME NEW r \in ToSet(rules), NEW a \in Live', Wanted(a, r)'
      PROVE  Due(a, r)' \/ Pair(a, r) \in M \/ (wtimer' /\ Pair(a, r) \in ToSet(watchq'))
  <2>1. Due(a, r) \/ Pair(a, r) \in missed \/ (wtimer /\ Pair(a, r) \in ToSet(watchq))
    BY <1>3, <1>4, OldRule
  <2>2. Due(a, r) => Due(a, r)'
    BY DEF Due
  <2>3. \E s \in ToSet(rules') : s.id = r.id
    BY <1>2 DEF Follows, Alike
  <2>4. Pair(a, r) \in ToSet(watchq) => Pair(a, r) \in ToSet(watchq')
    BY <1>1, <2>3, WaitsOn, WatchFacts DEF Pair
  <2>5. QED
    BY <1>1, <2>1, <2>2, <2>4
<1>5. \A r \in ToSet(rules) : r.chan \notin Nicks \cup ousted' /\ Apart(r.chan) => Guardian \in members'[r.chan] /\ ~r.lost
  BY <1>1, <1>3, WatchFacts
<1>6. Loaded("g_watch")' = Loaded("g_watch")
  BY DEF Loaded
<1>7. M \cap Owed' \subseteq missed'
  BY <1>1 DEF Missing
<1> HIDE DEF M
<1>8. QED
  BY <1>1, <1>2, <1>4, <1>5, <1>6, <1>7, WatchFrom, WatchFacts

LEMMA WatchDeparts ==
    ASSUME WatchInv, setup' = setup, SessionsInv', Departure
    PROVE  WatchInv'
<1>1. PICK S \in SUBSET Live : ExitUsers(S) /\ UNCHANGED <<loaded, chain, guest>>
  BY DEF Departure, LoseLink, Quit
<1>2. user' = [x \in Live \ S |-> user[x]] /\ members' = [c \in Chans |-> members[c] \ S]
  BY <1>1 DEF ExitUsers, Restrict
<1>3. Live' = Live \ S /\ \A x \in Live' : user'[x] = user[x]
  BY <1>2 DEF Live
<1>4. Guardian \notin S
  BY WatchFacts
<1>5. QED
  BY <1>1, <1>2, <1>3, <1>4, WatchFollowsOn DEF Departure

LEMMA WatchParts ==
    ASSUME WatchInv, SessionsInv', NEW a \in Live, NEW c \in Chans, Part(a, c)
    PROVE  WatchInv'
<1>1. /\ members' = [members EXCEPT ![c] = members[c] \ {a}] /\ a # Guardian
      /\ UNCHANGED <<setup, loaded, user, chain, guest>> /\ WatchFollows
  BY DEF Part
<1>2. DOMAIN members = Chans
  BY DEF WatchInv, SessionsInv, NetTypes
<1>3. \A x \in Chans : members'[x] \subseteq members[x] /\ (Guardian \in members[x] => Guardian \in members'[x])
  BY <1>1, <1>2
<1>4. Live' = Live
  BY <1>1 DEF Live
<1>5. QED
  BY <1>1, <1>3, <1>4, WatchFollowsOn

\* Guardian is kicked: his channels are known.
LEMMA WatchOusted ==
    ASSUME WatchInv, SessionsInv', NEW c \in Chans, KickGuardian(c)
    PROVE  WatchInv'
<1>1. /\ members' = [members EXCEPT ![c] = members[c] \ {Guardian}] /\ ousted' = ousted \cup {c}
      /\ rules' = Orphaned(rules) /\ watchq' = watchq /\ wrows' = wrows
      /\ UNCHANGED <<setup, loaded, user, chain, guest, wtimer, missed>>
  BY DEF KickGuardian
<1>2. DOMAIN members = Chans
  BY DEF WatchInv, SessionsInv, NetTypes
<1>3. \A x \in Chans : members'[x] \subseteq members[x] /\ (x # c => members'[x] = members[x])
  BY <1>1, <1>2
<1>4. Live' = Live
  BY <1>1 DEF Live
<1>5. Follows(rules)
  BY <1>1, FollowsOrphaned, WatchFacts
<1>6. ASSUME NEW r \in ToSet(rules) PROVE r.chan \notin Nicks => r.chan \in Chans
  BY WatchFacts DEF RuleRight, Names
<1> DEFINE M == missed
<1>7. ASSUME NEW r \in ToSet(rules), NEW a \in Live', Wanted(a, r)'
      PROVE  Due(a, r)' \/ Pair(a, r) \in M \/ (wtimer' /\ Pair(a, r) \in ToSet(watchq'))
  <2>1. Due(a, r) \/ Pair(a, r) \in missed \/ (wtimer /\ Pair(a, r) \in ToSet(watchq))
    BY <1>1, <1>3, <1>4, <1>6, <1>7, OldRule
  <2>2. QED
    BY <1>1, <2>1 DEF Due
<1>8. \A r \in ToSet(rules) : r.chan \notin Nicks \cup ousted' /\ Apart(r.chan) => Guardian \in members'[r.chan] /\ ~r.lost
  BY <1>1, <1>3, <1>6, WatchFacts
<1>9. Loaded("g_watch")' = Loaded("g_watch") /\ M \cap Owed' \subseteq missed'
  BY <1>1 DEF Loaded
<1> HIDE DEF M
<1>10. QED
  BY <1>1, <1>5, <1>7, <1>8, <1>9, WatchFrom, WatchFacts

\* A new user is on no channel, and his nick is yet to be looked at.
LEMMA WatchArrives ==
    ASSUME WatchInv, SessionsInv', NEW a, NEW what, AddUser(a, what), UNCHANGED watchVars
    PROVE  WatchInv'
<1>1. /\ user' = [x \in Live \cup {a} |-> IF x = a THEN what ELSE user[x]] /\ a \notin Live
      /\ chain = <<>> /\ chain' = Listening /\ guest' = a /\ UNCHANGED <<setup, loaded, members>>
  BY DEF AddUser, Calm
<1>2. Live' = Live \cup {a} /\ \A x \in Live : user'[x] = user[x]
  BY <1>1 DEF Live
<1>3. rules' = rules /\ watchq' = watchq /\ wrows' = wrows /\ ousted' = ousted /\ wtimer' = wtimer /\ missed' = missed
  BY DEF watchVars
<1>4. Follows(rules)
  BY <1>1, <1>3, FollowsSame, WatchFacts
<1>5. Live' \subseteq Addr
  BY DEF SessionsInv, ScanInv, ChainRight
<1>6. a # Guardian
  BY <1>2, <1>5, GuardianAssumption
<1>7. Loaded("g_watch")' = Loaded("g_watch") /\ (Loaded("g_watch") => "g_watch" \in ToSet(chain'))
  BY <1>1, ChainBegins, WatchFacts DEF Loaded
<1> DEFINE M == missed
<1>8. ASSUME NEW r \in ToSet(rules), NEW x \in Live', Wanted(x, r)'
      PROVE  Due(x, r)' \/ Pair(x, r) \in M \/ (wtimer' /\ Pair(x, r) \in ToSet(watchq'))
  <2>1. CASE x \in Live
    <3>1. Due(x, r) \/ Pair(x, r) \in missed \/ (wtimer /\ Pair(x, r) \in ToSet(watchq))
      BY <1>1, <1>2, <1>8, <2>1, OldRule
    <3>2. ~Due(x, r)
      BY <1>1 DEF Due, ToSet
    <3>3. QED
      BY <1>3, <3>1, <3>2
  <2>2. CASE x = a
    <3>1. Loaded("g_watch")
      BY WatchFacts DEF ToSet
    <3>2. r.chan \in Nicks
      <4> SUFFICES ASSUME r.chan \notin Nicks PROVE FALSE
        OBVIOUS
      <4>1. r.chan \in Chans
        BY WatchFacts DEF RuleRight, Names
      <4>2. a \in members[r.chan]
        BY <1>1, <1>8, <2>2 DEF Wanted, Hit, Present
      <4>3. QED
        BY <1>1, <1>6, <4>1, <4>2, WatchFacts
    <3>3. QED
      BY <1>1, <1>7, <2>2, <3>1, <3>2 DEF Due
  <2>3. QED
    BY <1>2, <2>1, <2>2
<1>9. \A r \in ToSet(rules) : r.chan \notin Nicks \cup ousted' /\ Apart(r.chan) => Guardian \in members'[r.chan] /\ ~r.lost
  BY <1>1, <1>3, WatchFacts
<1>10. M \cap Owed' \subseteq missed'
  BY <1>3
<1> HIDE DEF M
<1>11. QED
  BY <1>1, <1>3, <1>4, <1>7, <1>8, <1>9, <1>10, WatchFrom, WatchFacts

\* What a change of a user or a rule brings about, is passed by.
LEMMA WatchSeesLate ==
    ASSUME WatchInv, setup' = setup, SessionsInv', chain = <<>>, Missing(Owed' \ Owed), Live' = Live,
           UNCHANGED <<loaded, watchq, wtimer, wrows, ousted>>, NEW list, list = rules', Follows(list),
           Loaded("g_watch") \/ list = <<>>,
           \A r \in ToSet(list) : r.chan \notin Nicks \cup ousted' /\ Apart(r.chan) => Guardian \in members'[r.chan] /\ ~r.lost,
           Loaded("g_watch") => Rowed(list, wrows)
    PROVE  WatchInv'
<1> DEFINE M == missed \cup (Owed' \ Owed)
<1>1. M \cap Owed' \subseteq missed'
  BY DEF Missing
<1>2. ASSUME NEW r \in ToSet(list), NEW a \in Live', Wanted(a, r)'
      PROVE  Due(a, r)' \/ Pair(a, r) \in M \/ (wtimer' /\ Pair(a, r) \in ToSet(watchq'))
  <2>1. Pair(a, r) \in Owed'
    BY <1>2, OwedNext
  <2>2. CASE Pair(a, r) \in Owed
    <3>1. Pair(a, r) \in missed \/ (wtimer /\ Pair(a, r) \in ToSet(watchq))
      BY <2>2, OwedBefore
    <3>2. QED
      BY <3>1
  <2>3. QED
    BY <2>1, <2>2
<1>3. Loaded("g_watch")' = Loaded("g_watch")
  BY DEF Loaded
<1>4. /\ DOMAIN wrows' \subseteq Names /\ \A n \in DOMAIN wrows' : wrows'[n].action \in Actions
      /\ Loaded("g_watch")' => Rowed(list, wrows')
  BY <1>3, WatchFacts
<1> HIDE DEF M
<1>5. QED
  BY <1>1, <1>2, <1>3, <1>4, WatchFrom

\* A user gets another nick or mode.
LEMMA WatchChanges ==
    ASSUME WatchInv, SessionsInv', NEW a, NEW what, UserChanges(a, what)
    PROVE  WatchInv'
<1>1. /\ user' = [user EXCEPT ![a] = what] /\ chain = <<>> /\ Missing(Owed' \ Owed) /\ rules' = rules
      /\ UNCHANGED <<setup, members, loaded, watchq, wtimer, wrows, ousted>>
  BY DEF UserChanges, Change, Calm
<1>2. Live' = Live
  BY <1>1 DEF Live
<1>3. Follows(rules)
  BY <1>1, FollowsSame, WatchFacts
<1> DEFINE list == rules
<1>4. /\ list = rules' /\ Follows(list) /\ (Loaded("g_watch") \/ list = <<>>)
      /\ \A r \in ToSet(list) : r.chan \notin Nicks \cup ousted' /\ Apart(r.chan) => Guardian \in members'[r.chan] /\ ~r.lost
      /\ Loaded("g_watch") => Rowed(list, wrows)
  BY <1>1, <1>3, WatchFacts
<1> HIDE DEF list
<1>5. QED
  BY <1>1, <1>2, <1>4, WatchSeesLate

\* The rows of rules are of their names.
LEMMA WrittenRows ==
    ASSUME NEW rs, \A r \in rs : RuleRight(r), NEW rows, DOMAIN rows \subseteq Names,
           \A n \in DOMAIN rows : rows[n].action \in Actions
    PROVE  /\ DOMAIN Written(rs, rows) = {r.name : r \in rs} \cup DOMAIN rows
           /\ DOMAIN Written(rs, rows) \subseteq Names
           /\ \A n \in DOMAIN Written(rs, rows) : Written(rs, rows)[n].action \in Actions
<1> DEFINE T == {r.name : r \in rs}
           of(n) == CHOOSE x \in rs : x.name = n
<1>1. T \subseteq Names
  BY DEF RuleRight
<1>2. SavedAs(rs) = [n \in T |-> [action |-> of(n).action, ignores |-> of(n).ignores]]
  BY DEF SavedAs
<1>3. \A n \in T : of(n) \in rs
  OBVIOUS
<1>4. \A n \in T : of(n).action \in Actions
  BY <1>3 DEF RuleRight
<1>5. T = {r.name : r \in rs}
  OBVIOUS
<1> HIDE DEF T, of
<1>6. DOMAIN SavedAs(rs) = T /\ \A n \in T : SavedAs(rs)[n].action \in Actions
  BY <1>2, <1>4
<1>7. DOMAIN Written(rs, rows) = T \cup DOMAIN rows
  BY <1>6 DEF Written
<1>8. \A n \in T \cup DOMAIN rows : Written(rs, rows)[n].action \in Actions
  BY <1>6 DEF Written
<1>9. QED
  BY <1>1, <1>5, <1>7, <1>8

\* add_watch: everyone on the channel or with the nick is dealt with at once, and Guardian comes.
LEMMA WatchAdds ==
    ASSUME WatchInv, setup' = setup, SessionsInv', Loaded("g_watch"),
           NEW rows, DOMAIN rows \subseteq Names, \A n \in DOMAIN rows : rows[n].action \in Actions,
           NEW kept, RulesRight(kept), ToSet(kept) \subseteq ToSet(rules), Rowed(kept, rows),
           NEW wants, wants \in Seq(ToSet(wants)), Wants(wants), NEW config \in BOOLEAN, NEW ours, NEW before,
           \A r \in ToSet(kept) : r.chan \notin Nicks /\ Apart(r.chan) /\ Guardian \in members[r.chan] => r.chan \in ours,
           AddWatch(kept, wants, config, ours, rows, before), watchq' = Dangling(watchq), Missing({}),
           UNCHANGED <<loaded, chain, guest, ousted, wtimer>>
    PROVE  WatchInv'
<1> DEFINE list == Added(kept, wants, config, ours)
           new  == ToSet(list) \ ToSet(kept)
           acts == {<<Present(r), r>> : r \in new}
           stay == ours \cup {r.chan : r \in new}
<1>1. SoFar(list, kept, wants, config, Len(wants))
  BY AddedRight, WatchFacts
<1>2. /\ Strike(acts, stay) /\ rules' = Orphaned(list)
      /\ wrows' = IF config THEN rows ELSE Written(new, rows)
  BY DEF AddWatch
<1> HIDE DEF list
<1>3. RulesRight(list) /\ ToSet(list) = ToSet(kept) \cup new /\ \A r \in new : IsNew(r, wants, config)
  BY <1>1 DEF SoFar
<1> HIDE DEF new
<1>4. Follows(list)
  BY <1>2, <1>3, FollowsOrphaned
<1>5. /\ Live' = Live \ Deaths(acts) /\ \A a \in Live' : user'[a] = user[a]
      /\ \A c \in Chans : Guardian \in members'[c] <=> c \in stay
      /\ \A c \in Chans, a \in Live' : a \in members'[c] <=> a \in members[c] /\ a \notin Kicked(acts, c)
  <2> HIDE DEF acts, stay
  <2>1. QED
    BY <1>2, StrikeDoes, WatchFacts
<1>6. ASSUME NEW r \in ToSet(list) PROVE RuleRight(r) /\ (r.chan \notin Nicks => r.chan \in Chans)
  BY <1>3 DEF RulesRight, RuleRight, Names
<1>7. ASSUME NEW r \in ToSet(list), r.chan \notin Nicks \cup ousted', Apart(r.chan)
      PROVE  Guardian \in members'[r.chan] /\ ~r.lost
  <2>1. CASE r \in new
    BY <1>3, <1>5, <1>6, <1>7, <2>1 DEF IsNew
  <2>2. CASE r \in ToSet(kept)
    <3>1. Guardian \in members[r.chan] /\ ~r.lost
      BY <1>7, <2>2, WatchFacts
    <3>2. QED
      BY <1>5, <1>6, <1>7, <2>2, <3>1
  <2>3. QED
    BY <1>3, <2>1, <2>2
<1> DEFINE M == missed
<1>8. ASSUME NEW r \in ToSet(list), NEW a \in Live', Wanted(a, r)'
      PROVE  Due(a, r)' \/ Pair(a, r) \in M \/ (wtimer' /\ Pair(a, r) \in ToSet(watchq'))
  <2>1. a \in Live /\ user'[a] = user[a] /\ (r.chan \notin Nicks /\ a \in members'[r.chan] => a \in members[r.chan])
    BY <1>5, <1>6
  <2>2. CASE r \in new
    <3>1. a \in Present(r)
      <4>1. a \in Present(r)'
        BY <1>8 DEF Wanted, Hit
      <4>2. QED
        BY <2>1, <4>1 DEF Present
    <3>2. <<Present(r), r>> \in acts
      BY <2>2
    <3>3. \A c \in Chans : a \in members'[c] => a \notin Kicked(acts, c)
      BY <1>5
    <3> HIDE DEF acts
    <3>4. ~Wanted(a, r)'
      BY <1>5, <1>6, <2>1, <3>1, <3>2, <3>3, StruckDown
    <3>5. QED
      BY <1>8, <3>4
  <2>3. CASE r \in ToSet(kept)
    <3>1. r \in ToSet(rules)
      BY <2>3
    <3>2. Due(a, r) \/ Pair(a, r) \in missed \/ (wtimer /\ Pair(a, r) \in ToSet(watchq))
      BY <1>8, <2>1, <3>1, OldRule
    <3>3. \E s \in ToSet(rules') : s.id = r.id
      BY <1>4 DEF Follows, Alike
    <3>4. Pair(a, r) \in ToSet(watchq) => Pair(a, r) \in ToSet(watchq')
      BY <3>3, WaitsOn, WatchFacts DEF Pair
    <3>5. QED
      BY <3>2, <3>4 DEF Due
  <2>4. QED
    BY <1>3, <2>2, <2>3
<1>9. /\ DOMAIN wrows' \subseteq Names /\ \A n \in DOMAIN wrows' : wrows'[n].action \in Actions
      /\ Rowed(list, wrows')
  <2>1. CASE config
    <3>1. \A r \in ToSet(list) : ~r.config => r \in ToSet(kept)
      BY <1>3, <2>1 DEF IsNew
    <3>2. QED
      BY <1>2, <1>3, <2>1, <3>1 DEF Rowed
  <2>2. CASE ~config
    <3>1. \A r \in new : RuleRight(r) /\ ~r.config
      BY <1>3, <2>2 DEF IsNew
    <3>2. wrows' = Written(new, rows)
      BY <1>2, <2>2
    <3>3. /\ DOMAIN Written(new, rows) = {r.name : r \in new} \cup DOMAIN rows
          /\ DOMAIN Written(new, rows) \subseteq Names
          /\ \A n \in DOMAIN Written(new, rows) : Written(new, rows)[n].action \in Actions
      BY <3>1, WrittenRows
    <3>4. Rowed(list, wrows')
      BY <1>3, <3>1, <3>2, <3>3 DEF Rowed
    <3>5. QED
      BY <3>2, <3>3, <3>4
  <2>3. QED
    BY <2>1, <2>2
<1>10. Loaded("g_watch")' /\ M \cap Owed' \subseteq missed'
  BY DEF Loaded, Missing
<1> HIDE DEF M
<1>11. QED
  BY <1>4, <1>7, <1>8, <1>9, <1>10, WatchFrom

LEMMA WatchAddStep ==
    ASSUME WatchInv, SessionsInv', NEW want \in setup.wants, WatchAdd(want)
    PROVE  WatchInv'
<1> DEFINE wants == <<want>>
<1>1. wants \in Seq(ToSet(wants)) /\ Wants(wants)
  <2>1. ToSet(wants) = {want} /\ wants \in Seq({want})
    BY DEF ToSet
  <2>2. Wants(wants)
    BY <2>1, RulesAssumption, WatchFacts DEF Wants, Names, Chans
  <2>3. QED
    BY <2>1, <2>2, ListOf
<1>2. /\ AddWatch(rules, wants, FALSE, Ours, wrows, fault) /\ watchq' = Dangling(watchq) /\ Loaded("g_watch")
      /\ UNCHANGED <<setup, loaded, chain, guest, ousted, wtimer>> /\ FALSE \in BOOLEAN /\ Missing({})
  BY DEF WatchAdd
<1> HIDE DEF wants
<1>3. \A r \in ToSet(rules) : r.chan \notin Nicks /\ Guardian \in members[r.chan] => r.chan \in Ours
  BY WatchFacts DEF Ours, RuleRight, Names
<1>4. Rowed(rules, wrows) /\ DOMAIN wrows \subseteq Names /\ \A n \in DOMAIN wrows : wrows[n].action \in Actions
  BY <1>2, WatchFacts
<1>5. RulesRight(rules) /\ ToSet(rules) \subseteq ToSet(rules)
  BY WatchFacts
<1>6. QED
  BY <1>1, <1>2, <1>3, <1>4, <1>5, WatchAdds

\* load_watch: what is kept and what goes of the rules; the rows go with the rules.
LEMMA WatchRehashStep ==
    ASSUME WatchInv, SessionsInv', WatchRehash
    PROVE  WatchInv'
<1> DEFINE wants == setup.watches
           gone  == {rules[i] : i \in ConfigGoes}
           kept  == Picked(rules, DOMAIN rules \ ConfigGoes)
           own   == {r.name : r \in {x \in gone : ~x.config}}
           rows  == Restrict(wrows, DOMAIN wrows \ own)
           ours  == Staying(gone)
<1>1. wants \in Seq(ToSet(wants)) /\ Wants(wants)
  BY VisitorsAssumption, RulesAssumption, WatchFacts DEF Wants, Names, Chans
<1>2. /\ AddWatch(kept, wants, TRUE, ours, rows, Fallen(gone)) /\ watchq' = Dangling(watchq) /\ Loaded("g_watch")
      /\ UNCHANGED <<setup, loaded, chain, guest, ousted, wtimer>> /\ TRUE \in BOOLEAN /\ Missing({})
  BY DEF WatchRehash
<1> HIDE DEF wants
<1>3. ConfigGoes \subseteq DOMAIN rules
  BY DEF ConfigGoes
<1>4. IsInjective(rules) /\ DOMAIN rules = 1..Len(rules) /\ \A i \in DOMAIN rules : rules[i] \in ToSet(rules)
  BY WatchFacts DEF RulesRight, ToSet
<1>5. /\ kept \in Seq(ToSet(rules)) /\ IsInjective(kept)
      /\ ToSet(kept) = {rules[i] : i \in DOMAIN rules \ ConfigGoes}
  <2> DEFINE I == DOMAIN rules \ ConfigGoes
             S == ToSet(rules)
  <2>1. I \in SUBSET (1..Len(rules)) /\ rules \in Seq(S)
    BY <1>4, WatchFacts
  <2> HIDE DEF I, S
  <2>2. Picked(rules, I) \in Seq(S)
    BY <2>1, PickedKeeps
  <2>3. IsInjective(Picked(rules, I)) /\ ToSet(Picked(rules, I)) = {rules[i] : i \in I}
    BY <1>4, <2>1, PickedInjective
  <2>4. QED
    BY <2>2, <2>3 DEF I, S
<1>6. \A r \in ToSet(rules) : r \in ToSet(kept) <=> r \notin gone
  <2>1. ASSUME NEW r \in ToSet(rules) PROVE r \in ToSet(kept) \/ r \in gone
    BY <1>5, <2>1 DEF ToSet
  <2>2. ASSUME NEW i \in DOMAIN rules \ ConfigGoes, NEW j \in ConfigGoes PROVE rules[i] # rules[j]
    BY <1>3, <1>4 DEF IsInjective
  <2>3. QED
    BY <1>5, <2>1, <2>2
<1>7. gone \subseteq ToSet(rules) /\ ToSet(kept) \subseteq ToSet(rules)
  BY <1>3, <1>4, <1>5
<1> HIDE DEF gone, kept
<1>8. RulesRight(kept)
  <2>1. kept \in Seq(ToSet(kept))
    BY <1>5, ListOf
  <2>2. QED
    BY <1>5, <1>7, <2>1, WatchFacts DEF RulesRight
<1>9. /\ Rowed(rules, wrows) /\ DOMAIN wrows \subseteq Names /\ \A n \in DOMAIN wrows : wrows[n].action \in Actions
      /\ \A r \in ToSet(rules) : RuleRight(r)
      /\ \A r, s \in ToSet(rules) : Apart(r.chan) /\ r.chan = s.chan => r = s
  BY <1>2, WatchFacts DEF RulesRight
<1>10. DOMAIN rows = DOMAIN wrows \ own /\ \A n \in DOMAIN rows : rows[n] = wrows[n]
  <2> HIDE DEF own
  <2>1. QED
    BY DEF Restrict
<1>11. \A n : n \in own <=> \E r \in gone : ~r.config /\ r.name = n
  OBVIOUS
<1> HIDE DEF rows, own
<1>12. ASSUME NEW n \in Names, Apart(n)
       PROVE  n \in DOMAIN rows <=> \E r \in ToSet(kept) : ~r.config /\ r.name = n
  <2>1. n \in DOMAIN wrows <=> \E r \in ToSet(rules) : ~r.config /\ r.name = n
    BY <1>9, <1>12 DEF Rowed
  <2>2. \A r, s \in ToSet(rules) : r.name = n /\ s.name = n => r = s
    <3>1. \A r \in ToSet(rules) : r.name = n <=> r.chan = n
      BY <1>9, <1>12, NamesApart, WatchFacts
    <3>2. QED
      BY <1>9, <1>12, <3>1
  <2>3. QED
    BY <1>6, <1>7, <1>10, <1>11, <2>1, <2>2
<1>13. Rowed(kept, rows)
  BY <1>12 DEF Rowed
<1>14. ASSUME NEW r \in ToSet(kept), r.chan \notin Nicks, Apart(r.chan), Guardian \in members[r.chan]
       PROVE  r.chan \in ours
  <2>1. r.chan \in Ours
    BY <1>7, <1>9, <1>14 DEF Ours, RuleRight, Names
  <2>2. ASSUME NEW s \in gone PROVE s.chan # r.chan
    BY <1>6, <1>7, <1>9, <1>14
  <2>3. QED
    BY <2>1, <2>2 DEF Staying
<1> HIDE DEF ours
<1>15. DOMAIN rows \subseteq Names /\ \A n \in DOMAIN rows : rows[n].action \in Actions
  BY <1>9, <1>10
<1> DEFINE before == Fallen(gone)
<1>16. AddWatch(kept, wants, TRUE, ours, rows, before)
  BY <1>2
<1> HIDE DEF before
<1>17. QED
  BY <1>1, <1>2, <1>7, <1>8, <1>13, <1>14, <1>15, <1>16, WatchAdds

\* take_action was called for nobody; Guardian leaves the channels of the rules rs.
LEMMA StayingDoes ==
    ASSUME WatchInv, setup' = setup, NEW rs, Strike({}, Staying(rs))
    PROVE  /\ Live' = Live /\ \A a \in Live : user'[a] = user[a]
           /\ \A c \in Chans : Guardian \in members'[c] <=> c \in Staying(rs)
           /\ \A c \in Chans, a \in Live' : a \in members'[c] => a \in members[c]
<1> DEFINE acts == {}
           ours == Staying(rs)
<1>1. Deaths(acts) = {} /\ Strike(acts, ours) /\ ChainRight
  BY WatchFacts DEF Deaths
<1> HIDE DEF acts, ours
<1>2. /\ Live' = Live \ Deaths(acts) /\ \A a \in Live' : user'[a] = user[a]
      /\ \A c \in Chans : Guardian \in members'[c] <=> c \in ours
      /\ \A c \in Chans, a \in Live' : a \in members'[c] <=> a \in members[c] /\ a \notin Kicked(acts, c)
  BY <1>1, StrikeDoes
<1>3. QED
  BY <1>1, <1>2 DEF ours

LEMMA WatchRemoveStep ==
    ASSUME WatchInv, SessionsInv', NEW name, WatchRemove(name)
    PROVE  WatchInv'
<1> DEFINE r == rules[IsWatched(rules, name)]
           list == RemoveFirst(rules, r)
<1>1. /\ Strike({}, Staying({r})) /\ rules' = Orphaned(list) /\ watchq' = Dangling(watchq)
      /\ wrows' = IF r.config THEN wrows ELSE Restrict(wrows, DOMAIN wrows \ {name})
      /\ Loaded("g_watch") /\ UNCHANGED <<setup, loaded, chain, guest, ousted, wtimer>> /\ Missing({})
  BY DEF WatchRemove
<1>2. r \in ToSet(rules) /\ r.name = name
  BY IsWatchedFinds, WatchFacts DEF WatchRemove
<1> HIDE DEF r
<1>3. list \in Seq(ToSet(rules)) /\ IsInjective(list) /\ ToSet(list) = ToSet(rules) \ {r}
  BY <1>2, RemovedKeeps, WatchFacts DEF RulesRight
<1> HIDE DEF list
<1>4. RulesRight(list)
  <2>1. list \in Seq(ToSet(list))
    BY <1>3, ListOf
  <2>2. QED
    BY <1>3, <2>1, WatchFacts DEF RulesRight
<1>5. Follows(list)
  BY <1>1, <1>4, FollowsOrphaned
<1>6. /\ Live' = Live /\ \A a \in Live : user'[a] = user[a]
      /\ \A c \in Chans : Guardian \in members'[c] <=> c \in Staying({r})
      /\ \A c \in Chans, a \in Live' : a \in members'[c] => a \in members[c]
  BY <1>1, StayingDoes
<1>7. ASSUME NEW s \in ToSet(list)
      PROVE  s \in ToSet(rules) /\ (Apart(s.chan) => s.chan # r.chan) /\ (s.chan \notin Nicks => s.chan \in Chans)
  BY <1>2, <1>3, WatchFacts DEF RulesRight, RuleRight, Names
<1>8. ASSUME NEW s \in ToSet(list), s.chan \notin Nicks \cup ousted', Apart(s.chan)
      PROVE  Guardian \in members'[s.chan] /\ ~s.lost
  <2>1. Guardian \in members[s.chan] /\ ~s.lost
    BY <1>1, <1>7, <1>8, WatchFacts
  <2>2. s.chan \in Staying({r})
    BY <1>7, <1>8, <2>1 DEF Staying, Ours
  <2>3. QED
    BY <1>6, <1>7, <1>8, <2>1, <2>2
<1> DEFINE M == missed
<1>9. ASSUME NEW s \in ToSet(list), NEW a \in Live', Wanted(a, s)'
      PROVE  Due(a, s)' \/ Pair(a, s) \in M \/ (wtimer' /\ Pair(a, s) \in ToSet(watchq'))
  <2>1. Due(a, s) \/ Pair(a, s) \in missed \/ (wtimer /\ Pair(a, s) \in ToSet(watchq))
    BY <1>1, <1>6, <1>7, <1>9, OldRule
  <2>2. \E x \in ToSet(rules') : x.id = s.id
    BY <1>5 DEF Follows, Alike
  <2>3. Pair(a, s) \in ToSet(watchq) => Pair(a, s) \in ToSet(watchq')
    BY <1>1, <2>2, WaitsOn, WatchFacts DEF Pair
  <2>4. QED
    BY <1>1, <2>1, <2>3 DEF Due
<1>10. /\ DOMAIN wrows' \subseteq Names /\ \A n \in DOMAIN wrows' : wrows'[n].action \in Actions
       /\ Rowed(list, wrows')
  <2>1. /\ DOMAIN wrows \subseteq Names /\ \A n \in DOMAIN wrows : wrows[n].action \in Actions
        /\ Rowed(rules, wrows)
    BY <1>1, WatchFacts
  <2>2. CASE r.config
    <3>1. \A s : ~s.config => (s \in ToSet(list) <=> s \in ToSet(rules))
      BY <1>3, <2>2
    <3>2. QED
      BY <1>1, <2>1, <2>2, <3>1 DEF Rowed
  <2>3. CASE ~r.config
    <3>1. wrows' = [n \in DOMAIN wrows \ {name} |-> wrows[n]]
      BY <1>1, <2>3 DEF Restrict
    <3>2. ASSUME NEW n \in Names, Apart(n)
          PROVE  n \in DOMAIN wrows' <=> \E s \in ToSet(list) : ~s.config /\ s.name = n
      <4>1. n \in DOMAIN wrows <=> \E s \in ToSet(rules) : ~s.config /\ s.name = n
        BY <2>1, <3>2 DEF Rowed
      <4>2. CASE n # name
        BY <1>2, <1>3, <3>1, <4>1, <4>2
      <4>3. CASE n = name
        <5>1. \A s \in ToSet(rules) : s.name = n <=> s.chan = n
          BY <3>2, NamesApart, WatchFacts
        <5>2. \A s \in ToSet(list) : s.name # n
          BY <1>2, <1>3, <1>7, <3>2, <4>3, <5>1
        <5>3. QED
          BY <3>1, <4>3, <5>2
      <4>4. QED
        BY <4>2, <4>3
    <3>3. QED
      BY <2>1, <3>1, <3>2 DEF Rowed
  <2>4. QED
    BY <2>2, <2>3
<1>11. Loaded("g_watch")' /\ M \cap Owed' \subseteq missed'
  BY <1>1 DEF Loaded, Missing
<1> HIDE DEF M
<1>12. QED
  BY <1>1, <1>5, <1>8, <1>9, <1>10, <1>11, WatchFrom

\* WATCH SET ACTION: the rule is another, and nobody is looked at again.
LEMMA WatchSetStep ==
    ASSUME WatchInv, SessionsInv', NEW name, NEW action \in Actions, WatchSet(name, action)
    PROVE  WatchInv'
<1> DEFINE i == IsWatched(rules, name)
           r == rules[i]
           v == IF name \in Nicks /\ action = "kick" THEN "kill" ELSE action
           new == [r EXCEPT !.action = v]
<1>1. /\ rules' = [rules EXCEPT ![i] = new] /\ Loaded("g_watch") /\ chain = <<>> /\ Missing(Owed' \ Owed)
      /\ UNCHANGED <<setup, loaded, user, members, watchq, wtimer, wrows, ousted>>
  BY DEF WatchSet, visitorVars, Quiet, Calm
<1>2. i \in DOMAIN rules /\ r \in ToSet(rules) /\ r.name = name
  BY IsWatchedFinds, WatchFacts DEF WatchSet
<1>3. RuleRight(r)
  BY <1>2, WatchFacts
<1>4. v \in Actions /\ (r.chan \in Nicks => v # "kick")
  BY <1>2, <1>3 DEF Actions, RuleRight, NameOf
<1> HIDE DEF i
<1>5. new = [id |-> r.id, name |-> r.name, chan |-> r.chan, action |-> v, ignores |-> r.ignores,
             config |-> r.config, existing |-> r.existing, lost |-> r.lost]
  <2>1. r = [id |-> r.id, name |-> r.name, chan |-> r.chan, action |-> r.action, ignores |-> r.ignores,
             config |-> r.config, existing |-> r.existing, lost |-> r.lost]
    BY <1>3 DEF RuleRight
  <2>2. new = [r EXCEPT !.action = v]
    OBVIOUS
  <2> HIDE DEF r, v, new
  <2>3. QED
    BY <2>1, <2>2
<1> HIDE DEF r, new, v
<1>6. /\ RuleRight(new) /\ new.chan = r.chan /\ new.id = r.id /\ new.name = r.name
      /\ new.config = r.config /\ new.lost = r.lost
  BY <1>3, <1>4, <1>5 DEF RuleRight
<1>7. rules \in Seq(ToSet(rules)) /\ DOMAIN rules = 1..Len(rules) /\ Len(rules) \in Nat
  BY WatchFacts
<1> DEFINE R(k) == IF k = i THEN new ELSE rules[k]
<1>8. DOMAIN rules' = DOMAIN rules /\ \A k \in DOMAIN rules : rules'[k] = R(k)
  BY <1>1
<1>9. ASSUME NEW k \in DOMAIN rules
      PROVE  /\ RuleRight(R(k)) /\ R(k).chan = rules[k].chan /\ R(k).id = rules[k].id
             /\ R(k).name = rules[k].name /\ R(k).config = rules[k].config /\ R(k).lost = rules[k].lost
             /\ rules[k] \in ToSet(rules)
  <2>1. rules[k] \in ToSet(rules) /\ RuleRight(rules[k])
    BY WatchFacts DEF ToSet
  <2>2. QED
    BY <1>6, <2>1 DEF r
<1> HIDE DEF R
<1>10. RulesRight(rules')
  <2>1. rules' = [k \in 1..Len(rules) |-> R(k)] /\ \A k \in 1..Len(rules) : R(k) \in ToSet(rules')
    BY <1>1, <1>7, <1>8 DEF ToSet
  <2>2. rules' \in Seq(ToSet(rules'))
    BY <1>7, <2>1
  <2>3. ASSUME NEW j \in DOMAIN rules, NEW k \in DOMAIN rules,
               (Apart(R(j).chan) /\ R(j).chan = R(k).chan) \/ R(j).id = R(k).id
        PROVE  j = k
    <3>1. rules[j] = rules[k]
      BY <1>9, <2>3, WatchFacts DEF RulesRight
    <3>2. QED
      BY <3>1, WatchFacts DEF RulesRight, IsInjective
  <2>4. IsInjective(rules')
    BY <1>8, <2>3 DEF IsInjective
  <2>5. \A x \in ToSet(rules') : RuleRight(x)
    BY <1>8, <1>9 DEF ToSet
  <2>6. \A x, y \in ToSet(rules') : x.id = y.id \/ (Apart(x.chan) /\ x.chan = y.chan) => x = y
    BY <1>8, <2>3 DEF ToSet
  <2>7. QED
    BY <2>2, <2>4, <2>5, <2>6 DEF RulesRight
<1> DEFINE list == rules'
<1>11. /\ \A s \in ToSet(list) : \E x \in ToSet(rules) :
             s.chan = x.chan /\ s.name = x.name /\ s.config = x.config /\ s.lost = x.lost
       /\ \A x \in ToSet(rules) : \E s \in ToSet(list) : s.name = x.name /\ s.config = x.config
  BY <1>8, <1>9 DEF ToSet
<1>12. Follows(list)
  <2>1. RulesRight(list)
    BY <1>10
  <2>2. RulesRight(rules)'
    BY <1>1, <1>10 DEF RulesRight, RuleRight, Names, Chans, Apart
  <2>3. \A x : Alike(x, x)
    BY DEF Alike
  <2>4. QED
    BY <2>1, <2>2, <2>3 DEF Follows
<1>13. list = rules'
  OBVIOUS
<1> HIDE DEF list
<1>14. Rowed(list, wrows)
  <2>1. Rowed(rules, wrows)
    BY <1>1, WatchFacts
  <2>2. QED
    BY <1>11, <2>1 DEF Rowed
<1>15. \A s \in ToSet(list) : s.chan \notin Nicks \cup ousted' /\ Apart(s.chan) => Guardian \in members'[s.chan] /\ ~s.lost
  BY <1>1, <1>11, WatchFacts
<1>16. Live' = Live
  BY <1>1 DEF Live
<1>17. QED
  BY <1>1, <1>12, <1>13, <1>14, <1>15, <1>16, WatchSeesLate

\* save_watchdb writes the rows that are there.
LEMMA WatchSaveStep ==
    ASSUME WatchInv, SessionsInv', SaveWatchdb
    PROVE  WatchInv'
<1>1. /\ UNCHANGED <<setup, loaded, user, members, chain, guest, rules, watchq, ousted, wtimer, missed>>
      /\ wrows' = Written(ToSet(OwnRules), wrows) /\ Loaded("g_watch")
  BY DEF SaveWatchdb, visitorVars
<1>2. ToSet(OwnRules) = {r \in ToSet(rules) : ~r.config} /\ \A r \in ToSet(OwnRules) : RuleRight(r)
  BY OwnRulesAre, WatchFacts DEF RulesRight
<1>3. /\ DOMAIN wrows' \subseteq Names /\ \A n \in DOMAIN wrows' : wrows'[n].action \in Actions
      /\ Rowed(rules, wrows')
  <2>1. /\ Rowed(rules, wrows) /\ DOMAIN wrows \subseteq Names
        /\ \A n \in DOMAIN wrows : wrows[n].action \in Actions
    BY <1>1, WatchFacts
  <2>2. DOMAIN wrows' = {r.name : r \in ToSet(OwnRules)} \cup DOMAIN wrows
    BY <1>1, <1>2, <2>1, WrittenRows
  <2>3. DOMAIN wrows' \subseteq Names /\ \A n \in DOMAIN wrows' : wrows'[n].action \in Actions
    BY <1>1, <1>2, <2>1, WrittenRows
  <2>4. Rowed(rules, wrows')
    BY <1>2, <2>1, <2>2 DEF Rowed
  <2>5. QED
    BY <2>3, <2>4
<1>4. Follows(rules)
  BY <1>1, FollowsSame, WatchFacts
<1> DEFINE M == missed
<1>5. ASSUME NEW r \in ToSet(rules), NEW a \in Live', Wanted(a, r)'
      PROVE  Due(a, r)' \/ Pair(a, r) \in M \/ (wtimer' /\ Pair(a, r) \in ToSet(watchq'))
  <2>1. a \in Live
    BY <1>1 DEF Live
  <2>2. Due(a, r) \/ Pair(a, r) \in missed \/ (wtimer /\ Pair(a, r) \in ToSet(watchq))
    BY <1>1, <1>5, <2>1, OldRule
  <2>3. QED
    BY <1>1, <2>2 DEF Due
<1>6. \A r \in ToSet(rules) : r.chan \notin Nicks \cup ousted' /\ Apart(r.chan) => Guardian \in members'[r.chan] /\ ~r.lost
  BY <1>1, WatchFacts
<1>7. Loaded("g_watch")' /\ M \cap Owed' \subseteq missed'
  BY <1>1 DEF Loaded
<1> HIDE DEF M
<1>8. QED
  BY <1>1, <1>3, <1>4, <1>5, <1>6, <1>7, WatchFrom

\* Module_Close: no rule is left.
LEMMA WatchUnloadStep ==
    ASSUME WatchInv, SessionsInv', UnloadWatch
    PROVE  WatchInv'
<1>1. /\ UnloadModule("g_watch") /\ setup' = setup /\ rules' = <<>>
      /\ wrows' = Written(ToSet(OwnRules), wrows)
  BY DEF UnloadWatch
<1>2. ~Loaded("g_watch")'
  BY <1>1, ModulesComeAndGo, WatchFacts DEF ChainRight, LoadModule, UnloadModule
<1>3. DOMAIN wrows' \subseteq Names /\ \A n \in DOMAIN wrows' : wrows'[n].action \in Actions
  <2>1. \A r \in ToSet(OwnRules) : RuleRight(r)
    BY OwnRulesAre, WatchFacts DEF RulesRight
  <2>2. QED
    BY <1>1, <2>1, WrittenRows, WatchFacts
<1>4. ToSet(<<>>) = {} /\ RulesRight(<<>>)
  BY DEF RulesRight, ToSet, IsInjective
<1>5. Follows(<<>>)
  <2>1. RulesRight(rules)'
    BY <1>1, <1>4 DEF RulesRight, RuleRight, Names, Chans, Apart
  <2>2. QED
    BY <1>1, <1>4, <2>1 DEF Follows
<1> DEFINE M == {}
           list == <<>>
<1>6. M \cap Owed' \subseteq missed' /\ ToSet(list) = {} /\ list = <<>> /\ Follows(list)
  BY <1>4, <1>5
<1> HIDE DEF M, list
<1>7. QED
  BY <1>1, <1>2, <1>3, <1>6, WatchFrom

\* The rows are wanted, each of them.
LEMMA RowsWanted ==
    ASSUME IsFiniteSet(DOMAIN wrows)
    PROVE  /\ \A w \in ToSet(RowsAsWants) : \E n \in DOMAIN wrows : w.pattern = n /\ w.action = wrows[n].action
           /\ \A n \in DOMAIN wrows : \E i \in 1..Len(RowsAsWants) : RowsAsWants[i].pattern = n
<1> DEFINE row(n) == [pattern |-> n, action |-> wrows[n].action, ignores |-> wrows[n].ignores]
           S == {row(n) : n \in DOMAIN wrows}
           f == [n \in DOMAIN wrows |-> row(n)]
           k == Cardinality(S)
           l == RowsAsWants
<1>1. f \in Surjection(DOMAIN wrows, S)
  BY DEF Surjection
<1>2. l = CHOOSE x \in [1..k -> S] : IsInjective(x)
  BY DEF RowsAsWants, SetToSeq
<1>3. /\ \A w \in S : \E n \in DOMAIN wrows : w.pattern = n /\ w.action = wrows[n].action
      /\ \A n \in DOMAIN wrows : \E w \in S : w.pattern = n
  <2>1. ASSUME NEW w \in S PROVE \E n \in DOMAIN wrows : w.pattern = n /\ w.action = wrows[n].action
    <3>1. PICK n \in DOMAIN wrows : w = row(n)
      OBVIOUS
    <3>2. w.pattern = n /\ w.action = wrows[n].action
      BY <3>1
    <3>3. QED
      BY <3>2
  <2>2. ASSUME NEW n \in DOMAIN wrows PROVE \E w \in S : w.pattern = n
    <3>1. row(n) \in S /\ row(n).pattern = n
      OBVIOUS
    <3>2. QED
      BY <3>1
  <2>3. QED
    BY <2>1, <2>2
<1> HIDE DEF f, S, l
<1>4. IsFiniteSet(S)
  BY <1>1, FS_Surjection
<1>5. k \in Nat /\ ExistsBijection(1..k, S)
  BY <1>4, FS_CardinalityType
<1>6. \E x \in [1..k -> S] : IsInjective(x)
  BY <1>5 DEF ExistsBijection, Bijection, Injection, IsInjective
<1>7. l \in [1..k -> S] /\ IsInjective(l)
  BY <1>2, <1>6
<1>8. l \in Injection(1..k, S)
  BY <1>7 DEF Injection, IsInjective
<1> HIDE DEF k
<1>9. IsFiniteSet(1..k) /\ Cardinality(1..k) = k
  BY <1>5, FS_Interval
<1>10. l \in Surjection(1..k, S)
  BY <1>4, <1>8, <1>9, FS_Injection DEF k
<1>11. Len(l) = k /\ DOMAIN l = 1..k
  BY <1>5, <1>7
<1>12. \A w \in ToSet(l) : w \in S
  BY <1>7, <1>11 DEF ToSet
<1>13. \A w \in S : \E i \in 1..k : l[i] = w
  BY <1>10 DEF Surjection
<1>14. QED
  BY <1>3, <1>11, <1>12, <1>13 DEF l

\* Module_Init: the rules are those of the rows and then those of the configuration, and everyone
\* they are about is dealt with.
LEMMA WatchLoadStep ==
    ASSUME WatchInv, SessionsInv', LoadWatch
    PROVE  WatchInv'
<1> DEFINE rows == RowsAsWants
           own  == Added(<<>>, rows, FALSE, Ours)
           ours == Ours \cup {r.chan : r \in ToSet(own)}
           cfg  == setup.watches
           list == Added(own, cfg, TRUE, ours)
           acts == {<<Present(r), r>> : r \in ToSet(list)}
           stay == Ours \cup {r.chan : r \in ToSet(list)}
<1>1. /\ LoadModule("g_watch") /\ Strike(acts, stay) /\ rules' = Orphaned(list)
      /\ setup' = setup /\ wrows' = wrows
  BY DEF LoadWatch
<1>2. rows \in Seq(ToSet(rows)) /\ Wants(rows)
  <2>1. rows \in Seq(ToSet(rows))
    BY RowsInOrder, WatchFacts
  <2>2. Wants(rows)
    BY RowsWanted, WatchFacts DEF Wants
  <2>3. QED
    BY <2>1, <2>2
<1>3. \A n \in DOMAIN wrows : \E i \in 1..Len(rows) : rows[i].pattern = n
  BY RowsWanted, WatchFacts
<1>4. \A w \in ToSet(rows) : w.pattern \in DOMAIN wrows
  BY RowsWanted, WatchFacts
<1>5. ToSet(<<>>) = {} /\ RulesRight(<<>>)
  BY DEF RulesRight, ToSet, IsInjective
<1> HIDE DEF rows
<1>6. SoFar(own, <<>>, rows, FALSE, Len(rows))
  BY <1>2, <1>5, AddedRight, WatchFacts
<1> HIDE DEF own
<1>7. RulesRight(own) /\ \A r \in ToSet(own) : IsNew(r, rows, FALSE)
  BY <1>5, <1>6 DEF SoFar
<1>8. cfg \in Seq(ToSet(cfg)) /\ Wants(cfg)
  BY VisitorsAssumption, RulesAssumption, WatchFacts DEF Wants, Names, Chans
<1> HIDE DEF cfg, ours
<1>9. SoFar(list, own, cfg, TRUE, Len(cfg))
  BY <1>7, <1>8, AddedRight, WatchFacts
<1> HIDE DEF list
<1>10. RulesRight(list) /\ ToSet(own) \subseteq ToSet(list) /\ \A r \in ToSet(list) \ ToSet(own) : IsNew(r, cfg, TRUE)
  BY <1>9 DEF SoFar
<1>11. Follows(list)
  BY <1>1, <1>10, FollowsOrphaned
<1>12. /\ Live' = Live \ Deaths(acts) /\ \A a \in Live' : user'[a] = user[a]
       /\ \A c \in Chans : Guardian \in members'[c] <=> c \in stay
       /\ \A c \in Chans, a \in Live' : a \in members'[c] <=> a \in members[c] /\ a \notin Kicked(acts, c)
  <2> HIDE DEF acts, stay
  <2>1. QED
    BY <1>1, StrikeDoes, WatchFacts
<1>13. ASSUME NEW r \in ToSet(list) PROVE RuleRight(r) /\ (r.chan \notin Nicks => r.chan \in Chans) /\ ~r.lost
  BY <1>7, <1>10 DEF RulesRight, RuleRight, Names, IsNew
<1>14. ASSUME NEW r \in ToSet(list), r.chan \notin Nicks PROVE Guardian \in members'[r.chan] /\ ~r.lost
  BY <1>12, <1>13, <1>14
<1>15. ASSUME NEW r \in ToSet(list), NEW a \in Live' PROVE ~Wanted(a, r)'
  <2> SUFFICES ASSUME Wanted(a, r)' PROVE FALSE
    OBVIOUS
  <2>1. a \in Live /\ user'[a] = user[a] /\ (r.chan \notin Nicks /\ a \in members'[r.chan] => a \in members[r.chan])
    BY <1>12, <1>13
  <2>2. a \in Present(r)
    <3>1. a \in Present(r)'
      BY DEF Wanted, Hit
    <3>2. QED
      BY <2>1, <3>1 DEF Present
  <2>3. <<Present(r), r>> \in acts /\ \A c \in Chans : a \in members'[c] => a \notin Kicked(acts, c)
    BY <1>12
  <2> HIDE DEF acts
  <2>4. QED
    BY <1>1, <1>12, <1>13, <2>1, <2>2, <2>3, StruckDown
<1>16. Rowed(list, wrows)
  <2>1. ASSUME NEW n \in Names, Apart(n)
        PROVE  n \in DOMAIN wrows <=> \E r \in ToSet(list) : ~r.config /\ r.name = n
    <3>1. ASSUME n \in DOMAIN wrows PROVE \E r \in ToSet(list) : ~r.config /\ r.name = n
      <4>1. \E r \in ToSet(own) : r.name = n
        BY <1>3, <1>6, <2>1, <3>1 DEF SoFar
      <4>2. QED
        BY <1>7, <1>10, <4>1 DEF IsNew
    <3>2. ASSUME NEW r \in ToSet(list), ~r.config, r.name = n PROVE n \in DOMAIN wrows
      <4>1. r \in ToSet(own)
        BY <1>10, <3>2 DEF IsNew
      <4>2. r.chan = n
        BY <1>13, <2>1, <3>2, NamesApart, WatchFacts
      <4>3. \E w \in ToSet(rows) : w.pattern = n
        BY <1>7, <4>1, <4>2 DEF IsNew
      <4>4. QED
        BY <1>4, <4>3
    <3>3. QED
      BY <3>1, <3>2
  <2>2. QED
    BY <2>1 DEF Rowed
<1>17. Loaded("g_watch")'
  BY <1>1, ModulesComeAndGo, WatchFacts DEF ChainRight
<1> DEFINE M == {}
<1>18. M \cap Owed' \subseteq missed'
  OBVIOUS
<1> HIDE DEF M
<1>19. QED
  BY <1>1, <1>11, <1>14, <1>15, <1>16, <1>17, <1>18, WatchFrom, WatchFacts

LEMMA QueuedIn ==
    ASSUME NEW q, q \in Seq(ToSet(q)), NEW x
    PROVE  /\ x \in ToSet(Append(q, x)) /\ ToSet(q) \subseteq ToSet(Append(q, x))
           /\ q # <<>> => /\ Tail(q) \in Seq(ToSet(Tail(q)))
                          /\ \A y \in ToSet(q) : y = Head(q) \/ y \in ToSet(Tail(q))
<1>1. /\ Len(q) \in Nat /\ DOMAIN q = 1..Len(q) /\ DOMAIN Append(q, x) = 1..(Len(q) + 1)
      /\ Append(q, x)[Len(q) + 1] = x /\ \A i \in 1..Len(q) : Append(q, x)[i] = q[i]
  OBVIOUS
<1>2. x \in ToSet(Append(q, x))
  <2>1. Len(q) + 1 \in 1..(Len(q) + 1)
    BY <1>1
  <2>2. QED
    BY <1>1, <2>1 DEF ToSet
<1>3. ToSet(q) \subseteq ToSet(Append(q, x))
  <2>1. \A i \in 1..Len(q) : i \in 1..(Len(q) + 1)
    BY <1>1
  <2>2. QED
    BY <1>1, <2>1 DEF ToSet
<1>4. ASSUME q # <<>>
      PROVE  Tail(q) \in Seq(ToSet(Tail(q))) /\ \A y \in ToSet(q) : y = Head(q) \/ y \in ToSet(Tail(q))
  <2> DEFINE t == Tail(q)
  <2>1. /\ t \in Seq(ToSet(q)) /\ DOMAIN t = 1..(Len(q) - 1) /\ \A i \in 1..(Len(q) - 1) : t[i] = q[i + 1]
        /\ Head(q) = q[1]
    BY <1>4
  <2> HIDE DEF t
  <2>2. \A i \in 1..Len(q) : i = 1 \/ (i - 1 \in 1..(Len(q) - 1) /\ (i - 1) + 1 = i)
    BY <1>1
  <2>3. ASSUME NEW y \in ToSet(q) PROVE y = Head(q) \/ y \in ToSet(t)
    <3>1. PICK i \in 1..Len(q) : q[i] = y
      BY <1>1 DEF ToSet
    <3>2. CASE i = 1
      BY <2>1, <3>1, <3>2
    <3>3. CASE i # 1
      <4>1. t[i - 1] = y /\ i - 1 \in DOMAIN t
        BY <2>1, <2>2, <3>1, <3>3
      <4>2. QED
        BY <4>1 DEF ToSet
    <3>4. QED
      BY <3>2, <3>3
  <2>4. t \in Seq(ToSet(t))
    BY <2>1, ListOf
  <2>5. QED
    BY <2>3, <2>4 DEF t
<1>5. QED
  BY <1>2, <1>3, <1>4

\* The user b has met the rule r and passed the others by, for all that is new about him.
LEMMA WatchMeets ==
    ASSUME WatchInv, setup' = setup, SessionsInv', NEW b \in Live, NEW r \in ToSet(rules), NEW others,
           Meets(b, r, others), NEW on, members' = Left(on, b, r),
           \A c \in Chans : members[c] \subseteq on[c] /\ on[c] \subseteq members[c] \cup {b},
           UNCHANGED <<loaded, guest, wrows, ousted, wtimer>>,
           \A s \in ToSet(rules), a \in Live :
               Due(a, s) \/ (s.chan \notin Nicks /\ a \in on[s.chan] /\ a \notin members[s.chan])
               => Due(a, s)' \/ (a = b /\ (s = r \/ s \in others))
    PROVE  WatchInv'
<1> DEFINE acts == {<<{b}, r>>}
           N == [user : {b}, rule : {x.id : x \in others \cup (IF sync = "bursting" /\ ~wtimer THEN {r} ELSE {})}]
           M == missed \cup N
<1>1. \A s : s \in others \/ (s = r /\ sync = "bursting" /\ ~wtimer) => Pair(b, s) \in N
  BY DEF Pair
<1>2. Missing(N)
  <2>1. CASE sync = "bursting"
    <3>1. (IF sync = "bursting" /\ ~wtimer THEN {r} ELSE {}) = IF wtimer THEN {} ELSE {r}
      BY <2>1
    <3>2. Missing([user : {b}, rule : {x.id : x \in others \cup (IF wtimer THEN {} ELSE {r})}])
      BY <2>1 DEF Meets
    <3>3. QED
      BY <3>1, <3>2
  <2>2. CASE sync # "bursting"
    <3>1. others \cup (IF sync = "bursting" /\ ~wtimer THEN {r} ELSE {}) = others
      BY <2>2
    <3>2. Missing([user : {b}, rule : {x.id : x \in others}])
      BY <2>2 DEF Meets
    <3>3. QED
      BY <3>1, <3>2
  <2>3. QED
    BY <2>1, <2>2
<1> HIDE DEF N
<1>3. M \cap Owed' \subseteq missed'
  BY <1>2 DEF Missing
<1>4. ASSUME NEW s \in ToSet(rules) PROVE RuleRight(s) /\ (s.chan \notin Nicks => s.chan \in Chans)
  BY WatchFacts DEF RuleRight, Names
<1>5. b # Guardian
  BY WatchFacts
<1>6. /\ watchq \in Seq(ToSet(watchq)) /\ (Loaded("g_watch") \/ rules = <<>>) /\ RulesRight(rules)
      /\ DOMAIN wrows \subseteq Names /\ \A n \in DOMAIN wrows : wrows[n].action \in Actions
      /\ Loaded("g_watch") => Rowed(rules, wrows)
  BY WatchFacts
<1>7. Loaded("g_watch")' = Loaded("g_watch")
  BY DEF Loaded
\* What is excused, or met.
<1>8. ASSUME NEW s \in ToSet(rules), NEW a \in Live, a \in Live', user'[a] = user[a], Wanted(a, s)',
             \A c \in Chans : members'[c] \subseteq on[c]
      PROVE  Due(a, s)' \/ Pair(a, s) \in missed \/ (wtimer /\ Pair(a, s) \in ToSet(watchq)) \/ (a = b /\ (s = r \/ s \in others))
  <2>1. CASE s.chan \notin Nicks /\ a \in members'[s.chan] /\ a \notin members[s.chan]
    <3>1. a \in on[s.chan]
      BY <1>4, <1>8, <2>1
    <3>2. QED
      BY <2>1, <3>1
  <2>2. CASE ~(s.chan \notin Nicks /\ a \in members'[s.chan] /\ a \notin members[s.chan])
    <3>1. Due(a, s) \/ Pair(a, s) \in missed \/ (wtimer /\ Pair(a, s) \in ToSet(watchq))
      BY <1>8, <2>2, OldRule
    <3>2. QED
      BY <3>1
  <2>3. QED
    BY <2>1, <2>2
<1>9. CASE sync = "bursting"
  <2>1. Queue(b, r) /\ UNCHANGED <<user, rules>> /\ members' = on
    BY <1>9 DEF Meets, Left
  <2>2. Follows(rules) /\ Live' = Live
    BY <1>6, <2>1, FollowsSame DEF Live
  <2> DEFINE x == Pair(b, r)
  <2>3. watchq' = Append(watchq, x)
    BY <2>1 DEF Queue, Pair
  <2>4. x \in ToSet(watchq') /\ ToSet(watchq) \subseteq ToSet(watchq')
    <3> HIDE DEF x
    <3>1. QED
      BY <1>6, <2>3, QueuedIn
  <2>5. ASSUME NEW s \in ToSet(rules), NEW a \in Live', Wanted(a, s)'
        PROVE  Due(a, s)' \/ Pair(a, s) \in M \/ (wtimer' /\ Pair(a, s) \in ToSet(watchq'))
    <3>1. Due(a, s)' \/ Pair(a, s) \in missed \/ (wtimer /\ Pair(a, s) \in ToSet(watchq)) \/ (a = b /\ (s = r \/ s \in others))
      BY <1>8, <2>1, <2>2, <2>5
    <3>2. CASE a = b /\ (s = r \/ s \in others)
      BY <1>1, <1>9, <2>4, <3>2
    <3>3. QED
      BY <2>4, <3>1, <3>2
  <2>6. \A s \in ToSet(rules) : s.chan \notin Nicks \cup ousted' /\ Apart(s.chan) => Guardian \in members'[s.chan] /\ ~s.lost
    BY <1>4, <2>1, WatchFacts
  <2> HIDE DEF M
  <2>7. QED
    BY <1>3, <1>6, <1>7, <2>2, <2>5, <2>6, WatchFrom
<1>10. CASE sync # "bursting"
  <2>1. /\ user' = Restrict(user, Live \ Deaths(acts)) /\ rules' = Orphaned(rules) /\ watchq' = Dangling(watchq)
        /\ members' = [c \in Chans |-> on[c] \ (Deaths(acts) \cup Kicked(acts, c))]
    BY <1>10 DEF Meets, Left
  <2>2. Deaths(acts) \subseteq {b} /\ \A c \in Chans : Kicked(acts, c) \subseteq {b}
    <3>1. Hit({b}, r) \subseteq {b}
      BY DEF Hit
    <3>2. QED
      BY <3>1 DEF Deaths, Killed, Kicked
  <2>3. <<{b}, r>> \in acts
    OBVIOUS
  <2> HIDE DEF acts
  <2>4. user' = [a \in Live \ Deaths(acts) |-> user[a]]
    BY <2>1 DEF Restrict
  <2>5. Live' = Live \ Deaths(acts) /\ \A a \in Live' : user'[a] = user[a]
    BY <2>4 DEF Live
  <2>6. \A c \in Chans : members'[c] = on[c] \ (Deaths(acts) \cup Kicked(acts, c))
    BY <2>1
  <2>7. Follows(rules)
    BY <1>6, <2>1, FollowsOrphaned
  <2>8. ASSUME NEW s \in ToSet(rules), NEW a \in Live', Wanted(a, s)'
        PROVE  Due(a, s)' \/ Pair(a, s) \in M \/ (wtimer' /\ Pair(a, s) \in ToSet(watchq'))
    <3>1. a \in Live /\ user'[a] = user[a] /\ \A c \in Chans : members'[c] \subseteq on[c]
      BY <2>5, <2>6
    <3>2. Due(a, s)' \/ Pair(a, s) \in missed \/ (wtimer /\ Pair(a, s) \in ToSet(watchq)) \/ (a = b /\ (s = r \/ s \in others))
      BY <1>8, <2>8, <3>1
    <3>3. ~(a = b /\ s = r)
      <4> SUFFICES ASSUME a = b, s = r PROVE FALSE
        OBVIOUS
      <4>1. a \in {b} /\ <<{b}, s>> \in acts /\ \A c \in Chans : a \in members'[c] => a \notin Kicked(acts, c)
        BY <2>3, <2>6
      <4>2. ~Wanted(a, s)'
        BY <1>4, <2>5, <3>1, <4>1, StruckDown
      <4>3. QED
        BY <2>8, <4>2
    <3>4. \E x \in ToSet(rules') : x.id = s.id
      BY <2>7 DEF Follows, Alike
    <3>5. Pair(a, s) \in ToSet(watchq) => Pair(a, s) \in ToSet(watchq')
      BY <1>6, <2>1, <3>4, WaitsOn DEF Pair
    <3>6. QED
      BY <1>1, <3>2, <3>3, <3>5
  <2>9. ASSUME NEW s \in ToSet(rules), s.chan \notin Nicks \cup ousted', Apart(s.chan)
        PROVE  Guardian \in members'[s.chan] /\ ~s.lost
    <3>1. Guardian \in members[s.chan] /\ ~s.lost /\ s.chan \in Chans
      BY <1>4, <2>9, WatchFacts
    <3>2. Guardian \in on[s.chan]
      BY <3>1
    <3>3. Guardian \notin Deaths(acts) /\ Guardian \notin Kicked(acts, s.chan)
      BY <1>5, <2>2, <3>1
    <3>4. QED
      BY <2>6, <3>1, <3>2, <3>3
  <2> HIDE DEF M
  <2>10. QED
    BY <1>3, <1>6, <1>7, <2>7, <2>8, <2>9, WatchFrom
<1>11. QED
  BY <1>9, <1>10

\* evh_user: from here on the guest is known to the watch.
LEMMA WatchUserStep ==
    ASSUME WatchInv, SessionsInv', EvhUser
    PROVE  WatchInv'
<1> DEFINE I == {k \in 1..Len(rules) : rules[k].chan \in user[guest].odd}
           i == SelectInSeq(rules, LAMBDA x : x.chan \in user[guest].odd)
           r == rules[i]
           others == {x \in ToSet(rules) : x.chan \in Nicks} \ {r}
<1>1. /\ guest \in Live /\ UNCHANGED <<setup, loaded, guest, wrows, ousted, wtimer>>
      /\ \/ (i = 0 \/ user[guest].service) /\ UNCHANGED <<user, members, rules, watchq, missed>>
         \/ i # 0 /\ members' = Left(members, guest, r) /\ Meets(guest, r, others)
  BY DEF EvhUser
<1>2. i = IF I # {} THEN Min(I) ELSE 0
  BY DEF SelectInSeq
<1>3. I \in SUBSET (1..Len(rules)) /\ \A k \in I : rules[k].chan \in user[guest].odd
  OBVIOUS
<1>4. I = {} => \A k \in 1..Len(rules) : rules[k].chan \notin user[guest].odd
  OBVIOUS
<1>5. /\ DOMAIN rules = 1..Len(rules) /\ Len(rules) \in Nat
      /\ \A k \in 1..Len(rules) : rules[k] \in ToSet(rules)
      /\ \A s \in ToSet(rules) : \E k \in 1..Len(rules) : s = rules[k]
  BY WatchFacts DEF ToSet
<1> HIDE DEF I, i
<1>6. i \in 0..Len(rules) /\ (i # 0 => i \in I) /\ (i = 0 => I = {})
  BY <1>2, <1>3, <1>5, FoundIn
<1>7. CASE (i = 0 \/ user[guest].service) /\ UNCHANGED <<user, members, rules, watchq, missed>>
  <2>1. Follows(rules)
    BY <1>1, <1>7, FollowsSame, WatchFacts
  <2> DEFINE M == missed
  <2>2. ASSUME NEW s \in ToSet(rules), NEW a \in Live', Wanted(a, s)'
        PROVE  Due(a, s)' \/ Pair(a, s) \in M \/ (wtimer' /\ Pair(a, s) \in ToSet(watchq'))
    <3>1. a \in Live /\ ~user[a].service /\ (s.chan \in Nicks => s.chan \in user[a].odd)
      <4>1. a \in Live
        BY <1>7 DEF Live
      <4>2. ~user'[a].service /\ (s.chan \in Nicks => s.chan \in user'[a].odd)
        BY <2>2 DEF Wanted, Hit, Present
      <4>3. QED
        BY <1>7, <4>1, <4>2
    <3>2. Due(a, s) \/ Pair(a, s) \in missed \/ (wtimer /\ Pair(a, s) \in ToSet(watchq))
      BY <1>1, <1>7, <2>2, <3>1, OldRule
    <3>3. ~Due(a, s)
      <4> SUFFICES ASSUME Due(a, s) PROVE FALSE
        OBVIOUS
      <4>1. s.chan \in Nicks /\ a = guest
        BY DEF Due
      <4>2. s.chan \in user[guest].odd /\ i = 0
        BY <1>7, <3>1, <4>1
      <4>3. QED
        BY <1>4, <1>5, <1>6, <4>2
    <3>4. QED
      BY <1>1, <1>7, <3>2, <3>3
  <2>3. \A s \in ToSet(rules) : s.chan \notin Nicks \cup ousted' /\ Apart(s.chan) => Guardian \in members'[s.chan] /\ ~s.lost
    BY <1>1, <1>7, WatchFacts
  <2>4. Loaded("g_watch")' = Loaded("g_watch") /\ M \cap Owed' \subseteq missed'
    BY <1>1, <1>7 DEF Loaded
  <2> HIDE DEF M
  <2>5. QED
    BY <1>1, <2>1, <2>2, <2>3, <2>4, WatchFrom, WatchFacts
<1>8. CASE i # 0 /\ members' = Left(members, guest, r) /\ Meets(guest, r, others)
  <2>1. r \in ToSet(rules)
    BY <1>5, <1>6, <1>8
  <2> DEFINE on == members
             b == guest
  <2>2. /\ b \in Live /\ Meets(b, r, others) /\ members' = Left(on, b, r)
        /\ \A c \in Chans : members[c] \subseteq on[c] /\ on[c] \subseteq members[c] \cup {b}
    BY <1>1, <1>8
  <2>3. \A s \in ToSet(rules), a \in Live :
            Due(a, s) \/ (s.chan \notin Nicks /\ a \in on[s.chan] /\ a \notin members[s.chan])
            => Due(a, s)' \/ (a = b /\ (s = r \/ s \in others))
    BY DEF Due
  <2> HIDE DEF on, b, r, others
  <2>4. QED
    BY <1>1, <2>1, <2>2, <2>3, WatchMeets
<1>9. QED
  BY <1>1, <1>7, <1>8

\* evh_watchqueue: the entry it takes is dealt with, and the others wait on.
LEMMA WatchStrikesOne ==
    ASSUME WatchInv, setup' = setup, SessionsInv', chain = <<>>, NEW b \in Live, NEW r \in ToSet(rules),
           Strike({<<{b}, r>>}, Ours), rules' = Orphaned(rules), NEW q, q \in Seq(ToSet(q)), watchq' = Dangling(q),
           Missing({}), UNCHANGED <<loaded, guest, wrows, ousted, wtimer>>,
           \A s \in ToSet(rules), a \in Live : Pair(a, s) \in ToSet(watchq) => Pair(a, s) \in ToSet(q) \/ (a = b /\ s = r)
    PROVE  WatchInv'
<1> DEFINE acts == {<<{b}, r>>}
           ours == Ours
           M == missed
<1>1. Strike(acts, ours) /\ <<{b}, r>> \in acts /\ M \cap Owed' \subseteq missed'
  BY DEF Missing
<1> HIDE DEF acts, ours
<1>2. /\ Live' = Live \ Deaths(acts) /\ \A a \in Live' : user'[a] = user[a]
      /\ \A c \in Chans : Guardian \in members'[c] <=> c \in ours
      /\ \A c \in Chans, a \in Live' : a \in members'[c] <=> a \in members[c] /\ a \notin Kicked(acts, c)
  BY <1>1, StrikeDoes, WatchFacts
<1>3. ASSUME NEW s \in ToSet(rules) PROVE RuleRight(s) /\ (s.chan \notin Nicks => s.chan \in Chans)
  BY WatchFacts DEF RuleRight, Names
<1>4. Follows(rules)
  BY FollowsOrphaned, WatchFacts
<1>5. ASSUME NEW s \in ToSet(rules), s.chan \notin Nicks \cup ousted', Apart(s.chan)
      PROVE  Guardian \in members'[s.chan] /\ ~s.lost
  <2>1. Guardian \in members[s.chan] /\ ~s.lost /\ s.chan \in Chans
    BY <1>3, <1>5, WatchFacts
  <2>2. QED
    BY <1>2, <2>1 DEF ours, Ours
<1>6. ASSUME NEW s \in ToSet(rules), NEW a \in Live', Wanted(a, s)'
      PROVE  Due(a, s)' \/ Pair(a, s) \in M \/ (wtimer' /\ Pair(a, s) \in ToSet(watchq'))
  <2>1. a \in Live /\ user'[a] = user[a] /\ (s.chan \notin Nicks /\ a \in members'[s.chan] => a \in members[s.chan])
    BY <1>2, <1>3
  <2>2. Pair(a, s) \in missed \/ (wtimer /\ Pair(a, s) \in ToSet(watchq))
    <3>1. ~Due(a, s)
      BY DEF Due, ToSet
    <3>2. QED
      BY <1>6, <2>1, <3>1, OldRule
  <2>3. ~(a = b /\ s = r)
    <3> SUFFICES ASSUME a = b, s = r PROVE FALSE
      OBVIOUS
    <3>1. a \in {b} /\ <<{b}, s>> \in acts /\ \A c \in Chans : a \in members'[c] => a \notin Kicked(acts, c)
      BY <1>1, <1>2
    <3>2. ~Wanted(a, s)'
      BY <1>2, <1>3, <2>1, <3>1, StruckDown
    <3>3. QED
      BY <1>6, <3>2
  <2>4. Pair(a, s) \in ToSet(watchq) => Pair(a, s) \in ToSet(q)
    BY <2>1, <2>3
  <2>5. \E x \in ToSet(rules') : x.id = s.id
    BY <1>4 DEF Follows, Alike
  <2>6. Pair(a, s) \in ToSet(q) => Pair(a, s) \in ToSet(watchq')
    BY <2>5, WaitsOn DEF Pair
  <2>7. QED
    BY <2>2, <2>4, <2>6
<1>7. Loaded("g_watch")' = Loaded("g_watch")
  BY DEF Loaded
<1> HIDE DEF M
<1>8. QED
  BY <1>1, <1>4, <1>5, <1>6, <1>7, WatchFrom, WatchFacts

LEMMA WatchQueueStep ==
    ASSUME WatchInv, SessionsInv', EvhWatchqueue
    PROVE  WatchInv'
<1> DEFINE q == Head(watchq)
           I == {i \in 1..Len(rules) : rules[i].id = q.rule}
           k == SelectInSeq(rules, LAMBDA x : x.id = q.rule)
           r == rules[k]
<1>1. chain = <<>> /\ UNCHANGED <<setup, loaded, chain, guest, wrows, ousted>>
  BY DEF EvhWatchqueue, Calm
<1>2. CASE UNCHANGED <<user, members, rules, watchq, missed>> /\ (wtimer' = wtimer \/ watchq = <<>>)
  <2>1. Loaded("g_watch")' = Loaded("g_watch")
    BY <1>1 DEF Loaded
  <2>2. QED
    BY <1>1, <1>2, <2>1, WatchRests
<1>3. CASE /\ watchq # <<>> /\ q.rule # Freed /\ q.user # Freed /\ wtimer' = wtimer /\ Missing({})
           /\ Strike({<<{q.user}, r>>}, Ours) /\ rules' = Orphaned(rules) /\ watchq' = Dangling(Tail(watchq))
  <2>1. watchq \in Seq(ToSet(watchq)) /\ Pointing(watchq, Live, rules)
    BY DEF WatchInv, SessionsInv, Pointers
  <2>2. q \in ToSet(watchq)
    <3>1. q = watchq[1] /\ 1 \in DOMAIN watchq
      BY <1>3, <2>1
    <3>2. QED
      BY <3>1 DEF ToSet
  <2>3. q.user \in Live /\ \E s \in ToSet(rules) : s.id = q.rule
    BY <1>3, <2>1, <2>2 DEF Pointing
  <2>4. r \in ToSet(rules) /\ r.id = q.rule
    <3>1. DOMAIN rules = 1..Len(rules) /\ Len(rules) \in Nat
      BY WatchFacts
    <3>2. I # {}
      BY <2>3, <3>1 DEF ToSet
    <3>3. k = IF I # {} THEN Min(I) ELSE 0
      BY DEF SelectInSeq
    <3>4. I \in SUBSET (1..Len(rules)) /\ \A i \in I : rules[i].id = q.rule
      OBVIOUS
    <3> HIDE DEF I, k
    <3>5. k \in I
      BY <3>1, <3>2, <3>3, <3>4, FoundIn
    <3>6. QED
      BY <3>1, <3>4, <3>5 DEF ToSet
  <2> HIDE DEF r, k, I
  <2> DEFINE t == Tail(watchq)
             b == q.user
  <2>5. t \in Seq(ToSet(t)) /\ \A y \in ToSet(watchq) : y = q \/ y \in ToSet(t)
    BY <1>3, <2>1, QueuedIn
  <2>6. ASSUME NEW s \in ToSet(rules), NEW a \in Live, Pair(a, s) \in ToSet(watchq)
        PROVE  Pair(a, s) \in ToSet(t) \/ (a = b /\ s = r)
    <3>1. CASE Pair(a, s) = q
      <4>1. a = b /\ s.id = q.rule
        BY <3>1 DEF Pair
      <4>2. s = r
        BY <2>4, <4>1, WatchFacts DEF RulesRight
      <4>3. QED
        BY <4>1, <4>2
    <3>2. QED
      BY <2>5, <2>6, <3>1
  <2>7. b \in Live /\ Strike({<<{b}, r>>}, Ours) /\ watchq' = Dangling(t) /\ rules' = Orphaned(rules)
    BY <1>3, <2>3
  <2> HIDE DEF t, b, q
  <2>8. QED
    BY <1>1, <1>3, <2>4, <2>5, <2>6, <2>7, WatchStrikesOne
<1>4. QED
  BY <1>2, <1>3 DEF EvhWatchqueue

\* AddToChannel: of the rules for the channel, one is found, and the others pass him by.
LEMMA WatchJoins ==
    ASSUME WatchInv, SessionsInv', NEW b \in Live, NEW c \in Chans, Join(b, c)
    PROVE  WatchInv'
<1> DEFINE i == IsWatched(rules, c)
           r == rules[i]
           on == [members EXCEPT ![c] = @ \cup {b}]
           its == {s \in ToSet(rules) : s.chan = c}
           N == [user : {b}, rule : {s.id : s \in its}]
           others == its \ {r}
<1>1. /\ UNCHANGED <<setup, loaded, chain, guest, wrows, ousted, wtimer>> /\ chain = <<>>
      /\ \/ /\ ~Loaded("g_watch") \/ i = 0 \/ user[b].service
            /\ members' = on /\ UNCHANGED <<user, rules, watchq>> /\ Missing(N)
         \/ i # 0 /\ members' = Left(on, b, r) /\ Meets(b, r, others)
  BY DEF Join, Quiet, Calm
<1>2. i # 0 => r \in ToSet(rules)
  BY IsWatchedFinds, WatchFacts
<1>3. \A s \in ToSet(rules) : s.chan = c => Pair(b, s) \in N
  BY DEF Pair
<1>4. \A s \in ToSet(rules) : s.chan = c => s = r \/ s \in others
  OBVIOUS
<1>5. ASSUME NEW s \in ToSet(rules) PROVE s.chan \notin Nicks => s.chan \in Chans
  BY WatchFacts DEF RuleRight, Names
<1> HIDE DEF i, r, N, others
<1>6. \A x \in Chans : on[x] = IF x = c THEN members[x] \cup {b} ELSE members[x]
  BY DEF WatchInv, SessionsInv, NetTypes
<1> HIDE DEF on
<1>7. ASSUME NEW s \in ToSet(rules), NEW a \in Live PROVE ~Due(a, s)
  BY <1>1 DEF Due, ToSet
<1>8. CASE members' = on /\ UNCHANGED <<user, rules, watchq>> /\ Missing(N)
  <2>1. Follows(rules) /\ Live' = Live
    BY <1>1, <1>8, FollowsSame, WatchFacts DEF Live
  <2> DEFINE M == missed \cup N
  <2>2. M \cap Owed' \subseteq missed' /\ Loaded("g_watch")' = Loaded("g_watch")
    BY <1>1, <1>8 DEF Missing, Loaded
  <2>3. ASSUME NEW s \in ToSet(rules), NEW a \in Live', Wanted(a, s)'
        PROVE  Due(a, s)' \/ Pair(a, s) \in M \/ (wtimer' /\ Pair(a, s) \in ToSet(watchq'))
    <3>1. CASE a = b /\ s.chan = c
      BY <1>3, <3>1
    <3>2. CASE ~(a = b /\ s.chan = c)
      <4>1. s.chan \notin Nicks /\ a \in members'[s.chan] => a \in members[s.chan]
        BY <1>5, <1>6, <1>8, <3>2
      <4>2. Pair(a, s) \in missed \/ (wtimer /\ Pair(a, s) \in ToSet(watchq))
        BY <1>1, <1>7, <1>8, <2>1, <2>3, <4>1, OldRule
      <4>3. QED
        BY <1>1, <1>8, <4>2
    <3>3. QED
      BY <3>1, <3>2
  <2>4. \A s \in ToSet(rules) : s.chan \notin Nicks \cup ousted' /\ Apart(s.chan) => Guardian \in members'[s.chan] /\ ~s.lost
    BY <1>1, <1>5, <1>6, <1>8, WatchFacts
  <2> HIDE DEF M
  <2>5. QED
    BY <1>1, <1>8, <2>1, <2>2, <2>3, <2>4, WatchFrom, WatchFacts
<1>9. CASE i # 0 /\ members' = Left(on, b, r) /\ Meets(b, r, others)
  <2>1. \A x \in Chans : members[x] \subseteq on[x] /\ on[x] \subseteq members[x] \cup {b}
    BY <1>6
  <2>2. \A s \in ToSet(rules), a \in Live :
            Due(a, s) \/ (s.chan \notin Nicks /\ a \in on[s.chan] /\ a \notin members[s.chan])
            => Due(a, s)' \/ (a = b /\ (s = r \/ s \in others))
    BY <1>4, <1>5, <1>6, <1>7
  <2>3. QED
    BY <1>1, <1>2, <1>9, <2>1, <2>2, WatchMeets
<1>10. QED
  BY <1>1, <1>8, <1>9

-----------------------------------------------------------------------------
(* The watch: the theorem *)

LEMMA WatchStart == Init => WatchInv
<1> SUFFICES ASSUME Init PROVE WatchInv
  OBVIOUS
<1>1. SessionsInv
  BY SessionsStart
<1>2. rules = <<>> /\ wrows = <<>> /\ loaded = <<>>
  BY DEF Init, InitWatch, InitVisitors
<1>3. ToSet(rules) = {} /\ RulesRight(rules) /\ DOMAIN wrows = {} /\ ~Loaded("g_watch")
  BY <1>2 DEF RulesRight, ToSet, IsInjective, Loaded
<1>4. QED
  BY <1>1, <1>2, <1>3 DEF WatchInv, WatchedKept, Caught, RowsRight

\* The steps of the network and of the other modules.
LEMMA WatchStep ==
    ASSUME WatchInv, [Next]_vars
    PROVE  WatchInv'
<1>1. SessionsInv' /\ setup' = setup
  BY SessionsStep, UsersAndChannels DEF WatchInv
<1>2. ASSUME UNCHANGED <<user, members, watchVars, loaded, chain, guest>> PROVE WatchInv'
  <2>1. Loaded("g_watch")' = Loaded("g_watch") /\ UNCHANGED <<rules, watchq, wrows, ousted, wtimer, missed>>
    BY <1>2 DEF Loaded, watchVars
  <2>2. QED
    BY <1>1, <1>2, <2>1, WatchRests
<1>3. CASE \E a \in Addr, what \in setup.users : Arrival(a, what)
  BY <1>1, <1>3, WatchArrives DEF Arrival
<1>4. CASE Departure
  BY <1>1, <1>4, WatchDeparts
<1>5. CASE Linking
  BY <1>2, <1>5 DEF Linking, Connect, EndBurst
<1>6. CASE Moves
  <2>1. ASSUME NEW a \in Live, NEW c \in Chans, Part(a, c) PROVE WatchInv'
    BY <1>1, <2>1, WatchParts
  <2>2. ASSUME NEW a \in Live, NEW what \in setup.users, UserChanges(a, what) PROVE WatchInv'
    BY <1>1, <2>2, WatchChanges
  <2>3. QED
    BY <1>1, <1>6, <2>1, <2>2, WatchJoins, WatchOusted DEF Moves
<1>7. CASE Handlers
  <2>1. ASSUME NEW m, m # "g_watch", Handling(m), chain' = Tail(chain),
               UNCHANGED <<user, members, watchVars, loaded, guest>>
        PROVE  WatchInv'
    <3>1. chain # <<>> /\ Head(chain) = m /\ ChainRight
      BY <2>1, WatchFacts DEF Handling
    <3>2. ToSet(chain') = ToSet(chain) \ {m}
      BY <2>1, <3>1, ChainTail
    <3>3. Loaded("g_watch")' = Loaded("g_watch") /\ UNCHANGED <<rules, watchq, wrows, ousted, wtimer, missed>>
      BY <2>1 DEF Loaded, watchVars
    <3>4. QED
      BY <1>1, <2>1, <3>2, <3>3, WatchRests
  <2>2. CASE EventUsercon /\ UNCHANGED <<loaded, user, members, guest, watchVars>>
    BY <2>1, <2>2 DEF EventUsercon, Handled
  <2>3. CASE ScanNick /\ UNCHANGED <<loaded, user, members, guest, watchVars>>
    BY <2>1, <2>3 DEF ScanNick, Handled
  <2>4. CASE ReadFreed /\ UNCHANGED watchVars
    BY <1>2, <2>4 DEF ReadFreed
  <2>5. QED
    BY <1>1, <1>7, <2>2, <2>3, <2>4, WatchUserStep DEF Handlers
<1>8. CASE Timers
  BY <1>1, <1>2, <1>8, WatchQueueStep DEF Timers, VersionQue, ScanQue, visitorVars
<1>9. CASE Commands
  <2>1. ASSUME NEW name, NEW action \in setup.actions, WatchSet(name, action) PROVE WatchInv'
    <3>1. action \in Actions
      BY RulesAssumption, WatchFacts
    <3>2. QED
      BY <1>1, <2>1, <3>1, WatchSetStep
  <2>2. ASSUME NEW name, WatchRemove(name) PROVE WatchInv'
    BY <1>1, <2>2, WatchRemoveStep
  <2>3. ASSUME NEW want \in setup.wants, WatchAdd(want) PROVE WatchInv'
    BY <1>1, <2>3, WatchAddStep
  <2>4. CASE SaveWatchdb \/ WatchRehash
    BY <1>1, <2>4, WatchSaveStep, WatchRehashStep
  <2>5. CASE UNCHANGED <<visitorVars, watchVars>>
    BY <1>2, <2>5 DEF visitorVars
  <2>6. QED
    BY <1>9, <2>1, <2>2, <2>3, <2>4, <2>5 DEF Commands, ExemptDel, ExemptAdd, ExemptLoad, CmdScan, SessionRehash
<1>10. CASE Reloads
  <2>1. ASSUME NEW m, m # "g_watch", LoadModule(m) \/ UnloadModule(m),
               UNCHANGED <<user, members, watchVars, chain, guest>>
        PROVE  WatchInv'
    <3>1. ModulesOnce
      BY WatchFacts DEF ChainRight
    <3>2. Loaded("g_watch")' <=> Loaded("g_watch")
      BY <1>1, <2>1, <3>1, ModulesComeAndGo
    <3>3. Loaded("g_watch")' = Loaded("g_watch")
      BY <3>2 DEF Loaded
    <3>4. QED
      BY <1>1, <2>1, <3>3, WatchRests DEF watchVars
  <2>2. CASE (LoadSessions \/ UnloadSessions) /\ UNCHANGED watchVars
    BY <2>1, <2>2 DEF LoadSessions, UnloadSessions
  <2>3. CASE (LoadScan \/ UnloadScan) /\ UNCHANGED watchVars
    BY <2>1, <2>3 DEF LoadScan, UnloadScan
  <2>4. CASE LoadWatch \/ UnloadWatch
    BY <1>1, <2>4, WatchLoadStep, WatchUnloadStep
  <2>5. CASE (LoadModule("g_joinflood") \/ UnloadModule("g_joinflood")) /\ UNCHANGED <<user, members, chain, guest, watchVars>>
    BY <2>1, <2>5
  <2>6. QED
    BY <1>10, <2>2, <2>3, <2>4, <2>5 DEF Reloads
<1>11. CASE Floods \/ ReleaseFloods \/ vars' = vars
  BY <1>2, <1>11 DEF Floods, ReleaseFloods, vars, visitorVars
<1>12. QED
  BY <1>3, <1>4, <1>5, <1>6, <1>7, <1>8, <1>9, <1>10, <1>11 DEF Next

LEMMA WatchIsRight == WatchInv => WatchHolds
<1> SUFFICES ASSUME WatchInv PROVE WatchHolds
  OBVIOUS
<1>1. GuardianStays
  BY DEF WatchInv, WatchedKept, GuardianStays
<1>2. NoneEscapes
  BY OwedBefore DEF Quiet, Calm, NoneEscapes
<1>3. RulesKept
  BY OwnRulesAre DEF WatchInv, RowsRight, Rowed, Names, RulesKept
<1>4. QED
  BY <1>1, <1>2, <1>3 DEF WatchHolds

\* The watch holds (g_watch.c): over rules added, removed, edited, reloaded from the database or
\* with the configuration, users who come, go, join and change in the middle of it, and a queue
\* whose timer deletes itself, Guardian stays on the channels whose names a rule keeps whole
\* unless he is kicked, nobody a rule is about is passed by but those the code is known to pass
\* by, and the rows of the database are the rules of operators.
THEOREM WatchHoldsHolds == Spec => []WatchHolds
<1>1. Init => WatchInv
  BY WatchStart
<1>2. WatchInv /\ [Next]_vars => WatchInv'
  BY WatchStep
<1>3. WatchInv => WatchHolds
  BY WatchIsRight
<1>4. QED
  BY <1>1, <1>2, <1>3, PTL DEF Spec

=============================================================================
