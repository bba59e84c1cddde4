----------------------------- MODULE ListProofs -----------------------------
(***************************************************************************)
(* Lemmas about the lists of the code (dlink.c): what adding a node at the *)
(* tail, taking the head off and deleting a node do to a list, and to the  *)
(* order of one in which nothing stands twice.                             *)
(***************************************************************************)
EXTENDS Integers, Sequences, SequencesExt, FiniteSets, FiniteSetsExt, FiniteSetTheorems, SequenceTheorems, WellFoundedInduction, Lists, TLAPS

\* A set of numbers that is not empty has a least one.
LEMMA LeastOfSet ==
    ASSUME NEW S \in SUBSET Nat, S # {}
    PROVE  \E x \in S : \A y \in S : x <= y
<1>1. \E x \in S : \A y \in S : <<y, x>> \notin OpToRel(<, Nat)
  BY NatLessThanWellFounded, WFMin
<1>2. PICK x \in S : \A y \in S : <<y, x>> \notin OpToRel(<, Nat)
  BY <1>1
<1>3. ASSUME NEW y \in S PROVE x <= y
  <2>1. ~(y < x)
    BY <1>2 DEF OpToRel
  <2>2. QED
    BY <2>1
<1>4. QED
  BY <1>3

\* The greatest of some of the numbers up to N is one of them.
LEMMA GreatestOfSet ==
    ASSUME NEW N \in Nat, NEW s \in SUBSET (1..N), s # {}
    PROVE  Max(s) \in s
<1> DEFINE Over == {y \in 1..N : \A x \in s : x <= y}
<1>1. Over \in SUBSET Nat /\ N \in Over
  <2>1. \E z \in s : z \in 1..N
    OBVIOUS
  <2>2. QED
    BY <2>1
<1>2. PICK m \in Over : \A y \in Over : m <= y
  <2> HIDE DEF Over
  <2>1. QED
    BY <1>1, LeastOfSet
<1>3. m \in 1..N /\ \A x \in s : x <= m
  OBVIOUS
<1>4. m \in s
  <2> SUFFICES ASSUME m \notin s PROVE FALSE
    OBVIOUS
  <2>1. PICK z \in s : TRUE
    OBVIOUS
  <2>2. \A x \in s : x \in 1..N /\ x <= m /\ x # m
    BY <1>3
  <2>3. \A x \in s : x <= m - 1
    BY <1>3, <2>2
  <2>4. m - 1 \in 1..N
    BY <1>3, <2>1, <2>2
  <2>5. m - 1 \in Over
    BY <2>3, <2>4
  <2>6. m <= m - 1
    <3> HIDE DEF Over
    <3>1. QED
      BY <1>2, <2>5
  <2>7. QED
    BY <1>3, <2>6
<1>5. \A y \in s : m >= y
  BY <1>3
<1>6. QED
  BY <1>4, <1>5 DEF Max

\* The list with another node at one place.
LEMMA ReplacedAt ==
    ASSUME NEW S, NEW l \in Seq(S), NEW i \in 1..Len(l), NEW x \in S, NEW m, m = [l EXCEPT ![i] = x]
    PROVE  /\ m \in Seq(S) /\ Len(m) = Len(l) /\ m[i] = x
           /\ \A k \in 1..Len(l) : k # i => m[k] = l[k]
OBVIOUS

\* What is found in a list is in it; what is not found is not.
LEMMA FoundIn ==
    ASSUME NEW l, Len(l) \in Nat, DOMAIN l = 1..Len(l), NEW I \in SUBSET (1..Len(l)),
           NEW i, i = IF I # {} THEN Min(I) ELSE 0
    PROVE  /\ i \in 0..Len(l)
           /\ i # 0 => i \in I
           /\ i = 0 => I = {}
<1>1. CASE I # {}
  <2>1. I \in SUBSET Nat /\ \A k \in I : k # 0
    OBVIOUS
  <2>2. \E x \in I : \A y \in I : x <= y
    BY <1>1, <2>1, LeastOfSet
  <2>3. Min(I) \in I
    BY <2>2 DEF Min
  <2>4. i \in I
    BY <1>1, <2>3
  <2>5. QED
    BY <1>1, <2>1, <2>4
<1>2. CASE I = {}
  BY <1>2
<1>3. QED
  BY <1>1, <1>2

\* In the list l, b stands behind a; b is a or stands behind it.
Behind(l, a, b) == \E i, j \in 1..Len(l) : i < j /\ l[i] = a /\ l[j] = b
From(l, a, b)   == \E i, j \in 1..Len(l) : i <= j /\ l[i] = a /\ l[j] = b

LEMMA BehindDiffers ==
    ASSUME NEW S, NEW l \in Seq(S), IsInjective(l), NEW a, NEW b, Behind(l, a, b)
    PROVE  a # b
BY DEF Behind, IsInjective

LEMMA BehindTransitive ==
    ASSUME NEW S, NEW l \in Seq(S), IsInjective(l), NEW a, NEW b, NEW c,
           Behind(l, a, b), Behind(l, b, c)
    PROVE  Behind(l, a, c)
<1>1. PICK i \in 1..Len(l), j \in 1..Len(l) : i < j /\ l[i] = a /\ l[j] = b
  BY DEF Behind
<1>2. PICK j2 \in 1..Len(l), k \in 1..Len(l) : j2 < k /\ l[j2] = b /\ l[k] = c
  BY DEF Behind
<1>3. j = j2
  BY <1>1, <1>2 DEF IsInjective
<1>4. QED
  BY <1>1, <1>2, <1>3 DEF Behind

LEMMA InList ==
    ASSUME NEW S, NEW l \in Seq(S)
    PROVE  /\ ToSet(l) \subseteq S
           /\ \A s : s \in ToSet(l) <=> \E i \in 1..Len(l) : l[i] = s
BY DEF ToSet

\* The list without its k-th node, the only one of that server.
LEMMA RemovedAt ==
    ASSUME NEW S, NEW l \in Seq(S), IsInjective(l), NEW k \in 1..Len(l),
           NEW m, m = RemoveFirst(l, l[k])
    PROVE  /\ m \in Seq(S) /\ Len(m) = Len(l) - 1
           /\ \A i \in 1..Len(m) : m[i] = IF i < k THEN l[i] ELSE l[i + 1]
<1>1. {i \in 1..Len(l) : l[i] = l[k]} = {k}
  BY DEF IsInjective
<1>2. Min({k}) = k
  BY DEF Min
<1>3. m = RemoveAt(l, k)
  BY <1>1, <1>2, Zenon DEF RemoveFirst, SelectInSeq
<1> DEFINE a == SubSeq(l, 1, k - 1)
           b == SubSeq(l, k + 1, Len(l))
<1>4. a \in Seq(S) /\ Len(a) = k - 1 /\ \A i \in 1..(k - 1) : a[i] = l[i]
  OBVIOUS
<1>5. b \in Seq(S) /\ Len(b) = Len(l) - k /\ \A i \in 1..(Len(l) - k) : b[i] = l[k + i]
  OBVIOUS
<1>6. m = a \o b
  BY <1>3 DEF RemoveAt
<1> HIDE DEF a, b
<1>7. m \in Seq(S) /\ Len(m) = Len(l) - 1
  <2>1. \A x, y \in Seq(S) : x \o y \in Seq(S) /\ Len(x \o y) = Len(x) + Len(y)
    OBVIOUS
  <2>2. m \in Seq(S) /\ Len(m) = Len(a) + Len(b)
    BY <1>4, <1>5, <1>6, <2>1, Zenon
  <2>3. QED
    BY <1>4, <1>5, <2>2
<1>8. ASSUME NEW i \in 1..Len(m)
      PROVE  m[i] = IF i < k THEN l[i] ELSE l[i + 1]
  <2>1. CASE i < k
    BY <1>4, <1>5, <1>6, <1>7, <2>1
  <2>2. CASE i >= k
    <3>1. m[i] = b[i - (k - 1)] /\ i - (k - 1) \in 1..(Len(l) - k)
      BY <1>4, <1>5, <1>6, <1>7, <2>2
    <3>2. k + (i - (k - 1)) = i + 1
      OBVIOUS
    <3>3. QED
      BY <1>5, <2>2, <3>1, <3>2
  <2>3. QED
    BY <2>1, <2>2
<1>9. QED
  BY <1>7, <1>8

\* Taking a node off the list takes nothing else off, and keeps the order.
LEMMA RemovedBoth ==
    ASSUME NEW S, NEW l \in Seq(S), IsInjective(l), NEW t \in ToSet(l), NEW m, m = RemoveFirst(l, t)
    PROVE  /\ m \in Seq(S) /\ IsInjective(m) /\ ToSet(m) = ToSet(l) \ {t}
           /\ \A x, y : x # t /\ y # t /\ Behind(l, x, y) => Behind(m, x, y)
           /\ \A x, y : x # t /\ y # t /\ From(l, x, y) => From(m, x, y)
<1>1. PICK k \in 1..Len(l) : l[k] = t
  BY InList
<1>2. /\ m \in Seq(S) /\ Len(m) = Len(l) - 1
      /\ \A i \in 1..Len(m) : m[i] = IF i < k THEN l[i] ELSE l[i + 1]
  BY <1>1, RemovedAt, SMTT(30)
<1> DEFINE at(i) == IF i < k THEN i ELSE i - 1
           to(i) == IF i < k THEN i ELSE i + 1
<1>3. ASSUME NEW i \in 1..Len(l), l[i] # t
      PROVE  at(i) \in 1..Len(m) /\ m[at(i)] = l[i]
  BY <1>1, <1>2, <1>3
<1>4. ASSUME NEW i \in 1..Len(m)
      PROVE  to(i) \in 1..Len(l) \ {k} /\ m[i] = l[to(i)] /\ m[i] # t
  <2>1. to(i) \in 1..Len(l) \ {k} /\ m[i] = l[to(i)]
    BY <1>1, <1>2
  <2>2. QED
    BY <1>1, <2>1 DEF IsInjective
<1>5. IsInjective(m)
  <2> SUFFICES ASSUME NEW i \in 1..Len(m), NEW j \in 1..Len(m), m[i] = m[j]
               PROVE  i = j
    BY <1>2 DEF IsInjective
  <2>1. to(i) = to(j)
    BY <1>4 DEF IsInjective
  <2>2. QED
    BY <1>1, <1>2, <2>1
<1>6. ToSet(m) = ToSet(l) \ {t}
  <2>1. ASSUME NEW s \in ToSet(m) PROVE s \in ToSet(l) /\ s # t
    <3>1. PICK i \in 1..Len(m) : m[i] = s
      BY <1>2 DEF ToSet
    <3>2. QED
      BY <1>4, <3>1 DEF ToSet
  <2>2. ASSUME NEW s \in ToSet(l), s # t PROVE s \in ToSet(m)
    <3>1. PICK i \in 1..Len(l) : l[i] = s
      BY DEF ToSet
    <3>2. QED
      BY <1>2, <1>3, <2>2, <3>1 DEF ToSet
  <2>3. QED
    BY <2>1, <2>2
<1>7. ASSUME NEW x, NEW y, x # t, y # t, Behind(l, x, y)
      PROVE  Behind(m, x, y)
  <2>1. PICK i \in 1..Len(l), j \in 1..Len(l) : i < j /\ l[i] = x /\ l[j] = y
    BY <1>7 DEF Behind
  <2>2. at(i) < at(j)
    BY <1>1, <1>7, <2>1
  <2>3. QED
    BY <1>3, <1>7, <2>1, <2>2 DEF Behind
<1>8. ASSUME NEW x, NEW y, x # t, y # t, From(l, x, y)
      PROVE  From(m, x, y)
  <2>1. PICK i \in 1..Len(l), j \in 1..Len(l) : i <= j /\ l[i] = x /\ l[j] = y
    BY <1>8 DEF From
  <2>2. at(i) <= at(j)
    BY <1>1, <1>8, <2>1
  <2>3. QED
    BY <1>3, <1>8, <2>1, <2>2 DEF From
<1>9. QED
  BY <1>2, <1>5, <1>6, <1>7, <1>8

LEMMA RemovedKeeps ==
    ASSUME NEW S, NEW l \in Seq(S), IsInjective(l), NEW t \in ToSet(l)
    PROVE  /\ RemoveFirst(l, t) \in Seq(S) /\ IsInjective(RemoveFirst(l, t))
           /\ ToSet(RemoveFirst(l, t)) = ToSet(l) \ {t}
BY RemovedBoth

\* Also of a list in which the node may stand often, or not at all.
LEMMA RemovedIsList ==
    ASSUME NEW S, NEW l \in Seq(S), NEW t
    PROVE  RemoveFirst(l, t) \in Seq(S)
<1> DEFINE k == SelectInSeq(l, LAMBDA v : v = t)
<1>1. CASE ~\E i \in 1..Len(l) : l[i] = t
  BY <1>1 DEF RemoveFirst
<1>2. CASE \E i \in 1..Len(l) : l[i] = t
  <2>1. RemoveFirst(l, t) = SubSeq(l, 1, k - 1) \o SubSeq(l, k + 1, Len(l))
    BY <1>2, Zenon DEF RemoveFirst, RemoveAt
  <2>2. k \in 1..Len(l)
    <3> DEFINE I == {i \in 1..Len(l) : l[i] = t}
    <3>1. I # {} /\ I \in SUBSET Nat
      BY <1>2
    <3>2. \E i \in I : \A j \in I : i <= j
      BY <3>1, LeastOfSet
    <3>3. k = Min(I)
      BY <3>1, Zenon DEF SelectInSeq
    <3>4. k \in I
      BY <3>2, <3>3 DEF Min
    <3>5. QED
      BY <3>4
  <2> HIDE DEF k
  <2>3. SubSeq(l, 1, k - 1) \in Seq(S) /\ SubSeq(l, k + 1, Len(l)) \in Seq(S)
    BY <2>2
  <2>4. \A x, y \in Seq(S) : x \o y \in Seq(S)
    OBVIOUS
  <2>5. QED
    BY <2>1, <2>3, <2>4, Zenon
<1>3. QED
  BY <1>1, <1>2

LEMMA RemovedOrder ==
    ASSUME NEW S, NEW l \in Seq(S), IsInjective(l), NEW t \in ToSet(l)
    PROVE  /\ \A x, y : x # t /\ y # t /\ Behind(l, x, y) => Behind(RemoveFirst(l, t), x, y)
           /\ \A x, y : x # t /\ y # t /\ From(l, x, y) => From(RemoveFirst(l, t), x, y)
BY RemovedBoth

\* The list with one more node at its end.
LEMMA AppendKeeps ==
    ASSUME NEW S, NEW l \in Seq(S), IsInjective(l), NEW t \in S, t \notin ToSet(l)
    PROVE  /\ Append(l, t) \in Seq(S) /\ IsInjective(Append(l, t))
           /\ ToSet(Append(l, t)) = ToSet(l) \cup {t}
<1> DEFINE m == Append(l, t)
<1>1. /\ m \in Seq(S) /\ Len(m) = Len(l) + 1 /\ Len(l) \in Nat /\ m[Len(m)] = t
      /\ \A i \in 1..Len(l) : m[i] = l[i]
  OBVIOUS
<1> HIDE DEF m
<1>2. \A i \in 1..Len(l) : l[i] # t
  BY InList
<1>3. IsInjective(m)
  BY <1>1, <1>2 DEF IsInjective
<1>4. ToSet(m) = ToSet(l) \cup {t}
  <2>1. ASSUME NEW s \in ToSet(m) PROVE s \in ToSet(l) \cup {t}
    BY <1>1, <2>1 DEF ToSet
  <2>2. ASSUME NEW s \in ToSet(l) PROVE s \in ToSet(m)
    BY <1>1, <2>2 DEF ToSet
  <2>3. t \in ToSet(m)
    <3>1. Len(m) \in 1..Len(m)
      BY <1>1
    <3>2. QED
      BY <1>1, <3>1 DEF ToSet
  <2>4. QED
    BY <2>1, <2>2, <2>3
<1>5. QED
  BY <1>1, <1>3, <1>4, Zenon DEF m

LEMMA AppendOrder ==
    ASSUME NEW S, NEW l \in Seq(S), NEW t \in S
    PROVE  /\ \A x, y : Behind(l, x, y) => Behind(Append(l, t), x, y)
           /\ \A x \in ToSet(l) : Behind(Append(l, t), x, t)
<1> DEFINE m == Append(l, t)
<1>1. /\ m \in Seq(S) /\ Len(m) = Len(l) + 1 /\ Len(l) \in Nat /\ m[Len(m)] = t
      /\ \A i \in 1..Len(l) : m[i] = l[i]
  OBVIOUS
<1> HIDE DEF m
<1>2. ASSUME NEW x, NEW y, Behind(l, x, y) PROVE Behind(m, x, y)
  BY <1>1, <1>2 DEF Behind
<1>3. ASSUME NEW x \in ToSet(l) PROVE Behind(m, x, t)
  <2>1. PICK i \in 1..Len(l) : l[i] = x
    BY InList
  <2>2. QED
    BY <1>1, <2>1 DEF Behind
<1>4. QED
  BY <1>2, <1>3, Zenon DEF m

\* The list without its first node.
LEMMA TailKeeps ==
    ASSUME NEW S, NEW l \in Seq(S), IsInjective(l), l # <<>>
    PROVE  /\ Tail(l) \in Seq(S) /\ IsInjective(Tail(l))
           /\ ToSet(Tail(l)) = ToSet(l) \ {Head(l)}
           /\ Head(l) \in ToSet(l) /\ Head(l) \in S
<1> DEFINE m == Tail(l)
<1>1. /\ m \in Seq(S) /\ Len(l) \in Nat \ {0} /\ Len(m) = Len(l) - 1
      /\ \A i \in 1..Len(m) : m[i] = l[i + 1]
      /\ Head(l) = l[1]
  OBVIOUS
<1> HIDE DEF m
<1>2. \A i \in 1..Len(m) : i + 1 \in 1..Len(l) /\ i + 1 # 1
  BY <1>1
<1>3. \A i \in 1..Len(l) : i # 1 => i - 1 \in 1..Len(m) /\ m[i - 1] = l[i]
  BY <1>1
<1>4. 1 \in 1..Len(l) /\ Head(l) \in ToSet(l) /\ Head(l) \in S
  BY <1>1, InList
<1>5. IsInjective(m)
  <2> SUFFICES ASSUME NEW i \in 1..Len(m), NEW j \in 1..Len(m), m[i] = m[j]
               PROVE  i = j
    BY <1>1 DEF IsInjective
  <2>1. i + 1 = j + 1
    BY <1>1, <1>2, SMTT(30) DEF IsInjective
  <2>2. QED
    BY <1>1, <2>1
<1>6. ASSUME NEW s \in ToSet(m) PROVE s \in ToSet(l) /\ s # Head(l)
  <2>1. PICK i \in 1..Len(m) : m[i] = s
    BY <1>1, InList
  <2>2. s = l[i + 1] /\ i + 1 \in 1..Len(l) /\ i + 1 # 1
    BY <1>1, <1>2, <2>1
  <2>3. s \in ToSet(l)
    BY <2>2, InList
  <2>4. s # l[1]
    BY <1>4, <2>2 DEF IsInjective
  <2>5. QED
    BY <1>1, <2>3, <2>4
<1>7. ASSUME NEW s \in ToSet(l), s # Head(l) PROVE s \in ToSet(m)
  <2>1. PICK i \in 1..Len(l) : l[i] = s
    BY InList
  <2>2. QED
    BY <1>1, <1>3, <1>7, <2>1, InList
<1>8. QED
  BY <1>1, <1>4, <1>5, <1>6, <1>7 DEF m

\* The list cut in two.
LEMMA CutFront ==
    ASSUME NEW S, NEW l \in Seq(S), IsInjective(l), NEW n \in 0..Len(l)
    PROVE  /\ SubSeq(l, 1, n) \in Seq(S) /\ IsInjective(SubSeq(l, 1, n))
           /\ ToSet(SubSeq(l, 1, n)) = {l[i] : i \in 1..n}
<1> DEFINE a == SubSeq(l, 1, n)
<1>1. a \in Seq(S) /\ Len(a) = n /\ \A i \in 1..n : a[i] = l[i]
  OBVIOUS
<1> HIDE DEF a
<1>2. DOMAIN a = 1..n /\ 1..n \subseteq 1..Len(l)
  BY <1>1
<1>3. IsInjective(a)
  BY <1>1, <1>2 DEF IsInjective
<1>4. ToSet(a) = {a[i] : i \in 1..n}
  BY <1>2, Zenon DEF ToSet
<1>5. ToSet(a) = {l[i] : i \in 1..n}
  BY <1>1, <1>4
<1>6. QED
  BY <1>1, <1>3, <1>5, Zenon DEF a

LEMMA CutRest ==
    ASSUME NEW S, NEW l \in Seq(S), IsInjective(l), NEW n \in 0..Len(l)
    PROVE  /\ SubSeq(l, n + 1, Len(l)) \in Seq(S) /\ IsInjective(SubSeq(l, n + 1, Len(l)))
           /\ ToSet(SubSeq(l, n + 1, Len(l))) = ToSet(l) \ {l[i] : i \in 1..n}
<1> DEFINE b == SubSeq(l, n + 1, Len(l))
<1>1. b \in Seq(S) /\ Len(b) = Len(l) - n /\ \A i \in 1..(Len(l) - n) : b[i] = l[n + i]
  OBVIOUS
<1> HIDE DEF b
<1>2. Len(l) \in Nat /\ n \in Nat /\ n <= Len(l)
  OBVIOUS
<1>3. \A x, y \in 1..Len(l) : l[x] = l[y] => x = y
  BY DEF IsInjective
<1>4. \A i \in 1..(Len(l) - n) : n + i \in 1..Len(l) /\ n + i > n
  BY <1>2
<1>5. \A i \in 1..Len(l) : i > n => i - n \in 1..(Len(l) - n) /\ n + (i - n) = i
  BY <1>2
<1>6. DOMAIN b = 1..(Len(l) - n) /\ Len(l) - n \in Nat
  BY <1>1, <1>2
<1>7. ToSet(b) = {b[i] : i \in 1..(Len(l) - n)}
  BY <1>6, Zenon DEF ToSet
<1>8. IsInjective(b)
  <2> SUFFICES ASSUME NEW i \in 1..(Len(l) - n), NEW j \in 1..(Len(l) - n), b[i] = b[j]
               PROVE  i = j
    BY <1>6 DEF IsInjective
  <2>1. l[n + i] = l[n + j]
    BY <1>1
  <2>2. n + i = n + j
    BY <1>3, <1>4, <2>1
  <2>3. i \in Int /\ j \in Int /\ n \in Int
    OBVIOUS
  <2>4. QED
    BY <2>2, <2>3
<1>9. ASSUME NEW s \in ToSet(b) PROVE s \in ToSet(l) /\ s \notin {l[i] : i \in 1..n}
  <2>1. PICK i \in 1..(Len(l) - n) : b[i] = s
    BY <1>7, <1>9
  <2>2. l[n + i] = s /\ n + i \in 1..Len(l) /\ n + i > n
    BY <1>1, <1>4, <2>1
  <2>3. \A j \in 1..n : j \in 1..Len(l) /\ j # n + i
    BY <1>2
  <2>4. \A j \in 1..n : l[j] # s
    BY <1>3, <2>2, <2>3
  <2>5. QED
    BY <2>2, <2>4, InList
<1>10. ASSUME NEW s \in ToSet(l), s \notin {l[i] : i \in 1..n} PROVE s \in ToSet(b)
  <2>1. PICK i \in 1..Len(l) : l[i] = s
    BY InList
  <2>2. i \notin 1..n
    BY <1>10, <2>1
  <2>3. i > n
    BY <1>2, <2>2
  <2>4. i - n \in 1..(Len(l) - n) /\ b[i - n] = s
    BY <1>1, <1>5, <2>1, <2>3
  <2>5. QED
    BY <1>7, <2>4
<1>11. ToSet(b) = ToSet(l) \ {l[i] : i \in 1..n}
  BY <1>9, <1>10
<1>12. QED
  BY <1>1, <1>8, <1>11, Zenon DEF b

\* Two lists made one.
LEMMA JoinKeeps ==
    ASSUME NEW S, NEW a \in Seq(S), NEW b \in Seq(S)
    PROVE  a \o b \in Seq(S) /\ ToSet(a \o b) = ToSet(a) \cup ToSet(b)
<1> DEFINE l == a \o b
<1>1. /\ l \in Seq(S) /\ Len(l) = Len(a) + Len(b) /\ Len(a) \in Nat /\ Len(b) \in Nat
      /\ \A i \in 1..Len(a) : l[i] = a[i]
      /\ \A i \in 1..Len(b) : l[Len(a) + i] = b[i]
  OBVIOUS
<1> HIDE DEF l
<1>2. \A i \in 1..Len(a) : i \in 1..Len(l)
  BY <1>1
<1>3. \A i \in 1..Len(b) : Len(a) + i \in 1..Len(l)
  BY <1>1
<1>4. ASSUME NEW i \in 1..Len(l), i \notin 1..Len(a)
      PROVE  i - Len(a) \in 1..Len(b) /\ l[i] = b[i - Len(a)]
  <2>1. i - Len(a) \in 1..Len(b) /\ Len(a) + (i - Len(a)) = i
    BY <1>1, <1>4
  <2>2. QED
    BY <1>1, <2>1
<1>5. ToSet(l) = ToSet(a) \cup ToSet(b)
  <2>1. ASSUME NEW s \in ToSet(l) PROVE s \in ToSet(a) \cup ToSet(b)
    <3>1. PICK i \in 1..Len(l) : l[i] = s
      BY <1>1 DEF ToSet
    <3>2. CASE i \in 1..Len(a)
      BY <1>1, <3>1, <3>2, InList
    <3>3. CASE i \notin 1..Len(a)
      BY <1>4, <3>1, <3>3, InList
    <3>4. QED
      BY <3>2, <3>3
  <2>2. ASSUME NEW s \in ToSet(a) PROVE s \in ToSet(l)
    <3>1. PICK i \in 1..Len(a) : a[i] = s
      BY InList
    <3>2. QED
      BY <1>1, <1>2, <3>1, InList
  <2>3. ASSUME NEW s \in ToSet(b) PROVE s \in ToSet(l)
    <3>1. PICK i \in 1..Len(b) : b[i] = s
      BY InList
    <3>2. QED
      BY <1>1, <1>3, <3>1, InList
  <2>4. QED
    BY <2>1, <2>2, <2>3
<1>6. QED
  BY <1>1, <1>5, Zenon DEF l

LEMMA JoinInjective ==
    ASSUME NEW S, NEW a \in Seq(S), NEW b \in Seq(S),
           IsInjective(a), IsInjective(b), ToSet(a) \cap ToSet(b) = {}
    PROVE  IsInjective(a \o b)
<1> DEFINE l == a \o b
<1>1. /\ l \in Seq(S) /\ Len(l) = Len(a) + Len(b) /\ Len(a) \in Nat /\ Len(b) \in Nat
      /\ \A i \in 1..Len(a) : l[i] = a[i]
      /\ \A i \in 1..Len(b) : l[Len(a) + i] = b[i]
  OBVIOUS
<1> HIDE DEF l
<1>4. ASSUME NEW i \in 1..Len(l), i \notin 1..Len(a)
      PROVE  i - Len(a) \in 1..Len(b) /\ l[i] = b[i - Len(a)]
  <2>1. i - Len(a) \in 1..Len(b) /\ Len(a) + (i - Len(a)) = i
    BY <1>1, <1>4
  <2>2. QED
    BY <1>1, <2>1
<1>5. IsInjective(l)
  <2> SUFFICES ASSUME NEW i \in 1..Len(l), NEW j \in 1..Len(l), l[i] = l[j]
               PROVE  i = j
    BY <1>1 DEF IsInjective
  <2>1. \A s \in 1..Len(a), t \in 1..Len(b) : a[s] # b[t]
    BY InList
  <2>2. CASE i \in 1..Len(a) /\ j \in 1..Len(a)
    BY <1>1, <2>2 DEF IsInjective
  <2>3. CASE i \notin 1..Len(a) /\ j \notin 1..Len(a)
    <3>1. i - Len(a) \in 1..Len(b) /\ j - Len(a) \in 1..Len(b) /\ b[i - Len(a)] = b[j - Len(a)]
      BY <1>4, <2>3
    <3>2. \A x, y \in 1..Len(b) : b[x] = b[y] => x = y
      BY DEF IsInjective
    <3>3. i - Len(a) = j - Len(a)
      BY <3>1, <3>2
    <3>4. i \in Int /\ j \in Int /\ Len(a) \in Int
      BY <1>1
    <3>5. QED
      BY <3>3, <3>4
  <2>4. CASE i \in 1..Len(a) /\ j \notin 1..Len(a)
    BY <1>1, <1>4, <2>1, <2>4
  <2>5. CASE i \notin 1..Len(a) /\ j \in 1..Len(a)
    BY <1>1, <1>4, <2>1, <2>5
  <2>6. QED
    BY <2>2, <2>3, <2>4, <2>5
<1>6. QED
  BY <1>5, Zenon DEF l

\* Of a finite set of numbers, each has another rank, and every rank is somebody's.
LEMMA Ranks ==
    ASSUME NEW m \in Nat, NEW I \in SUBSET (1..m)
    PROVE  /\ Cardinality(I) \in Nat
           /\ \A i \in I : RankIn(I, i) \in 1..Cardinality(I)
           /\ \A i, j \in I : i < j => RankIn(I, i) < RankIn(I, j)
           /\ \A n \in 1..Cardinality(I) : \E i \in I : RankIn(I, i) = n
<1> DEFINE r == [i \in I |-> RankIn(I, i)]
<1>0. \A i \in I : r[i] = Cardinality({k \in I : k <= i}) /\ r[i] = RankIn(I, i)
  BY DEF RankIn
<1>1. IsFiniteSet(I) /\ Cardinality(I) \in Nat /\ I \subseteq Nat
  <2>1. IsFiniteSet(1..m)
    BY FS_Interval
  <2>2. I \subseteq 1..m /\ I \subseteq Nat
    OBVIOUS
  <2>3. IsFiniteSet(I)
    BY <2>1, <2>2, FS_Subset
  <2>4. Cardinality(I) \in Nat
    BY <2>3, FS_CardinalityType
  <2>5. QED
    BY <2>2, <2>3, <2>4
<1> DEFINE Upto(i) == {k \in I : k <= i}
           n == Cardinality(I)
<1>2. ASSUME NEW i \in I PROVE IsFiniteSet(Upto(i)) /\ r[i] = Cardinality(Upto(i)) /\ r[i] \in 1..n
  <2>1. Upto(i) \subseteq I /\ i \in Upto(i) /\ r[i] = Cardinality(Upto(i))
    BY <1>0, <1>1
  <2> HIDE DEF Upto
  <2>2. IsFiniteSet(Upto(i)) /\ Cardinality(Upto(i)) \in Nat /\ Cardinality(Upto(i)) <= n
    BY <1>1, <2>1, FS_Subset, FS_CardinalityType
  <2>3. Cardinality(Upto(i)) # 0
    BY <2>1, <2>2, FS_EmptySet
  <2>4. QED
    BY <1>1, <2>1, <2>2, <2>3
<1>3. ASSUME NEW i \in I, NEW j \in I, i < j PROVE r[i] < r[j]
  <2>1. Upto(i) \subseteq Upto(j) /\ j \in Upto(j) /\ j \notin Upto(i)
    <3>1. i \in Nat /\ j \in Nat /\ \A k \in I : k \in Nat
      BY <1>1
    <3>2. \A k \in I : k <= i => k <= j
      BY <1>3, <3>1
    <3>3. j <= j /\ ~(j <= i)
      BY <1>3, <3>1
    <3>4. QED
      BY <3>2, <3>3
  <2>2. IsFiniteSet(Upto(j)) /\ r[i] = Cardinality(Upto(i)) /\ r[j] = Cardinality(Upto(j)) /\ r[i] \in Nat /\ r[j] \in Nat
    BY <1>1, <1>2
  <2> HIDE DEF Upto
  <2>3. Cardinality(Upto(i)) <= Cardinality(Upto(j))
    BY <2>1, <2>2, FS_Subset
  <2>4. Cardinality(Upto(i)) # Cardinality(Upto(j))
    BY <2>1, <2>2, FS_Subset
  <2>5. QED
    BY <2>2, <2>3, <2>4
<1>4. r \in [I -> 1..n]
  BY <1>2
<1>5. r \in Injection(I, 1..n)
  <2>1. ASSUME NEW i \in I, NEW j \in I, r[i] = r[j] PROVE i = j
    <3>1. ~(r[i] < r[j]) /\ ~(r[j] < r[i])
      <4> DEFINE a == r[i]
                 b == r[j]
      <4>1. a \in 1..n /\ b = a
        BY <1>2, <2>1
      <4> HIDE DEF a, b, r, n
      <4>2. ~(a < b) /\ ~(b < a)
        BY <1>1, <4>1
      <4>3. QED
        BY <4>2 DEF a, b
    <3>2. ~(i < j) /\ ~(j < i)
      BY <1>3, <3>1
    <3>3. QED
      BY <1>1, <3>2
  <2>2. QED
    BY <1>4, <2>1 DEF Injection, IsInjective
<1>6. IsFiniteSet(1..n) /\ Cardinality(1..n) = n
  BY <1>1, FS_Interval
<1>7. r \in Surjection(I, 1..n)
  BY <1>5, <1>6, FS_Injection
<1> HIDE DEF r
<1>8. \A k \in 1..n : \E i \in I : r[i] = k
  BY <1>7 DEF Surjection
<1>9. QED
  BY <1>0, <1>1, <1>2, <1>3, <1>8

\* The list without some of its nodes: the others, in their order.
LEMMA PickedKeeps ==
    ASSUME NEW S, NEW l \in Seq(S), NEW I \in SUBSET (1..Len(l))
    PROVE  /\ Picked(l, I) \in Seq(S) /\ Len(Picked(l, I)) = Cardinality(I) /\ Cardinality(I) \in Nat
           /\ \E at \in [1..Cardinality(I) -> I] :
                 /\ \A j, k \in 1..Cardinality(I) : j < k => at[j] < at[k]
                 /\ \A i \in I : \E k \in 1..Cardinality(I) : at[k] = i
                 /\ \A k \in 1..Cardinality(I) : Picked(l, I)[k] = l[at[k]]
<1> DEFINE n == Cardinality(I)
           at == [j \in 1..n |-> CHOOSE i \in I : RankIn(I, i) = j]
           m == Len(l)
<1>1. /\ n \in Nat /\ \A i \in I : RankIn(I, i) \in 1..n
      /\ \A i, j \in I : i < j => RankIn(I, i) < RankIn(I, j)
      /\ \A j \in 1..n : \E i \in I : RankIn(I, i) = j
  <2>1. m \in Nat /\ I \in SUBSET (1..m)
    OBVIOUS
  <2> HIDE DEF m
  <2>2. QED
    BY <2>1, Ranks
<1>2. Picked(l, I) = [j \in 1..n |-> l[CHOOSE i \in I : RankIn(I, i) = j]]
  BY DEF Picked
<1>3. \A j \in 1..n : at[j] \in I /\ RankIn(I, at[j]) = j
  BY <1>1
<1> HIDE DEF n
<1>4. \A j \in 1..n : Picked(l, I)[j] = l[at[j]]
  BY <1>2
<1>5. DOMAIN Picked(l, I) = 1..n /\ DOMAIN at = 1..n
  BY <1>2
<1>6. at \in [1..n -> I]
  BY <1>3
<1> HIDE DEF at
<1>7. I \subseteq Nat
  OBVIOUS
<1>8. ASSUME NEW j \in 1..n, NEW k \in 1..n, j < k PROVE at[j] < at[k]
  <2>1. at[j] \in Nat /\ at[k] \in Nat /\ at[j] \in I /\ at[k] \in I
    BY <1>3, <1>7
  <2>2. at[j] # at[k]
    BY <1>3, <1>8
  <2>3. ~(at[k] < at[j])
    <3> SUFFICES ASSUME at[k] < at[j] PROVE FALSE
      OBVIOUS
    <3>1. RankIn(I, at[k]) < RankIn(I, at[j])
      BY <1>1, <2>1
    <3>2. QED
      BY <1>3, <1>8, <3>1
  <2>4. QED
    BY <2>1, <2>2, <2>3
<1>9. ASSUME NEW i \in I PROVE \E k \in 1..n : at[k] = i
  <2> DEFINE c == RankIn(I, i)
  <2>1. c \in 1..n /\ at[c] \in I /\ RankIn(I, at[c]) = c
    BY <1>1, <1>3
  <2> DEFINE x == at[c]
  <2>2. x \in I /\ x \in Nat /\ i \in Nat /\ RankIn(I, x) = c /\ c \in Nat
    <3>1. c \in Nat
      BY <2>1
    <3>2. QED
      BY <1>7, <2>1, <3>1 DEF x
  <2> HIDE DEF x
  <2>3. ~(x < i) /\ ~(i < x)
    BY <1>1, <2>2
  <2>4. x = i
    BY <2>2, <2>3
  <2>5. QED
    BY <2>1, <2>4 DEF x
<1>10. Picked(l, I) \in Seq(S)
  <2>1. \A j \in 1..n : Picked(l, I)[j] \in S
    <3>1. \A i \in 1..Len(l) : l[i] \in S
      OBVIOUS
    <3>2. \A j \in 1..n : at[j] \in 1..Len(l)
      BY <1>3
    <3>3. QED
      BY <1>4, <3>1, <3>2
  <2>2. Picked(l, I) = [j \in 1..n |-> l[at[j]]]
    BY <1>2, <1>4
  <2> DEFINE p == [j \in 1..n |-> l[at[j]]]
  <2>3. p \in [1..n -> S]
    BY <1>4, <2>1, <2>2
  <2>4. p \in Seq(S)
    BY <1>1, <2>3
  <2>5. QED
    BY <2>2, <2>4
<1>11. Len(Picked(l, I)) = n
  BY <1>1, <1>5, <1>10
<1>12. QED
  BY <1>1, <1>4, <1>6, <1>8, <1>9, <1>10, <1>11 DEF n

\* Exactly the nodes at the places I stay.
LEMMA PickedElements ==
    ASSUME NEW S, NEW l \in Seq(S), NEW I \in SUBSET (1..Len(l))
    PROVE  \A x : x \in ToSet(Picked(l, I)) <=> \E i \in I : x = l[i]
<1> DEFINE n == Cardinality(I)
           p == Picked(l, I)
<1>1. p \in Seq(S) /\ Len(p) = n /\ n \in Nat
  BY PickedKeeps
<1>2. PICK at \in [1..n -> I] :
         /\ \A i \in I : \E k \in 1..n : at[k] = i
         /\ \A k \in 1..n : p[k] = l[at[k]]
  BY PickedKeeps
<1>3. DOMAIN p = 1..n
  BY <1>1
<1> HIDE DEF p, n
<1>4. ASSUME NEW x \in ToSet(p) PROVE \E i \in I : x = l[i]
  <2>1. PICK k \in 1..n : x = p[k]
    BY <1>3, <1>4 DEF ToSet
  <2>2. at[k] \in I /\ p[k] = l[at[k]]
    BY <1>2
  <2>3. QED
    BY <2>1, <2>2
<1>5. ASSUME NEW i \in I PROVE l[i] \in ToSet(p)
  BY <1>2, <1>3 DEF ToSet
<1>6. QED
  BY <1>4, <1>5 DEF p

\* Taking some of a list in which nothing stands twice leaves such a list.
LEMMA PickedInjective ==
    ASSUME NEW S, NEW l \in Seq(S), IsInjective(l), NEW I \in SUBSET (1..Len(l))
    PROVE  /\ IsInjective(Picked(l, I))
           /\ ToSet(Picked(l, I)) = {l[i] : i \in I}
<1> DEFINE n == Cardinality(I)
           p == Picked(l, I)
<1>1. p \in Seq(S) /\ Len(p) = n /\ n \in Nat
  BY PickedKeeps
<1>2. PICK at \in [1..n -> I] :
         /\ \A j, k \in 1..n : j < k => at[j] < at[k]
         /\ \A i \in I : \E k \in 1..n : at[k] = i
         /\ \A k \in 1..n : p[k] = l[at[k]]
  BY PickedKeeps
<1> HIDE DEF n, p
<1>3. DOMAIN p = 1..n
  BY <1>1
<1>4. ASSUME NEW j \in 1..n, NEW k \in 1..n, p[j] = p[k] PROVE j = k
  <2>1. at[j] \in I /\ at[k] \in I /\ I \subseteq 1..Len(l) /\ I \subseteq Nat
    BY <1>2
  <2>2. l[at[j]] = l[at[k]]
    BY <1>2, <1>4
  <2> DEFINE x == at[j]
             y == at[k]
  <2>3. x \in 1..Len(l) /\ y \in 1..Len(l) /\ l[x] = l[y] /\ x \in Nat
    BY <2>1, <2>2
  <2>4. at[j] = x /\ at[k] = y
    OBVIOUS
  <2> HIDE DEF x, y
  <2>5. x = y
    BY <2>3 DEF IsInjective
  <2>6. at[j] = at[k] /\ at[j] \in Nat
    BY <2>3, <2>4, <2>5
  <2>7. ~(j < k) /\ ~(k < j)
    BY <1>2, <2>6
  <2>8. QED
    BY <2>7
<1>5. IsInjective(p)
  BY <1>3, <1>4 DEF IsInjective
<1>6. ToSet(p) = {l[i] : i \in I}
  <2>1. ASSUME NEW s \in ToSet(p) PROVE \E i \in I : s = l[i]
    <3>1. PICK k \in 1..n : s = p[k]
      BY <1>3, <2>1 DEF ToSet
    <3>2. at[k] \in I /\ s = l[at[k]]
      BY <1>2, <3>1
    <3>3. QED
      BY <3>2
  <2>2. ASSUME NEW i \in I PROVE l[i] \in ToSet(p)
    BY <1>2, <1>3 DEF ToSet
  <2>3. QED
    BY <2>1, <2>2
<1>7. QED
  BY <1>5, <1>6 DEF p

-----------------------------------------------------------------------------
(* Lists built up node by node: FoldLeft *)

\* Induction: a set that holds 0 and the successors of its members holds N.
LEMMA CountedUp ==
    ASSUME NEW N \in Nat, NEW G, 0 \in G, \A k \in 0..(N - 1) : k \in G => k + 1 \in G
    PROVE  \A k \in 0..N : k \in G
<1> DEFINE Fails == {k \in 0..N : k \notin G}
<1>1. Fails = {}
  <2> SUFFICES ASSUME Fails # {} PROVE FALSE
    OBVIOUS
  <2>1. Fails \in SUBSET Nat
    OBVIOUS
  <2>2. PICK k \in Fails : \A y \in Fails : k <= y
    <3> HIDE DEF Fails
    <3>1. QED
      BY <2>1, LeastOfSet
  <2>3. k \in 1..N /\ k \notin G
    BY <2>2
  <2>4. k - 1 \in 0..(N - 1) /\ k - 1 \in 0..N /\ (k - 1) + 1 = k /\ ~(k <= k - 1)
    BY <2>3
  <2>5. k - 1 \in G
    BY <2>2, <2>4
  <2>6. QED
    BY <2>3, <2>4, <2>5
<1>2. QED
  BY <1>1

\* The first k numbers and the last of them.
LEMMA FirstNumbers ==
    ASSUME NEW k \in Nat
    PROVE  /\ 1..0 = {} /\ 1..(k + 1) # {} /\ Max(1..(k + 1)) = k + 1 /\ (1..(k + 1)) \ {k + 1} = 1..k
           /\ \A s \in SUBSET (1..(k + 1)) : k + 1 \in s => Max(s) = k + 1 /\ s \ {k + 1} \in SUBSET (1..k)
           /\ \A s \in SUBSET (1..(k + 1)) : k + 1 \notin s => s \in SUBSET (1..k)
<1>1. ASSUME NEW s \in SUBSET (1..(k + 1)), k + 1 \in s PROVE Max(s) = k + 1
  <2>1. \A y \in s : k + 1 >= y
    OBVIOUS
  <2>2. \A x \in s : (\A y \in s : x >= y) => x = k + 1
    BY <1>1
  <2>3. QED
    BY <1>1, <2>1, <2>2 DEF Max
<1>2. 1..(k + 1) \in SUBSET (1..(k + 1)) /\ k + 1 \in 1..(k + 1)
  OBVIOUS
<1>3. Max(1..(k + 1)) = k + 1
  BY <1>1, <1>2
<1>4. 1..0 = {} /\ 1..(k + 1) # {} /\ (1..(k + 1)) \ {k + 1} = 1..k
  <2>1. \A i : i \in (1..(k + 1)) \ {k + 1} <=> i \in 1..k
    OBVIOUS
  <2>2. 1..0 = {} /\ 1..(k + 1) # {}
    BY <1>2
  <2>3. QED
    BY <2>1, <2>2
<1>5. ASSUME NEW s \in SUBSET (1..(k + 1)) PROVE s \ {k + 1} \in SUBSET (1..k)
  BY <1>4
<1>6. ASSUME NEW s \in SUBSET (1..(k + 1)), k + 1 \notin s PROVE s \in SUBSET (1..k)
  BY <1>4, <1>6
<1>7. QED
  BY <1>1, <1>3, <1>4, <1>5, <1>6

\* The function on sets of numbers that FoldLeft is defined by, for a step F within A.
Folds(g, A, base, N, F) ==
    /\ g \in [SUBSET (1..N) -> A]
    /\ \A s \in SUBSET (1..N) : g[s] = IF s = {} THEN base ELSE F[<<Max(s), g[s \ {Max(s)}]>>]

\* There is one.
LEMMA FoldExists ==
    ASSUME NEW A, NEW base \in A, NEW N \in Nat, NEW F \in [(1..N) \X A -> A]
    PROVE  \E g : Folds(g, A, base, N, F)
<1> DEFINE Good(k) == \E g \in [SUBSET (1..k) -> A] :
              \A s \in SUBSET (1..k) : g[s] = IF s = {} THEN base ELSE F[<<Max(s), g[s \ {Max(s)}]>>]
           G == {k \in 0..N : Good(k)}
<1>1. Good(0)
  <2>1. SUBSET (1..0) = {{}}
    BY FirstNumbers
  <2> DEFINE g == [s \in SUBSET (1..0) |-> base]
  <2>2. g \in [SUBSET (1..0) -> A] /\ \A s \in SUBSET (1..0) : s = {} /\ g[s] = base
    BY <2>1
  <2> HIDE DEF g
  <2>3. QED
    BY <2>2
<1>2. ASSUME NEW k \in 0..(N - 1), Good(k) PROVE Good(k + 1)
  <2>1. PICK g \in [SUBSET (1..k) -> A] :
           \A s \in SUBSET (1..k) : g[s] = IF s = {} THEN base ELSE F[<<Max(s), g[s \ {Max(s)}]>>]
    BY <1>2
  <2> HIDE DEF Good
  <2> DEFINE n == k + 1
             h == [s \in SUBSET (1..n) |-> IF n \in s THEN F[<<n, g[s \ {n}]>>] ELSE g[s]]
  <2>2. /\ k \in Nat /\ n \in 1..N
        /\ \A s \in SUBSET (1..n) : n \in s => Max(s) = n /\ s \ {n} \in SUBSET (1..k)
        /\ \A s \in SUBSET (1..n) : n \notin s => s \in SUBSET (1..k)
    <3>1. k \in Nat /\ n \in 1..N
      OBVIOUS
    <3>2. QED
      BY <3>1, FirstNumbers
  <2>3. \A s \in SUBSET (1..k) : n \notin s /\ g[s] \in A
    BY <2>2
  <2>4. \A x \in A : F[<<n, x>>] \in A
    BY <2>2
  <2> HIDE DEF n
  <2>5. h \in [SUBSET (1..n) -> A]
    <3>1. ASSUME NEW s \in SUBSET (1..n) PROVE (IF n \in s THEN F[<<n, g[s \ {n}]>>] ELSE g[s]) \in A
      BY <2>2, <2>3, <2>4
    <3>2. QED
      BY <3>1
  <2>6. ASSUME NEW s \in SUBSET (1..n) PROVE h[s] = IF s = {} THEN base ELSE F[<<Max(s), h[s \ {Max(s)}]>>]
    <3>1. CASE n \in s
      <4>1. Max(s) = n /\ s \ {n} \in SUBSET (1..k) /\ s \ {n} \in SUBSET (1..n) /\ n \notin s \ {n}
        BY <2>2, <3>1
      <4>2. h[s \ {n}] = g[s \ {n}]
        BY <4>1
      <4>3. h[s] = F[<<n, g[s \ {n}]>>]
        BY <3>1
      <4>4. QED
        BY <3>1, <4>1, <4>2, <4>3
    <3>2. CASE n \notin s
      <4>1. s \in SUBSET (1..k) /\ h[s] = g[s]
        BY <2>2, <3>2
      <4>2. CASE s = {}
        BY <2>1, <4>1, <4>2
      <4>3. CASE s # {}
        <5> DEFINE r == s \ {Max(s)}
        <5>1. r \in SUBSET (1..n) /\ n \notin r
          BY <3>2
        <5>2. h[r] = g[r]
          BY <5>1
        <5>3. QED
          BY <2>1, <4>1, <4>3, <5>2
      <4>4. QED
        BY <4>2, <4>3
    <3>3. QED
      BY <3>1, <3>2
  <2> HIDE DEF h
  <2>7. Good(n)
    BY <2>5, <2>6 DEF Good
  <2>8. QED
    BY <2>7 DEF n
<1> HIDE DEF Good
<1>3. \A k \in 0..N : k \in G
  <2>1. 0 \in G /\ \A k \in 0..(N - 1) : k \in G => k + 1 \in G
    BY <1>1, <1>2
  <2> HIDE DEF G
  <2>2. QED
    BY <2>1, CountedUp
<1>4. Good(N)
  BY <1>3
<1>5. QED
  BY <1>4 DEF Good, Folds

\* The function of a fold, from set to set.
Steps(g, A, base, N, F) ==
    /\ g = [s \in SUBSET (1..N) |-> g[s]] /\ g[{}] = base
    /\ \A s \in SUBSET (1..N) : s # {} =>
          /\ Max(s) \in 1..N /\ g[s \ {Max(s)}] \in A
          /\ g[s] = F[<<Max(s), g[s \ {Max(s)}]>>]

LEMMA FoldSteps ==
    ASSUME NEW A, NEW base, NEW N \in Nat, NEW F, NEW g, Folds(g, A, base, N, F)
    PROVE  Steps(g, A, base, N, F)
<1>1. /\ g \in [SUBSET (1..N) -> A]
      /\ \A s \in SUBSET (1..N) : g[s] = IF s = {} THEN base ELSE F[<<Max(s), g[s \ {Max(s)}]>>]
  BY DEF Folds
<1>2. ASSUME NEW s \in SUBSET (1..N), s # {}
      PROVE  /\ Max(s) \in 1..N /\ g[s \ {Max(s)}] \in A
             /\ g[s] = F[<<Max(s), g[s \ {Max(s)}]>>]
  <2>1. Max(s) \in s
    BY <1>2, GreatestOfSet
  <2>2. s \ {Max(s)} \in SUBSET (1..N)
    OBVIOUS
  <2>3. QED
    BY <1>1, <1>2, <2>1, <2>2
<1>3. g[{}] = base
  BY <1>1
<1>4. QED
  BY <1>1, <1>2, <1>3 DEF Steps

\* A function that goes as F does as long as it is within A.
GoesAs(h, A, base, N, F) ==
    /\ h[{}] = base
    /\ \A s \in SUBSET (1..N) :
          s # {} /\ h[s \ {Max(s)}] \in A => h[s] = F[<<Max(s), h[s \ {Max(s)}]>>]

\* What a fold comes to, node by node, from `base' to `last'.
Staged(at, A, base, N, F, last) ==
    /\ at \in [0..N -> A] /\ at[0] = base /\ at[N] = last
    /\ \A k \in 0..(N - 1) : at[k + 1] = F[<<k + 1, at[k]>>]

LEMMA GoesStages ==
    ASSUME NEW A, NEW base \in A, NEW N \in Nat, NEW F \in [(1..N) \X A -> A],
           NEW h, GoesAs(h, A, base, N, F)
    PROVE  h[1..N] \in A /\ \E at : Staged(at, A, base, N, F, h[1..N])
<1>1. h[1..0] = base
  BY FirstNumbers, 0 \in Nat DEF GoesAs
<1>2. ASSUME NEW k \in 0..(N - 1), h[1..k] \in A
      PROVE  h[1..(k + 1)] = F[<<k + 1, h[1..k]>>] /\ h[1..(k + 1)] \in A
  <2>1. k \in Nat /\ k + 1 \in 1..N
    OBVIOUS
  <2>2. Max(1..(k + 1)) = k + 1 /\ (1..(k + 1)) \ {k + 1} = 1..k /\ 1..(k + 1) # {}
    BY <2>1, FirstNumbers
  <2>3. 1..(k + 1) \in SUBSET (1..N)
    BY <2>1
  <2>4. h[1..(k + 1)] = F[<<k + 1, h[1..k]>>]
    BY <1>2, <2>2, <2>3 DEF GoesAs
  <2>5. QED
    BY <1>2, <2>1, <2>4
<1>3. \A k \in 0..N : h[1..k] \in A
  <2> DEFINE G == {k \in 0..N : h[1..k] \in A}
  <2>1. 0 \in G
    BY <1>1
  <2>2. ASSUME NEW k \in 0..(N - 1), k \in G PROVE k + 1 \in G
    <3>1. k + 1 \in 0..N /\ h[1..k] \in A
      BY <2>2
    <3>2. QED
      BY <1>2, <3>1
  <2>3. \A k \in 0..N : k \in G
    <3> HIDE DEF G
    <3>1. QED
      BY <2>1, <2>2, CountedUp
  <2>4. QED
    BY <2>3
<1> DEFINE at == [k \in 0..N |-> h[1..k]]
<1>4. at \in [0..N -> A] /\ at[0] = base /\ at[N] = h[1..N]
  BY <1>1, <1>3
<1>5. ASSUME NEW k \in 0..(N - 1) PROVE at[k + 1] = F[<<k + 1, at[k]>>]
  <2>1. k \in 0..N /\ k + 1 \in 0..N
    OBVIOUS
  <2>2. QED
    BY <1>2, <1>3, <2>1
<1> HIDE DEF at
<1>6. QED
  BY <1>3, <1>4, <1>5 DEF Staged

\* There is only one way.
LEMMA StagesAgree ==
    ASSUME NEW A, NEW base, NEW N \in Nat, NEW F, NEW a, NEW b, NEW x, NEW y,
           Staged(a, A, base, N, F, x), Staged(b, A, base, N, F, y)
    PROVE  x = y
<1> DEFINE G == {k \in 0..N : a[k] = b[k]}
<1>1. a[0] = b[0]
  BY DEF Staged
<1>2. ASSUME NEW k \in 0..(N - 1), k \in G PROVE k + 1 \in G
  <2>1. k + 1 \in 0..N /\ a[k] = b[k]
    BY <1>2
  <2>2. a[k + 1] = F[<<k + 1, a[k]>>] /\ b[k + 1] = F[<<k + 1, b[k]>>]
    BY DEF Staged
  <2>3. QED
    BY <2>1, <2>2
<1>3. 0 \in G
  BY <1>1
<1>4. \A k \in 0..N : k \in G
  <2> HIDE DEF G
  <2>1. QED
    BY <1>2, <1>3, CountedUp
<1>5. N \in G
  BY <1>4
<1>6. QED
  BY <1>5 DEF Staged

-----------------------------------------------------------------------------
(* Lists of lists, one behind the other: FlattenSeq *)

\* f[k] is the first k lists of s, one behind the other.
Joins(f, S, s) ==
    /\ f \in [0..Len(s) -> Seq(S)] /\ f[0] = <<>>
    /\ \A i \in 1..Len(s) : f[i] = f[i - 1] \o s[i]

LEMMA JoinsExist ==
    ASSUME NEW S, NEW s \in Seq(Seq(S))
    PROVE  \E f : Joins(f, S, s)
<1> DEFINE N == Len(s)
           Good(k) == \E f \in [0..k -> Seq(S)] : f[0] = <<>> /\ \A i \in 1..k : f[i] = f[i - 1] \o s[i]
           G == {k \in 0..N : Good(k)}
<1>1. N \in Nat /\ \A i \in 1..N : s[i] \in Seq(S)
  OBVIOUS
<1>2. Good(0)
  <2> DEFINE f == [k \in 0..0 |-> <<>>]
  <2>1. f \in [0..0 -> Seq(S)] /\ f[0] = <<>> /\ 1..0 = {}
    BY FirstNumbers
  <2> HIDE DEF f
  <2>2. QED
    BY <2>1
<1> HIDE DEF N
<1>3. ASSUME NEW k \in 0..(N - 1), Good(k) PROVE Good(k + 1)
  <2>1. PICK f \in [0..k -> Seq(S)] : f[0] = <<>> /\ \A i \in 1..k : f[i] = f[i - 1] \o s[i]
    BY <1>3
  <2> HIDE DEF Good
  <2> DEFINE n == k + 1
             g == [i \in 0..n |-> IF i = n THEN f[k] \o s[n] ELSE f[i]]
  <2>2. /\ k \in 0..k /\ n \in 1..N /\ n # 0 /\ 0 \in 0..k
        /\ \A i \in 0..n : i # n => i \in 0..k
        /\ \A i \in 1..n : i # n => i \in 1..k /\ i - 1 # n /\ i - 1 \in 0..k /\ i - 1 \in 0..n
        /\ n - 1 = k /\ n # k /\ n \in 0..n /\ k \in 0..n /\ 0 \in 0..n
    BY <1>1
  <2>3. f[k] \in Seq(S) /\ s[n] \in Seq(S) /\ f[k] \o s[n] \in Seq(S)
    BY <1>1, <2>2, JoinKeeps
  <2> HIDE DEF n
  <2>4. g \in [0..n -> Seq(S)]
    <3>1. ASSUME NEW i \in 0..n PROVE (IF i = n THEN f[k] \o s[n] ELSE f[i]) \in Seq(S)
      BY <2>2, <2>3
    <3>2. QED
      BY <3>1
  <2>5. g[0] = <<>> /\ g[n] = f[k] \o s[n] /\ g[k] = f[k] /\ \A i \in 0..k : i # n => g[i] = f[i]
    <3>1. \A i \in 0..k : i \in 0..n
      BY <1>1 DEF n
    <3>2. \A i \in 0..k : i # n => g[i] = f[i]
      BY <3>1
    <3>3. g[n] = f[k] \o s[n]
      BY <2>2
    <3>4. g[0] = f[0] /\ g[k] = f[k]
      BY <2>2, <3>2
    <3>5. QED
      BY <2>1, <3>2, <3>3, <3>4
  <2> HIDE DEF g
  <2>6. ASSUME NEW i \in 1..n PROVE g[i] = g[i - 1] \o s[i]
    <3>1. CASE i = n
      BY <2>2, <2>5, <3>1
    <3>2. CASE i # n
      <4>1. i \in 1..k /\ i - 1 \in 0..k /\ i \in 0..k /\ i - 1 # n
        BY <2>2, <3>2
      <4>2. QED
        BY <2>1, <2>5, <3>2, <4>1
    <3>3. QED
      BY <3>1, <3>2
  <2>7. Good(n)
    BY <2>4, <2>5, <2>6 DEF Good
  <2>8. QED
    BY <2>7 DEF n
<1>4. \A k \in 0..N : k \in G
  <2> HIDE DEF Good
  <2>1. 0 \in G /\ \A k \in 0..(N - 1) : k \in G => k + 1 \in G
    BY <1>1, <1>2, <1>3
  <2> HIDE DEF G
  <2>2. QED
    BY <1>1, <2>1, CountedUp
<1>5. Good(N)
  <2> HIDE DEF Good
  <2>1. N \in 0..N
    BY <1>1
  <2>2. QED
    BY <1>4, <2>1
<1>6. QED
  BY <1>5 DEF Joins, N

\* What the definition of FlattenSeq asks of its function.
Flattens(g, s) == \A i \in 1..Len(s) : g[i] = IF i = 1 THEN s[i] ELSE g[i - 1] \o s[i]

\* They are the only ones.
LEMMA JoinsAgree ==
    ASSUME NEW S, NEW s \in Seq(Seq(S)), NEW f, Joins(f, S, s),
           NEW g, Flattens(g, s)
    PROVE  \A i \in 1..Len(s) : g[i] = f[i]
<1> DEFINE n == Len(s)
<1>1. n \in Nat /\ \A i \in 1..n : s[i] \in Seq(S)
  OBVIOUS
<1>2. f[0] = <<>> /\ \A i \in 1..n : f[i] = f[i - 1] \o s[i]
  BY DEF Joins
<1>3. \A i \in 1..n : g[i] = IF i = 1 THEN s[i] ELSE g[i - 1] \o s[i]
  BY DEF Flattens
<1> HIDE DEF n
<1> DEFINE G == {k \in 0..n : k # 0 => g[k] = f[k]}
<1>0. n \in Nat
  BY <1>1
<1>4. 0 \in G
  BY <1>1
<1>5. ASSUME NEW k \in 0..(n - 1), k \in G PROVE k + 1 \in G
  <2>1. k + 1 \in 1..n /\ (k + 1) - 1 = k /\ k + 1 \in 0..n
    BY <1>0
  <2>2. CASE k = 0
    <3>1. 1 \in 1..n /\ 1 - 1 = 0
      BY <2>1, <2>2
    <3>2. f[1] = f[1 - 1] \o s[1] /\ s[1] \in Seq(S) /\ g[1] = s[1]
      BY <1>1, <1>2, <1>3, <3>1
    <3>3. f[1] = <<>> \o s[1]
      BY <1>2, <3>1, <3>2
    <3>4. <<>> \o s[1] = s[1]
      BY <3>2, ConcatEmptySeq
    <3>5. QED
      BY <2>1, <2>2, <3>2, <3>3, <3>4
  <2>3. CASE k # 0
    <3>1. k + 1 # 1 /\ g[k] = f[k]
      BY <1>5, <2>3
    <3>2. g[k + 1] = g[k] \o s[k + 1] /\ f[k + 1] = f[k] \o s[k + 1]
      BY <1>2, <1>3, <2>1, <3>1
    <3>3. QED
      BY <2>1, <3>1, <3>2
  <2>4. QED
    BY <2>2, <2>3
<1>6. \A k \in 0..n : k \in G
  <2> HIDE DEF G
  <2>1. QED
    BY <1>1, <1>4, <1>5, CountedUp
<1>7. QED
  BY <1>1, <1>6 DEF n

LEMMA FlattenIsLast ==
    ASSUME NEW S, NEW s \in Seq(Seq(S)), NEW f, Joins(f, S, s)
    PROVE  FlattenSeq(s) = f[Len(s)] /\ FlattenSeq(s) \in Seq(S)
<1> DEFINE n == Len(s)
           Is(h) == h = [i \in 1..n |-> IF i = 1 THEN s[i] ELSE h[i - 1] \o s[i]]
           c == CHOOSE h : Is(h)
<1>1. n \in Nat /\ f[n] \in Seq(S) /\ f[0] = <<>> /\ (n = 0 => s = <<>>)
  BY DEF Joins
<1>2. FlattenSeq(s) = IF n = 0 THEN s ELSE c[n]
  BY DEF FlattenSeq
<1>3. CASE n = 0
  BY <1>1, <1>2, <1>3
<1>4. CASE n # 0
  <2> DEFINE h == [i \in 1..n |-> f[i]]
  <2>1. Is(h)
    <3>1. ASSUME NEW i \in 1..n PROVE f[i] = IF i = 1 THEN s[i] ELSE h[i - 1] \o s[i]
      <4>1. f[i] = f[i - 1] \o s[i] /\ s[i] \in Seq(S)
        BY DEF Joins
      <4>2. CASE i = 1
        <5>1. f[i - 1] = <<>>
          BY <4>2 DEF Joins
        <5>2. QED
          BY <4>1, <4>2, <5>1, ConcatEmptySeq
      <4>3. CASE i # 1
        <5>1. i - 1 \in 1..n
          BY <4>3
        <5>2. QED
          BY <4>1, <4>3, <5>1
      <4>4. QED
        BY <4>2, <4>3
    <3>2. QED
      BY <3>1
  <2> HIDE DEF h, Is
  <2>2. Is(c)
    BY <2>1
  <2> HIDE DEF c
  <2>3. \A i \in 1..n : c[i] = IF i = 1 THEN s[i] ELSE c[i - 1] \o s[i]
    BY <2>2 DEF Is
  <2>4. Flattens(c, s)
    BY <2>3 DEF Flattens
  <2>7. \A i \in 1..n : c[i] = f[i]
    BY <2>4, JoinsAgree
  <2>5. c[n] = f[n]
    BY <1>1, <1>4, <2>7
  <2>6. QED
    BY <1>1, <1>2, <1>4, <2>5
<1>5. QED
  BY <1>3, <1>4

\* Lists of lists one behind the other, and behind each other.
LEMMA FlattenJoin ==
    ASSUME NEW S, NEW a \in Seq(Seq(S)), NEW b \in Seq(Seq(S))
    PROVE  /\ a \o b \in Seq(Seq(S))
           /\ FlattenSeq(a) \in Seq(S) /\ FlattenSeq(b) \in Seq(S)
           /\ FlattenSeq(a \o b) = FlattenSeq(a) \o FlattenSeq(b)
<1> DEFINE s == a \o b
           m == Len(a)
           n == Len(b)
<1>1. /\ s \in Seq(Seq(S)) /\ Len(s) = m + n /\ m \in Nat /\ n \in Nat
      /\ \A i \in 1..m : s[i] = a[i]
      /\ \A i \in 1..n : s[m + i] = b[i] /\ b[i] \in Seq(S)
  OBVIOUS
<1> HIDE DEF s
<1>2. PICK f : Joins(f, S, s)
  BY <1>1, JoinsExist
<1>3. PICK g : Joins(g, S, a)
  BY JoinsExist
<1>4. PICK h : Joins(h, S, b)
  BY JoinsExist
<1>5. /\ FlattenSeq(s) = f[m + n] /\ FlattenSeq(a) = g[m] /\ FlattenSeq(b) = h[n]
      /\ FlattenSeq(a) \in Seq(S) /\ FlattenSeq(b) \in Seq(S)
  BY <1>1, <1>2, <1>3, <1>4, FlattenIsLast
<1>6. f[0] = <<>> /\ \A i \in 1..(m + n) : f[i] = f[i - 1] \o s[i]
  BY <1>1, <1>2 DEF Joins
<1>7. g[0] = <<>> /\ \A i \in 1..m : g[i] = g[i - 1] \o a[i]
  BY <1>3 DEF Joins
<1>8. h \in [0..n -> Seq(S)] /\ h[0] = <<>> /\ \A i \in 1..n : h[i] = h[i - 1] \o b[i]
  BY <1>4 DEF Joins
<1>9. m \in Nat /\ n \in Nat /\ \A i \in 1..n : b[i] \in Seq(S)
  BY <1>1
<1>10. g[m] \in Seq(S)
  BY <1>5
<1> HIDE DEF m, n
<1>11. f[m] = g[m]
  <2> DEFINE G == {k \in 0..m : f[k] = g[k]}
  <2>1. 0 \in G
    BY <1>6, <1>7, <1>9
  <2>2. ASSUME NEW k \in 0..(m - 1), k \in G PROVE k + 1 \in G
    <3>1. k + 1 \in 1..m /\ k + 1 \in 1..(m + n) /\ (k + 1) - 1 = k /\ k + 1 \in 0..m
      BY <1>9
    <3>2. f[k + 1] = f[k] \o s[k + 1] /\ g[k + 1] = g[k] \o a[k + 1] /\ s[k + 1] = a[k + 1]
      BY <1>1, <1>6, <1>7, <3>1
    <3>3. QED
      BY <2>2, <3>1, <3>2
  <2>3. \A k \in 0..m : k \in G
    <3> HIDE DEF G
    <3>1. QED
      BY <1>9, <2>1, <2>2, CountedUp
  <2>4. QED
    BY <1>9, <2>3
<1>12. f[m + n] = g[m] \o h[n]
  <2> DEFINE G == {k \in 0..n : f[m + k] = g[m] \o h[k]}
  <2>1. 0 \in G
    <3>1. m + 0 = m /\ 0 \in 0..n
      BY <1>9
    <3>2. g[m] \o <<>> = g[m]
      BY <1>10, ConcatEmptySeq
    <3>3. QED
      BY <1>8, <1>11, <3>1, <3>2
  <2>2. ASSUME NEW k \in 0..(n - 1), k \in G PROVE k + 1 \in G
    <3>1. /\ k + 1 \in 1..n /\ m + (k + 1) \in 1..(m + n) /\ (m + (k + 1)) - 1 = m + k /\ (k + 1) - 1 = k
          /\ k + 1 \in 0..n /\ k \in 0..n
      BY <1>9
    <3>2. f[m + (k + 1)] = f[m + k] \o b[k + 1]
      BY <1>1, <1>6, <3>1
    <3>3. h[k + 1] = h[k] \o b[k + 1] /\ h[k] \in Seq(S) /\ b[k + 1] \in Seq(S)
      BY <1>8, <1>9, <3>1
    <3>4. (g[m] \o h[k]) \o b[k + 1] = g[m] \o (h[k] \o b[k + 1])
      <4>1. ASSUME NEW x \in Seq(S), NEW y \in Seq(S), NEW z \in Seq(S) PROVE (x \o y) \o z = x \o (y \o z)
        BY ConcatAssociative
      <4>2. QED
        BY <1>10, <3>3, <4>1
    <3>5. QED
      BY <2>2, <3>1, <3>2, <3>3, <3>4
  <2>3. \A k \in 0..n : k \in G
    <3> HIDE DEF G
    <3>1. QED
      BY <1>9, <2>1, <2>2, CountedUp
  <2>4. n \in 0..n
    BY <1>9
  <2>5. QED
    BY <2>3, <2>4
<1>13. QED
  BY <1>1, <1>5, <1>12 DEF s

LEMMA FlattenOne ==
    ASSUME NEW S, NEW x \in Seq(S)
    PROVE  <<x>> \in Seq(Seq(S)) /\ FlattenSeq(<<x>>) = x /\ FlattenSeq(<<>>) = <<>>
<1> DEFINE s == <<x>>
<1>1. s \in Seq(Seq(S)) /\ Len(s) = 1 /\ s[1] = x
  OBVIOUS
<1> HIDE DEF s
<1>2. PICK f : Joins(f, S, s)
  BY <1>1, JoinsExist
<1>3. FlattenSeq(s) = f[1]
  BY <1>1, <1>2, FlattenIsLast
<1>4. f[0] = <<>> /\ f[1] = f[0] \o x
  <2>1. 1 \in 1..Len(s) /\ 1 - 1 = 0
    BY <1>1
  <2>2. f[0] = <<>> /\ f[1] = f[1 - 1] \o s[1]
    BY <1>2, <2>1 DEF Joins
  <2>3. QED
    BY <1>1, <2>1, <2>2
<1>5. <<>> \o x = x
  BY ConcatEmptySeq
<1>6. FlattenSeq(<<>>) = <<>>
  BY DEF FlattenSeq
<1>7. QED
  BY <1>1, <1>3, <1>4, <1>5, <1>6 DEF s

=============================================================================
