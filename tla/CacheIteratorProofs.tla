------------------------- MODULE CacheIteratorProofs -------------------------
(***************************************************************************)
(* Theorems of CacheIterator, for caches of any size and loops of any      *)
(* length, with any number of events taken in by the body.                 *)
(***************************************************************************)
EXTENDS CacheIterator, SequenceTheorems, FiniteSetTheorems, WellFoundedInduction, TLAPS

\* Every set of natural numbers that is not empty has a smallest element.
LEMMA SmallestOf ==
  ASSUME NEW S \in SUBSET Nat, S # {}
  PROVE  \E x \in S : \A y \in S : x <= y
<1> DEFINE R == {ss \in Nat \X Nat : ss[1] < ss[2]}
<1>1. IsWellFoundedOn(R, Nat)
  BY NatLessThanWellFounded DEF OpToRel
<1>2. ASSUME NEW x \in Nat, NEW y \in Nat, y < x
      PROVE  <<y, x>> \in R
  BY <1>2
<1> HIDE DEF R
<1>3. PICK x \in S : \A y \in S : <<y, x>> \notin R
  BY <1>1, WFMin
<1>4. ASSUME NEW y \in S
      PROVE  x <= y
  <2>1. x \in Nat /\ y \in Nat /\ <<y, x>> \notin R
    BY <1>3
  <2>2. ~(y < x)
    BY <1>2, <2>1
  <2> QED BY <2>1, <2>2
<1> QED BY <1>4

-----------------------------------------------------------------------------
(* The invariant, of a list l, the objects st that stayed and a link k *)

In(l, o) == \E i \in DOMAIN l : l[i] = o
Seen(o) == \E i \in DOMAIN seen : seen[i] = o

ListType(l, st) ==
  /\ l \in Seq(Objects) /\ IsInjective(l)
  /\ st \subseteq Objects /\ \A o \in st : In(l, o)

\* The loop has been at what matches up to position f, and at nothing behind it.
Passed(l, st, f) ==
  /\ f \in 0..Len(l)
  /\ \A k \in DOMAIN l : l[k] \in st =>
       /\ k <= f /\ Accepts(l[k]) => Seen(l[k])
       /\ Seen(l[k]) => k <= f

\* There is such a position: where the iterator stands, or just before the object that
\* the one it stands on links to.
Frontier(l, st, link_) ==
  \E f \in 0..Len(l) :
    /\ Passed(l, st, f)
    /\ In(l, cur) => f # 0 /\ l[f] = cur
    /\ ~In(l, cur) /\ link_ # End => f # Len(l) /\ l[f + 1] = link_

SeenInOrder(l, st) ==
  \A i, j \in DOMAIN seen : \A a, b \in DOMAIN l :
    i < j /\ l[a] = seen[i] /\ l[b] = seen[j] /\ l[a] \in st /\ l[b] \in st => a < b

LoopInv(l, st, link_) ==
  /\ ListType(l, st) /\ SeenInOrder(l, st)
  /\ looping = "in" => Frontier(l, st, link_)

OnlyMatching == \A i \in DOMAIN seen : Accepts(seen[i])

IInv ==
  /\ TypeOK /\ LoopInv(list, stayed, link)
  /\ OnlyMatching
  /\ looping = "before" => seen = <<>>
  /\ AllVisited

-----------------------------------------------------------------------------
(* What the body of the loop does to the cache *)

\* An object put at the end of the list is behind everything the loop has been at.
LEMMA AppendKeeps ==
  ASSUME NEW l, NEW st, NEW k, LoopInv(l, st, k),
         NEW o \in Objects, ~In(l, o), o # cur
  PROVE  LoopInv(Append(l, o), st, k)
<1> DEFINE m == Append(l, o)
           n == Len(l)
<1>1. l \in Seq(Objects) /\ n \in Nat /\ DOMAIN l = 1..n
  BY LenProperties DEF LoopInv, ListType
<1>2. /\ m \in Seq(Objects) /\ Len(m) = n + 1 /\ DOMAIN m = 1..(n + 1)
      /\ m[n + 1] = o /\ \A i \in 1..n : m[i] = l[i]
  BY <1>1
<1> HIDE DEF m, n
<1>3. o \notin st /\ \A i \in 1..n : l[i] # o
  BY <1>1 DEF LoopInv, ListType, In
<1>4. IsInjective(m)
  BY <1>1, <1>2, <1>3 DEF LoopInv, ListType, IsInjective
<1>5. \A x : In(m, x) <=> In(l, x) \/ x = o
  BY <1>1, <1>2 DEF In
<1>6. ListType(m, st)
  BY <1>2, <1>4, <1>5 DEF LoopInv, ListType
<1>7. SeenInOrder(m, st)
  BY <1>1, <1>2, <1>3 DEF LoopInv, SeenInOrder
<1>8. ASSUME Frontier(l, st, k)
      PROVE  Frontier(m, st, k)
  <2>1. PICK f \in 0..n :
          /\ Passed(l, st, f)
          /\ In(l, cur) => f # 0 /\ l[f] = cur
          /\ ~In(l, cur) /\ k # End => f # n /\ l[f + 1] = k
    BY <1>8 DEF Frontier, n
  <2>2. Passed(m, st, f)
    BY <1>1, <1>2, <1>3, <2>1 DEF Passed
  <2>3. In(m, cur) => f # 0 /\ m[f] = cur
    BY <1>1, <1>2, <1>5, <2>1
  <2>4. ~In(m, cur) /\ k # End => f # n + 1 /\ m[f + 1] = k
    BY <1>1, <1>2, <1>5, <2>1
  <2>5. f \in 0..(n + 1)
    BY <1>1
  <2> QED BY <1>2, <2>2, <2>3, <2>4, <2>5 DEF Frontier
<1> QED BY <1>6, <1>7, <1>8 DEF LoopInv, m

\* Removing one element moves those after it up by one.
LEMMA RemoveAtElements ==
  ASSUME NEW S, NEW s \in Seq(S), NEW i \in DOMAIN s
  PROVE  /\ RemoveAt(s, i) \in Seq(S) /\ Len(RemoveAt(s, i)) = Len(s) - 1
         /\ \A j \in 1..(Len(s) - 1) : RemoveAt(s, i)[j] = IF j < i THEN s[j] ELSE s[j + 1]
<1> DEFINE a == SubSeq(s, 1, i - 1)
           b == SubSeq(s, i + 1, Len(s))
           m == i - 1
           k == i + 1
           n == Len(s)
<1>1. i \in 1..n /\ n \in Nat /\ DOMAIN s = 1..n /\ m \in Int /\ k \in Int /\ 1 \in Int
  BY LenProperties
<1>2. /\ \A j \in 1..m : s[j] \in S
      /\ \A j \in k..n : s[j] \in S
  BY <1>1, ElementOfSeq
<1>3. a \in Seq(S) /\ Len(a) = (IF 1 <= m THEN m - 1 + 1 ELSE 0)
      /\ \A j \in 1..(m - 1 + 1) : a[j] = s[1 + j - 1]
  <2> HIDE DEF m, k, n
  <2> QED BY ONLY <1>1, <1>2, SubSeqProperties DEF m
<1>4. b \in Seq(S) /\ Len(b) = (IF k <= n THEN n - k + 1 ELSE 0)
      /\ \A j \in 1..(n - k + 1) : b[j] = s[k + j - 1]
  BY <1>1, <1>2, SubSeqProperties
<1>5. Len(a) = i - 1 /\ Len(b) = n - i
  BY <1>1, <1>3, <1>4
<1>6. /\ \A j \in 1..Len(a) : a[j] = s[j]
      /\ \A j \in 1..Len(b) : b[j] = s[i + j]
  <2>1. ASSUME NEW j \in 1..Len(a) PROVE a[j] = s[j]
    <3>1. j \in 1..(m - 1 + 1) /\ 1 + j - 1 = j
      BY <1>1, <1>5
    <3> QED
      BY <1>3, <3>1
  <2>2. ASSUME NEW j \in 1..Len(b) PROVE b[j] = s[i + j]
    <3>1. j \in 1..(n - k + 1) /\ k + j - 1 = i + j
      BY <1>1, <1>5
    <3> QED
      BY <1>4, <3>1
  <2> QED
    BY <2>1, <2>2
<1> HIDE DEF a, b
<1>7. a \o b \in Seq(S) /\ Len(a \o b) = Len(a) + Len(b)
      /\ \A j \in 1..(Len(a) + Len(b)) :
           (a \o b)[j] = IF j <= Len(a) THEN a[j] ELSE b[j - Len(a)]
  BY ONLY <1>3, <1>4, ConcatProperties
<1>8. RemoveAt(s, i) = a \o b
  BY DEF RemoveAt, a, b
<1>9. Len(a) + Len(b) = n - 1
  BY <1>1, <1>5
<1>10. ASSUME NEW j \in 1..(n - 1)
       PROVE  (a \o b)[j] = IF j < i THEN s[j] ELSE s[j + 1]
  <2>1. (a \o b)[j] = IF j <= Len(a) THEN a[j] ELSE b[j - Len(a)]
    BY <1>7, <1>9
  <2>2. CASE j < i
    <3>1. j \in 1..Len(a) /\ j <= Len(a)
      BY <1>1, <1>5, <2>2
    <3> QED BY <1>6, <2>1, <2>2, <3>1
  <2>3. CASE ~(j < i)
    <3>1. j - Len(a) \in 1..Len(b) /\ i + (j - Len(a)) = j + 1 /\ ~(j <= Len(a))
      BY <1>1, <1>5, <2>3
    <3> QED BY <1>6, <2>1, <2>3, <3>1
  <2> QED BY <2>2, <2>3
<1> QED
  BY <1>7, <1>8, <1>9, <1>10

\* Where the objects of a list are after the one at position p has left.
LEMMA WithoutPosition ==
  ASSUME NEW l \in Seq(Objects), IsInjective(l), NEW p \in DOMAIN l
  PROVE  /\ RemoveAt(l, p) \in Seq(Objects) /\ IsInjective(RemoveAt(l, p))
         /\ Len(RemoveAt(l, p)) = Len(l) - 1 /\ DOMAIN RemoveAt(l, p) = 1..(Len(l) - 1)
         /\ \A j \in 1..(Len(l) - 1) : RemoveAt(l, p)[j] = IF j < p THEN l[j] ELSE l[j + 1]
         /\ \A x : In(RemoveAt(l, p), x) <=> In(l, x) /\ x # l[p]
<1> DEFINE m == RemoveAt(l, p)
           n == Len(l)
<1>1. n \in Nat /\ DOMAIN l = 1..n /\ p \in 1..n
  BY LenProperties
<1>2. /\ m \in Seq(Objects) /\ Len(m) = n - 1
      /\ \A j \in 1..(n - 1) : m[j] = IF j < p THEN l[j] ELSE l[j + 1]
  BY RemoveAtElements
<1>3. DOMAIN m = 1..(n - 1)
  BY <1>2, LenProperties
<1> HIDE DEF m, n
<1>4. IsInjective(m)
  <2> SUFFICES ASSUME NEW i \in 1..(n - 1), NEW j \in 1..(n - 1), m[i] = m[j]
               PROVE  i = j
    BY <1>3 DEF IsInjective
  <2> DEFINE At(a) == IF a < p THEN a ELSE a + 1
  <2>1. At(i) \in 1..n /\ At(j) \in 1..n /\ (At(i) = At(j) => i = j)
    BY <1>1
  <2>2. m[i] = l[At(i)] /\ m[j] = l[At(j)]
    BY <1>2
  <2> HIDE DEF At
  <2>3. At(i) = At(j)
    BY <1>1, <2>1, <2>2 DEF IsInjective
  <2> QED BY <2>1, <2>3
<1>5. ASSUME NEW x
      PROVE  In(m, x) <=> In(l, x) /\ x # l[p]
  <2>1. ASSUME NEW j \in 1..(n - 1), m[j] = x
        PROVE  In(l, x) /\ x # l[p]
    <3>1. PICK a \in 1..n : a # p /\ l[a] = x
      BY <1>1, <1>2, <2>1
    <3> QED BY <1>1, <3>1 DEF In, IsInjective
  <2>2. ASSUME NEW i \in 1..n, l[i] = x, i # p
        PROVE  In(m, x)
    <3>1. CASE i < p
      <4>1. i \in 1..(n - 1) /\ m[i] = x
        BY <1>1, <1>2, <2>2, <3>1
      <4> QED BY <1>3, <4>1 DEF In
    <3>2. CASE i > p
      <4>1. i - 1 \in 1..(n - 1) /\ ~(i - 1 < p) /\ (i - 1) + 1 = i
        BY <1>1, <2>2, <3>2
      <4>2. m[i - 1] = x
        BY <1>2, <2>2, <4>1
      <4> QED BY <1>3, <4>1, <4>2 DEF In
    <3> QED BY <1>1, <2>2, <3>1, <3>2
  <2> QED BY <1>1, <1>3, <2>1, <2>2 DEF In
<1> QED BY <1>2, <1>3, <1>4, <1>5 DEF m, n

\* The link kept by the object the iterator stands on, after the one at position p has left.
LinkAfter(l, p, k) ==
  IF l[p] = cur /\ p < Len(l) THEN l[p + 1]
  ELSE IF l[p] \in {cur, k} THEN End ELSE k

\* An object that leaves moves the position the loop is at, but not what the loop has done.
LEMMA RemovalKeeps ==
  ASSUME NEW l, NEW st, NEW k, LoopInv(l, st, k), NEW p \in DOMAIN l
  PROVE  LoopInv(RemoveAt(l, p), st \ {l[p]}, LinkAfter(l, p, k))
<1> DEFINE m == RemoveAt(l, p)
           n == Len(l)
           rest == st \ {l[p]}
           At(a) == IF a < p THEN a ELSE a + 1
<1>1. /\ l \in Seq(Objects) /\ IsInjective(l)
      /\ n \in Nat /\ DOMAIN l = 1..n /\ p \in 1..n
  BY LenProperties DEF LoopInv, ListType
<1>2. /\ m \in Seq(Objects) /\ IsInjective(m) /\ Len(m) = n - 1 /\ DOMAIN m = 1..(n - 1)
      /\ \A j \in 1..(n - 1) : m[j] = IF j < p THEN l[j] ELSE l[j + 1]
      /\ \A x : In(m, x) <=> In(l, x) /\ x # l[p]
  BY <1>1, WithoutPosition
<1> HIDE DEF m, n
<1>3. \A j \in 1..(n - 1) : m[j] = l[At(j)] /\ At(j) \in 1..n
  BY <1>1, <1>2
<1>4. \A i, j \in 1..(n - 1) : At(i) < At(j) => i < j
  BY <1>1
<1>5. ListType(m, rest)
  BY <1>2 DEF LoopInv, ListType
<1>6. SeenInOrder(m, rest)
  <2> SUFFICES ASSUME NEW i \in DOMAIN seen, NEW j \in DOMAIN seen, i < j,
                      NEW a \in 1..(n - 1), NEW b \in 1..(n - 1),
                      m[a] = seen[i], m[b] = seen[j], m[a] \in rest, m[b] \in rest
               PROVE  a < b
    BY <1>2 DEF SeenInOrder
  <2> HIDE DEF At
  <2>1. At(a) < At(b)
    BY <1>1, <1>3 DEF LoopInv, SeenInOrder
  <2> QED BY <1>4, <2>1
<1>7. ASSUME Frontier(l, st, k)
      PROVE  Frontier(m, rest, LinkAfter(l, p, k))
  <2>1. PICK f \in 0..n :
          /\ Passed(l, st, f)
          /\ In(l, cur) => f # 0 /\ l[f] = cur
          /\ ~In(l, cur) /\ k # End => f # n /\ l[f + 1] = k
    BY <1>7 DEF Frontier, n
  <2> DEFINE g == IF p <= f THEN f - 1 ELSE f
  <2>2. g \in 0..(n - 1) /\ \A j \in 1..(n - 1) : j <= g <=> At(j) <= f
    BY <1>1
  <2>3. Passed(m, rest, g)
    <3> SUFFICES ASSUME NEW j \in 1..(n - 1), m[j] \in rest
                 PROVE  /\ j <= g /\ Accepts(m[j]) => Seen(m[j])
                        /\ Seen(m[j]) => j <= g
      BY <1>2, <2>2 DEF Passed
    <3>1. At(j) \in 1..n /\ m[j] = l[At(j)] /\ (j <= g <=> At(j) <= f)
      BY <1>3, <2>2
    <3> HIDE DEF At, g
    <3> QED BY <1>1, <2>1, <3>1 DEF Passed
  <2>4. ASSUME In(m, cur)
        PROVE  g # 0 /\ m[g] = cur
    <3>1. f # 0 /\ l[f] = cur /\ f # p
      BY <1>2, <2>1, <2>4
    <3> QED BY <1>1, <1>2, <3>1
  <2>5. ASSUME ~In(m, cur), LinkAfter(l, p, k) # End
        PROVE  g # n - 1 /\ m[g + 1] = LinkAfter(l, p, k)
    <3>1. CASE l[p] = cur
      <4>1. In(l, cur) /\ f # 0 /\ l[f] = l[p]
        BY <1>1, <2>1, <3>1 DEF In
      <4>2. f = p
        BY <1>1, <4>1 DEF IsInjective
      <4>3. p < n /\ LinkAfter(l, p, k) = l[p + 1]
        BY <2>5, <3>1 DEF LinkAfter, n
      <4>4. g = p - 1 /\ p \in 1..(n - 1) /\ ~(p < p)
        BY <1>1, <4>2, <4>3
      <4> QED BY <1>1, <1>2, <4>3, <4>4
    <3>2. CASE l[p] # cur
      <4>1. ~In(l, cur) /\ k # End /\ l[p] # k /\ LinkAfter(l, p, k) = k
        BY <1>2, <2>5, <3>2 DEF LinkAfter
      <4>2. f # n /\ l[f + 1] = k /\ p # f + 1
        BY <2>1, <4>1
      <4>3. CASE p <= f
        <5>1. g = f - 1 /\ f \in 1..(n - 1) /\ ~(f < p)
          BY <1>1, <4>2, <4>3
        <5> QED BY <1>1, <1>2, <4>1, <4>2, <5>1
      <4>4. CASE ~(p <= f)
        <5>1. g = f /\ f + 1 < p /\ f + 1 \in 1..(n - 1)
          BY <1>1, <4>2, <4>4
        <5> QED BY <1>1, <1>2, <4>1, <4>2, <5>1
      <4> QED BY <4>3, <4>4
    <3> QED BY <3>1, <3>2
  <2> QED BY <1>2, <2>2, <2>3, <2>4, <2>5 DEF Frontier
<1> QED BY <1>5, <1>6, <1>7 DEF LoopInv, m

-----------------------------------------------------------------------------
(* What the loop does *)

\* o is what the iterator goes on to from position f: the next object that matches.
NextFrom(f, o) ==
  \/ o = End /\ \A k \in DOMAIN list : k > f => ~Accepts(list[k])
  \/ \E j \in DOMAIN list :
       j > f /\ o = list[j] /\ Accepts(o) /\ \A k \in DOMAIN list : f < k /\ k < j => ~Accepts(list[k])

\* nl_cache_get_next and the filter find the next object that matches.
LEMMA StepIsNext ==
  ASSUME TypeOK, NEW f \in Nat
  PROVE  NextFrom(f, StepFrom(f))
<1>1. DOMAIN list \subseteq Nat /\ Ahead(f) \in SUBSET Nat
  BY LenProperties DEF TypeOK, Ahead
<1>2. CASE Ahead(f) = {}
  BY <1>2 DEF StepFrom, FirstOf, Ahead, NextFrom
<1>3. CASE Ahead(f) # {}
  <2>1. \E j \in Ahead(f) : \A k \in Ahead(f) : j <= k
    BY <1>1, <1>3, SmallestOf
  <2>2. PICK j \in Ahead(f) : StepFrom(f) = list[j] /\ \A k \in Ahead(f) : j <= k
    BY <1>3, <2>1 DEF StepFrom, FirstOf
  <2>3. j \in DOMAIN list /\ j > f /\ Accepts(list[j])
    BY <2>2 DEF Ahead
  <2>4. ASSUME NEW k \in DOMAIN list, f < k, k < j
        PROVE  ~Accepts(list[k])
    BY <1>1, <2>2, <2>3, <2>4 DEF Ahead
  <2> QED BY <2>2, <2>3, <2>4 DEF NextFrom
<1> QED BY <1>2, <1>3

\* Arriving there, the loop has been at everything that matches up to there, in order.
LEMMA ArriveKeeps ==
  ASSUME IInv, NEW f, Passed(list, stayed, f), NEW o, NextFrom(f, o), Arrive(o),
         UNCHANGED <<list, filtered, link, undefined, changes, stayed>>
  PROVE  IInv'
<1> DEFINE n == Len(list)
<1>1. /\ list \in Seq(Objects) /\ IsInjective(list) /\ seen \in Seq(Objects)
      /\ n \in Nat /\ DOMAIN list = 1..n /\ f \in 0..n /\ \A x \in stayed : In(list, x)
  BY LenProperties DEF IInv, TypeOK, LoopInv, ListType, Passed
<1> HIDE DEF n
<1>2. ListType(list, stayed)'
  BY DEF IInv, LoopInv, ListType, In
<1>3. CASE o = End
  <2>1. \A k \in 1..n : k > f => ~Accepts(list[k])
    BY <1>1, <1>3, EndIsNoObject DEF NextFrom
  <2>2. cur' = End /\ looping' = "after" /\ seen' = seen
    BY <1>3 DEF Arrive
  <2>3. TypeOK'
    BY <2>2 DEF IInv, TypeOK
  <2>4. SeenInOrder(list, stayed)'
    BY <2>2 DEF IInv, LoopInv, SeenInOrder
  <2>5. ASSUME NEW x \in stayed, Accepts(x)
        PROVE  Seen(x)
    <3>1. PICK k \in 1..n : list[k] = x
      BY <1>1 DEF In
    <3> QED BY <1>1, <2>1, <2>5, <3>1 DEF Passed
  <2>6. AllVisited'
    BY <2>2, <2>5 DEF AllVisited, Accepts, Seen, ToSet
  <2>7. OnlyMatching'
    BY <2>2 DEF IInv, OnlyMatching, Accepts
  <2> QED BY <1>2, <2>2, <2>3, <2>4, <2>6, <2>7 DEF IInv, LoopInv
<1>4. CASE o # End
  <2>1. PICK j \in 1..n :
          /\ j > f /\ o = list[j] /\ Accepts(o)
          /\ \A k \in 1..n : f < k /\ k < j => ~Accepts(list[k])
    BY <1>1, <1>4 DEF NextFrom
  <2>2. o \in Objects
    BY <1>1, <2>1, ElementOfSeq DEF n
  <2>3. cur' = o /\ looping' = "in" /\ seen' = Append(seen, o)
    BY <1>4 DEF Arrive
  <2>4. TypeOK'
    <3>1. seen' \in Seq(Objects)
      BY <1>1, <2>2, <2>3
    <3> QED BY <2>2, <2>3, <3>1 DEF IInv, TypeOK
  <2>5. /\ Len(seen) \in Nat /\ DOMAIN seen = 1..Len(seen)
        /\ DOMAIN seen' = 1..(Len(seen) + 1) /\ seen'[Len(seen) + 1] = o
        /\ \A i \in DOMAIN seen : seen'[i] = seen[i]
    BY <1>1, <2>2, <2>3
  <2>6. \A x : Seen(x)' <=> Seen(x) \/ x = o
    BY <2>5 DEF Seen
  <2>7. \A k \in 1..n : list[k] = o => k = j
    BY <1>1, <2>1 DEF IsInjective
  <2>8. Passed(list, stayed, j)'
    <3> SUFFICES ASSUME NEW k \in 1..n, list[k] \in stayed
                 PROVE  /\ k <= j /\ Accepts(list[k]) => Seen(list[k])'
                        /\ Seen(list[k])' => k <= j
      BY <1>1 DEF Passed, n, Accepts, Seen
    <3>1. /\ k <= f /\ Accepts(list[k]) => Seen(list[k])
          /\ Seen(list[k]) => k <= f
      BY <1>1 DEF Passed
    <3> QED BY <1>1, <2>1, <2>6, <2>7, <3>1
  <2>9. Frontier(list, stayed, link)'
    <3>1. j \in 0..Len(list') /\ list'[j] = cur' /\ j # 0 /\ In(list', cur')
      BY <1>1, <2>1, <2>3 DEF In, n
    <3> QED BY <2>8, <3>1 DEF Frontier, In
  <2>10. SeenInOrder(list, stayed)'
    <3> SUFFICES ASSUME NEW h \in DOMAIN seen', NEW i \in DOMAIN seen', h < i,
                        NEW a \in 1..n, NEW b \in 1..n, list[a] = seen'[h], list[b] = seen'[i],
                        list[a] \in stayed, list[b] \in stayed
                 PROVE  a < b
      BY <1>1 DEF SeenInOrder
    <3>1. CASE i = Len(seen) + 1
      <4>1. b = j /\ h \in DOMAIN seen /\ list[a] = seen[h]
        BY <2>5, <2>7, <3>1
      <4>2. a <= f
        BY <1>1, <4>1 DEF Passed, Seen
      <4> QED BY <1>1, <2>1, <4>1, <4>2
    <3>2. CASE i # Len(seen) + 1
      <4>1. h \in DOMAIN seen /\ i \in DOMAIN seen
        BY <2>5, <3>2
      <4> QED BY <1>1, <2>5, <4>1 DEF IInv, LoopInv, SeenInOrder
    <3> QED BY <3>1, <3>2
  <2>11. OnlyMatching'
    BY <2>1, <2>5 DEF IInv, OnlyMatching, Accepts
  <2>12. AllVisited'
    BY <2>3 DEF AllVisited
  <2> QED BY <1>2, <2>3, <2>4, <2>9, <2>10, <2>11, <2>12 DEF IInv, LoopInv
<1> QED BY <1>3, <1>4

-----------------------------------------------------------------------------
(* Every step *)

\* The iterator is somewhere between its steps.
LEMMA WhereItStands ==
  ASSUME TypeOK, NEW o, InCache(o)
  PROVE  /\ PositionOf(o) \in DOMAIN list /\ list[PositionOf(o)] = o
         /\ \A i \in DOMAIN list : list[i] = o => i = PositionOf(o)
<1>1. PositionOf(o) \in DOMAIN list /\ list[PositionOf(o)] = o
  BY DEF InCache, PositionOf
<1> QED BY <1>1 DEF TypeOK, IsInjective

\* begin goes to the first object that matches.
LEMMA BeginKeeps ==
  ASSUME IInv, Begin \/ FilteredBegin
  PROVE  IInv'
<1>1. /\ list \in Seq(Objects) /\ Len(list) \in Nat /\ DOMAIN list = 1..Len(list)
      /\ looping = "before" /\ seen = <<>>
  BY LenProperties DEF IInv, TypeOK, Begin, FilteredBegin
<1>2. \A x : ~Seen(x)
  BY <1>1 DEF Seen
<1>3. Passed(list, stayed, 0)
  BY <1>1, <1>2 DEF Passed
<1>4. ASSUME list # <<>>
      PROVE  1 \in DOMAIN list /\ NextFrom(0, IF Accepts(list[1]) THEN list[1] ELSE StepFrom(1))
  <2>1. 1 \in DOMAIN list /\ \A k \in DOMAIN list : k > 0 => k = 1 \/ k > 1
    BY <1>1, <1>4, EmptySeq
  <2>2. CASE Accepts(list[1])
    BY <1>1, <2>1, <2>2 DEF NextFrom
  <2>3. CASE ~Accepts(list[1])
    <3>1. NextFrom(1, StepFrom(1))
      BY StepIsNext DEF IInv
    <3> QED BY <1>1, <2>1, <2>3, <3>1 DEF NextFrom
  <2> QED BY <2>1, <2>2, <2>3
<1>5. CASE Begin
  <2> DEFINE o == IF list = <<>> THEN End ELSE list[1]
  <2>1. Arrive(o) /\ UNCHANGED <<list, filtered, link, undefined, changes, stayed>> /\ ~filtered
    BY <1>5 DEF Begin
  <2>2. NextFrom(0, o)
    <3>1. CASE list = <<>>
      BY <1>1, <3>1 DEF NextFrom
    <3>2. CASE list # <<>>
      BY <1>4, <2>1, <3>2 DEF Accepts
    <3> QED BY <3>1, <3>2
  <2> HIDE DEF o
  <2> QED BY <1>3, <2>1, <2>2, ArriveKeeps
<1>6. CASE FilteredBegin /\ list # <<>>
  <2> DEFINE o == IF Accepts(list[1]) THEN list[1] ELSE StepFrom(1)
  <2>1. Arrive(o) /\ UNCHANGED <<list, filtered, link, undefined, changes, stayed>>
    BY <1>6 DEF FilteredBegin
  <2>2. NextFrom(0, o)
    BY <1>4, <1>6
  <2> HIDE DEF o
  <2> QED BY <1>3, <2>1, <2>2, ArriveKeeps
<1>7. CASE FilteredBegin /\ list = <<>>
  <2>1. /\ undefined' = TRUE
        /\ UNCHANGED <<list, filtered, cur, link, looping, changes, seen, stayed>>
    BY <1>7 DEF FilteredBegin
  <2> QED BY <1>1, <2>1 DEF IInv, TypeOK, LoopInv, ListType, In, SeenInOrder, Frontier,
                        OnlyMatching, Accepts, AllVisited
<1> QED BY <1>5, <1>6, <1>7

\* ++ goes on from the object, or from the one it links to after it has left.
LEMMA IncrementKeeps ==
  ASSUME IInv, Increment
  PROVE  IInv'
<1>1. looping = "in" /\ TypeOK /\ list \in Seq(Objects)
      /\ Len(list) \in Nat /\ DOMAIN list = 1..Len(list)
  BY LenProperties DEF Increment, IInv, TypeOK
<1>2. PICK f \in 0..Len(list) :
        /\ Passed(list, stayed, f)
        /\ In(list, cur) => f # 0 /\ list[f] = cur
        /\ ~In(list, cur) /\ link # End => f # Len(list) /\ list[f + 1] = link
  BY <1>1 DEF IInv, LoopInv, Frontier
<1>3. f \in Nat /\ NextFrom(f, StepFrom(f))
  <2>1. f \in Nat
    OBVIOUS
  <2> QED BY <1>1, <2>1, StepIsNext
<1>4. ASSUME Arrive(StepFrom(f)), undefined' = undefined,
             UNCHANGED <<list, filtered, link, changes, stayed>>
      PROVE  IInv'
  BY <1>2, <1>3, <1>4, ArriveKeeps
<1>5. CASE InCache(cur) /\ Arrive(StepFrom(PositionOf(cur))) /\ undefined' = undefined
  <2>1. f # 0 /\ list[f] = cur
    BY <1>2, <1>5 DEF In, InCache
  <2>2. f \in DOMAIN list
    BY <1>1, <2>1
  <2>3. f = PositionOf(cur)
    BY <1>1, <1>5, <2>1, <2>2, WhereItStands
  <2> QED BY <1>4, <1>5, <2>3 DEF Increment
<1>6. CASE ~InCache(cur) /\ link # End /\ Arrive(StepFrom(PositionOf(link) - 1)) /\ undefined' = undefined
  <2>1. f # Len(list) /\ list[f + 1] = link
    BY <1>2, <1>6 DEF In, InCache
  <2>2. f + 1 \in DOMAIN list
    <3> DEFINE n == Len(list)
    <3>1. n \in Nat /\ f \in 0..n /\ f # n
      BY <1>1, <2>1
    <3> HIDE DEF n
    <3>2. f + 1 \in 1..n
      BY <3>1
    <3> QED BY <1>1, <3>2 DEF n
  <2>3. f + 1 = PositionOf(link)
    BY <1>1, <2>1, <2>2, WhereItStands DEF InCache
  <2>4. f = PositionOf(link) - 1
    BY <1>3, <2>3
  <2> QED BY <1>4, <1>6, <2>4 DEF Increment
<1>7. CASE undefined' = TRUE /\ UNCHANGED <<cur, looping, seen>>
  <2>1. UNCHANGED <<list, filtered, link, changes, stayed, cur, looping, seen>>
    BY <1>7 DEF Increment
  <2> QED BY <1>7, <2>1 DEF IInv, TypeOK, LoopInv, ListType, In, SeenInOrder, Frontier, Passed,
                        Seen, OnlyMatching, Accepts, AllVisited
<1> QED BY <1>5, <1>6, <1>7 DEF Increment

\* An event leaves the loop where it is; what it makes of the cache fits that.
LEMMA EventKeeps ==
  ASSUME IInv, looping = "in", NEW k \in Objects \cup {End}, LoopInv(list', stayed', k),
         link' = k, changes' = changes + 1, stayed' \subseteq stayed,
         UNCHANGED <<filtered, cur, looping, undefined, seen>>
  PROVE  IInv'
<1>1. LoopInv(list, stayed, link)'
  BY DEF LoopInv, ListType, In, SeenInOrder, Frontier, Passed, Seen, Accepts
<1>2. TypeOK'
  BY DEF IInv, TypeOK, LoopInv, ListType
<1>3. OnlyMatching' /\ AllVisited'
  BY DEF IInv, OnlyMatching, Accepts, AllVisited
<1> QED BY <1>1, <1>2, <1>3 DEF IInv

\* A link leads to an object.
LEMMA LinkIsTyped ==
  ASSUME IInv, NEW p \in DOMAIN list
  PROVE  LinkAfter(list, p, link) \in Objects \cup {End}
<1>1. /\ list \in Seq(Objects) /\ Len(list) \in Nat /\ DOMAIN list = 1..Len(list)
      /\ link \in Objects \cup {End}
  BY LenProperties DEF IInv, TypeOK
<1>2. ASSUME p < Len(list)
      PROVE  list[p + 1] \in Objects
  <2>1. p + 1 \in 1..Len(list)
    BY <1>1, <1>2
  <2> QED BY <1>1, <2>1, ElementOfSeq
<1> QED BY <1>1, <1>2 DEF LinkAfter

\* Events add, remove and replace objects around the loop.
LEMMA EventsKeep ==
  ASSUME IInv, Events
  PROVE  IInv'
<1>1. ASSUME NEW o \in Objects, ObjectAdded(o)
      PROVE  IInv'
  <2>1. /\ looping = "in" /\ ~In(list, o) /\ o # cur /\ list' = Append(list, o)
        /\ changes' = changes + 1 /\ stayed' = stayed /\ link' = link
        /\ UNCHANGED <<filtered, cur, looping, undefined, seen>>
    BY <1>1 DEF ObjectAdded, Event, InCache, In
  <2>2. LoopInv(list', stayed', link)
    BY <2>1, AppendKeeps DEF IInv
  <2>3. link \in Objects \cup {End}
    BY DEF IInv, TypeOK
  <2> QED BY <2>1, <2>2, <2>3, EventKeeps
<1>2. ASSUME NEW o \in Objects, InCache(o)
      PROVE  /\ LoopInv(Without(o), stayed \ {o}, LinkWithout(o))
             /\ LinkWithout(o) \in Objects \cup {End}
             /\ \A x : In(Without(o), x) <=> In(list, x) /\ x # o
  <2>1. PICK p \in DOMAIN list : p = PositionOf(o) /\ list[p] = o
    BY <1>2, WhereItStands DEF IInv
  <2>2. LinkWithout(o) = LinkAfter(list, p, link) /\ Without(o) = RemoveAt(list, p)
    BY <2>1 DEF LinkWithout, LinkAfter, Without
  <2>3. LoopInv(RemoveAt(list, p), stayed \ {list[p]}, LinkAfter(list, p, link))
    BY RemovalKeeps DEF IInv
  <2>4. \A x : In(RemoveAt(list, p), x) <=> In(list, x) /\ x # list[p]
    BY WithoutPosition DEF IInv, TypeOK
  <2> QED BY <2>1, <2>2, <2>3, <2>4, LinkIsTyped
<1>3. ASSUME NEW o \in Objects, ObjectRemoved(o)
      PROVE  IInv'
  <2>1. /\ looping = "in" /\ InCache(o) /\ list' = Without(o) /\ link' = LinkWithout(o)
        /\ changes' = changes + 1 /\ stayed' = stayed \ {o}
        /\ UNCHANGED <<filtered, cur, looping, undefined, seen>>
    BY <1>3 DEF ObjectRemoved, Event, MayLeave
  <2>2. PICK k \in Objects \cup {End} : k = LinkWithout(o)
    BY <1>2, <2>1
  <2>3. LoopInv(list', stayed', k)
    BY <1>2, <2>1, <2>2
  <2> QED BY <2>1, <2>2, <2>3, EventKeeps
<1>4. ASSUME NEW o \in Objects, NEW new \in Objects, ObjectChanged(o, new)
      PROVE  IInv'
  <2>1. /\ looping = "in" /\ InCache(o) /\ list' = Append(Without(o), new)
        /\ link' = LinkWithout(o) /\ ~In(list, new) /\ new # cur
        /\ changes' = changes + 1 /\ stayed' = stayed \ {o}
        /\ UNCHANGED <<filtered, cur, looping, undefined, seen>>
    BY <1>4 DEF ObjectChanged, Event, MayLeave, InCache, In
  <2>2. PICK k \in Objects \cup {End} : k = LinkWithout(o)
    BY <1>2, <2>1
  <2>3. LoopInv(Without(o), stayed \ {o}, k) /\ ~In(Without(o), new)
    BY <1>2, <2>1, <2>2
  <2>4. LoopInv(list', stayed', k)
    BY <2>1, <2>3, AppendKeeps
  <2> QED BY <2>1, <2>2, <2>4, EventKeeps
<1> QED BY <1>1, <1>3, <1>4 DEF Events

\* In the beginning no loop has begun.
LEMMA InitIsInv == Init => IInv
<1> SUFFICES ASSUME Init PROVE IInv
  OBVIOUS
<1>1. PICK S \in SUBSET Objects : list \in SetToSeqs(S)
  BY DEF Init
<1>2. Cardinality(S) \in Nat
  BY ObjectsAreFinite, FS_Subset, FS_CardinalityType
<1>3. PICK n \in Nat : /\ list \in [1..n -> S]
                       /\ \A i, j \in 1..n : i # j => list[i] # list[j]
  BY <1>1, <1>2 DEF SetToSeqs
<1>4. list \in Seq(Objects) /\ DOMAIN list = 1..n /\ IsInjective(list)
  BY <1>3 DEF IsInjective
<1>5. stayed \subseteq Objects /\ \A o \in stayed : In(list, o)
  BY <1>3, <1>4 DEF Init, ToSet, In
<1>6. /\ seen = <<>> /\ cur = End /\ link = End /\ looping = "before"
      /\ filtered \in BOOLEAN /\ undefined \in BOOLEAN /\ changes = 0
  BY DEF Init
<1>7. TypeOK
  <2>1. seen \in Seq(Objects)
    BY <1>6, EmptySeq
  <2> QED BY <1>4, <1>5, <1>6, <2>1 DEF TypeOK
<1>8. SeenInOrder(list, stayed) /\ OnlyMatching
  BY <1>6 DEF SeenInOrder, OnlyMatching
<1> QED BY <1>4, <1>5, <1>6, <1>7, <1>8 DEF IInv, LoopInv, ListType, AllVisited

\* The inductive invariant holds.
LEMMA IInvHolds == Spec => []IInv
<1>1. IInv /\ UNCHANGED vars => IInv'
  BY DEF vars, IInv, TypeOK, LoopInv, ListType, In, SeenInOrder, Frontier, Passed, Seen,
         OnlyMatching, Accepts, AllVisited
<1>2. IInv /\ Next => IInv'
  BY BeginKeeps, IncrementKeeps, EventsKeep DEF Next, Loop
<1> QED BY <1>1, <1>2, InitIsInv, PTL DEF Spec

\* A loop, filtered or not, visits every matching object that was in the cache from its
\* beginning to its end, whatever events its body lets in, also one that removes the object
\* the iterator stands on.
THEOREM LoopsAreComplete == Spec => []AllVisited
<1>1. IInv => AllVisited
  BY DEF IInv
<1> QED BY <1>1, IInvHolds, PTL

\* Every variable keeps its type, and the list of the cache stays free of duplicates.
THEOREM TypeCorrect == Spec => []TypeOK
<1>1. IInv => TypeOK
  BY DEF IInv
<1> QED BY <1>1, IInvHolds, PTL

\* It visits nothing that does not match, and what stays in the cache in the cache's order.
THEOREM LoopsAreInOrder == Spec => []InOrder
<1>1. IInv => InOrder
  <2> SUFFICES ASSUME IInv PROVE InOrder
    BY DEF IInv
  <2>1. ASSUME NEW i \in DOMAIN seen, NEW j \in DOMAIN seen, i < j,
               seen[i] \in stayed, seen[j] \in stayed
        PROVE  PositionOf(seen[i]) < PositionOf(seen[j])
    <3>1. TypeOK /\ InCache(seen[i]) /\ InCache(seen[j])
      BY <2>1 DEF IInv, LoopInv, ListType, In, InCache
    <3>2. /\ PositionOf(seen[i]) \in DOMAIN list /\ list[PositionOf(seen[i])] = seen[i]
          /\ PositionOf(seen[j]) \in DOMAIN list /\ list[PositionOf(seen[j])] = seen[j]
      BY <3>1, WhereItStands
    <3> QED BY <2>1, <3>2 DEF IInv, LoopInv, SeenInOrder
  <2> QED BY <2>1 DEF InOrder, IInv, OnlyMatching
<1> QED BY <1>1, IInvHolds, PTL
=============================================================================
