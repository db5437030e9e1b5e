---------------------------- MODULE SliceMapProofs ----------------------------
(***************************************************************************)
(* The loops of pkg/friend/slicemap.go, for every set of keys with a total *)
(* order, every map and every list: a search that ends has found the one   *)
(* entry with the key, an intersection is a SliceMap again, coalescing     *)
(* keeps every key's value and filling adds nothing but gaps.              *)
(***************************************************************************)
EXTENDS SliceMap, SequenceTheorems, WellFoundedInduction, TLAPS

\* The order of the keys, as the proofs use it.
LEMMA KeyOrder ==
  /\ \A k, o \in Key : KeyCompare(k, o) \in {-1, 0, 1}
  /\ \A k, o \in Key : KeyCompare(k, o) = 0 <=> k = o
  /\ \A k, o \in Key : KeyCompare(k, o) > 0 <=> KeyCompare(o, k) < 0
  /\ \A k, o, p \in Key :
       KeyCompare(k, o) <= 0 /\ KeyCompare(o, p) <= 0 => KeyCompare(k, p) <= 0
  /\ \A k, o, p \in Key :
       KeyCompare(k, o) < 0 /\ KeyCompare(o, p) <= 0 => KeyCompare(k, p) < 0
  /\ \A k, o, p \in Key :
       KeyCompare(k, o) <= 0 /\ KeyCompare(o, p) < 0 => KeyCompare(k, p) < 0
  /\ \A k \in Key : KeyCompare(MinSliceKey, k) <= 0
  <1>1. \A k, o \in Key : /\ KeyCompare(k, o) \in {-1, 0, 1}
                          /\ KeyCompare(k, o) = 0 <=> k = o
                          /\ KeyCompare(k, o) = -KeyCompare(o, k)
    BY KeyOrderAssumption
  <1>2. \A k, o \in Key : KeyCompare(k, o) > 0 <=> KeyCompare(o, k) < 0
    BY <1>1
  <1>3. \A k, o, p \in Key :
          KeyCompare(k, o) <= 0 /\ KeyCompare(o, p) <= 0 => KeyCompare(k, p) <= 0
    BY KeyOrderAssumption
  <1>4. ASSUME NEW k \in Key, NEW o \in Key, NEW p \in Key,
               KeyCompare(k, o) < 0, KeyCompare(o, p) <= 0
        PROVE  KeyCompare(k, p) < 0
    <2>1. KeyCompare(k, p) <= 0 /\ KeyCompare(k, p) \in {-1, 0, 1}
      BY <1>1, <1>3, <1>4
    <2>2. ASSUME KeyCompare(k, p) = 0 PROVE FALSE
      <3>1. k = p
        BY <1>1, <2>2
      <3>2. KeyCompare(o, k) <= 0 /\ KeyCompare(o, k) = -KeyCompare(k, o)
        BY <1>1, <1>4, <3>1
      <3>3. KeyCompare(k, o) \in {-1, 0, 1}
        BY <1>1
      <3>4. QED
        BY <1>4, <3>2, <3>3
    <2>3. QED
      BY <2>1, <2>2
  <1>5. ASSUME NEW k \in Key, NEW o \in Key, NEW p \in Key,
               KeyCompare(k, o) <= 0, KeyCompare(o, p) < 0
        PROVE  KeyCompare(k, p) < 0
    <2>1. KeyCompare(k, p) <= 0 /\ KeyCompare(k, p) \in {-1, 0, 1}
      BY <1>1, <1>3, <1>5
    <2>2. ASSUME KeyCompare(k, p) = 0 PROVE FALSE
      <3>1. k = p
        BY <1>1, <2>2
      <3>2. KeyCompare(p, o) <= 0 /\ KeyCompare(o, p) = -KeyCompare(p, o)
        BY <1>1, <1>5, <3>1
      <3>3. KeyCompare(p, o) \in {-1, 0, 1}
        BY <1>1
      <3>4. QED
        BY <1>5, <3>2, <3>3
    <2>3. QED
      BY <2>1, <2>2
  <1>6. QED
    BY <1>1, <1>2, <1>3, <1>4, <1>5, KeyOrderAssumption
\* The bounds of a slice, and of the intersection of two.
LEMMA SliceBounds ==
  ASSUME NEW s \in Slice
  PROVE  /\ s.low \in Key /\ s.high \in HighKey
         /\ s.high # InfinityKey => s.high \in Key /\ KeyCompare(s.low, s.high) < 0
         /\ Contains(s, s.low)
  <1>1. s.low \in Key /\ s.high \in HighKey /\ CompareWithKey(s.high, s.low) > 0
    BY DEF Slice, IsSlice
  <1>2. s.high # InfinityKey => s.high \in Key /\ KeyCompare(s.low, s.high) < 0
    BY <1>1, KeyOrder DEF HighKey, CompareWithKey
  <1>3. KeyCompare(s.low, s.low) = 0
    BY <1>1, KeyOrder
  <1>4. QED
    BY <1>1, <1>2, <1>3 DEF Contains

\* The entries of a list.
LEMMA EntryFacts ==
  ASSUME NEW m \in Seq(Entry)
  PROVE  /\ Len(m) \in Nat
         /\ \A n \in 1..Len(m) : m[n] \in Entry /\ m[n].slice \in Slice
  <1>1. Len(m) \in Nat
    BY LenProperties
  <1>2. \A n \in 1..Len(m) : m[n] \in Entry
    BY ElementOfSeq
  <1>3. \A e \in Entry : e.slice \in Slice
    BY DEF Entry
  <1>4. QED
    BY <1>1, <1>2, <1>3

\* Neighbours in order are enough: then the entries are ordered and disjoint,
\* adjacent or not.
LEMMA NeighboursInOrder ==
  ASSUME NEW m \in Seq(Entry),
         \A n \in 1..(Len(m) - 1) : CompareWithKey(m[n].slice.high, m[n + 1].slice.low) <= 0
  PROVE  OrderedDisjoint(m)
  <1> DEFINE Before(n, q) == CompareWithKey(m[n].slice.high, m[q].slice.low) <= 0
  <1>1. Len(m) \in Nat /\ \A n \in 1..Len(m) : m[n].slice \in Slice
    BY EntryFacts
  <1>2. \A n \in 1..(Len(m) - 1) : Before(n, n + 1)
    OBVIOUS
  <1>3. SUFFICES ASSUME NEW n \in 1..Len(m), NEW q \in 1..Len(m), n < q, ~Before(n, q)
                 PROVE  FALSE
    BY DEF OrderedDisjoint
  <1> DEFINE T == {p \in 1..Len(m) : n < p /\ ~Before(n, p)}
  <1> HIDE DEF Before
  <1>4. T \subseteq Nat /\ T # {}
    BY <1>1, <1>3
  <1>5. PICK p \in T : \A o \in T : ~(<<o, p>> \in OpToRel(<, Nat))
    BY <1>4, WFMin, NatLessThanWellFounded
  <1>6. \A o \in T : ~(o < p)
    BY <1>4, <1>5 DEF OpToRel
  <1>7. p \in 1..Len(m) /\ n < p /\ ~Before(n, p) /\ n \in 1..Len(m)
    BY <1>3, <1>5
  <1> HIDE DEF T
  <1>8. CASE p = n + 1
    <2>1. n \in 1..(Len(m) - 1)
      BY <1>1, <1>7, <1>8
    <2>2. QED
      BY <1>2, <1>7, <1>8, <2>1
  <1>9. CASE p # n + 1
    <2>1. p - 1 \in 1..(Len(m) - 1) /\ n < p - 1 /\ p - 1 < p /\ (p - 1) + 1 = p
      BY <1>1, <1>7, <1>9
    <2>2. Before(n, p - 1)
      BY <1>1, <1>6, <2>1 DEF T
    <2>3. Before(p - 1, p)
      BY <1>2, <2>1
    <2> DEFINE a == m[n].slice
               b == m[p - 1].slice
               c == m[p].slice
    <2>4. a \in Slice /\ b \in Slice /\ c \in Slice
      BY <1>1, <1>7, <2>1
    <2>5. /\ CompareWithKey(a.high, b.low) <= 0 /\ CompareWithKey(b.high, c.low) <= 0
          /\ ~(CompareWithKey(a.high, c.low) <= 0)
      BY <1>7, <2>2, <2>3 DEF Before
    <2> HIDE DEF a, b, c
    <2>6. a.high \in Key /\ b.high \in Key /\ a.high # InfinityKey /\ b.high # InfinityKey
          /\ b.low \in Key /\ c.low \in Key
      BY <2>4, <2>5, SliceBounds DEF CompareWithKey, HighKey
    <2>7. KeyCompare(a.high, b.low) <= 0 /\ KeyCompare(b.low, b.high) < 0
          /\ KeyCompare(b.high, c.low) <= 0
      BY <2>4, <2>5, <2>6, SliceBounds DEF CompareWithKey
    <2>8. KeyCompare(a.high, b.high) < 0
      BY <2>6, <2>7, KeyOrder
    <2>9. KeyCompare(a.high, c.low) < 0
      BY <2>6, <2>7, <2>8, KeyOrder
    <2>10. QED
      BY <2>5, <2>6, <2>9, KeyOrder DEF CompareWithKey
  <1>10. QED
    BY <1>8, <1>9

\* So the entries of a SliceMap are ordered and disjoint.
LEMMA CompleteIsOrdered ==
  ASSUME NEW m \in Seq(Entry), Complete(m)
  PROVE  OrderedDisjoint(m)
  <1>1. \A n \in 1..(Len(m) - 1) : CompareWithKey(m[n].slice.high, m[n + 1].slice.low) <= 0
    BY DEF Complete, Meets, CompareWithKey
  <1>2. QED
    BY <1>1, NeighboursInOrder

-----------------------------------------------------------------------------
(* The search *)

\* The bounds close in on the first entry that ends after the key: the one before
\* the lower bound does not, the one at the upper bound does; nothing is found before
\* the search ends.
SearchInv ==
  Searching =>
    /\ i \in 1..(Len(left) + 1) /\ j \in 1..(Len(left) + 1) /\ i <= j
    /\ i > 1 => ~EndsAfter(left[i - 1], call.key)
    /\ j <= Len(left) => EndsAfter(left[j], call.key)
    /\ outcome = "running" => result = << >>

\* What is known of a call that searches.
LEMMA SearchCall ==
  ASSUME call \in Calls, Searching
  PROVE  /\ call.key \in Key /\ left \in Seq(Entry) /\ OrderedDisjoint(left)
         /\ call.fn = "LookUp" => Complete(left)
  <1>1. CASE call \in LookUps
    <2>1. left \in Seq(Entry) /\ Complete(left) /\ call.key \in Key
      BY <1>1, MapsAssumption DEF LookUps, left
    <2>2. QED
      BY <2>1, CompleteIsOrdered
  <1>2. CASE call \in Finds
    BY <1>2, ListsAssumption DEF Finds, left
  <1>3. QED
    BY <1>1, <1>2 DEF Calls, Searching, Intersections, Coalescings, Fillings

\* An iteration keeps the bounds apart.
LEMMA SearchStepKeeps ==
  ASSUME call \in Calls, SearchInv, SearchStep
  PROVE  SearchInv'
  <1> DEFINE h == (i + j) \div 2
  <1>1. Searching /\ call' = call /\ i < j /\ Len(left) \in Nat /\ left' = left
    BY SearchCall, EntryFacts DEF SearchStep, left
  <1>2. i \in Nat /\ j \in Nat /\ i >= 1 /\ j <= Len(left) + 1
    BY <1>1 DEF SearchInv
  <1>3. h \in Nat /\ i <= h /\ h < j
    BY <1>1, <1>2
  <1>4. \/ EndsAfter(left[h], call.key) /\ i' = i /\ j' = h
        \/ ~EndsAfter(left[h], call.key) /\ i' = h + 1 /\ j' = j
    BY DEF SearchStep
  <1> HIDE DEF h
  <1>5. Searching' /\ \A e : EndsAfter(e, call.key)' <=> EndsAfter(e, call.key)
    BY <1>1 DEF Searching, EndsAfter, CompareWithKey
  <1>9. outcome' = "running" => result' = << >>
    BY <1>1 DEF SearchInv, SearchStep
  <1>6. CASE EndsAfter(left[h], call.key) /\ i' = i /\ j' = h
    BY <1>1, <1>2, <1>3, <1>6, <1>9 DEF SearchInv, EndsAfter, Searching
  <1>7. CASE ~EndsAfter(left[h], call.key) /\ i' = h + 1 /\ j' = j
    <2>1. i' - 1 = h
      BY <1>3, <1>7
    <2>2. QED
      BY <1>1, <1>2, <1>3, <1>7, <1>9, <2>1 DEF SearchInv, EndsAfter, Searching
  <1>8. QED
    BY <1>4, <1>6, <1>7

\* No entry before the lower bound, and none after the upper one, has the key.
LEMMA OnlyAtBound ==
  ASSUME call \in Calls, Searching, SearchInv, i = j,
         NEW n \in 1..Len(left), Contains(left[n].slice, call.key)
  PROVE  n = i
  <1>1. /\ call.key \in Key /\ OrderedDisjoint(left) /\ Len(left) \in Nat
        /\ \A p \in 1..Len(left) : left[p].slice \in Slice
    BY SearchCall, EntryFacts
  <1>2. i \in 1..(Len(left) + 1)
    BY DEF SearchInv
  <1> DEFINE s == left[n].slice
             k == call.key
  <1>3. s \in Slice /\ KeyCompare(k, s.low) >= 0 /\ CompareWithKey(s.high, k) > 0
    BY <1>1 DEF Contains
  <1>4. ASSUME n < i PROVE FALSE
    <2>1. i > 1 /\ i - 1 \in 1..Len(left) /\ n <= i - 1
      BY <1>1, <1>2, <1>4
    <2> DEFINE b == left[i - 1].slice
    <2>2. b \in Slice /\ ~(CompareWithKey(b.high, k) > 0)
      BY <1>1, <2>1 DEF SearchInv, EndsAfter
    <2>3. n = i - 1 => s = b
      OBVIOUS
    <2>4. n < i - 1 => CompareWithKey(s.high, b.low) <= 0
      BY <1>1, <2>1 DEF OrderedDisjoint
    <2> HIDE DEF s, b, k
    <2>5. n < i - 1
      BY <1>2, <1>3, <2>1, <2>2, <2>3
    <2>6. s.high \in Key /\ b.high \in Key /\ b.low \in Key /\ k \in Key
          /\ s.high # InfinityKey /\ b.high # InfinityKey
      BY <1>1, <1>3, <2>2, <2>4, <2>5, SliceBounds DEF CompareWithKey, HighKey, k
    <2>7. KeyCompare(s.high, b.low) <= 0 /\ KeyCompare(b.low, b.high) < 0
          /\ ~(KeyCompare(b.high, k) > 0) /\ KeyCompare(s.high, k) > 0
      BY <1>3, <2>2, <2>4, <2>5, <2>6, SliceBounds DEF CompareWithKey
    <2>8. KeyCompare(b.high, k) <= 0
      BY <2>6, <2>7, KeyOrder
    <2>9. KeyCompare(s.high, k) < 0
      BY <2>6, <2>7, <2>8, KeyOrder
    <2>10. QED
      BY <2>6, <2>7, <2>9, KeyOrder
  <1>5. ASSUME n > i PROVE FALSE
    <2>1. i \in 1..Len(left)
      BY <1>1, <1>2, <1>5
    <2> DEFINE b == left[i].slice
    <2>2. b \in Slice /\ CompareWithKey(b.high, k) > 0
      BY <1>1, <2>1 DEF SearchInv, EndsAfter
    <2>3. CompareWithKey(b.high, s.low) <= 0
      BY <1>1, <1>5, <2>1 DEF OrderedDisjoint
    <2> HIDE DEF s, b, k
    <2>4. b.high \in Key /\ s.low \in Key /\ k \in Key /\ b.high # InfinityKey
      BY <1>1, <1>3, <2>2, <2>3, SliceBounds DEF CompareWithKey, HighKey, k
    <2>5. KeyCompare(b.high, s.low) <= 0 /\ KeyCompare(b.high, k) > 0 /\ KeyCompare(k, s.low) >= 0
      BY <1>3, <2>2, <2>3, <2>4 DEF CompareWithKey
    <2>6. KeyCompare(k, b.high) < 0 /\ KeyCompare(k, s.low) < 0
      BY <2>4, <2>5, KeyOrder
    <2>7. QED
      BY <2>4, <2>5, <2>6, KeyOrder
  <1>6. QED
    BY <1>2, <1>4, <1>5

\* In a SliceMap the entry at the bounds exists and starts early enough.
LEMMA LookUpHits ==
  ASSUME call \in Calls, Searching, SearchInv, i = j, Complete(left)
  PROVE  i <= Len(left) /\ KeyCompare(left[i].slice.low, call.key) <= 0
  <1>1. /\ call.key \in Key /\ Len(left) \in Nat /\ left # << >> /\ left \in Seq(Entry)
        /\ \A p \in 1..Len(left) : left[p].slice \in Slice
    BY SearchCall, EntryFacts DEF Complete
  <1>2. i \in 1..(Len(left) + 1) /\ Len(left) > 0
    BY <1>1, EmptySeq DEF SearchInv
  <1>3. i <= Len(left)
    <2>1. SUFFICES ASSUME i = Len(left) + 1 PROVE FALSE
      BY <1>1, <1>2
    <2>2. ~EndsAfter(left[Len(left)], call.key)
      BY <1>1, <1>2, <2>1 DEF SearchInv
    <2>3. QED
      BY <2>2 DEF Complete, EndsAfter, CompareWithKey
  <1>4. CASE i = 1
    BY <1>1, <1>3, <1>4, KeyOrder DEF Complete
  <1>5. CASE i > 1
    <2>1. i - 1 \in 1..(Len(left) - 1) /\ (i - 1) + 1 = i
      BY <1>1, <1>2, <1>3, <1>5
    <2>2. Meets(left[i - 1].slice, left[i].slice) /\ ~EndsAfter(left[i - 1], call.key)
      BY <1>5, <2>1 DEF Complete, SearchInv
    <2>3. left[i - 1].slice \in Slice /\ left[i].slice \in Slice
      BY <1>1, <1>2, <1>3, <2>1
    <2> DEFINE a == left[i - 1].slice
               b == left[i].slice
    <2>4. /\ a \in Slice /\ b \in Slice /\ a.high # InfinityKey
          /\ KeyCompare(a.high, b.low) = 0 /\ ~(KeyCompare(a.high, call.key) > 0)
      BY <2>2, <2>3 DEF Meets, EndsAfter, CompareWithKey
    <2> HIDE DEF a, b
    <2>5. a.high \in Key /\ b.low \in Key
      BY <2>4, SliceBounds
    <2>6. KeyCompare(b.low, call.key) <= 0
      BY <1>1, <2>4, <2>5, KeyOrder
    <2>7. QED
      BY <1>3, <2>6 DEF b
  <1>6. QED
    BY <1>2, <1>3, <1>4, <1>5
\* The search ends on the entry that has the key, if there is one.
LEMMA SearchEndsExactly ==
  ASSUME call \in Calls, SearchInv, SearchEnds
  PROVE  SearchInv' /\ SearchIsExact'
  <1> DEFINE hit == i <= Len(left) /\ KeyCompare(left[i].slice.low, call.key) <= 0
  <1>1. Searching /\ i = j /\ UNCHANGED <<call, i, j>> /\ left' = left
    BY DEF SearchEnds, left
  <1>2. /\ call.key \in Key /\ Len(left) \in Nat
        /\ \A p \in 1..Len(left) : left[p].slice \in Slice
        /\ call.fn = "LookUp" => Complete(left)
    BY <1>1, SearchCall, EntryFacts
  <1>3. SearchInv'
    <2>1. outcome' # "running"
      BY DEF SearchEnds
    <2>2. QED
      BY <1>1, <2>1 DEF SearchInv, Searching, EndsAfter
  <1>4. \A n \in 1..Len(left) : Contains(left[n].slice, call.key) => n = i
    BY <1>1, OnlyAtBound
  <1>5. \/ hit /\ result' = <<left[i]>> /\ outcome' = "returned"
        \/ /\ ~hit /\ result' = << >>
           /\ outcome' = IF call.fn = "LookUp" THEN "panicked" ELSE "returned"
    BY DEF SearchEnds
  <1>6. CASE hit /\ result' = <<left[i]>> /\ outcome' = "returned"
    <2>1. i \in 1..Len(left)
      BY <1>1, <1>6 DEF SearchInv
    <2>2. EndsAfter(left[i], call.key)
      BY <1>1, <2>1 DEF SearchInv
    <2>3. left[i].slice.low \in Key
      BY <1>2, <2>1, SliceBounds
    <2>4. Contains(left[i].slice, call.key)
      BY <1>2, <1>6, <2>2, <2>3, KeyOrder DEF EndsAfter, Contains
    <2> HIDE DEF hit
    <2>5. /\ outcome' = "returned" /\ result' = <<left[i]>> /\ result'[1] = left[i]
          /\ left[i] \in {left[n] : n \in 1..Len(left)}
      BY <1>6, <2>1
    <2>6. QED
      BY <1>1, <1>3, <1>4, <2>4, <2>5 DEF SearchIsExact, Searching, Contains
  <1>7. CASE ~hit /\ result' = << >> /\ outcome' = IF call.fn = "LookUp" THEN "panicked" ELSE "returned"
    <2>1. call.fn # "LookUp"
      BY <1>1, <1>2, <1>7, LookUpHits
    <2>2. ASSUME NEW n \in 1..Len(left), Contains(left[n].slice, call.key) PROVE FALSE
      <3>1. n = i
        BY <1>4, <2>2
      <3>2. i <= Len(left) /\ KeyCompare(call.key, left[i].slice.low) >= 0
        BY <1>2, <2>2, <3>1 DEF Contains
      <3>3. left[i].slice.low \in Key
        BY <1>2, <2>2, <3>1, SliceBounds
      <3>4. QED
        BY <1>2, <1>7, <3>2, <3>3, KeyOrder
    <2> HIDE DEF hit
    <2>3. QED
      BY <1>1, <1>3, <1>7, <2>1, <2>2 DEF SearchIsExact, Searching, Contains
  <1>8. QED
    BY <1>5, <1>6, <1>7

-----------------------------------------------------------------------------
(* The intersection *)

\* How far the result reaches.
Frontier == IF result = << >> THEN MinSliceKey ELSE result[Len(result)].slice.high

PairEntry == [slice : Slice, value : [leftEntry : Entry, rightEntry : Entry]]

\* The slice of a pair lies in the slices of both entries.
InBoth(e) ==
  \A k \in Key : Contains(e.slice, k) =>
    Contains(e.value.leftEntry.slice, k) /\ Contains(e.value.rightEntry.slice, k)

\* The result covers the keys up to the frontier without a gap, and both cursors
\* are at the entries that have it, one of which starts there.
IntersectInv ==
  /\ i \in 1..(Len(left) + 1) /\ j \in 1..(Len(right) + 1)
  /\ result \in Seq(PairEntry)
  /\ result # << >> => result[1].slice.low = MinSliceKey
  /\ \A n \in 1..(Len(result) - 1) : Meets(result[n].slice, result[n + 1].slice)
  /\ \A n \in 1..Len(result) : InBoth(result[n])
  /\ Frontier = InfinityKey => i = Len(left) + 1 /\ j = Len(right) + 1
  /\ Frontier # InfinityKey =>
       /\ Frontier \in Key /\ i <= Len(left) /\ j <= Len(right)
       /\ Contains(left[i].slice, Frontier) /\ Contains(right[j].slice, Frontier)
       /\ left[i].slice.low = Frontier \/ right[j].slice.low = Frontier

\* What is known of a call that intersects.
LEMMA IntersectCall ==
  ASSUME call \in Calls, Intersecting
  PROVE  /\ left \in Seq(Entry) /\ Complete(left) /\ right \in Seq(Entry) /\ Complete(right)
         /\ Len(left) \in Nat \ {0} /\ Len(right) \in Nat \ {0}
  <1>1. call \in Intersections
    BY DEF Calls, Intersecting, LookUps, Finds, Coalescings, Fillings
  <1>2. left \in Seq(Entry) /\ Complete(left) /\ right \in Seq(Entry) /\ Complete(right)
    BY <1>1, MapsAssumption DEF Intersections, left, right
  <1>3. QED
    BY <1>2, EmptySeq DEF Complete

\* Two slices that have the same key, where one of them starts, meet from there
\* to the first of their ends.
LEMMA MeetFacts ==
  ASSUME NEW s \in Slice, NEW o \in Slice, NEW f \in Key,
         Contains(s, f), Contains(o, f), s.low = f \/ o.low = f
  PROVE  LET meet == Intersection(s, o) IN
         /\ meet \in Slice /\ IsSlice(meet) /\ meet.low = f
         /\ \A k \in Key : Contains(meet, k) => Contains(s, k) /\ Contains(o, k)
         /\ meet.high # s.high => meet.high # InfinityKey /\ Contains(s, meet.high)
         /\ meet.high # o.high => meet.high # InfinityKey /\ Contains(o, meet.high)
         /\ meet.high = s.high \/ meet.high = o.high
  <1> DEFINE meet == Intersection(s, o)
  <1>1. /\ s.low \in Key /\ o.low \in Key /\ s.high \in HighKey /\ o.high \in HighKey
        /\ s.high # InfinityKey => s.high \in Key
        /\ o.high # InfinityKey => o.high \in Key
    BY SliceBounds
  <1>2. /\ KeyCompare(s.low, f) <= 0 /\ KeyCompare(o.low, f) <= 0
        /\ s.high # InfinityKey => KeyCompare(f, s.high) < 0
        /\ o.high # InfinityKey => KeyCompare(f, o.high) < 0
    BY <1>1, KeyOrder DEF Contains, CompareWithKey
  <1>3. meet.low = f
    BY <1>1, <1>2, KeyOrder DEF Intersection
  <1>4. meet = [low |-> meet.low, high |-> meet.high] /\ meet.high \in {s.high, o.high}
    BY DEF Intersection
  <1>5. /\ s.high = InfinityKey => meet.high = o.high
        /\ o.high = InfinityKey => meet.high = s.high
        /\ s.high # InfinityKey /\ o.high # InfinityKey =>
             meet.high = IF KeyCompare(o.high, s.high) < 0 THEN o.high ELSE s.high
    <2>1. s.high = InfinityKey => meet.high = o.high
      BY DEF Intersection, CompareWithHigh
    <2>2. o.high = InfinityKey => meet.high = s.high
      BY DEF Intersection, CompareWithHigh
    <2>3. s.high # InfinityKey /\ o.high # InfinityKey =>
            meet.high = IF KeyCompare(o.high, s.high) < 0 THEN o.high ELSE s.high
      BY DEF Intersection, CompareWithHigh
    <2>4. QED
      BY <2>1, <2>2, <2>3
  <1> HIDE DEF meet
  <1>6. /\ meet.high \in HighKey
        /\ meet.high # InfinityKey => meet.high \in Key /\ KeyCompare(f, meet.high) < 0
    BY <1>1, <1>2, <1>4
  <1>7. CompareWithKey(meet.high, f) > 0
    BY <1>6, KeyOrder DEF CompareWithKey
  <1>8. IsSlice(meet) /\ meet \in Slice
    BY <1>3, <1>4, <1>6, <1>7 DEF IsSlice, Slice
  <1>9. ASSUME NEW x \in {s, o} PROVE
          /\ x.low \in Key /\ KeyCompare(x.low, f) <= 0
          /\ x.high # InfinityKey =>
               x.high \in Key /\ meet.high # InfinityKey /\ KeyCompare(meet.high, x.high) <= 0
    BY <1>1, <1>2, <1>4, <1>5, KeyOrder
  <1>10. ASSUME NEW x \in {s, o}, NEW k \in Key, Contains(meet, k) PROVE Contains(x, k)
    <2>1. KeyCompare(f, k) <= 0 /\ CompareWithKey(meet.high, k) > 0
      BY <1>3, <1>10, KeyOrder DEF Contains
    <2>2. KeyCompare(k, x.low) >= 0
      <3>1. KeyCompare(x.low, k) <= 0
        BY <1>9, <2>1, KeyOrder
      <3>2. QED
        BY <1>9, <3>1, KeyOrder
    <2>3. CompareWithKey(x.high, k) > 0
      <3>1. CASE x.high = InfinityKey
        BY <3>1 DEF CompareWithKey
      <3>2. CASE x.high # InfinityKey
        <4>1. /\ x.high \in Key /\ meet.high \in Key
              /\ KeyCompare(meet.high, x.high) <= 0 /\ KeyCompare(k, meet.high) < 0
          BY <1>6, <1>9, <2>1, <3>2, KeyOrder DEF CompareWithKey
        <4>2. KeyCompare(k, x.high) < 0
          BY <4>1, KeyOrder
        <4>3. QED
          BY <3>2, <4>1, <4>2, KeyOrder DEF CompareWithKey
      <3>3. QED
        BY <3>1, <3>2
    <2>4. QED
      BY <2>2, <2>3 DEF Contains
  <1>11. ASSUME NEW x \in {s, o}, meet.high # x.high
         PROVE  meet.high # InfinityKey /\ Contains(x, meet.high)
    <2>1. meet.high # InfinityKey /\ meet.high \in Key
      BY <1>1, <1>4, <1>5, <1>6, <1>11
    <2>2. KeyCompare(x.low, meet.high) < 0
      BY <1>6, <1>9, <2>1, KeyOrder
    <2>3. x.high # InfinityKey => KeyCompare(meet.high, x.high) < 0
      BY <1>9, <1>11, <2>1, KeyOrder
    <2>4. QED
      BY <1>9, <2>1, <2>2, <2>3, KeyOrder DEF Contains, CompareWithKey
  <1>12. \A k \in Key : Contains(meet, k) => Contains(s, k) /\ Contains(o, k)
    BY <1>10
  <1>13. /\ meet.high # s.high => meet.high # InfinityKey /\ Contains(s, meet.high)
         /\ meet.high # o.high => meet.high # InfinityKey /\ Contains(o, meet.high)
    BY <1>11
  <1>14. QED
    BY <1>3, <1>4, <1>8, <1>12, <1>13 DEF meet
\* The cursor of one map after its entry met the other one's.
LEMMA AdvancedFacts ==
  ASSUME NEW m \in Seq(Entry), Complete(m), NEW c \in 1..Len(m), NEW meet \in Slice,
         meet.high # m[c].slice.high =>
           meet.high # InfinityKey /\ Contains(m[c].slice, meet.high)
  PROVE  LET d == Advanced(c, m[c].slice, meet) IN
         /\ d \in 1..(Len(m) + 1)
         /\ meet.high = InfinityKey => d = Len(m) + 1
         /\ meet.high # InfinityKey =>
              /\ d <= Len(m) /\ Contains(m[d].slice, meet.high)
              /\ meet.high = m[c].slice.high => m[d].slice.low = meet.high
  <1> DEFINE s == m[c].slice
             d == Advanced(c, s, meet)
  <1>1. Len(m) \in Nat /\ s \in Slice /\ c \in Nat /\ c >= 1 /\ c <= Len(m)
    BY EntryFacts
  <1>2. s.high \in HighKey /\ meet.high \in HighKey
    BY <1>1, SliceBounds
  <1>3. CompareWithHigh(s.high, meet.high) = 0 <=> s.high = meet.high
    BY <1>2, KeyOrder DEF CompareWithHigh, HighKey
  <1>4. c = Len(m) => s.high = InfinityKey
    BY DEF Complete
  <1>5. c < Len(m) => c + 1 \in 1..Len(m) /\ m[c + 1].slice \in Slice /\ Meets(s, m[c + 1].slice)
    BY <1>1, EntryFacts DEF Complete
  <1>6. CASE meet.high = s.high
    <2>1. d = c + 1
      BY <1>3, <1>6 DEF Advanced
    <2>2. CASE c = Len(m)
      BY <1>1, <1>4, <1>6, <2>1, <2>2
    <2>3. CASE c < Len(m)
      <3> DEFINE t == m[c + 1].slice
      <3>1. t \in Slice /\ s.high # InfinityKey /\ KeyCompare(s.high, t.low) = 0
        BY <1>5, <2>3 DEF Meets
      <3> HIDE DEF s, t
      <3>2. s.high \in Key /\ t.low \in Key /\ Contains(t, t.low)
        BY <1>2, <3>1, SliceBounds DEF HighKey
      <3>3. t.low = meet.high /\ Contains(t, meet.high) /\ meet.high # InfinityKey
        BY <1>6, <3>1, <3>2, KeyOrder
      <3>4. QED
        BY <1>1, <2>1, <2>3, <3>3 DEF t, s
    <2>4. QED
      BY <1>1, <2>2, <2>3
  <1>7. CASE meet.high # s.high
    <2>1. d = c
      BY <1>3, <1>7 DEF Advanced
    <2>2. QED
      BY <1>1, <1>7, <2>1
  <1>8. QED
    BY <1>6, <1>7

\* An iteration keeps the invariant and does not panic: the slices at the cursors
\* are never disjoint.
LEMMA IntersectStepKeeps ==
  ASSUME call \in Calls, IntersectInv, IntersectStep
  PROVE  IntersectInv' /\ outcome' = "running"
  <1> DEFINE s == left[i].slice
             o == right[j].slice
             meet == Intersection(s, o)
             f == Frontier
             e == [slice |-> meet, value |-> Pair(left[i], right[j])]
  <1>1. /\ Intersecting /\ outcome = "running" /\ i <= Len(left) /\ j <= Len(right)
        /\ call' = call /\ left' = left /\ right' = right
    BY DEF IntersectStep, left, right
  <1>2. /\ left \in Seq(Entry) /\ Complete(left) /\ right \in Seq(Entry) /\ Complete(right)
        /\ Len(left) \in Nat /\ Len(right) \in Nat
    BY <1>1, IntersectCall
  <1>3. i \in 1..Len(left) /\ j \in 1..Len(right)
    BY <1>1, <1>2 DEF IntersectInv
  <1>4. f # InfinityKey
    BY <1>1, <1>2 DEF IntersectInv
  <1>5. /\ left[i] \in Entry /\ right[j] \in Entry /\ s \in Slice /\ o \in Slice /\ f \in Key
        /\ Contains(s, f) /\ Contains(o, f) /\ (s.low = f \/ o.low = f)
    BY <1>2, <1>3, <1>4, EntryFacts DEF IntersectInv
  <1> HIDE DEF f, s, o
  <1>6. /\ meet \in Slice /\ IsSlice(meet) /\ meet.low = f
        /\ \A k \in Key : Contains(meet, k) => Contains(s, k) /\ Contains(o, k)
        /\ meet.high # s.high => meet.high # InfinityKey /\ Contains(s, meet.high)
        /\ meet.high # o.high => meet.high # InfinityKey /\ Contains(o, meet.high)
        /\ meet.high = s.high \/ meet.high = o.high
    BY <1>5, MeetFacts
  <1>7. /\ result' = Append(result, e) /\ outcome' = outcome
        /\ i' = Advanced(i, s, meet) /\ j' = Advanced(j, o, meet)
    BY <1>6 DEF IntersectStep, s, o
  <1> HIDE DEF meet
  <1>8. e \in PairEntry /\ e.slice = meet /\ InBoth(e)
    BY <1>5, <1>6 DEF PairEntry, Pair, InBoth, s, o
  <1>9. /\ result \in Seq(PairEntry) /\ Len(result) \in Nat
        /\ result # << >> => Len(result) > 0
    BY EmptySeq DEF IntersectInv
  <1> HIDE DEF e
  <1>10. /\ result' \in Seq(PairEntry) /\ Len(result') = Len(result) + 1
         /\ \A n \in 1..Len(result) : result'[n] = result[n]
         /\ result'[Len(result) + 1] = e /\ result' # << >>
    BY <1>7, <1>8, <1>9
  <1>11. Frontier' = meet.high
    BY <1>8, <1>10 DEF Frontier
  <1>12. result'[1].slice.low = MinSliceKey
    <2>1. CASE result = << >>
      BY <1>6, <1>8, <1>10, <2>1 DEF f, Frontier
    <2>2. CASE result # << >>
      BY <1>9, <1>10, <2>2 DEF IntersectInv
    <2>3. QED
      BY <2>1, <2>2
  <1>13. ASSUME NEW n \in 1..(Len(result') - 1)
         PROVE  Meets(result'[n].slice, result'[n + 1].slice)
    <2>1. CASE n < Len(result)
      BY <1>9, <1>10, <2>1 DEF IntersectInv
    <2>2. CASE n = Len(result)
      <3>1. result # << >> /\ result'[n] = result[n] /\ result'[n + 1] = e /\ n \in Nat
        BY <1>9, <1>10, <1>13, <2>2
      <3>2. result[n].slice.high = f /\ e.slice.low = f
        BY <1>6, <1>8, <2>2, <3>1 DEF f, Frontier
      <3>3. KeyCompare(f, f) = 0
        BY <1>5, KeyOrder
      <3>4. QED
        BY <1>4, <3>1, <3>2, <3>3 DEF Meets
    <2>3. QED
      BY <1>9, <1>10, <1>13, <2>1, <2>2
  <1>14. \A n \in 1..Len(result') : InBoth(result'[n])
    BY <1>8, <1>9, <1>10 DEF IntersectInv
  <1>15. /\ i' \in 1..(Len(left) + 1)
         /\ meet.high = InfinityKey => i' = Len(left) + 1
         /\ meet.high # InfinityKey =>
              /\ i' <= Len(left) /\ Contains(left[i'].slice, meet.high)
              /\ meet.high = s.high => left[i'].slice.low = meet.high
    BY <1>2, <1>3, <1>6, <1>7, AdvancedFacts DEF s
  <1>16. /\ j' \in 1..(Len(right) + 1)
         /\ meet.high = InfinityKey => j' = Len(right) + 1
         /\ meet.high # InfinityKey =>
              /\ j' <= Len(right) /\ Contains(right[j'].slice, meet.high)
              /\ meet.high = o.high => right[j'].slice.low = meet.high
    BY <1>2, <1>3, <1>6, <1>7, AdvancedFacts DEF o
  <1>17. meet.high # InfinityKey =>
           /\ meet.high \in Key
           /\ left[i'].slice.low = meet.high \/ right[j'].slice.low = meet.high
    BY <1>6, <1>15, <1>16, SliceBounds
  <1>18. QED
    BY <1>1, <1>7, <1>10, <1>11, <1>12, <1>13, <1>14, <1>15, <1>16, <1>17
       DEF IntersectInv, InBoth, Contains, Meets
\* When one map is used up both are, and the pairs partition the keys.
LEMMA IntersectEndsComplete ==
  ASSUME call \in Calls, IntersectInv, IntersectEnds
  PROVE  IntersectionIsPointwise'
  <1>1. /\ Intersecting
        /\ i > Len(left) \/ j > Len(right)
        /\ call' = call /\ result' = result
        /\ outcome' = IF Complete(result) THEN "returned" ELSE "panicked"
    BY DEF IntersectEnds, MustBeComplete
  <1>2. Len(left) \in Nat /\ Len(right) \in Nat
    BY IntersectCall DEF IntersectEnds
  <1>3. Frontier = InfinityKey
    BY <1>1, <1>2 DEF IntersectInv, IntersectEnds
  <1>4. result # << >>
    BY <1>3, KeyAssumption DEF Frontier
  <1>5. Complete(result)
    BY <1>3, <1>4 DEF Complete, Frontier, IntersectInv
  <1>6. outcome' = "returned" /\ Complete(result)'
    BY <1>1, <1>5 DEF Complete, Meets
  <1>7. QED
    BY <1>1, <1>6 DEF IntersectionIsPointwise, IntersectInv, InBoth, Contains
-----------------------------------------------------------------------------
(* What a list of entries gives for a key *)

Gives(entries, k, v) ==
  \E n \in 1..Len(entries) : Contains(entries[n].slice, k) /\ entries[n].value = v

\* ValuesAt by its members.
LEMMA ValuesFacts ==
  ASSUME NEW entries, NEW k, NEW v
  PROVE  v \in ValuesAt(entries, k) <=> Gives(entries, k, v)
  BY DEF ValuesAt, Gives

\* One entry more, and what the list gives then.
LEMMA AppendFacts ==
  ASSUME NEW S, NEW entries \in Seq(S), NEW e \in S
  PROVE  /\ Append(entries, e) \in Seq(S) /\ Len(entries) \in Nat
         /\ Len(Append(entries, e)) = Len(entries) + 1
         /\ \A n \in 1..Len(entries) : Append(entries, e)[n] = entries[n]
         /\ Append(entries, e)[Len(entries) + 1] = e
         /\ Append(entries, e) # << >>
         /\ \A k, v : Gives(Append(entries, e), k, v) <=>
              Gives(entries, k, v) \/ (Contains(e.slice, k) /\ e.value = v)
  <1>1. /\ Append(entries, e) \in Seq(S) /\ Len(entries) \in Nat
        /\ Len(Append(entries, e)) = Len(entries) + 1
        /\ \A n \in 1..Len(entries) : Append(entries, e)[n] = entries[n]
        /\ Append(entries, e)[Len(entries) + 1] = e
        /\ Append(entries, e) # << >>
    BY AppendProperties
  <1>2. PICK longer : longer = Append(entries, e)
    OBVIOUS
  <1>3. ASSUME NEW k, NEW v
        PROVE  Gives(longer, k, v) <=>
                 Gives(entries, k, v) \/ (Contains(e.slice, k) /\ e.value = v)
    <2>1. 1..Len(longer) = 1..Len(entries) \cup {Len(entries) + 1}
      BY <1>1, <1>2
    <2>2. \A n \in 1..Len(entries) : longer[n] = entries[n]
      BY <1>1, <1>2
    <2>3. longer[Len(entries) + 1] = e
      BY <1>1, <1>2
    <2>4. QED
      BY <2>1, <2>2, <2>3 DEF Gives
  <1>4. QED
    BY <1>1, <1>2, <1>3

\* Two slices that meet make one with the keys of both.
LEMMA SpanFacts ==
  ASSUME NEW s \in Slice, NEW o \in Slice, Meets(s, o)
  PROVE  /\ Spanning(s, o) \in Slice /\ IsSlice(Spanning(s, o))
         /\ Spanning(s, o).low = s.low /\ Spanning(s, o).high = o.high
         /\ \A k \in Key : Contains(Spanning(s, o), k) <=> Contains(s, k) \/ Contains(o, k)
  <1>1. /\ s.low \in Key /\ s.high \in Key /\ o.low \in Key /\ o.high \in HighKey
        /\ s.high # InfinityKey /\ s.high = o.low /\ KeyCompare(s.low, s.high) < 0
        /\ o.high # InfinityKey => o.high \in Key /\ KeyCompare(o.low, o.high) < 0
    BY SliceBounds, KeyOrder DEF Meets
  <1>2. PICK t : t = Spanning(s, o)
    OBVIOUS
  <1>3. t = [low |-> s.low, high |-> o.high] /\ t.low = s.low /\ t.high = o.high
    BY <1>2 DEF Spanning
  <1>4. o.high # InfinityKey => KeyCompare(s.low, o.high) < 0
    BY <1>1, KeyOrder
  <1>5. IsSlice(t)
    BY <1>1, <1>3, <1>4, KeyOrder DEF IsSlice, CompareWithKey
  <1>6. t \in Slice
    BY <1>1, <1>3, <1>5 DEF Slice
  <1>7. ASSUME NEW k \in Key PROVE Contains(t, k) <=> Contains(s, k) \/ Contains(o, k)
    <2>1. CASE KeyCompare(k, o.low) >= 0
      <3>1. KeyCompare(s.low, o.low) <= 0 /\ KeyCompare(o.low, k) <= 0
        BY <1>1, <2>1, KeyOrder
      <3>2. KeyCompare(s.low, k) <= 0
        BY <1>1, <3>1, KeyOrder
      <3>3. KeyCompare(k, s.low) >= 0 /\ ~(CompareWithKey(s.high, k) > 0)
        BY <1>1, <2>1, <3>2, KeyOrder DEF CompareWithKey
      <3>4. QED
        BY <1>3, <2>1, <3>3 DEF Contains
    <2>2. CASE ~(KeyCompare(k, o.low) >= 0)
      <3>1. KeyCompare(k, o.low) < 0 /\ KeyCompare(o.low, k) > 0
        BY <1>1, <2>2, KeyOrder
      <3>2. CompareWithKey(s.high, k) > 0
        BY <1>1, <3>1 DEF CompareWithKey
      <3>3. CompareWithKey(o.high, k) > 0
        <4>1. CASE o.high = InfinityKey
          BY <4>1 DEF CompareWithKey
        <4>2. CASE o.high # InfinityKey
          <5>1. KeyCompare(k, o.high) < 0
            BY <1>1, <3>1, <4>2, KeyOrder
          <5>2. QED
            BY <1>1, <4>2, <5>1, KeyOrder DEF CompareWithKey
        <4>3. QED
          BY <4>1, <4>2
      <3>4. QED
        BY <1>3, <2>2, <3>2, <3>3 DEF Contains
    <2>3. QED
      BY <2>1, <2>2
  <1>8. QED
    BY <1>2, <1>3, <1>5, <1>6, <1>7

-----------------------------------------------------------------------------
(* The coalescing *)

\* The entries made so far, the pending one included.
Made == Append(result, current)

\* Of an entry that has been read, the value at k is v.
Read(k, v) == \E n \in 1..(i - 1) : Contains(left[n].slice, k) /\ left[n].value = v

\* The entries made so far reach as far as those read, without a gap; they give
\* every key what those give it, and neighbours differ.
CoalesceInv ==
  /\ i \in 2..(Len(left) + 1)
  /\ result \in Seq(Entry) /\ current \in Entry
  /\ Made[1].slice.low = MinSliceKey
  /\ \A n \in 1..Len(result) :
       Meets(Made[n].slice, Made[n + 1].slice) /\ Made[n].value # Made[n + 1].value
  /\ current.slice.high = left[i - 1].slice.high
  /\ \A k \in Key, v \in Value : Gives(Made, k, v) <=> Read(k, v)

\* What is known of a call that coalesces.
LEMMA CoalesceCall ==
  ASSUME call \in Calls, Coalescing
  PROVE  left \in Seq(Entry) /\ Complete(left) /\ Len(left) \in Nat \ {0}
  <1>1. call \in Coalescings
    BY DEF Calls, Coalescing, LookUps, Finds, Intersections, Fillings
  <1>2. left \in Seq(Entry) /\ Complete(left)
    BY <1>1, MapsAssumption DEF Coalescings, left
  <1>3. QED
    BY <1>2, EmptySeq DEF Complete

\* The next entry meets the pending one; merged or pending, it keeps the invariant,
\* and MustNewSlice does not panic on the span of the two.
LEMMA CoalesceStepKeeps ==
  ASSUME call \in Calls, CoalesceInv, CoalesceStep
  PROVE  CoalesceInv' /\ outcome' = "running"
  <1>1. /\ Coalescing /\ outcome = "running" /\ i <= Len(left) /\ i' = i + 1 /\ left' = left
    BY DEF CoalesceStep, left
  <1>2. left \in Seq(Entry) /\ Complete(left) /\ Len(left) \in Nat \ {0} /\ i \in 2..Len(left)
    BY <1>1, CoalesceCall DEF CoalesceInv
  <1>3. PICK next : next = left[i]
    OBVIOUS
  <1>4. /\ next \in Entry /\ next.slice \in Slice /\ next.value \in Value
        /\ current \in Entry /\ current.slice \in Slice /\ current.value \in Value
        /\ result \in Seq(Entry) /\ Len(result) \in Nat
    <2>1. next \in Entry /\ current \in Entry /\ result \in Seq(Entry)
      BY <1>2, <1>3, EntryFacts DEF CoalesceInv
    <2>2. QED
      BY <2>1, LenProperties DEF Entry
  <1>5. Meets(current.slice, next.slice)
    <2>1. i - 1 \in 1..(Len(left) - 1) /\ (i - 1) + 1 = i
      BY <1>2
    <2>2. Meets(left[i - 1].slice, next.slice)
      BY <1>2, <1>3, <2>1 DEF Complete
    <2>3. QED
      BY <2>2 DEF Meets, CoalesceInv
  <1>6. \A k, v : Read(k, v)' <=> Read(k, v) \/ (Contains(next.slice, k) /\ next.value = v)
    <2>1. 1..(i' - 1) = 1..(i - 1) \cup {i}
      BY <1>1, <1>2
    <2>2. QED
      BY <1>1, <1>3, <2>1 DEF Read, Contains
  <1>7. i' \in 2..(Len(left') + 1) /\ left'[i' - 1] = next
    BY <1>1, <1>2, <1>3
  <1>8. /\ Made \in Seq(Entry) /\ Len(Made) = Len(result) + 1
        /\ \A n \in 1..Len(result) : Made[n] = result[n]
        /\ Made[Len(result) + 1] = current
        /\ \A k, v : Gives(Made, k, v) <=>
             Gives(result, k, v) \/ (Contains(current.slice, k) /\ current.value = v)
    BY <1>4, AppendFacts DEF Made
  <1>9. /\ Made[1].slice.low = MinSliceKey
        /\ \A n \in 1..Len(result) :
             Meets(Made[n].slice, Made[n + 1].slice) /\ Made[n].value # Made[n + 1].value
        /\ \A k \in Key, v \in Value : Gives(Made, k, v) <=> Read(k, v)
    BY DEF CoalesceInv
  <1>10. CASE current.value = next.value
    <2>1. PICK span : span = Spanning(current.slice, next.slice)
      OBVIOUS
    <2>2. /\ span \in Slice /\ IsSlice(span) /\ span.low = current.slice.low
          /\ span.high = next.slice.high
          /\ \A k \in Key : Contains(span, k) <=> Contains(current.slice, k) \/ Contains(next.slice, k)
      BY <1>4, <1>5, <2>1, SpanFacts
    <2>3. current' = [slice |-> span, value |-> current.value] /\ result' = result
          /\ outcome' = "running"
      BY <1>1, <1>3, <1>4, <1>10, <2>1, <2>2 DEF CoalesceStep, Absorb, Entry
    <2>4. current' \in Entry /\ current'.slice = span /\ current'.value = current.value
      BY <1>4, <2>2, <2>3 DEF Entry
    <2>5. /\ Len(Made') = Len(result) + 1
          /\ \A n \in 1..Len(result) : Made'[n] = result[n]
          /\ Made'[Len(result) + 1] = current'
          /\ \A k, v : Gives(Made', k, v) <=>
               Gives(result, k, v) \/ (Contains(span, k) /\ current.value = v)
      <3>1. Made' = Append(result, current')
        BY <2>3 DEF Made
      <3>2. PICK c : c = current'
        OBVIOUS
      <3>3. /\ Len(Append(result, c)) = Len(result) + 1
            /\ \A n \in 1..Len(result) : Append(result, c)[n] = result[n]
            /\ Append(result, c)[Len(result) + 1] = c
            /\ \A k, v : Gives(Append(result, c), k, v) <=>
                 Gives(result, k, v) \/ (Contains(c.slice, k) /\ c.value = v)
        BY <1>4, <2>4, <3>2, AppendFacts
      <3>4. QED
        BY <2>4, <3>1, <3>2, <3>3
    <2>6. Made'[1].slice.low = MinSliceKey
      BY <1>4, <1>8, <1>9, <2>2, <2>4, <2>5
    <2>7. ASSUME NEW n \in 1..Len(result)
          PROVE  Meets(Made'[n].slice, Made'[n + 1].slice) /\ Made'[n].value # Made'[n + 1].value
      <3>1. CASE n = Len(result)
        BY <1>4, <1>8, <1>9, <2>2, <2>4, <2>5, <3>1 DEF Meets
      <3>2. CASE n # Len(result)
        <4>1. n + 1 \in 1..Len(result)
          BY <1>4, <3>2
        <4>2. Made'[n] = Made[n] /\ Made'[n + 1] = Made[n + 1]
          BY <1>8, <2>5, <4>1
        <4>3. QED
          BY <1>9, <4>2
      <3>3. QED
        BY <3>1, <3>2
    <2>8. ASSUME NEW k \in Key, NEW v \in Value PROVE Gives(Made', k, v) <=> Read(k, v)'
      BY <1>6, <1>8, <1>9, <1>10, <2>2, <2>5
    <2>9. CoalesceInv'
      BY <1>4, <1>7, <2>2, <2>3, <2>4, <2>6, <2>7, <2>8 DEF CoalesceInv
    <2>10. QED
      BY <2>3, <2>9
  <1>11. CASE current.value # next.value
    <2>1. current' = next /\ result' = Made /\ outcome' = "running"
      BY <1>1, <1>3, <1>11 DEF CoalesceStep, Made
    <2>2. /\ Len(Made') = Len(Made) + 1
          /\ \A n \in 1..Len(Made) : Made'[n] = Made[n]
          /\ Made'[Len(Made) + 1] = next
          /\ \A k, v : Gives(Made', k, v) <=>
               Gives(Made, k, v) \/ (Contains(next.slice, k) /\ next.value = v)
      <3>1. Made' = Append(Made, next)
        BY <2>1 DEF Made
      <3>2. QED
        BY <1>4, <1>8, <3>1, AppendFacts
    <2>3. Made'[1].slice.low = MinSliceKey
      BY <1>4, <1>8, <1>9, <2>2
    <2>4. ASSUME NEW n \in 1..Len(Made)
          PROVE  Meets(Made'[n].slice, Made'[n + 1].slice) /\ Made'[n].value # Made'[n + 1].value
      <3>1. CASE n = Len(Made)
        BY <1>4, <1>5, <1>8, <1>11, <2>2, <3>1
      <3>2. CASE n # Len(Made)
        <4>1. n \in 1..Len(result) /\ n + 1 \in 1..Len(Made)
          BY <1>4, <1>8, <3>2
        <4>2. QED
          BY <1>9, <2>2, <4>1
      <3>3. QED
        BY <3>1, <3>2
    <2>5. ASSUME NEW k \in Key, NEW v \in Value PROVE Gives(Made', k, v) <=> Read(k, v)'
      BY <1>6, <1>9, <2>2
    <2>6. CoalesceInv'
      BY <1>4, <1>7, <1>8, <2>1, <2>3, <2>4, <2>5 DEF CoalesceInv
    <2>7. QED
      BY <2>1, <2>6
  <1>12. QED
    BY <1>10, <1>11

\* When all are read, the entries made are a SliceMap that gives what the given
\* one gives.
LEMMA CoalesceEndsExactly ==
  ASSUME call \in Calls, CoalesceInv, CoalesceEnds
  PROVE  CoalescingKeepsTheMap' /\ result' \in Seq(Entry)
  <1>1. /\ Coalescing /\ i > Len(left) /\ left' = left
        /\ result' = Made
        /\ outcome' = IF Complete(Made) THEN "returned" ELSE "panicked"
    BY DEF CoalesceEnds, MustBeComplete, Made, left
  <1>2. left \in Seq(Entry) /\ Complete(left) /\ Len(left) \in Nat \ {0} /\ i = Len(left) + 1
    BY <1>1, CoalesceCall DEF CoalesceInv
  <1>3. result \in Seq(Entry) /\ Len(result) \in Nat /\ current \in Entry
    BY LenProperties DEF CoalesceInv
  <1>4. /\ Made \in Seq(Entry) /\ Len(Made) = Len(result) + 1 /\ Made # << >>
        /\ Made[Len(result) + 1] = current
    BY <1>3, AppendFacts DEF Made
  <1>5. current.slice.high = InfinityKey
    BY <1>2 DEF CoalesceInv, Complete
  <1>6. Complete(Made)
    BY <1>3, <1>4, <1>5 DEF CoalesceInv, Complete
  <1>7. ASSUME NEW k \in Key PROVE ValuesAt(Made, k) = ValuesAt(left, k)
    <2>1. \A v \in Value : Gives(Made, k, v) <=> Gives(left, k, v)
      BY <1>2 DEF CoalesceInv, Read, Gives
    <2>2. \A v : Gives(Made, k, v) \/ Gives(left, k, v) => v \in Value
      BY <1>2, <1>4, EntryFacts DEF Gives, Entry
    <2>3. \A v : v \in ValuesAt(Made, k) <=> v \in ValuesAt(left, k)
      BY <2>1, <2>2, ValuesFacts
    <2>4. QED
      BY <2>3
  <1>8. \A n \in 1..(Len(Made) - 1) : Made[n].value # Made[n + 1].value
    BY <1>3, <1>4 DEF CoalesceInv
  <1>9. \A k : ValuesAt(result, k)' = ValuesAt(Made, k) /\ ValuesAt(left, k)' = ValuesAt(left, k)
    BY <1>1 DEF ValuesAt, Contains
  <1>10. QED
    BY <1>1, <1>4, <1>6, <1>7, <1>8, <1>9 DEF CoalescingKeepsTheMap

-----------------------------------------------------------------------------
(* The filling of gaps *)

FillEntry == [slice : Slice, value : Entry \cup {Gap}]

\* The n-th entry ends before its successor begins, and all that were read do.
InOrder(n) == CompareWithKey(left[n].slice.high, left[n + 1].slice.low) <= 0
OrderedSoFar == \A n \in 1..(i - 2) : InOrder(n)

\* An entry that was read contains k.
Owned(k) == \E n \in 1..(i - 1) : Contains(left[n].slice, k)

Adjoining(entries) == \A n \in 1..(Len(entries) - 1) : Meets(entries[n].slice, entries[n + 1].slice)

\* The entries made begin at the smallest key and reach to the cursor, with neither
\* a gap nor an overlap just if the entries read are in order; a key has the entries
\* read that contain it, and Gap below the cursor if there is none.
FillInv ==
  /\ i \in 1..(Len(left) + 1)
  /\ result \in Seq(FillEntry)
  /\ cursor = IF i = 1 THEN MinSliceKey ELSE left[i - 1].slice.high
  /\ result = << >> => i = 1
  /\ result # << >> =>
       i > 1 /\ result[Len(result)].slice.high = cursor /\ result[1].slice.low = MinSliceKey
  /\ OrderedSoFar <=> Adjoining(result)
  /\ \A k \in Key, e \in Entry :
       Gives(result, k, e) <=> \E n \in 1..(i - 1) : Contains(left[n].slice, k) /\ left[n] = e
  /\ OrderedSoFar =>
       \A k \in Key : /\ Owned(k) => CompareWithKey(cursor, k) > 0
                      /\ Gives(result, k, Gap) <=> CompareWithKey(cursor, k) > 0 /\ ~Owned(k)

\* What is known of a call that fills.
LEMMA FillCall ==
  ASSUME call \in Calls, Filling
  PROVE  left \in Seq(Entry) /\ Len(left) \in Nat
  <1>1. call \in Fillings
    BY DEF Calls, Filling, LookUps, Finds, Intersections, Coalescings
  <1>2. left \in Seq(Entry)
    BY <1>1, ListsAssumption DEF Fillings, left
  <1>3. QED
    BY <1>2, LenProperties

\* One slice more at the end of some that adjoin.
LEMMA AdjoiningAppend ==
  ASSUME NEW S, NEW entries \in Seq(S), NEW e \in S
  PROVE  Adjoining(Append(entries, e)) <=>
           Adjoining(entries) /\ (entries # << >> => Meets(entries[Len(entries)].slice, e.slice))
  <1>1. PICK longer : longer = Append(entries, e)
    OBVIOUS
  <1>2. /\ Len(entries) \in Nat /\ Len(longer) = Len(entries) + 1
        /\ \A n \in 1..Len(entries) : longer[n] = entries[n]
        /\ longer[Len(entries) + 1] = e
        /\ entries # << >> <=> Len(entries) > 0
    BY <1>1, AppendFacts, EmptySeq
  <1>3. ASSUME Adjoining(longer)
        PROVE  Adjoining(entries) /\ (entries # << >> => Meets(entries[Len(entries)].slice, e.slice))
    BY <1>2, <1>3 DEF Adjoining
  <1>4. ASSUME Adjoining(entries), entries # << >> => Meets(entries[Len(entries)].slice, e.slice),
               NEW n \in 1..(Len(longer) - 1)
        PROVE  Meets(longer[n].slice, longer[n + 1].slice)
    <2>1. CASE n = Len(entries)
      BY <1>2, <1>4, <2>1
    <2>2. CASE n # Len(entries)
      <3>1. n \in 1..(Len(entries) - 1) /\ n + 1 \in 1..Len(entries)
        BY <1>2, <2>2
      <3>2. longer[n] = entries[n] /\ longer[n + 1] = entries[n + 1]
        BY <1>2, <3>1
      <3>3. QED
        BY <1>4, <3>1, <3>2 DEF Adjoining
    <2>3. QED
      BY <2>1, <2>2
  <1>5. QED
    BY <1>1, <1>3, <1>4 DEF Adjoining

\* A gap up to the next entry, or none, leaves what there is adjoining, and the next
\* entry adjoins just if it does not begin before the cursor.
LEMMA GapFacts ==
  ASSUME call \in Calls, FillInv, Filling, NEW low \in Key,
         NEW base, base = result \o GapBefore(cursor, low)
  PROVE  /\ base \in Seq(FillEntry) /\ Len(base) \in Nat
         /\ Adjoining(base) <=> OrderedSoFar
         /\ base # << >> => /\ base[1].slice.low = MinSliceKey
                            /\ (/\ base[Len(base)].slice.high # InfinityKey
                                /\ KeyCompare(base[Len(base)].slice.high, low) = 0)
                                 <=> CompareWithKey(cursor, low) <= 0
         /\ base = << >> => low = MinSliceKey /\ CompareWithKey(cursor, low) <= 0
         /\ \A k \in Key, e \in Entry : Gives(base, k, e) <=> Gives(result, k, e)
         /\ \A k \in Key :
              Gives(base, k, Gap) <=>
                \/ Gives(result, k, Gap)
                \/ cursor # InfinityKey /\ KeyCompare(cursor, k) <= 0 /\ KeyCompare(k, low) < 0
  <1>1. /\ left \in Seq(Entry) /\ result \in Seq(FillEntry) /\ Len(result) \in Nat
        /\ \A n \in 1..Len(left) : left[n].slice \in Slice
        /\ Len(left) \in Nat
    BY FillCall, EntryFacts, LenProperties DEF FillInv
  <1>2. cursor \in HighKey
    <2>1. i \in 1..(Len(left) + 1)
      BY DEF FillInv
    <2>2. CASE i = 1
      BY <2>2, KeyAssumption DEF FillInv, HighKey
    <2>3. CASE i # 1
      <3>1. i - 1 \in 1..Len(left)
        BY <1>1, <2>1, <2>3
      <3>2. left[i - 1].slice.high \in HighKey
        BY <1>1, <3>1, SliceBounds
      <3>3. QED
        BY <2>3, <3>2 DEF FillInv
    <2>4. QED
      BY <2>2, <2>3
  <1>3. CASE cursor # InfinityKey /\ KeyCompare(low, cursor) > 0
    <2>1. PICK g : g = GapBetween(cursor, low)
      OBVIOUS
    <2>2. cursor \in Key /\ KeyCompare(cursor, low) < 0
      BY <1>2, <1>3, KeyOrder DEF HighKey
    <2>3. /\ g.slice.low = cursor /\ g.slice.high = low /\ g.value = Gap
          /\ g = [slice |-> g.slice, value |-> Gap]
          /\ g.slice = [low |-> cursor, high |-> low]
      BY <2>1 DEF GapBetween
    <2>4. g.slice \in Slice /\ low # InfinityKey /\ g \in FillEntry
      <3>1. low # InfinityKey /\ CompareWithKey(low, cursor) > 0
        BY <1>3, KeyAssumption DEF CompareWithKey
      <3>2. g.slice \in Slice
        BY <2>2, <2>3, <3>1 DEF Slice, IsSlice, HighKey
      <3>3. QED
        BY <2>3, <3>1, <3>2 DEF FillEntry
    <2>5. base = Append(result, g)
      <3>1. base = result \o <<g>>
        BY <1>3, <2>1 DEF GapBefore
      <3>2. QED
        BY <1>1, <2>4, <3>1
    <2>6. /\ base \in Seq(FillEntry) /\ Len(base) = Len(result) + 1 /\ base # << >>
          /\ \A n \in 1..Len(result) : base[n] = result[n]
          /\ base[Len(result) + 1] = g
          /\ \A k, v : Gives(base, k, v) <=>
               Gives(result, k, v) \/ (Contains(g.slice, k) /\ g.value = v)
      BY <1>1, <2>4, <2>5, AppendFacts
    <2>7. Adjoining(base) <=> OrderedSoFar
      <3>1. result # << >> => Meets(result[Len(result)].slice, g.slice)
        BY <2>2, <2>3, <1>3, KeyOrder DEF FillInv, Meets
      <3>2. Adjoining(base) <=> Adjoining(result)
        BY <1>1, <2>4, <2>5, <3>1, AdjoiningAppend
      <3>3. QED
        BY <3>2 DEF FillInv
    <2>8. base[1].slice.low = MinSliceKey
      <3>1. CASE result = << >>
        BY <2>3, <2>6, <3>1 DEF FillInv
      <3>2. CASE result # << >>
        <4>1. 1 \in 1..Len(result)
          BY <1>1, <3>2, EmptySeq
        <4>2. QED
          BY <2>6, <3>2, <4>1 DEF FillInv
      <3>3. QED
        BY <3>1, <3>2
    <2>9. base[Len(base)].slice.high = low /\ KeyCompare(low, low) = 0
      BY <2>3, <2>6, KeyOrder
    <2>10. CompareWithKey(cursor, low) <= 0
      BY <1>3, <2>2, KeyOrder DEF CompareWithKey
    <2>11. ASSUME NEW k \in Key
           PROVE  Contains(g.slice, k) <=> KeyCompare(cursor, k) <= 0 /\ KeyCompare(k, low) < 0
      <3>1. KeyCompare(k, cursor) >= 0 <=> KeyCompare(cursor, k) <= 0
        BY <2>2, KeyOrder
      <3>2. CompareWithKey(low, k) > 0 <=> KeyCompare(k, low) < 0
        BY <2>4, KeyOrder DEF CompareWithKey
      <3>3. QED
        BY <2>3, <3>1, <3>2 DEF Contains
    <2>12. QED
      BY <1>1, <1>3, <2>3, <2>4, <2>6, <2>7, <2>8, <2>9, <2>10, <2>11, GapAssumption
  <1>4. CASE ~(cursor # InfinityKey /\ KeyCompare(low, cursor) > 0)
    <2>1. base = result
      <3>1. base = result \o << >>
        BY <1>4 DEF GapBefore
      <3>2. QED
        BY <1>1, <3>1
    <2>2. cursor # InfinityKey =>
            cursor \in Key /\ KeyCompare(low, cursor) <= 0
            /\ (KeyCompare(cursor, low) <= 0 <=> KeyCompare(cursor, low) = 0)
      BY <1>2, <1>4, KeyOrder DEF HighKey
    <2>3. ASSUME cursor # InfinityKey, NEW k \in Key, KeyCompare(cursor, k) <= 0, KeyCompare(k, low) < 0
          PROVE  FALSE
      <3>1. KeyCompare(cursor, low) < 0
        BY <2>2, <2>3, KeyOrder
      <3>2. QED
        BY <2>2, <2>3, <3>1, KeyOrder
    <2>4. CASE result = << >>
      <3>1. cursor = MinSliceKey /\ cursor # InfinityKey
        BY <2>4, KeyAssumption DEF FillInv
      <3>2. KeyCompare(cursor, low) <= 0
        BY <3>1, KeyOrder
      <3>3. KeyCompare(cursor, low) = 0 /\ low = cursor
        BY <2>2, <3>1, <3>2, KeyOrder
      <3>4. CompareWithKey(cursor, low) <= 0 /\ low = MinSliceKey
        BY <3>1, <3>3 DEF CompareWithKey
      <3>5. QED
        BY <1>1, <2>1, <2>3, <2>4, <3>4 DEF FillInv
    <2>5. CASE result # << >>
      <3>1. result[Len(result)].slice.high = cursor /\ result[1].slice.low = MinSliceKey
        BY <2>5 DEF FillInv
      <3>2. cursor # InfinityKey /\ KeyCompare(cursor, low) = 0 <=> CompareWithKey(cursor, low) <= 0
        BY <2>2 DEF CompareWithKey
      <3>3. QED
        BY <1>1, <2>1, <2>3, <2>5, <3>1, <3>2 DEF FillInv
    <2>6. QED
      BY <2>4, <2>5
  <1>5. QED
    BY <1>3, <1>4

\* The next entry, after the gap before it, keeps the invariant.
LEMMA FillStepKeeps ==
  ASSUME call \in Calls, FillInv, FillStep
  PROVE  FillInv'
  <1>1. /\ Filling /\ i <= Len(left) /\ i' = i + 1 /\ left' = left
        /\ cursor' = left[i].slice.high
    BY DEF FillStep, left
  <1>2. left \in Seq(Entry) /\ Len(left) \in Nat /\ i \in 1..Len(left)
        /\ \A n \in 1..Len(left) : left[n] \in Entry /\ left[n].slice \in Slice
    BY <1>1, FillCall, EntryFacts DEF FillInv
  <1>3. PICK next : next = left[i]
    OBVIOUS
  <1>4. PICK e : e = [slice |-> next.slice, value |-> next]
    OBVIOUS
  <1>5. PICK base : base = result \o GapBefore(cursor, next.slice.low)
    OBVIOUS
  <1>6. /\ next \in Entry /\ next.slice \in Slice /\ next # Gap
        /\ e \in FillEntry /\ e.slice = next.slice /\ e.value = next
    BY <1>2, <1>3, <1>4, GapAssumption DEF FillEntry
  <1>7. /\ next.slice.low \in Key /\ next.slice.high \in HighKey
        /\ next.slice.high # InfinityKey =>
             next.slice.high \in Key /\ KeyCompare(next.slice.low, next.slice.high) < 0
    BY <1>6, SliceBounds
  <1> DEFINE Fits == CompareWithKey(cursor, next.slice.low) <= 0
  <1>8. /\ base \in Seq(FillEntry) /\ Len(base) \in Nat
        /\ Adjoining(base) <=> OrderedSoFar
        /\ base # << >> => /\ base[1].slice.low = MinSliceKey
                           /\ Meets(base[Len(base)].slice, e.slice) <=> Fits
        /\ base = << >> => next.slice.low = MinSliceKey /\ Fits
        /\ \A k \in Key, x \in Entry : Gives(base, k, x) <=> Gives(result, k, x)
        /\ \A k \in Key :
             Gives(base, k, Gap) <=>
               \/ Gives(result, k, Gap)
               \/ /\ cursor # InfinityKey /\ KeyCompare(cursor, k) <= 0
                  /\ KeyCompare(k, next.slice.low) < 0
    <2>1. PICK low \in Key : low = next.slice.low
      BY <1>7
    <2>2. base = result \o GapBefore(cursor, low)
      BY <1>5, <2>1
    <2>3. /\ base \in Seq(FillEntry) /\ Len(base) \in Nat
          /\ Adjoining(base) <=> OrderedSoFar
          /\ base # << >> => /\ base[1].slice.low = MinSliceKey
                             /\ (/\ base[Len(base)].slice.high # InfinityKey
                                 /\ KeyCompare(base[Len(base)].slice.high, low) = 0)
                                  <=> CompareWithKey(cursor, low) <= 0
          /\ base = << >> => low = MinSliceKey /\ CompareWithKey(cursor, low) <= 0
      BY <1>1, <2>2, GapFacts
    <2>4. /\ \A k \in Key, x \in Entry : Gives(base, k, x) <=> Gives(result, k, x)
          /\ \A k \in Key :
               Gives(base, k, Gap) <=>
                 \/ Gives(result, k, Gap)
                 \/ cursor # InfinityKey /\ KeyCompare(cursor, k) <= 0 /\ KeyCompare(k, low) < 0
      BY <1>1, <2>2, GapFacts
    <2>5. Meets(base[Len(base)].slice, e.slice) <=>
            base[Len(base)].slice.high # InfinityKey
              /\ KeyCompare(base[Len(base)].slice.high, low) = 0
      BY <1>6, <2>1 DEF Meets
    <2>6. QED
      BY <2>1, <2>3, <2>4, <2>5
  <1>9. result' = Append(base, e)
    <2>1. result' = base \o <<e>>
      BY <1>3, <1>4, <1>5 DEF FillStep
    <2>2. QED
      BY <1>6, <1>8, <2>1
  <1>10. /\ result' \in Seq(FillEntry) /\ Len(result') = Len(base) + 1 /\ result' # << >>
         /\ \A n \in 1..Len(base) : result'[n] = base[n]
         /\ result'[Len(base) + 1] = e
         /\ \A k, v : Gives(result', k, v) <=>
              Gives(base, k, v) \/ (Contains(e.slice, k) /\ e.value = v)
    BY <1>6, <1>8, <1>9, AppendFacts
  <1>11. /\ i' \in 1..(Len(left') + 1) /\ i' > 1
         /\ cursor' = IF i' = 1 THEN MinSliceKey ELSE left'[i' - 1].slice.high
         /\ result'[Len(result')].slice.high = cursor'
    BY <1>1, <1>2, <1>3, <1>6, <1>8, <1>10
  <1>12. result'[1].slice.low = MinSliceKey
    <2>1. CASE base = << >>
      BY <1>6, <1>8, <1>10, <2>1
    <2>2. CASE base # << >>
      <3>1. 1 \in 1..Len(base)
        BY <1>8, <2>2, EmptySeq
      <3>2. QED
        BY <1>8, <1>10, <2>2, <3>1
    <2>3. QED
      BY <2>1, <2>2
  <1>13. OrderedSoFar' <=> OrderedSoFar /\ Fits
    <2>1. \A n : InOrder(n)' <=> InOrder(n)
      BY <1>1 DEF InOrder, CompareWithKey
    <2>2. CASE i = 1
      <3>1. cursor = MinSliceKey /\ Fits
        BY <1>7, <2>2, KeyAssumption, KeyOrder DEF FillInv, CompareWithKey
      <3>2. QED
        BY <1>1, <2>2, <3>1 DEF OrderedSoFar
    <2>3. CASE i > 1
      <3>1. Fits <=> InOrder(i - 1)
        BY <1>2, <1>3, <2>3 DEF FillInv, InOrder
      <3>2. 1..(i' - 2) = 1..(i - 2) \cup {i - 1}
        BY <1>1, <1>2, <2>3
      <3>3. QED
        BY <2>1, <3>1, <3>2 DEF OrderedSoFar
    <2>4. QED
      BY <1>2, <2>2, <2>3
  <1>14. OrderedSoFar' <=> Adjoining(result')
    <2>1. Adjoining(result') <=> Adjoining(base) /\ (base # << >> => Meets(base[Len(base)].slice, e.slice))
      BY <1>6, <1>8, <1>9, AdjoiningAppend
    <2>2. QED
      BY <1>8, <1>13, <2>1
  <1>15. \A n : n \in 1..(i' - 1) <=> n \in 1..(i - 1) \/ n = i
    BY <1>1, <1>2
  <1>16. ASSUME NEW k \in Key, NEW x \in Entry
         PROVE  Gives(result', k, x) <=> \E n \in 1..(i' - 1) : Contains(left[n].slice, k) /\ left[n] = x
    <2>1. Gives(result, k, x) <=> \E n \in 1..(i - 1) : Contains(left[n].slice, k) /\ left[n] = x
      BY DEF FillInv
    <2>2. QED
      BY <1>3, <1>6, <1>8, <1>10, <1>15, <2>1
  <1>17. \A k : Owned(k)' <=> Owned(k) \/ Contains(next.slice, k)
    BY <1>1, <1>3, <1>15 DEF Owned, Contains
  <1>18. ASSUME OrderedSoFar, Fits, NEW k \in Key
         PROVE  /\ Owned(k)' => CompareWithKey(cursor', k) > 0
                /\ Gives(result', k, Gap) <=> CompareWithKey(cursor', k) > 0 /\ ~Owned(k)'
    <2> DEFINE low == next.slice.low
               high == next.slice.high
    <2>1. /\ Owned(k) => CompareWithKey(cursor, k) > 0
          /\ Gives(result, k, Gap) <=> CompareWithKey(cursor, k) > 0 /\ ~Owned(k)
      BY <1>18 DEF FillInv
    <2>2. cursor # InfinityKey /\ KeyCompare(cursor, low) <= 0
      BY <1>18 DEF CompareWithKey
    <2>3. cursor \in Key
      <3>1. CASE i = 1
        BY <3>1, KeyAssumption DEF FillInv
      <3>2. CASE i # 1
        <4>1. i - 1 \in 1..Len(left)
          BY <1>2, <3>2
        <4>2. QED
          BY <1>2, <2>2, <3>2, <4>1, SliceBounds DEF FillInv
      <3>3. QED
        BY <3>1, <3>2
    <2>4. /\ Gives(result', k, Gap) <=>
               \/ Gives(result, k, Gap)
               \/ KeyCompare(cursor, k) <= 0 /\ KeyCompare(k, low) < 0
          /\ Owned(k)' <=> Owned(k) \/ Contains(next.slice, k)
          /\ cursor' = high
      BY <1>1, <1>3, <1>6, <1>8, <1>10, <1>17, <2>2
    <2>5. /\ CompareWithKey(cursor, k) > 0 <=> KeyCompare(k, cursor) < 0
          /\ Contains(next.slice, k) <=> ~(KeyCompare(k, low) < 0) /\ CompareWithKey(high, k) > 0
          /\ KeyCompare(cursor, k) <= 0 <=> ~(KeyCompare(k, cursor) < 0)
      BY <1>7, <2>2, <2>3, KeyOrder DEF CompareWithKey, Contains
    <2>6. KeyCompare(k, cursor) < 0 => KeyCompare(k, low) < 0
      BY <1>7, <2>2, <2>3, KeyOrder
    <2>7. KeyCompare(k, low) < 0 => CompareWithKey(high, k) > 0
      <3>1. CASE high = InfinityKey
        BY <3>1 DEF CompareWithKey
      <3>2. CASE high # InfinityKey
        <4>1. KeyCompare(k, low) < 0 => KeyCompare(k, high) < 0
          BY <1>7, <3>2, KeyOrder
        <4>2. QED
          BY <1>7, <3>2, <4>1, KeyOrder DEF CompareWithKey
      <3>3. QED
        BY <3>1, <3>2
    <2> HIDE DEF low, high
    <2>8. QED
      BY <2>1, <2>4, <2>5, <2>6, <2>7
  <1> HIDE DEF Fits
  <1>19. QED
    BY <1>1, <1>10, <1>11, <1>12, <1>13, <1>14, <1>16, <1>18 DEF FillInv

\* When all are read, what is left of the keys is one gap more; the entries made are
\* a SliceMap just if those read were in order.
LEMMA FillEndsExactly ==
  ASSUME call \in Calls, FillInv, FillEnds
  PROVE  FillingIsExact' /\ result' \in Seq(FillEntry)
  <1>1. /\ Filling /\ i > Len(left) /\ left' = left
        /\ result' = IF cursor = InfinityKey THEN result
                     ELSE Append(result, GapBetween(cursor, InfinityKey))
        /\ outcome' = IF Complete(result') THEN "returned" ELSE "panicked"
    BY DEF FillEnds, MustBeComplete, left
  <1>2. /\ left \in Seq(Entry) /\ Len(left) \in Nat /\ i = Len(left) + 1
        /\ \A n \in 1..Len(left) : left[n] \in Entry /\ left[n].slice \in Slice
    BY <1>1, FillCall, EntryFacts DEF FillInv
  <1>3. /\ result \in Seq(FillEntry) /\ Len(result) \in Nat
        /\ result # << >> => Len(result) > 0
        /\ result = << >> => cursor = MinSliceKey
        /\ result # << >> =>
             result[Len(result)].slice.high = cursor /\ result[1].slice.low = MinSliceKey
        /\ OrderedSoFar <=> Adjoining(result)
    BY LenProperties, EmptySeq DEF FillInv
  <1>4. OrderedSoFar <=> OrderedDisjoint(left)
    <2>1. OrderedSoFar <=> \A n \in 1..(Len(left) - 1) : InOrder(n)
      BY <1>2 DEF OrderedSoFar
    <2>2. OrderedSoFar => OrderedDisjoint(left)
      BY <1>2, <2>1, NeighboursInOrder DEF InOrder
    <2>3. OrderedDisjoint(left) => OrderedSoFar
      BY <1>2, <2>1 DEF OrderedDisjoint, InOrder
    <2>4. QED
      BY <2>2, <2>3
  <1>5. \A k : Owned(k) <=> \E n \in 1..Len(left) : Contains(left[n].slice, k)
    BY <1>2 DEF Owned
  <1>6. /\ result' \in Seq(FillEntry)
        /\ Complete(result') <=> OrderedSoFar
        /\ \A k \in Key, x \in Entry : Gives(result', k, x) <=> Gives(result, k, x)
        /\ OrderedSoFar => \A k \in Key : Gives(result', k, Gap) <=> ~Owned(k)
    <2>1. CASE cursor = InfinityKey
      <3>1. result' = result /\ result # << >>
        BY <1>1, <1>3, <2>1, KeyAssumption
      <3>2. Complete(result) <=> OrderedSoFar
        BY <1>3, <2>1, <3>1 DEF Complete, Adjoining
      <3>3. OrderedSoFar => \A k \in Key : Gives(result, k, Gap) <=> ~Owned(k)
        <4>1. \A k \in Key : CompareWithKey(cursor, k) > 0
          BY <2>1 DEF CompareWithKey
        <4>2. QED
          BY <4>1 DEF FillInv
      <3>4. QED
        BY <1>3, <3>1, <3>2, <3>3
    <2>2. CASE cursor # InfinityKey
      <3>1. PICK g : g = GapBetween(cursor, InfinityKey)
        OBVIOUS
      <3>2. cursor \in Key
        <4>1. CASE i = 1
          BY <4>1, KeyAssumption DEF FillInv
        <4>2. CASE i # 1
          <5>1. i - 1 \in 1..Len(left)
            BY <1>2, <4>2
          <5>2. QED
            BY <1>2, <2>2, <4>2, <5>1, SliceBounds DEF FillInv
        <4>3. QED
          BY <4>1, <4>2
      <3>3. /\ g.slice = [low |-> cursor, high |-> InfinityKey] /\ g.value = Gap
            /\ g = [slice |-> g.slice, value |-> Gap]
            /\ g.slice.low = cursor /\ g.slice.high = InfinityKey
        BY <3>1 DEF GapBetween
      <3>4. g.slice \in Slice /\ g \in FillEntry
        <4>1. g.slice \in Slice
          BY <3>2, <3>3 DEF Slice, IsSlice, CompareWithKey, HighKey
        <4>2. QED
          BY <3>3, <4>1 DEF FillEntry
      <3>5. /\ result' \in Seq(FillEntry) /\ Len(result') = Len(result) + 1 /\ result' # << >>
            /\ \A n \in 1..Len(result) : result'[n] = result[n]
            /\ result'[Len(result) + 1] = g
            /\ \A k, v : Gives(result', k, v) <=>
                 Gives(result, k, v) \/ (Contains(g.slice, k) /\ g.value = v)
        <4>1. result' = Append(result, g)
          BY <1>1, <2>2, <3>1
        <4>2. QED
          BY <1>3, <3>4, <4>1, AppendFacts
      <3>6. result'[1].slice.low = MinSliceKey
        BY <1>3, <3>3, <3>5
      <3>7. Adjoining(result') <=> OrderedSoFar
        <4>1. result' = Append(result, g)
          BY <1>1, <2>2, <3>1
        <4>2. result # << >> => Meets(result[Len(result)].slice, g.slice)
          BY <1>3, <2>2, <3>2, <3>3, KeyOrder DEF Meets
        <4>3. QED
          BY <1>3, <3>4, <4>1, <4>2, AdjoiningAppend
      <3>8. Complete(result') <=> OrderedSoFar
        BY <1>3, <3>3, <3>5, <3>6, <3>7 DEF Complete, Adjoining
      <3>9. ASSUME OrderedSoFar, NEW k \in Key PROVE Gives(result', k, Gap) <=> ~Owned(k)
        <4>1. /\ Owned(k) => CompareWithKey(cursor, k) > 0
              /\ Gives(result, k, Gap) <=> CompareWithKey(cursor, k) > 0 /\ ~Owned(k)
          BY <3>9 DEF FillInv
        <4>2. Contains(g.slice, k) <=> ~(CompareWithKey(cursor, k) > 0)
          BY <2>2, <3>2, <3>3, KeyOrder DEF Contains, CompareWithKey
        <4>3. QED
          BY <3>3, <3>5, <4>1, <4>2
      <3>10. QED
        BY <3>3, <3>5, <3>8, <3>9, GapAssumption
    <2>3. QED
      BY <2>1, <2>2
  <1>7. outcome' = "returned" <=> OrderedDisjoint(left)
    BY <1>1, <1>4, <1>6
  <1>8. ASSUME OrderedSoFar, NEW k \in Key
        PROVE  ValuesAt(result', k) = IF {n \in 1..Len(left) : Contains(left[n].slice, k)} = {}
                                        THEN {Gap}
                                        ELSE {left[n] : n \in {n \in 1..Len(left) : Contains(left[n].slice, k)}}
    <2>1. ASSUME NEW v PROVE v \in ValuesAt(result', k) => v \in Entry \cup {Gap}
      <3>1. \A n \in 1..Len(result') : result'[n].value \in Entry \cup {Gap}
        <4>1. \A n \in 1..Len(result') : result'[n] \in FillEntry
          BY <1>6, ElementOfSeq
        <4>2. QED
          BY <4>1 DEF FillEntry
      <3>2. QED
        BY <3>1 DEF ValuesAt
    <2>2. \A x \in Entry :
            x \in ValuesAt(result', k) <=> \E n \in 1..Len(left) : Contains(left[n].slice, k) /\ left[n] = x
      <3>1. \A x \in Entry :
              Gives(result, k, x) <=> \E n \in 1..Len(left) : Contains(left[n].slice, k) /\ left[n] = x
        BY <1>2 DEF FillInv
      <3>2. QED
        BY <1>6, <3>1, ValuesFacts
    <2>3. Gap \in ValuesAt(result', k) <=> ~\E n \in 1..Len(left) : Contains(left[n].slice, k)
      BY <1>5, <1>6, <1>8, ValuesFacts
    <2>4. QED
      BY <1>2, <2>1, <2>2, <2>3
  <1>9. QED
    <2>1. \A k : ValuesAt(result, k)' = ValuesAt(result', k)
      BY DEF ValuesAt, Contains
    <2>2. OrderedDisjoint(left)' <=> OrderedDisjoint(left)
      BY <1>1 DEF OrderedDisjoint
    <2>3. QED
      BY <1>1, <1>4, <1>6, <1>7, <1>8, <2>1, <2>2 DEF FillingIsExact, Contains

-----------------------------------------------------------------------------
(* The types *)

\* What the entries of a result are, whichever function made them.
LEMMA ResultTypes ==
  /\ Seq(Entry) \subseteq Seq([slice : Slice, value : ResultValue])
  /\ Seq(PairEntry) \subseteq Seq([slice : Slice, value : ResultValue])
  /\ Seq(FillEntry) \subseteq Seq([slice : Slice, value : ResultValue])
  <1>1. Entry \subseteq [slice : Slice, value : ResultValue]
    BY DEF Entry, ResultValue
  <1>2. PairEntry \subseteq [slice : Slice, value : ResultValue]
    BY DEF PairEntry, ResultValue
  <1>3. FillEntry \subseteq [slice : Slice, value : ResultValue]
    BY DEF FillEntry, ResultValue
  <1>4. QED
    BY <1>1, <1>2, <1>3, SeqMonotonic

\* The lists of a call.
LEMMA CallFacts ==
  ASSUME call \in Calls
  PROVE  left \in Seq(Entry) /\ Len(left) \in Nat /\ right \in Seq(Entry) /\ Len(right) \in Nat
  <1>1. Maps \subseteq Seq(Entry) /\ Lists \subseteq Seq(Entry) /\ << >> \in Seq(Entry)
    BY MapsAssumption, ListsAssumption
  <1>2. left \in Seq(Entry) /\ right \in Seq(Entry)
    <2>1. CASE call \in LookUps
      <3>1. left \in Maps /\ right = << >>
        BY <2>1 DEF LookUps, left, right
      <3>2. QED
        BY <1>1, <3>1
    <2>2. CASE call \in Finds
      <3>1. left \in Lists /\ right = << >>
        BY <2>2 DEF Finds, left, right
      <3>2. QED
        BY <1>1, <3>1
    <2>3. CASE call \in Intersections
      <3>1. left \in Maps /\ right \in Maps
        BY <2>3 DEF Intersections, left, right
      <3>2. QED
        BY <1>1, <3>1
    <2>4. CASE call \in Coalescings
      <3>1. left \in Maps /\ right = << >>
        BY <2>4 DEF Coalescings, left, right
      <3>2. QED
        BY <1>1, <3>1
    <2>5. CASE call \in Fillings
      <3>1. left \in Lists /\ right = << >>
        BY <2>5 DEF Fillings, left, right
      <3>2. QED
        BY <1>1, <3>1
    <2>6. QED
      BY <2>1, <2>2, <2>3, <2>4, <2>5 DEF Calls
  <1>3. QED
    BY <1>2, LenProperties

\* The types hold initially,
LEMMA TypesInit == Init => SliceMapTypeOK
  <1> SUFFICES ASSUME Init PROVE SliceMapTypeOK
    OBVIOUS
  <1>1. call \in Calls /\ result = << >> /\ outcome = "running" /\ cursor \in HighKey
    BY KeyAssumption DEF Init, HighKey
  <1>2. left \in Seq(Entry) /\ Len(left) \in Nat /\ Len(right) \in Nat
    BY <1>1, CallFacts
  <1>3. Coalescing => Len(left) \in Nat \ {0} /\ left[1] \in Entry /\ ~Intersecting
    BY <1>1, CoalesceCall, EntryFacts DEF Coalescing, Intersecting
  <1>4. current \in Entry \cup {Gap}
    BY <1>3 DEF Init
  <1>5. i \in 1..(Len(left) + 1)
    BY <1>2, <1>3 DEF Init
  <1>6. j \in 1..(IF Intersecting THEN Len(right) + 1 ELSE Len(left) + 1)
    BY <1>2 DEF Init, Searching, Intersecting
  <1>7. << >> \in Seq([slice : Slice, value : ResultValue])
    OBVIOUS
  <1>8. QED
    BY <1>1, <1>4, <1>5, <1>6, <1>7 DEF SliceMapTypeOK

\* and an iteration, or the end of a loop, keeps them.
LEMMA TypesStep ==
  ASSUME SliceMapTypeOK, call' = call, outcome' \in {"running", "returned", "panicked"},
         i' \in 1..(Len(left) + 1),
         j' \in 1..(IF Intersecting THEN Len(right) + 1 ELSE Len(left) + 1),
         current' \in Entry \cup {Gap}, cursor' \in HighKey,
         result' \in Seq([slice : Slice, value : ResultValue])
  PROVE  SliceMapTypeOK'
  <1>1. left' = left /\ right' = right /\ (Intersecting' <=> Intersecting)
    BY DEF left, right, Intersecting
  <1>2. QED
    BY <1>1 DEF SliceMapTypeOK

-----------------------------------------------------------------------------
\* Where each loop is while it runs, and what it gives once the call is over.
SliceMapInv ==
  /\ SliceMapTypeOK
  /\ SearchInv
  /\ Intersecting /\ outcome = "running" => IntersectInv
  /\ Coalescing /\ outcome = "running" => CoalesceInv
  /\ Filling /\ outcome = "running" => FillInv
  /\ SearchIsExact /\ IntersectionIsPointwise /\ CoalescingKeepsTheMap /\ FillingIsExact

\* A loop of one function leaves the others' part of the invariant alone.
LEMMA OthersParts ==
  ASSUME SliceMapInv, call' = call
  PROVE  /\ (Searching' <=> Searching) /\ (Intersecting' <=> Intersecting)
         /\ (Coalescing' <=> Coalescing) /\ (Filling' <=> Filling)
         /\ ~Searching => SearchInv' /\ SearchIsExact'
         /\ ~Intersecting => IntersectionIsPointwise'
         /\ ~Coalescing => CoalescingKeepsTheMap'
         /\ ~Filling => FillingIsExact'
  <1>1. /\ (Searching' <=> Searching) /\ (Intersecting' <=> Intersecting)
        /\ (Coalescing' <=> Coalescing) /\ (Filling' <=> Filling)
    BY DEF Searching, Intersecting, Coalescing, Filling
  <1>2. ~Searching => SearchInv' /\ SearchIsExact'
    BY <1>1 DEF SearchInv, SearchIsExact
  <1>3. ~Intersecting => IntersectionIsPointwise'
    BY <1>1 DEF IntersectionIsPointwise
  <1>4. ~Coalescing => CoalescingKeepsTheMap'
    BY <1>1 DEF CoalescingKeepsTheMap
  <1>5. ~Filling => FillingIsExact'
    BY <1>1 DEF FillingIsExact
  <1>6. QED
    BY <1>1, <1>2, <1>3, <1>4, <1>5

\* A call is of one function.
LEMMA OneFunction ==
  /\ Searching => ~Intersecting /\ ~Coalescing /\ ~Filling
  /\ Intersecting => ~Coalescing /\ ~Filling
  /\ Coalescing => ~Filling
  BY DEF Searching, Intersecting, Coalescing, Filling

\* A call begins with nothing excluded, with a frontier at the smallest key, with one
\* entry read, or with none.
LEMMA SliceMapInvInit == Init => SliceMapInv
  <1> SUFFICES ASSUME Init PROVE SliceMapInv
    OBVIOUS
  <1>1. call \in Calls /\ outcome = "running" /\ result = << >> /\ i = IF Coalescing THEN 2 ELSE 1
    BY DEF Init
  <1>2. SearchInv
    <2>1. SUFFICES ASSUME Searching PROVE SearchInv
      BY DEF SearchInv
    <2>2. i = 1 /\ j = Len(left) + 1 /\ Len(left) \in Nat
      BY <1>1, <2>1, SearchCall, EntryFacts DEF Init, Coalescing, Searching
    <2>3. QED
      BY <1>1, <2>2 DEF SearchInv
  <1>3. ASSUME Intersecting PROVE IntersectInv
    <2>1. /\ left \in Seq(Entry) /\ Complete(left) /\ right \in Seq(Entry) /\ Complete(right)
          /\ Len(left) \in Nat \ {0} /\ Len(right) \in Nat \ {0}
      BY <1>1, <1>3, IntersectCall
    <2>2. i = 1 /\ j = 1
      BY <1>1, <1>3 DEF Init, Intersecting, Coalescing, Searching
    <2>3. /\ left[1].slice \in Slice /\ right[1].slice \in Slice
          /\ left[1].slice.low = MinSliceKey /\ right[1].slice.low = MinSliceKey
      BY <2>1, EntryFacts DEF Complete
    <2>4. Contains(left[1].slice, MinSliceKey) /\ Contains(right[1].slice, MinSliceKey)
      BY <2>3, SliceBounds
    <2>5. Frontier = MinSliceKey /\ MinSliceKey \in Key /\ MinSliceKey # InfinityKey
      BY <1>1, KeyAssumption DEF Frontier
    <2>6. result \in Seq(PairEntry) /\ Len(result) = 0
      BY <1>1
    <2>7. QED
      BY <1>1, <2>1, <2>2, <2>3, <2>4, <2>5, <2>6 DEF IntersectInv
  <1>4. ASSUME Coalescing PROVE CoalesceInv
    <2>1. /\ left \in Seq(Entry) /\ Complete(left) /\ Len(left) \in Nat \ {0}
          /\ i = 2 /\ current = left[1] /\ left[1] \in Entry
      BY <1>1, <1>4, CoalesceCall, EntryFacts DEF Init
    <2>2. result \in Seq(Entry) /\ Len(result) = 0
      BY <1>1
    <2>3. /\ Made[1] = current
          /\ \A k, v : Gives(Made, k, v) <=>
               Gives(result, k, v) \/ (Contains(current.slice, k) /\ current.value = v)
      <3>1. PICK longer : longer = Append(result, current)
        OBVIOUS
      <3>2. current \in Entry
        BY <2>1
      <3>3. /\ longer[Len(result) + 1] = current
            /\ \A k, v : Gives(longer, k, v) <=>
                 Gives(result, k, v) \/ (Contains(current.slice, k) /\ current.value = v)
        <4>1. PICK e \in Entry : e = current
          BY <3>2
        <4>2. /\ Append(result, e)[Len(result) + 1] = e
              /\ \A k, v : Gives(Append(result, e), k, v) <=>
                   Gives(result, k, v) \/ (Contains(e.slice, k) /\ e.value = v)
          <5>1. result \in Seq(Entry)
            BY <2>2
          <5>2. QED
            BY <5>1, AppendFacts
        <4>3. QED
          BY <3>1, <4>1, <4>2
      <3>4. longer[1] = current
        BY <2>2, <3>3
      <3>5. QED
        BY <3>1, <3>3, <3>4 DEF Made
    <2>4. \A k, v : Gives(Made, k, v) <=> Read(k, v)
      <3>1. 1..Len(result) = {} /\ 1..(i - 1) = {1}
        BY <2>1, <2>2
      <3>2. \A k, v : ~Gives(result, k, v)
        BY <3>1 DEF Gives
      <3>3. \A k, v : Read(k, v) <=> Contains(left[1].slice, k) /\ left[1].value = v
        BY <3>1 DEF Read
      <3>4. QED
        BY <2>1, <2>3, <3>2, <3>3
    <2>5. QED
      BY <2>1, <2>2, <2>3, <2>4 DEF CoalesceInv, Complete
  <1>5. ASSUME Filling PROVE FillInv
    <2>1. i = 1 /\ cursor = MinSliceKey /\ Len(left) \in Nat
      BY <1>1, <1>5, FillCall DEF Init, Filling, Coalescing
    <2>2. result \in Seq(FillEntry) /\ Len(result) = 0
      BY <1>1
    <2>3. OrderedSoFar /\ Adjoining(result)
      BY <2>1, <2>2 DEF OrderedSoFar, Adjoining
    <2>4. \A k, v : ~Gives(result, k, v) /\ ~Owned(k)
      BY <2>1, <2>2 DEF Gives, Owned
    <2>5. \A k \in Key : ~(CompareWithKey(cursor, k) > 0)
      <3>1. TAKE k \in Key
      <3>2. cursor \in Key /\ cursor # InfinityKey
        BY <2>1, KeyAssumption
      <3>3. KeyCompare(cursor, k) <= 0 /\ KeyCompare(cursor, k) \in {-1, 0, 1}
        BY <2>1, <3>2, KeyOrder
      <3>4. CompareWithKey(cursor, k) = KeyCompare(cursor, k)
        BY <3>2 DEF CompareWithKey
      <3>5. QED
        BY <3>3, <3>4
    <2>6. QED
      BY <1>1, <2>1, <2>2, <2>3, <2>4, <2>5 DEF FillInv
  <1>6. QED
    BY <1>1, <1>2, <1>3, <1>4, <1>5, TypesInit
       DEF SliceMapInv, SearchIsExact, IntersectionIsPointwise, CoalescingKeepsTheMap, FillingIsExact

\* One step per function keeps it; a call that is over makes no step.
LEMMA SliceMapInvStep == SliceMapInv /\ [Next]_vars => SliceMapInv'
  <1> SUFFICES ASSUME SliceMapInv, [Next]_vars PROVE SliceMapInv'
    OBVIOUS
  <1>1. /\ SliceMapTypeOK /\ SearchInv
        /\ Intersecting /\ outcome = "running" => IntersectInv
        /\ Coalescing /\ outcome = "running" => CoalesceInv
        /\ Filling /\ outcome = "running" => FillInv
    BY DEF SliceMapInv
  <1>2. /\ call \in Calls /\ left \in Seq(Entry) /\ Len(left) \in Nat /\ Len(right) \in Nat
        /\ i \in 1..(Len(left) + 1)
        /\ j \in 1..(IF Intersecting THEN Len(right) + 1 ELSE Len(left) + 1)
        /\ current \in Entry \cup {Gap} /\ cursor \in HighKey
        /\ result \in Seq([slice : Slice, value : ResultValue])
        /\ outcome \in {"running", "returned", "panicked"}
    BY <1>1, CallFacts DEF SliceMapTypeOK
  <1>3. CASE SearchStep
    <2>1. call' = call /\ UNCHANGED <<current, cursor, result, outcome>> /\ Searching
          /\ outcome = "running"
      BY <1>3 DEF SearchStep
    <2>2. SearchInv'
      BY <1>1, <1>2, <1>3, SearchStepKeeps
    <2>3. i' \in 1..(Len(left) + 1) /\ j' \in 1..(Len(left) + 1)
      BY <2>1, <2>2 DEF SearchInv, Searching, left
    <2>4. SliceMapTypeOK'
      BY <1>1, <1>2, <2>1, <2>3, OneFunction, TypesStep
    <2>5. SearchIsExact'
      BY <2>1 DEF SearchIsExact
    <2>6. QED
      BY <2>1, <2>2, <2>4, <2>5, OneFunction, OthersParts DEF SliceMapInv
  <1>4. CASE SearchEnds
    <2>1. call' = call /\ UNCHANGED <<i, j, current, cursor>> /\ Searching
          /\ outcome' \in {"returned", "panicked"}
      BY <1>4 DEF SearchEnds
    <2>2. SearchInv' /\ SearchIsExact'
      BY <1>1, <1>2, <1>4, SearchEndsExactly
    <2>3. result' \in Seq([slice : Slice, value : ResultValue])
      <3>1. result' \in Seq(Entry)
        <4>1. \/ result' = << >>
              \/ i \in 1..Len(left) /\ result' = <<left[i]>>
          BY <1>2, <1>4 DEF SearchEnds
        <4>2. i \in 1..Len(left) => left[i] \in Entry
          BY <1>2, EntryFacts
        <4>3. CASE result' = << >>
          BY <4>3
        <4>4. CASE i \in 1..Len(left) /\ result' = <<left[i]>>
          <5>1. PICK e \in Entry : e = left[i]
            BY <4>2, <4>4
          <5>2. <<e>> \in Seq(Entry)
            BY <5>1
          <5>3. QED
            BY <4>4, <5>1, <5>2
        <4>5. QED
          BY <4>1, <4>3, <4>4
      <3>2. QED
        BY <3>1, ResultTypes
    <2>4. SliceMapTypeOK'
      BY <1>1, <1>2, <2>1, <2>3, TypesStep
    <2>5. QED
      BY <2>1, <2>2, <2>4, OneFunction, OthersParts DEF SliceMapInv
  <1>5. CASE IntersectStep
    <2>1. call' = call /\ UNCHANGED <<current, cursor>> /\ Intersecting /\ left' = left
          /\ right' = right
      BY <1>5 DEF IntersectStep, left, right
    <2>2. IntersectInv' /\ outcome' = "running"
      BY <1>1, <1>2, <1>5, IntersectStepKeeps DEF IntersectStep
    <2>3. /\ i' \in 1..(Len(left) + 1) /\ j' \in 1..(Len(right) + 1)
          /\ result' \in Seq([slice : Slice, value : ResultValue])
      BY <2>1, <2>2, ResultTypes DEF IntersectInv
    <2>4. SliceMapTypeOK'
      BY <1>1, <1>2, <2>1, <2>2, <2>3, TypesStep
    <2>5. IntersectionIsPointwise'
      BY <2>2 DEF IntersectionIsPointwise
    <2>6. QED
      BY <2>1, <2>2, <2>4, <2>5, OneFunction, OthersParts DEF SliceMapInv
  <1>6. CASE IntersectEnds
    <2>1. call' = call /\ UNCHANGED <<i, j, current, cursor>> /\ Intersecting /\ result' = result
          /\ outcome' \in {"returned", "panicked"}
      BY <1>6 DEF IntersectEnds, MustBeComplete
    <2>2. IntersectionIsPointwise'
      BY <1>1, <1>2, <1>6, IntersectEndsComplete DEF IntersectEnds
    <2>3. SliceMapTypeOK'
      BY <1>1, <1>2, <2>1, TypesStep
    <2>4. QED
      BY <2>1, <2>2, <2>3, OneFunction, OthersParts DEF SliceMapInv
  <1>7. CASE CoalesceStep
    <2>1. call' = call /\ UNCHANGED <<j, cursor>> /\ Coalescing /\ left' = left
      BY <1>7 DEF CoalesceStep, left
    <2>2. CoalesceInv' /\ outcome' = "running"
      BY <1>1, <1>2, <1>7, CoalesceStepKeeps DEF CoalesceStep
    <2>3. /\ i' \in 1..(Len(left) + 1) /\ current' \in Entry
          /\ result' \in Seq([slice : Slice, value : ResultValue])
      <3>1. i' \in 2..(Len(left') + 1) /\ current' \in Entry /\ result' \in Seq(Entry)
        BY <2>2 DEF CoalesceInv
      <3>2. i' \in 1..(Len(left) + 1)
        BY <1>2, <2>1, <3>1
      <3>3. QED
        BY <3>1, <3>2, ResultTypes
    <2>4. SliceMapTypeOK'
      BY <1>1, <1>2, <2>1, <2>2, <2>3, TypesStep
    <2>5. CoalescingKeepsTheMap'
      BY <2>2 DEF CoalescingKeepsTheMap
    <2>6. QED
      BY <2>1, <2>2, <2>4, <2>5, OneFunction, OthersParts DEF SliceMapInv
  <1>8. CASE CoalesceEnds
    <2>1. call' = call /\ UNCHANGED <<i, j, current, cursor>> /\ Coalescing
          /\ outcome' \in {"returned", "panicked"}
      BY <1>8 DEF CoalesceEnds, MustBeComplete
    <2>2. CoalescingKeepsTheMap' /\ result' \in Seq(Entry)
      BY <1>1, <1>2, <1>8, CoalesceEndsExactly DEF CoalesceEnds
    <2>3. SliceMapTypeOK'
      BY <1>1, <1>2, <2>1, <2>2, ResultTypes, TypesStep
    <2>4. QED
      BY <2>1, <2>2, <2>3, OneFunction, OthersParts DEF SliceMapInv
  <1>9. CASE FillStep
    <2>1. call' = call /\ UNCHANGED <<j, current, outcome>> /\ Filling /\ left' = left
          /\ outcome = "running" /\ i \in 1..Len(left) /\ cursor' = left[i].slice.high
      BY <1>2, <1>9 DEF FillStep, left
    <2>2. FillInv'
      BY <1>1, <1>2, <1>9, FillStepKeeps DEF FillStep
    <2>3. cursor' \in HighKey
      BY <1>2, <2>1, EntryFacts, SliceBounds
    <2>4. i' \in 1..(Len(left) + 1) /\ result' \in Seq([slice : Slice, value : ResultValue])
      BY <2>1, <2>2, ResultTypes DEF FillInv
    <2>5. SliceMapTypeOK'
      BY <1>1, <1>2, <2>1, <2>3, <2>4, TypesStep
    <2>6. FillingIsExact'
      BY <2>1 DEF FillingIsExact
    <2>7. QED
      BY <2>1, <2>2, <2>5, <2>6, OneFunction, OthersParts DEF SliceMapInv
  <1>10. CASE FillEnds
    <2>1. call' = call /\ UNCHANGED <<i, j, current, cursor>> /\ Filling
          /\ outcome' \in {"returned", "panicked"}
      BY <1>10 DEF FillEnds, MustBeComplete
    <2>2. FillingIsExact' /\ result' \in Seq(FillEntry)
      BY <1>1, <1>2, <1>10, FillEndsExactly DEF FillEnds
    <2>3. SliceMapTypeOK'
      BY <1>1, <1>2, <2>1, <2>2, ResultTypes, TypesStep
    <2>4. QED
      BY <2>1, <2>2, <2>3, OneFunction, OthersParts DEF SliceMapInv
  <1>11. CASE UNCHANGED vars
    <2>1. /\ UNCHANGED <<call, i, j, current, cursor, result, outcome>>
          /\ left' = left /\ right' = right
      BY <1>11 DEF vars, left, right
    <2>2. (Searching' <=> Searching) /\ (Intersecting' <=> Intersecting)
          /\ (Coalescing' <=> Coalescing) /\ (Filling' <=> Filling)
      BY <1>1, <2>1 DEF Searching, Intersecting, Coalescing, Filling
    <2>3. SliceMapTypeOK'
      BY <1>1, <1>2, <2>1, TypesStep
    <2> DEFINE SameValues ==
                 \A k : /\ ValuesAt(result, k)' = ValuesAt(result, k)
                        /\ ValuesAt(left, k)' = ValuesAt(left, k)
    <2>9. SameValues
      BY <2>1 DEF ValuesAt, Contains
    <2>4. SearchInv' /\ SearchIsExact'
      BY <2>1, <2>2 DEF SliceMapInv, SearchInv, SearchIsExact
    <2>5. /\ Intersecting' /\ outcome' = "running" => IntersectInv'
          /\ IntersectionIsPointwise'
      <3>1. Frontier' = Frontier
        BY <2>1 DEF Frontier
      <3>2. IntersectInv => IntersectInv'
        BY <2>1, <3>1 DEF IntersectInv
      <3>3. IntersectionIsPointwise'
        BY <2>1, <2>2 DEF SliceMapInv, IntersectionIsPointwise
      <3>4. QED
        BY <1>1, <2>1, <2>2, <3>2, <3>3
    <2>6. /\ Coalescing' /\ outcome' = "running" => CoalesceInv'
          /\ CoalescingKeepsTheMap'
      <3>1. Made' = Made
        BY <2>1 DEF Made
      <3>2. CoalesceInv => CoalesceInv'
        BY <2>1, <3>1 DEF CoalesceInv, Read
      <3>3. CoalescingKeepsTheMap'
        BY <2>1, <2>2, <2>9 DEF SliceMapInv, CoalescingKeepsTheMap
      <3>4. QED
        BY <1>1, <2>1, <2>2, <3>2, <3>3
    <2>7. /\ Filling' /\ outcome' = "running" => FillInv'
          /\ FillingIsExact'
      <3>1. (OrderedSoFar' <=> OrderedSoFar) /\ \A k : Owned(k)' <=> Owned(k)
        BY <2>1 DEF OrderedSoFar, InOrder, Owned
      <3>2. FillInv => FillInv'
        BY <2>1, <3>1 DEF FillInv
      <3>3. FillingIsExact'
        <4>1. OrderedDisjoint(left)' <=> OrderedDisjoint(left)
          BY <2>1 DEF OrderedDisjoint, CompareWithKey
        <4>2. QED
          BY <2>1, <2>2, <2>9, <4>1 DEF SliceMapInv, FillingIsExact, Contains, CompareWithKey
      <3>4. QED
        BY <1>1, <2>1, <2>2, <3>2, <3>3
    <2>8. QED
      BY <2>3, <2>4, <2>5, <2>6, <2>7 DEF SliceMapInv
  <1>12. QED
    BY <1>3, <1>4, <1>5, <1>6, <1>7, <1>8, <1>9, <1>10, <1>11 DEF Next

\* Where each loop is and what it gives, for every set of keys with a total order,
\* every map and every list.
THEOREM SliceMapInvariance == Spec => []SliceMapInv
  BY SliceMapInvInit, SliceMapInvStep, PTL DEF Spec

\* slicemap.go:63-93: a search finds the one entry that has the key, if there is
\* one, and LookUp in a SliceMap never panics.
THEOREM SearchCorrect == Spec => []SearchIsExact
  <1>1. SliceMapInv => SearchIsExact
    BY DEF SliceMapInv
  <1>2. QED
    BY <1>1, SliceMapInvariance, PTL

\* slicemap.go:152-192: the scan never meets disjoint slices, so it does not panic,
\* and the intersection is a SliceMap that agrees with both maps on every key.
THEOREM IntersectionCorrect == Spec => []IntersectionIsPointwise
  <1>1. SliceMapInv => IntersectionIsPointwise
    BY DEF SliceMapInv
  <1>2. QED
    BY <1>1, SliceMapInvariance, PTL

\* slicemap.go:201-231: merging neighbours of equal value changes no key's value and
\* leaves no equal neighbours, and neither MustNewSlice nor MustNewSliceMap panics.
THEOREM CoalescingCorrect == Spec => []CoalescingKeepsTheMap
  <1>1. SliceMapInv => CoalescingKeepsTheMap
    BY DEF SliceMapInv
  <1>2. QED
    BY <1>1, SliceMapInvariance, PTL

\* slicemap.go:248-287: every key keeps its entry or gets a gap, and the panic of
\* MustNewSliceMap is for lists that overlap or are out of order, and only these.
THEOREM FillingCorrect == Spec => []FillingIsExact
  <1>1. SliceMapInv => FillingIsExact
    BY DEF SliceMapInv
  <1>2. QED
    BY <1>1, SliceMapInvariance, PTL

\* The cursors of slicemap.go's loops stay within their lists, one past the end
\* included, and a result has well-formed entries only.
THEOREM SliceMapTypeCorrect == Spec => []SliceMapTypeOK
  <1>1. SliceMapInv => SliceMapTypeOK
    BY DEF SliceMapInv
  <1>2. QED
    BY <1>1, SliceMapInvariance, PTL
=============================================================================
