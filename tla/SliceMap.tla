------------------------------ MODULE SliceMap ------------------------------
(***************************************************************************)
(* pkg/friend/slicemap.go: lists of entries, each with a slice, that       *)
(* partition the keys.  A behaviour is one call of a function of the       *)
(* package, an iteration of its loop per step.  Indices count from 1.      *)
(***************************************************************************)
EXTENDS Slices

CONSTANTS
  Value,   \* what an entry carries besides its slice
  Gap,     \* the value of a GapEntry that is none
  Maps,    \* the SliceMaps of the calls
  Lists    \* entries as callers hand them in, in any order

Entry == [slice : Slice, value : Value]

ASSUME MapsAssumption == Maps \subseteq {m \in Seq(Entry) : Complete(m)}

ASSUME ListsAssumption == Lists \subseteq Seq(Entry)

ASSUME GapAssumption == Gap \notin Entry

\* The order CreateFromOrderedDisjointEntries and the search rely on.
OrderedDisjoint(entries) ==
  \A n, m \in 1..Len(entries) :
    n < m => CompareWithKey(entries[n].slice.high, entries[m].slice.low) <= 0

VARIABLES
  call,      \* the function and its arguments
  i, j,      \* the bounds of the search, or the cursors of the scan
  current,   \* currentEntry of CoalesceSlices
  cursor,    \* cursor of CreateFromOrderedDisjointEntries
  result,    \* the entry that was found, or the entries made so far
  outcome    \* "running", "returned" or "panicked"

vars == <<call, i, j, current, cursor, result, outcome>>

left == call.left
right == call.right

LookUps == [fn : {"LookUp"}, left : Maps, right : {<< >>}, key : Key]
Finds ==
  [fn : {"FindIndex"}, left : {l \in Lists : OrderedDisjoint(l)}, right : {<< >>}, key : Key]
Intersections == [fn : {"IntersectSlices"}, left : Maps, right : Maps, key : {MinSliceKey}]
Coalescings == [fn : {"CoalesceSlices"}, left : Maps, right : {<< >>}, key : {MinSliceKey}]
Fillings ==
  [fn : {"CreateFromOrderedDisjointEntries"}, left : Lists, right : {<< >>}, key : {MinSliceKey}]

Calls == LookUps \cup Finds \cup Intersections \cup Coalescings \cup Fillings

Searching == call.fn \in {"LookUp", "FindIndex"}
Intersecting == call.fn = "IntersectSlices"
Coalescing == call.fn = "CoalesceSlices"
Filling == call.fn = "CreateFromOrderedDisjointEntries"

Init ==
  /\ call \in Calls
  /\ i = IF Coalescing THEN 2 ELSE 1
  /\ j = IF Searching THEN Len(left) + 1 ELSE 1
  /\ current = IF Coalescing THEN left[1] ELSE Gap
  /\ cursor = MinSliceKey
  /\ result = << >>
  /\ outcome = "running"

\* MustNewSliceMap
MustBeComplete(entries) ==
  /\ result' = entries
  /\ outcome' = IF Complete(entries) THEN "returned" ELSE "panicked"

-----------------------------------------------------------------------------
(* LookUp, FindIndexInOrderedDisjointEntries and sort.Search *)

\* Mutant: the upper bound is taken to be inclusive.
EndsAtOrAfter(entry, key) == CompareWithKey(entry.slice.high, key) >= 0

\* The predicate of the search.
EndsAfter(entry, key) == CompareWithKey(entry.slice.high, key) > 0

\* An iteration of sort.Search.
SearchStep ==
  /\ Searching /\ outcome = "running" /\ i < j
  /\ LET h == (i + j) \div 2 IN
       IF EndsAfter(left[h], call.key) THEN i' = i /\ j' = h ELSE i' = h + 1 /\ j' = j
  /\ UNCHANGED <<call, current, cursor, result, outcome>>

\* The index is an entry's that starts early enough, or there is none; LookUp
\* panics then.
SearchEnds ==
  /\ Searching /\ outcome = "running" /\ i = j
  /\ IF i <= Len(left) /\ KeyCompare(left[i].slice.low, call.key) <= 0
       THEN result' = <<left[i]>> /\ outcome' = "returned"
       ELSE result' = << >> /\ outcome' = IF call.fn = "LookUp" THEN "panicked" ELSE "returned"
  /\ UNCHANGED <<call, i, j, current, cursor>>

-----------------------------------------------------------------------------
(* IntersectSlices *)

\* A cursor moves on if its slice ends where the intersection does.
Advanced(c, s, meet) == IF CompareWithHigh(s.high, meet.high) = 0 THEN c + 1 ELSE c

\* An IntersectionEntry, but for its slice.
Pair(l, r) == [leftEntry |-> l, rightEntry |-> r]

\* An iteration; disjoint slices would panic.
IntersectStep ==
  /\ Intersecting /\ outcome = "running" /\ i <= Len(left) /\ j <= Len(right)
  /\ LET meet == Intersection(left[i].slice, right[j].slice)
     IN  IF IsSlice(meet)
           THEN /\ result' = Append(result, [slice |-> meet, value |-> Pair(left[i], right[j])])
                /\ i' = Advanced(i, left[i].slice, meet)
                /\ j' = Advanced(j, right[j].slice, meet)
                /\ outcome' = outcome
           ELSE outcome' = "panicked" /\ UNCHANGED <<result, i, j>>
  /\ UNCHANGED <<call, current, cursor>>

IntersectEnds ==
  /\ Intersecting /\ outcome = "running"
  /\ i > Len(left) \/ j > Len(right)
  /\ MustBeComplete(result)
  /\ UNCHANGED <<call, i, j, current, cursor>>

-----------------------------------------------------------------------------
(* CoalesceSlices, with the caller's equality of values; a map of one entry, *)
(* which the code returns at once, has no iteration.                         *)

\* Mutant: the bounds are taken from the wrong slices.
SpanningSwapped(s, o) == [low |-> o.low, high |-> s.high]

\* From where the first begins to where its neighbour ends.
Spanning(s, o) == [low |-> s.low, high |-> o.high]

\* Mutant: the merged slice ends where the first one did.
AbsorbKeepingHigh(entry, next) == entry

\* The current entry with the slice of both.
Absorb(entry, next) == [entry EXCEPT !.slice = Spanning(entry.slice, next.slice)]

\* An iteration: the next entry is merged into the pending one, or replaces it.
CoalesceStep ==
  /\ Coalescing /\ outcome = "running" /\ i <= Len(left)
  /\ i' = i + 1
  /\ IF current.value = left[i].value
       THEN /\ current' = Absorb(current, left[i])
            /\ outcome' = IF IsSlice(Spanning(current.slice, left[i].slice))
                            THEN outcome ELSE "panicked"
            /\ result' = result
       ELSE /\ current' = left[i]
            /\ result' = Append(result, current)
            /\ outcome' = outcome
  /\ UNCHANGED <<call, j, cursor>>

CoalesceEnds ==
  /\ Coalescing /\ outcome = "running" /\ i > Len(left)
  /\ MustBeComplete(Append(result, current))
  /\ UNCHANGED <<call, i, j, current, cursor>>

-----------------------------------------------------------------------------
(* CreateFromOrderedDisjointEntries *)

GapBetween(low, high) == [slice |-> [low |-> low, high |-> high], value |-> Gap]

\* Mutant: a gap is filled only if it is not at the start.
GapAfterFirst(high, low) ==
  IF result # << >> /\ high # InfinityKey /\ KeyCompare(low, high) > 0
    THEN <<GapBetween(high, low)>> ELSE << >>

\* What lies between the cursor and the next entry.
GapBefore(high, low) ==
  IF high # InfinityKey /\ KeyCompare(low, high) > 0 THEN <<GapBetween(high, low)>> ELSE << >>

FillStep ==
  /\ Filling /\ outcome = "running" /\ i <= Len(left)
  /\ result' = result \o GapBefore(cursor, left[i].slice.low)
                 \o <<[slice |-> left[i].slice, value |-> left[i]]>>
  /\ cursor' = left[i].slice.high
  /\ i' = i + 1
  /\ UNCHANGED <<call, j, current, outcome>>

FillEnds ==
  /\ Filling /\ outcome = "running" /\ i > Len(left)
  /\ MustBeComplete(IF cursor = InfinityKey THEN result
                    ELSE Append(result, GapBetween(cursor, InfinityKey)))
  /\ UNCHANGED <<call, i, j, current, cursor>>

-----------------------------------------------------------------------------
Next ==
  \/ SearchStep \/ SearchEnds
  \/ IntersectStep \/ IntersectEnds
  \/ CoalesceStep \/ CoalesceEnds
  \/ FillStep \/ FillEnds

Spec == Init /\ [][Next]_vars

-----------------------------------------------------------------------------
\* What an entry of a result carries: a value, a pair, or an entry or Gap.
ResultValue == Value \cup [leftEntry : Entry, rightEntry : Entry] \cup Entry \cup {Gap}

SliceMapTypeOK ==
  /\ call \in Calls
  /\ i \in 1..(Len(left) + 1)
  /\ j \in 1..(IF Intersecting THEN Len(right) + 1 ELSE Len(left) + 1)
  /\ current \in Entry \cup {Gap}
  /\ cursor \in HighKey
  /\ result \in Seq([slice : Slice, value : ResultValue])
  /\ outcome \in {"running", "returned", "panicked"}

\* The values of the entries that contain a key; one, if the entries partition.
ValuesAt(entries, k) ==
  {entries[n].value : n \in {m \in 1..Len(entries) : Contains(entries[m].slice, k)}}

\* A search finds the entry that contains the key, or finds out that there is
\* none; in a SliceMap there always is one, so LookUp does not panic.
SearchIsExact ==
  Searching /\ outcome # "running" =>
    /\ outcome = "returned"
    /\ result # << >> => result[1] \in {left[n] : n \in 1..Len(left)}
    /\ \A n \in 1..Len(left) : Contains(left[n].slice, call.key) => result = <<left[n]>>
    /\ result # << >> => Contains(result[1].slice, call.key)
    /\ call.fn = "LookUp" => result # << >>

\* Every key is in one entry of the intersection of two SliceMaps, next to what
\* the two maps give for it; no pair of slices on the way is disjoint.
IntersectionIsPointwise ==
  Intersecting /\ outcome # "running" =>
    /\ outcome = "returned"
    /\ Complete(result)
    /\ \A k \in Key, n \in 1..Len(result) :
         Contains(result[n].slice, k) =>
           /\ Contains(result[n].value.leftEntry.slice, k)
           /\ Contains(result[n].value.rightEntry.slice, k)

\* Coalescing changes no key's value, and leaves no equal neighbours.
CoalescingKeepsTheMap ==
  Coalescing /\ outcome # "running" =>
    /\ outcome = "returned"
    /\ \A k \in Key : ValuesAt(result, k) = ValuesAt(left, k)
    /\ \A n \in 1..(Len(result) - 1) : result[n].value # result[n + 1].value

\* Filling gaps keeps what was there and adds nothing but gaps; entries that
\* overlap or are out of order panic, and only these.
FillingIsExact ==
  Filling /\ outcome # "running" =>
    /\ outcome = "returned" <=> OrderedDisjoint(left)
    /\ outcome = "returned" =>
         \A k \in Key :
           LET owners == {n \in 1..Len(left) : Contains(left[n].slice, k)}
           IN  ValuesAt(result, k) = IF owners = {} THEN {Gap} ELSE {left[n] : n \in owners}
=============================================================================
