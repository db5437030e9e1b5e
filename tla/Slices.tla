------------------------------- MODULE Slices -------------------------------
(***************************************************************************)
(* pkg/friend/slice.go: half-open ranges over any ordered set of keys.     *)
(***************************************************************************)
EXTENDS Integers, Sequences

CONSTANTS
  Key,                \* routing keys
  KeyCompare(_, _),   \* SliceKey.Compare
  MinSliceKey,        \* the key of no bytes
  InfinityKey         \* the bound above every key

HighKey == Key \cup {InfinityKey}

ASSUME KeyAssumption == MinSliceKey \in Key /\ InfinityKey \notin Key

ASSUME KeyOrderAssumption ==
  /\ \A k \in Key, o \in Key :
       /\ KeyCompare(k, o) \in {-1, 0, 1}
       /\ KeyCompare(k, o) = 0 <=> k = o
       /\ KeyCompare(k, o) = -KeyCompare(o, k)
  /\ \A k \in Key, o \in Key, p \in Key :
       KeyCompare(k, o) <= 0 /\ KeyCompare(o, p) <= 0 => KeyCompare(k, p) <= 0
  /\ \A k \in Key : KeyCompare(MinSliceKey, k) <= 0

-----------------------------------------------------------------------------
(* HighSliceKey *)

CompareWithKey(h, k) == IF h = InfinityKey THEN 1 ELSE KeyCompare(h, k)

CompareWithHigh(h, g) ==
  IF h = InfinityKey THEN (IF g = InfinityKey THEN 0 ELSE 1)
  ELSE IF g = InfinityKey THEN -1 ELSE KeyCompare(h, g)

-----------------------------------------------------------------------------
(* Slice *)

\* NewSlice accepts the bounds.
IsSlice(s) == CompareWithKey(s.high, s.low) > 0

Slice == {s \in [low : Key, high : HighKey] : IsSlice(s)}

Contains(s, k) == KeyCompare(k, s.low) >= 0 /\ CompareWithKey(s.high, k) > 0

\* Mutant: the smaller of the lower bounds.
Hull(s, o) ==
  [low  |-> IF KeyCompare(o.low, s.low) < 0 THEN o.low ELSE s.low,
   high |-> IF CompareWithHigh(o.high, s.high) < 0 THEN o.high ELSE s.high]

\* The bounds Intersection computes; the slices are disjoint if they make none.
Intersection(s, o) ==
  [low  |-> IF KeyCompare(o.low, s.low) > 0 THEN o.low ELSE s.low,
   high |-> IF CompareWithHigh(o.high, s.high) < 0 THEN o.high ELSE s.high]

-----------------------------------------------------------------------------
(* pkg/friend/slicemap.go: what every SliceMap is.  An entry has a slice. *)

\* The successor starts exactly where the entry ends.
Meets(s, o) == s.high # InfinityKey /\ KeyCompare(s.high, o.low) = 0

\* ValidateCompleteSlices reports no error.
Complete(entries) ==
  /\ entries # << >>
  /\ entries[1].slice.low = MinSliceKey
  /\ \A n \in 1..(Len(entries) - 1) : Meets(entries[n].slice, entries[n + 1].slice)
  /\ entries[Len(entries)].slice.high = InfinityKey
=============================================================================
