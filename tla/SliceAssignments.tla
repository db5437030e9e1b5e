-------------------------- MODULE SliceAssignments --------------------------
(***************************************************************************)
(* pkg/common/assignment.go and subslice_annotation.go: an Assignment,     *)
(* what its constructors accept, and what it says of keys and resources.   *)
(* The subslice annotations of a resource are a list; those of a slice a   *)
(* function from resources to lists.                                       *)
(***************************************************************************)
EXTENDS Slices, FiniteSets

CONSTANTS
  Squid,       \* the server incarnations
  NoTransfer   \* the nil *Transfer

Gen == INSTANCE Generation

Seqs == INSTANCE SequencesExt

Annotation == [subslice : Slice, number : Nat, from : Squid \cup {NoTransfer}]

\* What a load measurement may be, if there is one.
Load == {"none", "finite", "negative", "infinite", "NaN"}

\* The fields of a SliceAssignment, validated or not.
IsSliceRecord(sa) ==
  /\ sa \in [slice : Slice, resources : Seq(Squid), generation : Gen!Generations,
             annotations : {sa.annotations}, load : Load]
  /\ DOMAIN sa.annotations \subseteq Squid
  /\ sa.annotations \in [DOMAIN sa.annotations -> Seq(Annotation)]

-----------------------------------------------------------------------------
(* NewSliceAssignment *)

\* Where the n-th annotation may begin: prevHigh of the loop.
PrevHigh(sa, list, n) == IF n = 1 THEN sa.slice.low ELSE list[n - 1].subslice.high

\* "Subslice must be ordered, disjoint and >= prevHigh", if that has a key.
Follows(annotation, prevHigh) ==
  prevHigh # InfinityKey => KeyCompare(annotation.subslice.low, prevHigh) >= 0

\* Mutant: the number is not checked.
AcceptsAnyNumber(sa, r) ==
  LET list == sa.annotations[r] IN
  /\ list # << >>
  /\ \A n \in DOMAIN list : Follows(list[n], PrevHigh(sa, list, n)) /\ list[n].from # r
  /\ CompareWithHigh(list[Len(list)].subslice.high, sa.slice.high) <= 0

\* The loop body accepts the annotations of the resource r.
Accepts(sa, r) ==
  LET list == sa.annotations[r] IN
  /\ list # << >>
  /\ \A n \in DOMAIN list :
       /\ list[n].number <= sa.generation.number
       /\ Follows(list[n], PrevHigh(sa, list, n))
       /\ list[n].from # r
  /\ CompareWithHigh(list[Len(list)].subslice.high, sa.slice.high) <= 0

\* NewSliceWithResources and NewSliceAssignment report no error.
IsSliceAssignment(sa) ==
  /\ sa.resources # << >>
  /\ ~Gen!IsEmpty(sa.generation)
  /\ \A r \in DOMAIN sa.annotations : r \in Seqs!ToSet(sa.resources) /\ Accepts(sa, r)
  /\ sa.load \in {"none", "finite"}

\* Nor does CheckAssignmentGeneration.
CheckAssignmentGeneration(sa, generation) ==
  /\ sa.generation.incarnation = generation.incarnation
  /\ Gen!Compare(sa.generation, generation) <= 0

\* NewSliceMap and NewAssignment, given the slice assignments, report no error.
IsAssignment(a) ==
  /\ Complete(a.sliceMap)
  /\ ~Gen!IsEmpty(a.generation)
  /\ \A n \in DOMAIN a.sliceMap : CheckAssignmentGeneration(a.sliceMap[n], a.generation)

\* A list of SliceAssignments that were constructed.
AreSliceAssignments(list) ==
  /\ list \in Seq(Seqs!ToSet(list))
  /\ \A n \in DOMAIN list : IsSliceRecord(list[n]) /\ IsSliceAssignment(list[n])

\* An Assignment that was constructed.
IsConstructed(a) ==
  /\ a \in [generation : Gen!Generations, sliceMap : {a.sliceMap}, isFrozen : BOOLEAN,
            mode : {"eventual", "strict"}]
  /\ AreSliceAssignments(a.sliceMap)
  /\ IsAssignment(a)

-----------------------------------------------------------------------------
(* What an Assignment says *)

\* The elements of a list that are in a set, in their order.
Those(list, S) ==
  LET those[n \in 0..Len(list)] ==
        IF n = 0 THEN << >>
        ELSE IF list[n] \in S THEN Append(those[n - 1], list[n]) ELSE those[n - 1]
  IN  those[Len(list)]

\* A list with the elements of another one that were not in it.
Added(seen, list) ==
  LET added[n \in 0..Len(list)] ==
        IF n = 0 THEN seen
        ELSE IF list[n] \in Seqs!ToSet(added[n - 1]) THEN added[n - 1]
                                                     ELSE Append(added[n - 1], list[n])
  IN  added[Len(list)]

LookUp(a, k) == CHOOSE sa \in Seqs!ToSet(a.sliceMap) : Contains(sa.slice, k)

\* Resources: each once, in the order of the slices.
Resources(a) ==
  LET resources[n \in 0..Len(a.sliceMap)] ==
        IF n = 0 THEN << >> ELSE Added(resources[n - 1], a.sliceMap[n].resources)
  IN  resources[Len(a.sliceMap)]

Owns(sa, r) == r \in Seqs!ToSet(sa.resources)

IsAssignedKey(a, k, r) == Owns(LookUp(a, k), r)

\* Mutant: the search ends at the first slice of the resource.
FirstAssignedSliceAssignment(a, r) ==
  LET owned == Those(a.sliceMap, {sa \in Seqs!ToSet(a.sliceMap) : Owns(sa, r)})
  IN  SubSeq(owned, 1, IF owned = << >> THEN 0 ELSE 1)

GetAssignedSliceAssignments(a, r) ==
  Those(a.sliceMap, {sa \in Seqs!ToSet(a.sliceMap) : Owns(sa, r)})

GetAssignedSlices(a, r) ==
  LET owned == GetAssignedSliceAssignments(a, r) IN [n \in DOMAIN owned |-> owned[n].slice]

-----------------------------------------------------------------------------
(* What users of an Assignment rely on *)

\* The slices of a resource are disjoint and have exactly its keys; the resources
\* are those that have slices.
OwnershipAgrees(a) ==
  /\ \A r \in Squid :
       LET slices == GetAssignedSlices(a, r) IN
       /\ \A k \in Key :
            Cardinality({n \in DOMAIN slices : Contains(slices[n], k)})
              = IF IsAssignedKey(a, k, r) THEN 1 ELSE 0
       /\ r \in Seqs!ToSet(Resources(a)) <=> slices # << >>
  /\ Len(Resources(a)) = Cardinality(Seqs!ToSet(Resources(a)))

\* The annotations of a list lie in the slice one after the other.
Fits(sa, list) ==
  /\ \A n, m \in DOMAIN list :
       n < m => CompareWithKey(list[n].subslice.high, list[m].subslice.low) <= 0
  /\ \A n \in DOMAIN list :
       /\ KeyCompare(list[n].subslice.low, sa.slice.low) >= 0
       /\ CompareWithHigh(list[n].subslice.high, sa.slice.high) <= 0

\* Those of the slice, where none that has no end is followed by another one.
BoundedAnnotationsFit(sa) ==
  \A r \in DOMAIN sa.annotations :
    LET list == sa.annotations[r] IN
    (\A n \in 1..(Len(list) - 1) : list[n].subslice.high # InfinityKey) => Fits(sa, list)

\* No annotation claims a continuity that is younger than the slice assignment, from
\* a resource that does not own the slice, or a transfer from itself; every slice
\* is of the assignment's incarnation and no newer.
AnnotationsAreOwned(a) ==
  \A n \in DOMAIN a.sliceMap :
    LET sa == a.sliceMap[n] IN
    /\ sa.generation.incarnation = a.generation.incarnation
    /\ sa.generation.number <= a.generation.number
    /\ \A r \in DOMAIN sa.annotations :
         /\ Owns(sa, r)
         /\ \A m \in DOMAIN sa.annotations[r] :
              /\ sa.annotations[r][m].number <= a.generation.number
              /\ sa.annotations[r][m].from # r
=============================================================================
