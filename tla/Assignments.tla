----------------------------- MODULE Assignments ----------------------------
(***************************************************************************)
(* The assignments of pkg/common/assignment.go as the client's             *)
(* synchronisation sees them: immutable values behind a pointer, told      *)
(* apart by identity and ordered by their generation only.                 *)
(***************************************************************************)
EXTENDS Generation

CONSTANTS
  Assignment,     \* the *Assignment pointers in play
  GenOf,          \* Assignment.Generation
  NoAssignment    \* the nil pointer

ASSUME GenOfAssumption == GenOf \in [Assignment -> Generations]

ASSUME NilAssumption == NoAssignment \notin Assignment

\* NewAssignment refuses the empty generation.
ASSUME NonEmptyAssumption == \A a \in Assignment : GenOf[a] # EmptyGeneration

MaybeAssignment == Assignment \cup {NoAssignment}

\* The monotonicity check of AtomicAssignmentCell.Set.
Rejects(cur, a) ==
  /\ cur # NoAssignment
  /\ Compare(GenOf[a], GenOf[cur]) < 0

\* The strictly-newer check of incorporateSyncState.
Newer(a, cur) ==
  \/ cur = NoAssignment
  \/ Compare(GenOf[a], GenOf[cur]) > 0

\* cur may be replaced by new without going back in time.
NotOlder(new, cur) ==
  \/ cur = NoAssignment
  \/ /\ new # NoAssignment
     /\ Compare(GenOf[new], GenOf[cur]) >= 0
=============================================================================
