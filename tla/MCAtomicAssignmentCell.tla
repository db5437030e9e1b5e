----------------------- MODULE MCAtomicAssignmentCell -----------------------
(***************************************************************************)
(* Instances of AtomicAssignmentCell for TLC: an assignment of an older    *)
(* incarnation but a higher number, and two of the same generation.        *)
(***************************************************************************)
EXTENDS AtomicAssignmentCell, TLC

CONSTANTS a1, a2, b2

MCAssignment == {a1, a2, b2}

MCGenOf ==
  (a1 :> [incarnation |-> 1, number |-> 9]) @@
  (a2 :> [incarnation |-> 2, number |-> 1]) @@
  (b2 :> [incarnation |-> 2, number |-> 1])

\* Calls and listeners are interchangeable.
MCSymmetry == Permutations(Calls) \cup Permutations(Listeners)
=============================================================================
