----------------------------- MODULE Generation -----------------------------
(***************************************************************************)
(* The version numbers of pkg/common/generation.go.  A generation is a     *)
(* store incarnation (major) with a number (minor); both are uint64 in the *)
(* code and are only ever compared, so they are naturals here.             *)
(***************************************************************************)
EXTENDS Integers

\* -1, 0 or 1: the three-way comparison of two unsigned integers.
IncarnationCompare(i, j) == IF i < j THEN -1 ELSE IF i > j THEN 1 ELSE 0

Generations == [incarnation : Nat, number : Nat]

\* The sentinel of an assignment that was never received.
EmptyGeneration == [incarnation |-> 0, number |-> 0]

\* Generation.Compare: the incarnations decide, the numbers break the tie.
Compare(g, h) ==
  IF g.incarnation # h.incarnation
    THEN IncarnationCompare(g.incarnation, h.incarnation)
    ELSE IF g.number < h.number THEN -1 ELSE IF g.number > h.number THEN 1 ELSE 0

Less(g, h) == Compare(g, h) < 0

Equal(g, h) == Compare(g, h) = 0

IsEmpty(g) == Equal(g, EmptyGeneration)
=============================================================================
