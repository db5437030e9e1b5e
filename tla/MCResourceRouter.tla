-------------------------- MODULE MCResourceRouter --------------------------
(***************************************************************************)
(* An instance of ResourceRouter for TLC: the second assignment moves one  *)
(* key from two replicas to one of them and a restarted pod, and the other *)
(* from three replicas to two.  The counter wraps after four calls.        *)
(***************************************************************************)
EXTENDS ResourceRouter, TLC

CONSTANTS
  a1, a2,            \* two assignments, a2 the newer
  c1, c2,            \* two callers
  k1, k2             \* two routing keys

\* Incarnations of two pods; the second one is restarted.
p == [address |-> "p", creationTimeMillis |-> 1]
q == [address |-> "q", creationTimeMillis |-> 1]
qRestarted == [q EXCEPT !.creationTimeMillis = 2]

MCSquid == {p, q, qRestarted}

MCAssignment == {a1, a2}

MCGenOf ==
  (a1 :> [incarnation |-> 1, number |-> 1]) @@ (a2 :> [incarnation |-> 1, number |-> 2])

MCResourcesOf ==
  (a1 :> ((k1 :> <<p, q>>) @@ (k2 :> <<q>>)))
    @@ (a2 :> ((k1 :> <<qRestarted, p>>) @@ (k2 :> <<qRestarted, q, p>>)))

MCHashOf == [s \in SecondaryKeys |-> 5]

\* Retries share nothing but the cell: one caller makes them.
MCKindsOf ==
  (c1 :> {"Route", "RouteWithRetry"}) @@ (c2 :> {"Route", "RouteAll", "RouteTwoLevel"})
=============================================================================
