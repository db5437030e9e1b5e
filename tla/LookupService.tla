---------------------------- MODULE LookupService ---------------------------
(***************************************************************************)
(* What a SliceLookup promises to those who share it (router, clerks,      *)
(* cache): a life from Start over Stop to the end of its loop that is      *)
(* never taken back, a cell that only moves forward, and a ready signal    *)
(* after which there is always an assignment to route with.                *)
(***************************************************************************)
EXTENDS Assignments

VARIABLES
  status,   \* how far its life is
  cell,     \* the assignment its router reads
  ready     \* readyChan is closed

vars == <<status, cell, ready>>

Statuses == {"new", "running", "cancelled", "exited"}

Init == status = "new" /\ cell = NoAssignment /\ ready = FALSE

Start == status = "new" /\ status' = "running" /\ UNCHANGED <<cell, ready>>

Cancel == status = "running" /\ status' = "cancelled" /\ UNCHANGED <<cell, ready>>

Exit == status = "cancelled" /\ status' = "exited" /\ UNCHANGED <<cell, ready>>

\* Requests that a Stop has left behind may still publish.
Publish ==
  /\ status # "new"
  /\ cell' \in {a \in Assignment : NotOlder(a, cell)}
  /\ UNCHANGED <<status, ready>>

Signal ==
  /\ cell # NoAssignment
  /\ ready' = TRUE
  /\ UNCHANGED <<status, cell>>

Next == Start \/ Cancel \/ Exit \/ Publish \/ Signal

Spec == Init /\ [][Next]_vars
=============================================================================
