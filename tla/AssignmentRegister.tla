-------------------------- MODULE AssignmentRegister ------------------------
(***************************************************************************)
(* What AtomicAssignmentCell promises about Set: a register of assignments *)
(* that each call changes, or refuses to change, in one instant between    *)
(* its invocation and its return.                                          *)
(***************************************************************************)
EXTENDS Assignments

CONSTANT Calls    \* the calls of Set, each made once

VARIABLES
  val,      \* the assignment held
  phase,    \* how far each call is
  arg       \* the argument of each call that has begun

vars == <<val, phase, arg>>

Phases == {"idle", "open", "accepted", "rejected"}

Init ==
  /\ val \in MaybeAssignment
  /\ phase = [c \in Calls |-> "idle"]
  /\ arg = [c \in Calls |-> NoAssignment]

\* a is an assignment at least as new as the one held.
Acceptable(a) ==
  /\ a # NoAssignment
  /\ val = NoAssignment \/ ~Less(GenOf[a], GenOf[val])

Invoke(c) ==
  /\ phase[c] = "idle"
  /\ phase' = [phase EXCEPT ![c] = "open"]
  /\ \E a \in MaybeAssignment : arg' = [arg EXCEPT ![c] = a]
  /\ UNCHANGED val

Accept(c) ==
  /\ phase[c] = "open"
  /\ Acceptable(arg[c])
  /\ val' = arg[c]
  /\ phase' = [phase EXCEPT ![c] = "accepted"]
  /\ UNCHANGED arg

Reject(c) ==
  /\ phase[c] = "open"
  /\ ~Acceptable(arg[c])
  /\ phase' = [phase EXCEPT ![c] = "rejected"]
  /\ UNCHANGED <<val, arg>>

Next == \E c \in Calls : Invoke(c) \/ Accept(c) \/ Reject(c)

Spec == Init /\ [][Next]_vars
=============================================================================
