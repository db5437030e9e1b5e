------------------- MODULE MCAssignmentSyncStateMachine ---------------------
(***************************************************************************)
(* AssignmentSyncStateMachine on its own: two assignments, a redirect      *)
(* target, answers of every shape, and at most MaxOpID requests.           *)
(***************************************************************************)
EXTENDS AssignmentSyncStateMachine, TLC

CONSTANTS
  a1, a2,         \* two assignments, a2 the newer
  main, other,    \* the default watch server and a redirect target
  MaxOpID         \* bound: the requests of a behaviour

MCAssignment == {a1, a2}

MCGenOf ==
  (a1 :> [incarnation |-> 1, number |-> 2]) @@ (a2 :> [incarnation |-> 2, number |-> 1])

\* A reply with a known assignment (a nil one for a reply that has none).
Reply(a, g, redirect, timeout) ==
  [assignment |-> a, generation |-> g, redirect |-> redirect, suggestedTimeout |-> timeout,
   panics |-> "nothing"]

\* The largest suggestion, 7, makes a timeout of -2.
MCResponses ==
  {Reply(a1, EmptyGeneration, NoAddress, 0),
   Reply(a1, EmptyGeneration, other, 2),
   Reply(a2, EmptyGeneration, NoAddress, 7),
   Reply(NoAssignment, MCGenOf[a1], NoAddress, -1),
   Reply(NoAssignment, MCGenOf[a2], main, 1),
   Reply(NoAssignment, EmptyGeneration, BlankAddress, 0),
   [Reply(NoAssignment, EmptyGeneration, NoAddress, 0) EXCEPT !.panics = "assignment"],
   [Reply(NoAssignment, EmptyGeneration, other, 1) EXCEPT !.panics = "generation"]}

\* Half of the shortest delay is nothing.
MCDefaultConfig == [WatchRPCTimeout |-> 3, MinRetryDelay |-> 1, MaxRetryDelay |-> 3]

\* Only the timeout is given.
MCConfig == [WatchRPCTimeout |-> 2, MinRetryDelay |-> 0, MaxRetryDelay |-> -1]

MCNext == SMNext /\ sm'.lastOpID <= MaxOpID

MCSpec == SMInit /\ [][MCNext]_sm
=============================================================================
