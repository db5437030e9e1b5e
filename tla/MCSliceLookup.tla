---------------------------- MODULE MCSliceLookup ---------------------------
(***************************************************************************)
(* Instances of SliceLookup for TLC.  With MCPlainResponses the timeouts   *)
(* and with MCSlowConfig the delays exceed MaxLag, so nothing falls due    *)
(* once time has stopped at MaxOps.  With MCResponses a request may be     *)
(* given up then, after a timeout that overflowed; its retry is cut off.   *)
(***************************************************************************)
EXTENDS SliceLookup, TLC

CONSTANTS
  a1, a2,         \* two assignments, a2 the newer
  main, other     \* the default watch server and a redirect target

MCAssignment == {a1, a2}

MCGenOf ==
  (a1 :> [incarnation |-> 1, number |-> 2]) @@ (a2 :> [incarnation |-> 2, number |-> 1])

Reply(a, g, redirect, timeout) ==
  [assignment |-> a, generation |-> g, redirect |-> redirect, suggestedTimeout |-> timeout,
   panics |-> "nothing"]

\* Its generation is above the guardrail.
Unconvertible == [Reply(NoAssignment, EmptyGeneration, NoAddress, 0) EXCEPT !.panics = "generation"]

\* Either assignment, one with a redirect, a server that has nothing newer, and an
\* answer that panics; 15 milliseconds overflow.
MCResponses ==
  {Reply(a1, EmptyGeneration, NoAddress, 0),
   Reply(a2, EmptyGeneration, other, 15),
   Reply(NoAssignment, MCGenOf[a1], NoAddress, 0), Unconvertible}

\* The two assignments, without redirects, and an answer that panics.
MCPlainResponses ==
  {Reply(a1, EmptyGeneration, NoAddress, 0), Reply(a2, EmptyGeneration, NoAddress, 0),
   Unconvertible}

\* The calls of Stop are interchangeable.
MCStopperSymmetry == Permutations(Stoppers)

MCConfig == [WatchRPCTimeout |-> 2, MinRetryDelay |-> 2, MaxRetryDelay |-> 3]

MCSlowConfig == [WatchRPCTimeout |-> 2, MinRetryDelay |-> 4, MaxRetryDelay |-> 5]
=============================================================================
