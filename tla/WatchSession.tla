---------------------------- MODULE WatchSession ----------------------------
(***************************************************************************)
(* What the synchronisation of one target promises: at most one current    *)
(* request, which is replaced only once it was answered or has failed; a   *)
(* delay that doubles with each failure in a row and is reset by an answer *)
(* to the current request only; assignments that only move forward; and    *)
(* nothing at all once cancelled.                                          *)
(*                                                                         *)
(* The phases are those of the lifecycle diagram of pkg/client/README.md,  *)
(* whose passages through Idle and ProcessSuccess take no time here.  It   *)
(* differs from the diagram in one arrow: there a deadline leads from      *)
(* RequestInFlight to RequestInFlight (README.md:177, a hedge), in the     *)
(* code, and here, to ErrorBackoff like any other failure.                 *)
(***************************************************************************)
EXTENDS Assignments

CONSTANTS MinDelay, MaxDelay   \* the delay after an answer, and the longest

VARIABLES
  phase,      \* where the session is in its lifecycle
  attempts,   \* how many requests have been issued
  delay,      \* the delay of the next retry, without its jitter
  held        \* the assignment last learnt

vars == <<phase, attempts, delay, held>>

Init ==
  /\ phase = "Idle"
  /\ attempts = 0
  /\ delay = MinDelay
  /\ held = NoAssignment

\* An answer, late or not, brings a newer assignment.
LearnNewer == attempts > 0 /\ \E a \in Assignment : Newer(a, held) /\ held' = a

MayLearn == UNCHANGED held \/ LearnNewer

Doubled == IF 2 * delay > MaxDelay THEN MaxDelay ELSE 2 * delay

\* A request becomes the current one.
Issue == phase' = "RequestInFlight" /\ attempts' = attempts + 1

Begin == phase = "Idle" /\ Issue /\ UNCHANGED <<delay, held>>

\* The current request was answered, and the next one follows at once.
Answered ==
  /\ phase = "RequestInFlight"
  /\ delay' = MinDelay
  /\ Issue
  /\ MayLearn

\* It failed or was given up at its deadline; the retry waits.
Fail ==
  /\ phase = "RequestInFlight"
  /\ phase' = "ErrorBackoff"
  /\ delay' = Doubled
  /\ UNCHANGED attempts
  /\ MayLearn

\* The same, with a delay so short that its jitter may round to nothing.
FailAndRetry ==
  /\ phase = "RequestInFlight"
  /\ delay \div 2 = 0
  /\ delay' = Doubled
  /\ Issue
  /\ MayLearn

\* The backoff is over.
Retry == phase = "ErrorBackoff" /\ Issue /\ UNCHANGED delay /\ MayLearn

\* An answer to a request that was given up changes nothing else.
LateAnswer ==
  /\ phase \in {"RequestInFlight", "ErrorBackoff"}
  /\ LearnNewer
  /\ UNCHANGED <<phase, attempts, delay>>

Cancel ==
  /\ phase' = "Cancelled"
  /\ UNCHANGED <<attempts, delay, held>>

Next == Begin \/ Answered \/ Fail \/ FailAndRetry \/ Retry \/ LateAnswer \/ Cancel

Spec == Init /\ [][Next]_vars
=============================================================================
