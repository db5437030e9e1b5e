--------------------------- MODULE ResourceRouter ---------------------------
(***************************************************************************)
(* pkg/client/router.go, as the goroutines of an application use it        *)
(* through a Clerk (pkg/client/clerk.go): they share the lookup's cell and *)
(* one round-robin counter, and take no lock.  A step is one atomic load,  *)
(* one atomic addition, or the return of a call.  The lookup underneath is *)
(* any behaviour of LookupService: assignments are replaced, and the Clerk *)
(* is closed, while calls are under way.                                   *)
(***************************************************************************)
EXTENDS Assignments, Sequences, FiniteSets

CONSTANTS
  Callers,         \* goroutines of the application
  KindsOf,         \* the kinds of calls each of them makes
  Squid,           \* the server incarnations, pods with an address and a creation time
  Keys,            \* routing keys
  ResourcesOf,     \* ResourcesOf[a][key]: Resources of the slice of a that contains key
  SecondaryKeys,
  HashOf,          \* FNV-1a of a secondary key
  Modulus,         \* the counter is a uint64: it wraps at Modulus
  MaxRoutes        \* bound: the calls of Route of a behaviour

Kinds == {"Route", "RouteAll", "RouteTwoLevel", "RouteWithRetry"}

ASSUME KeysAssumption == Keys # {}

ASSUME KindsAssumption == KindsOf \in [Callers -> SUBSET Kinds]

ASSUME ResourcesAssumption ==
  ResourcesOf \in [Assignment -> [Keys -> {rs \in Seq(Squid) : rs # << >>}]]

ASSUME HashAssumption == HashOf \in [SecondaryKeys -> Nat]

ASSUME ModulusAssumption == Modulus \in Nat \ {0}

VARIABLES
  status, cell, ready,  \* the lookup, as LookupService has it
  rrCounters,           \* ResourceRouter.rrCounters
  calls,                \* the call each caller is in
  sessions,             \* each caller's retries: the key, who was tried
  window,               \* history: what the cell held since the call began
  waited,               \* history: the callers WaitReady has returned nil to
  row,                  \* history: the last calls that used the counter, in the order
                        \* of their additions, back to one for other replicas
  routed,               \* history: how many calls have used the counter
  attempts              \* history: the replicas contacted in each caller's session

lookup == <<status, cell, ready>>

vars == <<lookup, rrCounters, calls, sessions, window, waited, row, routed, attempts>>

Lookup == INSTANCE LookupService

Errors == {"none", "NoAssignmentAvailable", "NoResourcesAssigned", "AllReplicasExhausted"}

Idle == [pc |-> "idle", kind |-> "RouteAll", key |-> CHOOSE k \in Keys : TRUE,
         snapshot |-> NoAssignment, error |-> "none", result |-> << >>]

NoSession == [key |-> Idle.key, tried |-> {}]

\* Before the first of these calls.
NoRow == [replicas |-> << >>, shares |-> << >>, wrapped |-> FALSE]

RouterInit ==
  /\ Lookup!Init
  /\ rrCounters = 0
  /\ calls = [c \in Callers |-> Idle]
  /\ sessions = [c \in Callers |-> NoSession]
  /\ window = [c \in Callers |-> {}]
  /\ waited = {}
  /\ row = NoRow
  /\ routed = 0
  /\ attempts = [c \in Callers |-> 0]

-----------------------------------------------------------------------------
\* Mutant: it does not wait.
WaitReadyNot(c) ==
  /\ calls[c].pc = "idle"
  /\ waited' = waited \cup {c}
  /\ UNCHANGED <<lookup, rrCounters, calls, sessions, window, row, routed, attempts>>

\* WaitReady found readyChan closed; a context that ends first changes nothing.
WaitReady(c) ==
  /\ calls[c].pc = "idle"
  /\ ready
  /\ waited' = waited \cup {c}
  /\ UNCHANGED <<lookup, rrCounters, calls, sessions, window, row, routed, attempts>>

\* A call of the Clerk begins; a session of retries goes on with its key.
Invokes(c, kind, key) ==
  /\ calls[c].pc = "idle"
  /\ kind = "RouteWithRetry" /\ sessions[c].tried # {} => key = sessions[c].key
  /\ kind = "Route" =>
       routed + Cardinality({d \in Callers : calls[d].pc = "called" \/ calls[d].pc = "loaded"})
         < MaxRoutes
  /\ calls' = [calls EXCEPT ![c] = [Idle EXCEPT !.pc = "called", !.kind = kind, !.key = key]]
  /\ sessions' = IF kind = "RouteWithRetry" THEN [sessions EXCEPT ![c].key = key] ELSE sessions
  /\ window' = [window EXCEPT ![c] = {cell}]
  /\ UNCHANGED <<lookup, rrCounters, waited, row, routed, attempts>>

\* RouteAll with the assignment a: its error, or the replicas.
RouteAllError(a, key) ==
  IF a = NoAssignment THEN "NoAssignmentAvailable"
  ELSE IF ResourcesOf[a][key] = << >> THEN "NoResourcesAssigned" ELSE "none"

\* The one load of the cell: each kind of call starts with RouteAll.
Loads(c) ==
  /\ calls[c].pc = "called"
  /\ LET error == RouteAllError(cell, calls[c].key) IN
       calls' = [calls EXCEPT ![c] = [@ EXCEPT
                   !.pc = IF error = "none" THEN "loaded" ELSE "returned",
                   !.snapshot = cell, !.error = error]]
  /\ UNCHANGED <<lookup, rrCounters, sessions, window, waited, row, routed, attempts>>

\* The replicas of the snapshot that the call took.
Replicas(c) == ResourcesOf[calls[c].snapshot][calls[c].key]

Returned(c, error, result) ==
  calls' = [calls EXCEPT ![c] = [@ EXCEPT !.pc = "returned", !.error = error, !.result = result]]

\* RouteAll: all of them.
FinishRouteAll(c) ==
  /\ calls[c].pc = "loaded"
  /\ calls[c].kind = "RouteAll"
  /\ Returned(c, "none", Replicas(c))
  /\ UNCHANGED <<lookup, rrCounters, sessions, window, waited, row, routed, attempts>>

\* A single replica needs no choice.
FinishSingle(c) ==
  /\ calls[c].pc = "loaded"
  /\ calls[c].kind \in {"Route", "RouteTwoLevel"}
  /\ Len(Replicas(c)) = 1
  /\ Returned(c, "none", <<Replicas(c)[1]>>)
  /\ UNCHANGED <<lookup, rrCounters, sessions, window, waited, row, routed, attempts>>

\* The row with a call that was given the replica at index: how often each of the
\* replicas was given out in the row, and whether the counter wrapped within it.
RowWith(replicas, counter, index) ==
  IF replicas = row.replicas
    THEN [replicas |-> replicas,
          shares |-> [row.shares EXCEPT ![index + 1] = @ + 1],
          wrapped |-> row.wrapped \/ counter = 0]
    ELSE [replicas |-> replicas,
          shares |-> [i \in DOMAIN replicas |-> IF i = index + 1 THEN 1 ELSE 0],
          wrapped |-> FALSE]

\* Mutant: the counter is read and not advanced.
FinishRouteStuck(c) ==
  /\ calls[c].pc = "loaded"
  /\ calls[c].kind = "Route"
  /\ LET n == Len(Replicas(c))
         index == rrCounters % n
     IN /\ n > 1
        /\ Returned(c, "none", <<Replicas(c)[index + 1]>>)
        /\ row' = RowWith(Replicas(c), rrCounters, index)
        /\ routed' = routed + 1
  /\ UNCHANGED <<lookup, rrCounters, sessions, window, waited, attempts>>

\* Mutant: the counter does not wrap.
FinishRouteUnwrapped(c) ==
  /\ calls[c].pc = "loaded"
  /\ calls[c].kind = "Route"
  /\ LET n == Len(Replicas(c))
         index == (rrCounters + 1) % n
     IN /\ n > 1
        /\ rrCounters' = rrCounters + 1
        /\ Returned(c, "none", <<Replicas(c)[index + 1]>>)
        /\ row' = RowWith(Replicas(c), rrCounters + 1, index)
        /\ routed' = routed + 1
  /\ UNCHANGED <<lookup, sessions, window, waited, attempts>>

\* Route: the counter is advanced and read in one atomic addition.
FinishRoute(c) ==
  /\ calls[c].pc = "loaded"
  /\ calls[c].kind = "Route"
  /\ LET n == Len(Replicas(c))
         counter == (rrCounters + 1) % Modulus
         index == counter % n
     IN /\ n > 1
        /\ rrCounters' = counter
        /\ Returned(c, "none", <<Replicas(c)[index + 1]>>)
        /\ row' = RowWith(Replicas(c), counter, index)
        /\ routed' = routed + 1
  /\ UNCHANGED <<lookup, sessions, window, waited, attempts>>

\* RouteTwoLevel: the hash of the secondary key chooses.
FinishTwoLevel(c) ==
  /\ calls[c].pc = "loaded"
  /\ calls[c].kind = "RouteTwoLevel"
  /\ Len(Replicas(c)) > 1
  /\ \E secondary \in SecondaryKeys :
       Returned(c, "none", <<Replicas(c)[(HashOf[secondary] % Len(Replicas(c))) + 1]>>)
  /\ UNCHANGED <<lookup, rrCounters, sessions, window, waited, row, routed, attempts>>

-----------------------------------------------------------------------------
(* RouteWithRetry: the first replica that is not among the tried ones. *)

\* Mutant: incarnations are taken for the same when their addresses are.
UntriedByAddress(c) ==
  {i \in DOMAIN Replicas(c) :
     \A sq \in sessions[c].tried : sq.address # Replicas(c)[i].address}

\* The places of the replicas that were not tried.
Untried(c) == {i \in DOMAIN Replicas(c) : Replicas(c)[i] \notin sessions[c].tried}

\* Mutant: the replica is taken from another load of the cell.
FinishRetryReloaded(c) ==
  /\ calls[c].pc = "loaded"
  /\ calls[c].kind = "RouteWithRetry"
  /\ \E i \in Untried(c) :
       /\ \A j \in Untried(c) : i <= j
       /\ Returned(c, "none", <<ResourcesOf[cell][calls[c].key][i]>>)
  /\ attempts' = [attempts EXCEPT ![c] = @ + 1]
  /\ UNCHANGED <<lookup, rrCounters, sessions, window, waited, row, routed>>

FinishRetry(c) ==
  /\ calls[c].pc = "loaded"
  /\ calls[c].kind = "RouteWithRetry"
  /\ \E i \in Untried(c) :
       /\ \A j \in Untried(c) : i <= j
       /\ Returned(c, "none", <<Replicas(c)[i]>>)
  /\ attempts' = [attempts EXCEPT ![c] = @ + 1]
  /\ UNCHANGED <<lookup, rrCounters, sessions, window, waited, row, routed>>

Exhausts(c) ==
  /\ calls[c].pc = "loaded"
  /\ calls[c].kind = "RouteWithRetry"
  /\ Untried(c) = {}
  /\ Returned(c, "AllReplicasExhausted", << >>)
  /\ UNCHANGED <<lookup, rrCounters, sessions, window, waited, row, routed, attempts>>

-----------------------------------------------------------------------------
(* The application has the result. *)

\* It is done with it; a session of retries has come to its end, one way or the other.
Ends(c) ==
  /\ calls[c].pc = "returned"
  /\ calls' = [calls EXCEPT ![c] = Idle]
  /\ window' = [window EXCEPT ![c] = {}]
  /\ IF calls[c].kind = "RouteWithRetry"
       THEN /\ sessions' = [sessions EXCEPT ![c] = NoSession]
            /\ attempts' = [attempts EXCEPT ![c] = 0]
       ELSE UNCHANGED <<sessions, attempts>>
  /\ UNCHANGED <<lookup, rrCounters, waited, row, routed>>

\* The replica it was given failed: it is added to the tried ones.
ReplicaFails(c) ==
  /\ calls[c].pc = "returned"
  /\ calls[c].kind = "RouteWithRetry"
  /\ calls[c].error = "none"
  /\ calls' = [calls EXCEPT ![c] = Idle]
  /\ window' = [window EXCEPT ![c] = {}]
  /\ sessions' = [sessions EXCEPT ![c].tried = @ \cup {calls[c].result[1]}]
  /\ UNCHANGED <<lookup, rrCounters, waited, row, routed, attempts>>

\* The lookup goes on underneath, and every call under way may see its cell.
LookupMoves ==
  /\ Lookup!Next
  /\ window' = [c \in Callers |->
                  IF calls[c].pc \in {"called", "loaded"} THEN window[c] \cup {cell'} ELSE window[c]]
  /\ UNCHANGED <<rrCounters, calls, sessions, waited, row, routed, attempts>>

CallerStep(c) ==
  \/ WaitReady(c)
  \/ \E kind \in KindsOf[c], key \in Keys : Invokes(c, kind, key)
  \/ Loads(c)
  \/ FinishRouteAll(c) \/ FinishSingle(c) \/ FinishRoute(c) \/ FinishTwoLevel(c)
  \/ FinishRetry(c) \/ Exhausts(c)
  \/ Ends(c) \/ ReplicaFails(c)

RouterNext == LookupMoves \/ \E c \in Callers : CallerStep(c)

RouterSpec == RouterInit /\ [][RouterNext]_vars

-----------------------------------------------------------------------------
CallRecords ==
  [pc : {"idle", "called", "loaded", "returned"}, kind : Kinds, key : Keys,
   snapshot : MaybeAssignment, error : Errors, result : Seq(Squid)]

RowTypeOK ==
  /\ row.replicas \in Seq(Squid)
  /\ row.shares \in [DOMAIN row.replicas -> Nat]
  /\ row.wrapped \in BOOLEAN

RouterTypeOK ==
  /\ status \in Lookup!Statuses /\ cell \in MaybeAssignment /\ ready \in BOOLEAN
  /\ rrCounters \in 0..(Modulus - 1)
  /\ calls \in [Callers -> CallRecords]
  /\ sessions \in [Callers -> [key : Keys, tried : SUBSET Squid]]
  /\ window \in [Callers -> SUBSET MaybeAssignment]
  /\ waited \subseteq Callers
  /\ RowTypeOK
  /\ routed \in Nat
  /\ attempts \in [Callers -> Nat]

Elements(s) == {s[i] : i \in DOMAIN s}

\* The call returns what the assignment a gives for its key.
Answers(a, c) ==
  LET replicas == ResourcesOf[a][calls[c].key] IN
  /\ calls[c].kind = "RouteAll" => calls[c].result = replicas
  /\ calls[c].error = "none" /\ calls[c].kind # "RouteAll" =>
       Len(calls[c].result) = 1 /\ Elements(calls[c].result) \subseteq Elements(replicas)
  /\ calls[c].error = "AllReplicasExhausted" => Elements(replicas) \subseteq sessions[c].tried

\* The answer of the call is one that its window explains.
AnswerIsCurrent(c) ==
  \/ calls[c].error = "NoAssignmentAvailable" /\ NoAssignment \in window[c]
  \/ /\ calls[c].error \in {"none", "AllReplicasExhausted"}
     /\ \E a \in window[c] \ {NoAssignment} : Answers(a, c)

\* A call answers from one assignment that was current at some moment of the call,
\* whole: never from a mixture of two, nor from one replaced before it began.
RouteIsCurrent == \A c \in Callers : calls[c].pc = "returned" => AnswerIsCurrent(c)

\* After WaitReady has returned nil to a caller, its calls find an assignment, for
\* good: not even the Clerk's Close takes it away.
ReadyMeansRoutable ==
  \A c \in waited : calls[c].pc = "returned" => calls[c].error # "NoAssignmentAvailable"

\* The caller has a replica from RouteWithRetry that it has not tried yet.
Contacts(c) ==
  calls[c].pc = "returned" /\ calls[c].kind = "RouteWithRetry" /\ calls[c].error = "none"

\* In a session of retries no incarnation is contacted twice, however the
\* assignment changes between the attempts.
RetryTriesEachOnce ==
  \A c \in Callers :
    attempts[c] = Cardinality(sessions[c].tried) + (IF Contacts(c) THEN 1 ELSE 0)

\* Calls of Route that advance the counter one after the other and find the same
\* replicas share them evenly: none is given out two times more than another.  So it is
\* however many goroutines make them, and whatever slices, with however many replicas,
\* were asked before the row; but not across rows, as a call for other replicas in
\* between takes a turn.  The wrap of the counter within the row is excused unless the
\* number of replicas divides the modulus.
EvenSpread ==
  \/ row.wrapped /\ Modulus % Len(row.replicas) # 0
  \/ \A i, j \in DOMAIN row.replicas : row.shares[i] - row.shares[j] <= 1

-----------------------------------------------------------------------------
(* The inductive invariant behind these. *)

\* What a call under way knows: the cell's assignment is one it may answer from,
\* and the one it has taken is, too.
CallInv(c) ==
  /\ calls[c].pc \in {"called", "loaded"} => cell \in window[c]
  /\ calls[c].pc = "called" => calls[c].error = "none"
  /\ calls[c].pc = "loaded" =>
       calls[c].error = "none" /\ calls[c].snapshot \in window[c] \ {NoAssignment}
  /\ calls[c].pc = "returned" => AnswerIsCurrent(c)

\* What a session of retries knows: how many replicas it has contacted, and that
\* the next one is not among them.
SessionInv(c) ==
  /\ IsFiniteSet(sessions[c].tried)
  /\ attempts[c] = Cardinality(sessions[c].tried) + (IF Contacts(c) THEN 1 ELSE 0)
  /\ Contacts(c) => calls[c].result[1] \in Squid \ sessions[c].tried

\* Who has been told that the lookup is ready finds it so.
ReadyInv ==
  /\ ready => cell # NoAssignment
  /\ waited # {} => ready
  /\ ReadyMeansRoutable

\* Going round from first one meets i, before going on after last.
Met(first, last, i) ==
  IF first <= last THEN i \in first..last ELSE i <= last \/ first <= i

\* The row has gone round its replicas some times, and from the one it began with to
\* the one that was given out last once more.
SpreadInv ==
  LET n == Len(row.replicas)
      last == rrCounters % n
  IN  n > 0 /\ (row.wrapped => Modulus % n = 0) =>
        \E first \in 0..(n - 1) : \A i \in 0..(n - 1) :
          row.shares[i + 1] = row.shares[last + 1] - (IF Met(first, last, i) THEN 0 ELSE 1)

RouterInv ==
  /\ RouterTypeOK
  /\ ReadyInv
  /\ SpreadInv
  /\ \A c \in Callers : CallInv(c) /\ SessionInv(c)
=============================================================================
