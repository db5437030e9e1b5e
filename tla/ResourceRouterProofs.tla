------------------------ MODULE ResourceRouterProofs ------------------------
(***************************************************************************)
(* Proofs about ResourceRouter: the answers are those of one current       *)
(* assignment, readiness is lasting, retries contact no incarnation twice, *)
(* and the counter spreads calls evenly, whatever the lookup and the other *)
(* callers do.                                                             *)
(***************************************************************************)
EXTENDS ResourceRouter, FiniteSetTheorems, TLAPS

\* Every slice of every assignment has resources (NewSliceWithResources).
LEMMA ReplicasType ==
  ASSUME NEW a \in Assignment, NEW k \in Keys
  PROVE  /\ ResourcesOf[a][k] \in Seq(Squid)
         /\ ResourcesOf[a][k] # << >>
         /\ Len(ResourcesOf[a][k]) \in Nat \ {0}
  BY ResourcesAssumption

LEMMA IdleType == Idle \in CallRecords /\ NoSession \in [key : Keys, tried : SUBSET Squid]
  BY KeysAssumption DEF Idle, NoSession, CallRecords, Kinds, Errors, MaybeAssignment

\* A call that is loaded holds an assignment, and its replicas.
LEMMA LoadedFacts ==
  ASSUME RouterTypeOK, NEW c \in Callers, CallInv(c), calls[c].pc = "loaded"
  PROVE  /\ calls[c].snapshot \in Assignment
         /\ calls[c].key \in Keys
         /\ Replicas(c) = ResourcesOf[calls[c].snapshot][calls[c].key]
         /\ Replicas(c) \in Seq(Squid)
         /\ Len(Replicas(c)) \in Nat \ {0}
         /\ \A i \in 1..Len(Replicas(c)) : Replicas(c)[i] \in Squid
  <1>1. calls[c].snapshot \in Assignment /\ calls[c].key \in Keys
    BY DEF RouterTypeOK, CallInv, CallRecords, MaybeAssignment
  <1>2. QED
    BY <1>1, ReplicasType DEF Replicas

\* A multiple of n that is less than n and more than -n is none.
LEMMA ProductBounds ==
  ASSUME NEW n \in Nat \ {0}, NEW d \in Int
  PROVE  /\ n * d \in Int
         /\ d >= 2 => n * d >= n + n
         /\ d <= 0 - 1 => n * d <= 0 - n
         /\ d = 1 => n * d = n
         /\ d = 0 => n * d = 0
  <1>1. n * d \in Int
    OBVIOUS
  <1>2. d >= 2 => n * d >= n + n
    OBVIOUS
  <1>3. d <= 0 - 1 => n * d <= 0 - n
    OBVIOUS
  <1>4. d = 1 => n * d = n
    OBVIOUS
  <1>5. d = 0 => n * d = 0
    OBVIOUS
  <1>6. QED
    BY <1>1, <1>2, <1>3, <1>4, <1>5

\* Division with a remainder.
LEMMA DivisionFacts ==
  ASSUME NEW n \in Nat \ {0}, NEW c \in Nat
  PROVE  c % n \in 0..(n - 1) /\ \E q \in Int : c = n * q + (c % n)
  <1>1. c % n \in 0..(n - 1)
    OBVIOUS
  <1>2. (c \div n) \in Int
    OBVIOUS
  <1>3. c = n * (c \div n) + (c % n)
    OBVIOUS
  <1>4. QED
    BY <1>1, <1>2, <1>3

\* The remainder of the next number.
LEMMA CounterFacts ==
  ASSUME NEW n \in Nat \ {0}, NEW c \in Nat
  PROVE  (c + 1) % n = IF c % n = n - 1 THEN 0 ELSE (c % n) + 1
  <1>1. PICK q \in Int : c = n * q + (c % n)
    BY DivisionFacts
  <1>2. c + 1 \in Nat
    OBVIOUS
  <1>3. PICK p \in Int : c + 1 = n * p + ((c + 1) % n)
    BY <1>2, DivisionFacts
  <1>4. c % n \in 0..(n - 1) /\ (c + 1) % n \in 0..(n - 1)
    BY <1>2, DivisionFacts
  <1>5. PICK r \in Int, t \in Int : r = c % n /\ t = (c + 1) % n
    BY <1>4
  <1>6. p - q \in Int /\ n * (p - q) = n * p - n * q
    OBVIOUS
  <1>7. n * (p - q) = r + 1 - t
    <2>1. n * p \in Int /\ n * q \in Int
      OBVIOUS
    <2>2. QED
      BY <1>1, <1>3, <1>5, <1>6, <2>1
  <1>8. p - q \in {0, 1}
    <2>1. r \in 0..(n - 1) /\ t \in 0..(n - 1)
      BY <1>4, <1>5
    <2>2. ~(p - q >= 2) /\ ~(p - q <= 0 - 1)
      BY <1>6, <1>7, <2>1, ProductBounds
    <2>3. QED
      BY <1>6, <2>2
  <1>9. t = IF r = n - 1 THEN 0 ELSE r + 1
    <2>1. r \in 0..(n - 1) /\ t \in 0..(n - 1)
      BY <1>4, <1>5
    <2>2. n * (p - q) \in {0, n}
      BY <1>6, <1>8, ProductBounds
    <2>3. QED
      BY <1>7, <2>1, <2>2
  <1>10. QED
    BY <1>5, <1>9

LEMMA RouterInvInit == RouterInit => RouterInv
  <1> SUFFICES ASSUME RouterInit PROVE RouterInv
    OBVIOUS
  <1>1. RouterTypeOK
    <2>1. calls \in [Callers -> CallRecords]
            /\ sessions \in [Callers -> [key : Keys, tried : SUBSET Squid]]
      BY IdleType DEF RouterInit
    <2>2. rrCounters \in 0..(Modulus - 1)
      BY ModulusAssumption DEF RouterInit
    <2>3. status \in Lookup!Statuses /\ cell \in MaybeAssignment /\ ready \in BOOLEAN
      BY DEF RouterInit, Lookup!Init, Lookup!Statuses, MaybeAssignment
    <2>4. /\ window \in [Callers -> SUBSET MaybeAssignment] /\ waited \subseteq Callers
          /\ RowTypeOK /\ routed \in Nat /\ attempts \in [Callers -> Nat]
      BY DEF RouterInit, NoRow, RowTypeOK
    <2>5. QED
      BY <2>1, <2>2, <2>3, <2>4 DEF RouterTypeOK, RowTypeOK
  <1>2. ReadyInv
    BY DEF RouterInit, ReadyInv, ReadyMeansRoutable, Lookup!Init
  <1>3. ASSUME NEW c \in Callers PROVE CallInv(c) /\ SessionInv(c)
    <2>1. calls[c].pc = "idle" /\ sessions[c].tried = {} /\ attempts[c] = 0
      BY DEF RouterInit, Idle, NoSession
    <2>2. IsFiniteSet({}) /\ Cardinality({}) = 0
      BY FS_EmptySet
    <2>3. QED
      BY <2>1, <2>2 DEF CallInv, SessionInv, Contacts
  <1>4. SpreadInv
    BY DEF RouterInit, NoRow, SpreadInv
  <1>5. QED
    BY <1>1, <1>2, <1>3, <1>4 DEF RouterInv

-----------------------------------------------------------------------------
(* A caller's call and session depend on nothing of the other callers. *)

LEMMA OthersKeep ==
  ASSUME NEW d \in Callers, CallInv(d), SessionInv(d),
         cell' = cell, calls'[d] = calls[d], sessions'[d] = sessions[d],
         window'[d] = window[d], attempts'[d] = attempts[d]
  PROVE  CallInv(d)' /\ SessionInv(d)'
  BY DEF CallInv, SessionInv, Contacts, AnswerIsCurrent, Answers

\* A step of the caller c that leaves the lookup alone.
LEMMA CallerKeeps ==
  ASSUME RouterInv, NEW c \in Callers, CallerStep(c)
  PROVE  /\ UNCHANGED lookup
         /\ \A d \in Callers \ {c} :
              calls'[d] = calls[d] /\ sessions'[d] = sessions[d]
                /\ window'[d] = window[d] /\ attempts'[d] = attempts[d]
  <1> USE DEF RouterInv, RouterTypeOK, lookup
  <1>1. CASE WaitReady(c)
    BY <1>1 DEF WaitReady
  <1>2. ASSUME NEW kind \in KindsOf[c], NEW key \in Keys, Invokes(c, kind, key)
        PROVE  /\ UNCHANGED lookup
               /\ \A d \in Callers \ {c} :
                    calls'[d] = calls[d] /\ sessions'[d] = sessions[d]
                      /\ window'[d] = window[d] /\ attempts'[d] = attempts[d]
    BY <1>2 DEF Invokes
  <1>3. CASE Loads(c)
    BY <1>3 DEF Loads
  <1>4. CASE FinishRouteAll(c) \/ FinishSingle(c) \/ FinishRoute(c) \/ FinishTwoLevel(c)
    BY <1>4 DEF FinishRouteAll, FinishSingle, FinishRoute, FinishTwoLevel, Returned
  <1>5. CASE FinishRetry(c) \/ Exhausts(c)
    BY <1>5 DEF FinishRetry, Exhausts, Returned
  <1>6. CASE Ends(c)
    BY <1>6 DEF Ends
  <1>7. CASE ReplicaFails(c)
    BY <1>7 DEF ReplicaFails
  <1>8. QED
    BY <1>1, <1>2, <1>3, <1>4, <1>5, <1>6, <1>7 DEF CallerStep

-----------------------------------------------------------------------------
(* What the caller that steps knows afterwards *)

\* The call has returned; its kind and its key are what they were.
Closed(c, error, result) ==
  /\ calls'[c].pc = "returned" /\ calls'[c].error = error /\ calls'[c].result = result
  /\ calls'[c].kind = calls[c].kind /\ calls'[c].key = calls[c].key

\* A return changes the call's record and no other.
LEMMA ReturnedFacts ==
  ASSUME calls \in [Callers -> CallRecords], NEW c \in Callers,
         NEW error \in Errors, NEW result \in Seq(Squid), Returned(c, error, result)
  PROVE  /\ calls' \in [Callers -> CallRecords]
         /\ Closed(c, error, result)
         /\ \A d \in Callers \ {c} : calls'[d] = calls[d]
  <1>1. PICK r : r = [calls[c] EXCEPT !.pc = "returned", !.error = error, !.result = result]
    OBVIOUS
  <1>2. /\ r \in CallRecords /\ r.pc = "returned" /\ r.error = error /\ r.result = result
        /\ r.kind = calls[c].kind /\ r.key = calls[c].key
    BY <1>1 DEF CallRecords
  <1>3. calls' = [calls EXCEPT ![c] = r]
    BY <1>1 DEF Returned
  <1>4. calls' \in [Callers -> CallRecords] /\ calls'[c] = r
          /\ \A d \in Callers \ {c} : calls'[d] = calls[d]
    BY <1>2, <1>3
  <1>5. QED
    BY <1>2, <1>4 DEF Closed

\* What a call may return: all of the replicas it has loaded, one of them, or the
\* error of a retry that has tried them all.
MayAnswer(c, error, result) ==
  \/ calls[c].kind = "RouteAll" /\ result = Replicas(c) /\ error = "none"
  \/ calls[c].kind # "RouteAll" /\ error = "none"
       /\ \E i \in 1..Len(Replicas(c)) : result = <<Replicas(c)[i]>>
  \/ /\ calls[c].kind = "RouteWithRetry" /\ error = "AllReplicasExhausted"
     /\ Untried(c) = {}

\* Such a return is explained by the window of the call.
LEMMA AnswerFacts ==
  ASSUME RouterTypeOK, NEW c \in Callers, CallInv(c), calls[c].pc = "loaded",
         NEW error \in Errors, NEW result \in Seq(Squid),
         Returned(c, error, result), sessions' = sessions, window' = window, cell' = cell,
         MayAnswer(c, error, result)
  PROVE  /\ calls' \in [Callers -> CallRecords]
         /\ Closed(c, error, result)
         /\ CallInv(c)'
  <1>1. /\ calls' \in [Callers -> CallRecords]
        /\ Closed(c, error, result)
    <2>1. calls \in [Callers -> CallRecords]
      BY DEF RouterTypeOK
    <2>2. QED
      BY <2>1, ReturnedFacts
  <1>2. PICK a \in window[c] \ {NoAssignment} : Replicas(c) = ResourcesOf[a][calls[c].key]
    BY LoadedFacts DEF CallInv
  <1>3. /\ calls'[c].pc = "returned" /\ calls'[c].error = error /\ calls'[c].result = result
        /\ calls'[c].kind = calls[c].kind /\ calls'[c].key = calls[c].key
    BY <1>1 DEF Closed
  <1>4. CASE calls[c].kind = "RouteAll" /\ result = Replicas(c) /\ error = "none"
    <2>1. Answers(a, c)'
      BY <1>2, <1>3, <1>4 DEF Answers
    <2>2. QED
      BY <1>1, <1>2, <1>3, <1>4, <2>1 DEF CallInv, AnswerIsCurrent
  <1>5. CASE calls[c].kind # "RouteAll" /\ error = "none"
               /\ \E i \in 1..Len(Replicas(c)) : result = <<Replicas(c)[i]>>
    <2>1. PICK i \in 1..Len(Replicas(c)) : result = <<Replicas(c)[i]>>
      BY <1>5
    <2>2. Elements(result) \subseteq Elements(Replicas(c)) /\ Len(result) = 1
      BY <2>1, LoadedFacts DEF Elements
    <2>3. Answers(a, c)'
      BY <1>2, <1>3, <1>5, <2>2 DEF Answers, Elements
    <2>4. QED
      BY <1>1, <1>2, <1>3, <1>5, <2>3 DEF CallInv, AnswerIsCurrent
  <1>6. CASE /\ calls[c].kind = "RouteWithRetry" /\ error = "AllReplicasExhausted"
             /\ Untried(c) = {}
    <2>1. Elements(Replicas(c)) \subseteq sessions[c].tried
      BY <1>6 DEF Elements, Untried
    <2>2. Answers(a, c)'
      BY <1>2, <1>3, <1>6, <2>1 DEF Answers, Elements
    <2>3. QED
      BY <1>1, <1>2, <1>3, <1>6, <2>2 DEF CallInv, AnswerIsCurrent
  <1>7. QED
    BY <1>1, <1>4, <1>5, <1>6 DEF MayAnswer

\* What a step of the caller c leaves of it; the type is part of it.
Own(c) == RouterTypeOK' /\ CallInv(c)' /\ SessionInv(c)'

LEMMA WaitOwn ==
  ASSUME RouterInv, NEW c \in Callers, WaitReady(c) PROVE Own(c) /\ ReadyInv'
  <1>1. UNCHANGED <<lookup, rrCounters, calls, sessions, window, row, routed, attempts>>
          /\ waited' = waited \cup {c} /\ calls[c].pc = "idle" /\ ready
    BY DEF WaitReady
  <1>2. RouterTypeOK'
    BY <1>1 DEF RouterInv, RouterTypeOK, RowTypeOK, lookup
  <1>3. CallInv(c)' /\ SessionInv(c)'
    BY <1>1, OthersKeep DEF RouterInv, lookup
  <1>4. ReadyInv'
    BY <1>1 DEF RouterInv, ReadyInv, ReadyMeansRoutable, lookup
  <1>5. QED
    BY <1>2, <1>3, <1>4 DEF Own

LEMMA InvokeOwn ==
  ASSUME RouterInv, NEW c \in Callers, NEW kind \in KindsOf[c], NEW key \in Keys,
         Invokes(c, kind, key)
  PROVE  Own(c) /\ ReadyInv'
  <1> DEFINE new == [Idle EXCEPT !.pc = "called", !.kind = kind, !.key = key]
  <1>1. kind \in Kinds
    BY KindsAssumption
  <1>2. /\ new \in CallRecords /\ new.pc = "called" /\ new.error = "none"
        /\ calls'[c] = new /\ calls' \in [Callers -> CallRecords]
        /\ calls[c].pc = "idle"
    BY <1>1, IdleType DEF Invokes, Idle, CallRecords, RouterInv, RouterTypeOK
  <1>3. sessions'[c].tried = sessions[c].tried
          /\ sessions' \in [Callers -> [key : Keys, tried : SUBSET Squid]]
    BY DEF Invokes, RouterInv, RouterTypeOK
  <1>4. window'[c] = {cell} /\ window' \in [Callers -> SUBSET MaybeAssignment]
    BY DEF Invokes, RouterInv, RouterTypeOK
  <1>5. RouterTypeOK'
    BY <1>2, <1>3, <1>4 DEF Invokes, RouterInv, RouterTypeOK, RowTypeOK, lookup
  <1>6. CallInv(c)'
    <2>1. cell' = cell
      BY DEF Invokes, lookup
    <2>2. QED
      BY <1>2, <1>4, <2>1 DEF CallInv
  <1>7. SessionInv(c)'
    BY <1>2, <1>3 DEF Invokes, RouterInv, SessionInv, Contacts
  <1>8. ReadyInv'
    BY <1>2 DEF Invokes, RouterInv, RouterTypeOK, ReadyInv, ReadyMeansRoutable, lookup
  <1>9. QED
    BY <1>5, <1>6, <1>7, <1>8 DEF Own

LEMMA LoadsOwn ==
  ASSUME RouterInv, NEW c \in Callers, Loads(c) PROVE Own(c) /\ ReadyInv'
  <1> DEFINE error == RouteAllError(cell, calls[c].key)
             new == [calls[c] EXCEPT !.pc = IF error = "none" THEN "loaded" ELSE "returned",
                                     !.snapshot = cell, !.error = error]
  <1>1. /\ calls[c] \in CallRecords /\ calls[c].key \in Keys /\ calls[c].pc = "called"
        /\ cell \in MaybeAssignment /\ cell \in window[c]
    BY DEF Loads, RouterInv, RouterTypeOK, CallInv, CallRecords
  <1>2. /\ error \in {"none", "NoAssignmentAvailable"}
        /\ error = "none" <=> cell # NoAssignment
    BY <1>1, ReplicasType DEF RouteAllError, MaybeAssignment
  <1>3. /\ new \in CallRecords /\ calls'[c] = new /\ calls' \in [Callers -> CallRecords]
        /\ \A d \in Callers \ {c} : calls'[d] = calls[d]
    <2>1. new \in CallRecords
      BY <1>1, <1>2 DEF CallRecords, Errors
    <2>2. calls \in [Callers -> CallRecords] /\ calls' = [calls EXCEPT ![c] = new]
      BY DEF Loads, RouterInv, RouterTypeOK
    <2>3. QED
      BY <2>1, <2>2
  <1>4. /\ calls'[c].pc = IF cell # NoAssignment THEN "loaded" ELSE "returned"
        /\ calls'[c].snapshot = cell /\ calls'[c].error = error
        /\ calls'[c].key = calls[c].key
    BY <1>1, <1>2, <1>3 DEF CallRecords
  <1>5. RouterTypeOK'
    BY <1>3 DEF Loads, RouterInv, RouterTypeOK, RowTypeOK, lookup
  <1>6. CallInv(c)'
    BY <1>1, <1>2, <1>4 DEF Loads, CallInv, AnswerIsCurrent, lookup
  <1>7. SessionInv(c)'
    BY <1>1, <1>2, <1>4 DEF Loads, RouterInv, SessionInv, Contacts
  <1>8. ReadyInv'
    BY <1>2, <1>3, <1>4 DEF Loads, RouterInv, RouterTypeOK, ReadyInv, ReadyMeansRoutable, lookup
  <1>9. QED
    BY <1>5, <1>6, <1>7, <1>8 DEF Own

\* What each way to finish a call shares with the others.
LEMMA FinishOwn ==
  ASSUME RouterInv, NEW c \in Callers, calls[c].pc = "loaded",
         NEW error \in {"none", "AllReplicasExhausted"}, NEW result \in Seq(Squid),
         Returned(c, error, result),
         UNCHANGED <<lookup, sessions, window, waited>>,
         CallInv(c)', SessionInv(c)',
         rrCounters' \in 0..(Modulus - 1), RowTypeOK', routed' \in Nat,
         attempts' \in [Callers -> Nat]
  PROVE  Own(c) /\ ReadyInv'
  <1>1. calls' \in [Callers -> CallRecords] /\ calls'[c].error = error
          /\ \A d \in Callers \ {c} : calls'[d] = calls[d]
    BY ReturnedFacts DEF Closed, RouterInv, RouterTypeOK, Errors
  <1>2. RouterTypeOK'
    BY <1>1 DEF RouterInv, RouterTypeOK, RowTypeOK, lookup
  <1>3. ReadyInv'
    BY <1>1 DEF RouterInv, RouterTypeOK, ReadyInv, ReadyMeansRoutable, lookup
  <1>4. QED
    BY <1>2, <1>3 DEF Own

\* One more at the place k.
LEMMA OneMore ==
  ASSUME NEW n \in Nat, NEW f \in [1..n -> Nat], NEW k \in 1..n
  PROVE  LET g == [f EXCEPT ![k] = @ + 1] IN
         /\ g \in [1..n -> Nat]
         /\ \A j \in 1..n : g[j] = f[j] + (IF j = k THEN 1 ELSE 0)
  <1> DEFINE g == [f EXCEPT ![k] = @ + 1]
  <1>1. f[k] + 1 \in Nat
    OBVIOUS
  <1>2. g \in [1..n -> Nat] /\ \A j \in 1..n : g[j] = IF j = k THEN f[k] + 1 ELSE f[j]
    BY <1>1
  <1>3. ASSUME NEW j \in 1..n PROVE g[j] = f[j] + (IF j = k THEN 1 ELSE 0)
    <2>1. f[j] \in Nat
      OBVIOUS
    <2>2. QED
      BY <1>2, <2>1
  <1>4. QED
    BY <1>2, <1>3

\* The addition of Route, and the row it makes of the one before: it goes on for the
\* same replicas, and begins anew for others.
LEMMA RowStep ==
  ASSUME RouterTypeOK, NEW c \in Callers, CallInv(c), FinishRoute(c),
         NEW n, n = Len(Replicas(c)), NEW index, index = rrCounters' % n
  PROVE  /\ n \in Nat \ {0} /\ index \in 0..(n - 1)
         /\ row'.replicas = Replicas(c) /\ DOMAIN Replicas(c) = 1..n
         /\ RowTypeOK'
         /\ \/ /\ row.replicas = Replicas(c)
               /\ \A j \in 1..n :
                    row'.shares[j] = row.shares[j] + (IF j = index + 1 THEN 1 ELSE 0)
               /\ row'.wrapped <=> row.wrapped \/ rrCounters' = 0
            \/ \A j \in 1..n : row'.shares[j] = IF j = index + 1 THEN 1 ELSE 0
  <1>1. calls[c].pc = "loaded" /\ rrCounters' = (rrCounters + 1) % Modulus
          /\ row' = RowWith(Replicas(c), rrCounters', index)
    BY DEF FinishRoute
  <1>2. /\ Replicas(c) \in Seq(Squid) /\ n \in Nat \ {0} /\ DOMAIN Replicas(c) = 1..n
        /\ rrCounters' \in Nat
    BY <1>1, LoadedFacts, ModulusAssumption DEF RouterTypeOK
  <1>3. index \in 0..(n - 1) /\ index + 1 \in 1..n
    <2>1. index \in 0..(n - 1)
      BY <1>2, DivisionFacts
    <2>2. QED
      BY <1>2, <2>1
  <1>4. CASE row.replicas = Replicas(c)
    <2>1. /\ row'.replicas = Replicas(c)
          /\ row'.shares = [row.shares EXCEPT ![index + 1] = @ + 1]
          /\ row'.wrapped = (row.wrapped \/ rrCounters' = 0)
      BY <1>1, <1>4 DEF RowWith
    <2>2. row.shares \in [1..n -> Nat] /\ row.wrapped \in BOOLEAN
      BY <1>2, <1>4 DEF RouterTypeOK, RowTypeOK
    <2>3. row'.shares \in [1..n -> Nat]
          /\ \A j \in 1..n :
               row'.shares[j] = row.shares[j] + (IF j = index + 1 THEN 1 ELSE 0)
      BY <1>2, <1>3, <2>1, <2>2, OneMore
    <2>4. row'.wrapped \in BOOLEAN
      BY <2>1, <2>2
    <2>5. RowTypeOK'
      BY <1>2, <2>1, <2>3, <2>4 DEF RowTypeOK
    <2>6. QED
      BY <1>2, <1>3, <1>4, <2>1, <2>3, <2>5
  <1>5. CASE row.replicas # Replicas(c)
    <2>1. /\ row'.replicas = Replicas(c) /\ row'.wrapped = FALSE
          /\ row'.shares = [j \in 1..n |-> IF j = index + 1 THEN 1 ELSE 0]
      BY <1>1, <1>2, <1>5 DEF RowWith
    <2>2. row'.shares \in [1..n -> Nat]
            /\ \A j \in 1..n : row'.shares[j] = IF j = index + 1 THEN 1 ELSE 0
      BY <2>1
    <2>3. RowTypeOK'
      BY <1>2, <2>1, <2>2 DEF RowTypeOK
    <2>4. QED
      BY <1>2, <1>3, <2>1, <2>2, <2>3
  <1>6. QED
    BY <1>4, <1>5

\* Calls other than retries leave the caller's session alone.
LEMMA RouteOwn ==
  ASSUME RouterInv, NEW c \in Callers,
         FinishRouteAll(c) \/ FinishSingle(c) \/ FinishRoute(c) \/ FinishTwoLevel(c)
  PROVE  Own(c) /\ ReadyInv'
  <1>1. /\ calls[c].pc = "loaded" /\ calls[c].kind # "RouteWithRetry"
        /\ UNCHANGED <<lookup, sessions, window, waited, attempts>>
        /\ RouterTypeOK /\ CallInv(c) /\ SessionInv(c)
    BY DEF FinishRouteAll, FinishSingle, FinishRoute, FinishTwoLevel, RouterInv
  <1>0. ASSUME NEW i \in 1..Len(Replicas(c)) PROVE <<Replicas(c)[i]>> \in Seq(Squid)
    BY <1>1, LoadedFacts
  <1>2. PICK result \in Seq(Squid) :
          /\ Returned(c, "none", result)
          /\ \/ calls[c].kind = "RouteAll" /\ result = Replicas(c)
             \/ calls[c].kind # "RouteAll"
                  /\ \E i \in 1..Len(Replicas(c)) : result = <<Replicas(c)[i]>>
    <2>1. CASE FinishRouteAll(c)
      BY <1>1, <2>1, LoadedFacts DEF FinishRouteAll
    <2>2. CASE FinishSingle(c)
      BY <1>0, <1>1, <2>2, LoadedFacts DEF FinishSingle
    <2>3. CASE FinishRoute(c)
      <3> DEFINE n == Len(Replicas(c))
                 index == ((rrCounters + 1) % Modulus) % n
      <3>1. n \in Nat \ {0} /\ rrCounters \in Nat /\ Modulus \in Nat \ {0}
        BY <1>1, LoadedFacts, ModulusAssumption DEF RouterTypeOK
      <3>2. (rrCounters + 1) % Modulus \in Nat
        BY <3>1
      <3>3. index + 1 \in 1..n
        BY <3>1, <3>2
      <3>4. QED
        BY <1>0, <2>3, <3>3 DEF FinishRoute
    <2>4. CASE FinishTwoLevel(c)
      <3>1. PICK s \in SecondaryKeys :
              Returned(c, "none", <<Replicas(c)[(HashOf[s] % Len(Replicas(c))) + 1]>>)
        BY <2>4 DEF FinishTwoLevel
      <3>2. (HashOf[s] % Len(Replicas(c))) + 1 \in 1..Len(Replicas(c))
        BY <1>1, LoadedFacts, HashAssumption
      <3>3. QED
        BY <1>0, <2>4, <3>1, <3>2 DEF FinishTwoLevel
    <2>5. QED
      BY <2>1, <2>2, <2>3, <2>4
  <1>3. calls'[c].kind = calls[c].kind /\ CallInv(c)'
    <2>1. "none" \in Errors /\ cell' = cell /\ sessions' = sessions /\ window' = window
      BY <1>1 DEF Errors, lookup
    <2>2. Closed(c, "none", result) /\ CallInv(c)'
      <3>1. RouterTypeOK /\ CallInv(c) /\ calls[c].pc = "loaded" /\ Returned(c, "none", result)
        BY <1>1, <1>2
      <3>2. MayAnswer(c, "none", result)
        BY <1>2 DEF MayAnswer
      <3>3. QED
        BY <2>1, <3>1, <3>2, AnswerFacts
    <2>3. QED
      BY <2>2 DEF Closed
  <1>4. SessionInv(c)'
    BY <1>1, <1>3 DEF SessionInv, Contacts
  <1>5. rrCounters' \in 0..(Modulus - 1) /\ RowTypeOK' /\ routed' \in Nat
    <2>1. CASE FinishRoute(c)
      <3>1. rrCounters \in Nat /\ Modulus \in Nat \ {0}
        BY <1>1, ModulusAssumption DEF RouterTypeOK
      <3>2. rrCounters' = (rrCounters + 1) % Modulus
        BY <2>1 DEF FinishRoute
      <3>3. rrCounters' \in 0..(Modulus - 1)
        BY <3>1, <3>2
      <3>4. RowTypeOK'
        BY <1>1, <2>1, RowStep
      <3>5. routed' \in Nat
        BY <1>1, <2>1 DEF FinishRoute, RouterTypeOK
      <3>6. QED
        BY <3>3, <3>4, <3>5
    <2>2. CASE ~FinishRoute(c)
      BY <1>1, <2>2 DEF FinishRouteAll, FinishSingle, FinishTwoLevel, RouterTypeOK, RowTypeOK
    <2>3. QED
      BY <2>1, <2>2
  <1>6. attempts' \in [Callers -> Nat]
    BY <1>1 DEF RouterTypeOK
  <1>7. QED
    BY <1>1, <1>2, <1>3, <1>4, <1>5, <1>6, FinishOwn

\* Between two attempts all that were contacted have been tried.
LEMMA IdleSession ==
  ASSUME NEW c \in Callers, SessionInv(c), ~Contacts(c)
  PROVE  IsFiniteSet(sessions[c].tried) /\ attempts[c] = Cardinality(sessions[c].tried)
  <1>1. IsFiniteSet(sessions[c].tried) /\ Cardinality(sessions[c].tried) \in Nat
    BY FS_CardinalityType DEF SessionInv
  <1>2. attempts[c] = Cardinality(sessions[c].tried) + 0
    BY DEF SessionInv
  <1>3. QED
    BY <1>1, <1>2

\* A retry contacts a replica that was not tried, or ends with none.
LEMMA RetryOwn ==
  ASSUME RouterInv, NEW c \in Callers, FinishRetry(c) \/ Exhausts(c)
  PROVE  Own(c) /\ ReadyInv'
  <1>1. /\ calls[c].pc = "loaded" /\ calls[c].kind = "RouteWithRetry"
        /\ UNCHANGED <<lookup, rrCounters, sessions, window, waited, row, routed>>
        /\ RouterTypeOK /\ CallInv(c) /\ SessionInv(c) /\ ~Contacts(c)
    BY DEF FinishRetry, Exhausts, RouterInv, Contacts
  <1>2. /\ cell' = cell /\ sessions' = sessions /\ window' = window
        /\ rrCounters' \in 0..(Modulus - 1) /\ RowTypeOK' /\ routed' \in Nat
        /\ "none" \in Errors /\ "AllReplicasExhausted" \in Errors
    BY <1>1 DEF lookup, RouterTypeOK, RowTypeOK, Errors
  <1>3. attempts[c] = Cardinality(sessions[c].tried)
    BY <1>1, IdleSession
  <1>4. CASE FinishRetry(c)
    <2>1. PICK i \in Untried(c) : Returned(c, "none", <<Replicas(c)[i]>>)
      BY <1>4 DEF FinishRetry
    <2>2. i \in 1..Len(Replicas(c)) /\ Replicas(c)[i] \in Squid \ sessions[c].tried
      BY <1>1, LoadedFacts DEF Untried
    <2>3. <<Replicas(c)[i]>> \in Seq(Squid)
            /\ \E j \in 1..Len(Replicas(c)) : <<Replicas(c)[i]>> = <<Replicas(c)[j]>>
      <3>1. PICK x \in Squid : x = Replicas(c)[i]
        BY <2>2
      <3>2. <<x>> \in Seq(Squid)
        OBVIOUS
      <3>3. QED
        BY <2>2, <3>1, <3>2
    <2>4. Closed(c, "none", <<Replicas(c)[i]>>) /\ CallInv(c)'
      <3>1. PICK r \in Seq(Squid) : r = <<Replicas(c)[i]>>
        BY <2>3
      <3>2. Returned(c, "none", r) /\ \E j \in 1..Len(Replicas(c)) : r = <<Replicas(c)[j]>>
        BY <2>1, <2>3, <3>1
      <3>3. calls[c].pc = "loaded" /\ MayAnswer(c, "none", r)
        BY <1>1, <3>2 DEF MayAnswer
      <3>4. Closed(c, "none", r) /\ CallInv(c)'
        <4>1. RouterTypeOK /\ CallInv(c)
          BY <1>1, <3>3
        <4>2. QED
          BY <1>2, <3>2, <3>3, <4>1, AnswerFacts
      <3>5. QED
        BY <3>1, <3>4
    <2>5. calls'[c].result[1] = Replicas(c)[i] /\ Contacts(c)'
      BY <1>1, <2>4 DEF Closed, Contacts
    <2>6. attempts' = [attempts EXCEPT ![c] = @ + 1]
      BY <1>4 DEF FinishRetry
    <2>7. attempts' \in [Callers -> Nat] /\ attempts'[c] = attempts[c] + 1
      BY <1>1, <2>6 DEF RouterTypeOK
    <2>8. SessionInv(c)'
      BY <1>1, <1>2, <1>3, <2>2, <2>5, <2>7 DEF SessionInv
    <2>9. QED
      BY <1>1, <1>2, <2>1, <2>3, <2>4, <2>7, <2>8, FinishOwn
  <1>5. CASE Exhausts(c)
    <2>1. Returned(c, "AllReplicasExhausted", << >>) /\ Untried(c) = {} /\ attempts' = attempts
            /\ << >> \in Seq(Squid)
      BY <1>5 DEF Exhausts
    <2>2. Closed(c, "AllReplicasExhausted", << >>) /\ CallInv(c)'
      <3>1. MayAnswer(c, "AllReplicasExhausted", << >>)
        BY <1>1, <2>1 DEF MayAnswer
      <3>2. QED
        BY <1>1, <1>2, <2>1, <3>1, AnswerFacts
    <2>3. ~Contacts(c)'
      BY <2>2 DEF Closed, Contacts
    <2>4. SessionInv(c)' /\ attempts' \in [Callers -> Nat]
      BY <1>1, <1>2, <1>3, <2>1, <2>3 DEF SessionInv, RouterTypeOK
    <2>5. QED
      BY <1>1, <1>2, <2>1, <2>2, <2>4, FinishOwn
  <1>6. QED
    BY <1>4, <1>5

\* The caller becomes idle, with the session given to it.
LEMMA IdleOwn ==
  ASSUME RouterInv, NEW c \in Callers,
         calls' = [calls EXCEPT ![c] = Idle], window' = [window EXCEPT ![c] = {}],
         UNCHANGED <<lookup, rrCounters, waited, row, routed>>,
         sessions' \in [Callers -> [key : Keys, tried : SUBSET Squid]],
         attempts' \in [Callers -> Nat],
         IsFiniteSet(sessions'[c].tried), attempts'[c] = Cardinality(sessions'[c].tried)
  PROVE  Own(c) /\ ReadyInv'
  <1>1. /\ calls' \in [Callers -> CallRecords] /\ calls'[c].pc = "idle"
        /\ \A d \in Callers \ {c} : calls'[d] = calls[d]
    BY IdleType DEF RouterInv, RouterTypeOK, Idle
  <1>2. RouterTypeOK'
    BY <1>1 DEF RouterInv, RouterTypeOK, RowTypeOK, lookup
  <1>3. CallInv(c)' /\ SessionInv(c)'
    BY <1>1 DEF CallInv, SessionInv, Contacts
  <1>4. ReadyInv'
    BY <1>1 DEF RouterInv, RouterTypeOK, ReadyInv, ReadyMeansRoutable, lookup
  <1>5. QED
    BY <1>2, <1>3, <1>4 DEF Own

LEMMA EndsOwn ==
  ASSUME RouterInv, NEW c \in Callers, Ends(c) PROVE Own(c) /\ ReadyInv'
  <1>1. /\ calls' = [calls EXCEPT ![c] = Idle] /\ window' = [window EXCEPT ![c] = {}]
        /\ UNCHANGED <<lookup, rrCounters, waited, row, routed>>
    BY DEF Ends
  <1>2. RouterTypeOK /\ SessionInv(c)
    BY DEF RouterInv
  <1>3. CASE calls[c].kind = "RouteWithRetry"
    <2>1. sessions' = [sessions EXCEPT ![c] = NoSession] /\ attempts' = [attempts EXCEPT ![c] = 0]
      BY <1>3 DEF Ends
    <2>2. /\ sessions' \in [Callers -> [key : Keys, tried : SUBSET Squid]]
          /\ attempts' \in [Callers -> Nat]
          /\ sessions'[c].tried = {} /\ attempts'[c] = 0
      BY <1>2, <2>1, IdleType DEF RouterTypeOK, NoSession
    <2>3. IsFiniteSet({}) /\ Cardinality({}) = 0
      BY FS_EmptySet
    <2>4. QED
      BY <1>1, <2>2, <2>3, IdleOwn
  <1>4. CASE calls[c].kind # "RouteWithRetry"
    <2>1. sessions' = sessions /\ attempts' = attempts /\ ~Contacts(c)
      BY <1>4 DEF Ends, Contacts
    <2>2. IsFiniteSet(sessions'[c].tried) /\ attempts'[c] = Cardinality(sessions'[c].tried)
      BY <1>2, <2>1, IdleSession
    <2>3. QED
      BY <1>1, <1>2, <2>1, <2>2, IdleOwn DEF RouterTypeOK
  <1>5. QED
    BY <1>3, <1>4

\* The replica that failed is new among the tried ones.
LEMMA FailsOwn ==
  ASSUME RouterInv, NEW c \in Callers, ReplicaFails(c) PROVE Own(c) /\ ReadyInv'
  <1> DEFINE sq == calls[c].result[1]
  <1>1. /\ calls' = [calls EXCEPT ![c] = Idle] /\ window' = [window EXCEPT ![c] = {}]
        /\ UNCHANGED <<lookup, rrCounters, waited, row, routed>> /\ attempts' = attempts
        /\ sessions' = [sessions EXCEPT ![c].tried = @ \cup {sq}]
        /\ Contacts(c)
    BY DEF ReplicaFails, Contacts
  <1>2. RouterTypeOK /\ SessionInv(c)
    BY DEF RouterInv
  <1>3. /\ sq \in Squid \ sessions[c].tried /\ IsFiniteSet(sessions[c].tried)
        /\ attempts[c] = Cardinality(sessions[c].tried) + 1
    BY <1>1, <1>2 DEF SessionInv
  <1>4. IsFiniteSet(sessions[c].tried \cup {sq})
          /\ Cardinality(sessions[c].tried \cup {sq}) = Cardinality(sessions[c].tried) + 1
    BY <1>3, FS_AddElement
  <1>5. /\ sessions' \in [Callers -> [key : Keys, tried : SUBSET Squid]]
        /\ sessions'[c].tried = sessions[c].tried \cup {sq}
    BY <1>1, <1>2, <1>3 DEF RouterTypeOK
  <1>6. attempts' \in [Callers -> Nat]
    BY <1>1, <1>2 DEF RouterTypeOK
  <1>7. QED
    BY <1>1, <1>3, <1>4, <1>5, <1>6, IdleOwn

-----------------------------------------------------------------------------
\* The lookup moves on: readiness and the assignment stay, and every call that
\* may still load or has loaded the cell has the new assignment in its window.
LEMMA LookupStep ==
  ASSUME RouterInv, LookupMoves
  PROVE  RouterTypeOK' /\ ReadyInv' /\ \A c \in Callers : CallInv(c)' /\ SessionInv(c)'
  <1>1. /\ UNCHANGED <<rrCounters, calls, sessions, waited, row, routed, attempts>>
        /\ window' = [c \in Callers |->
             IF calls[c].pc \in {"called", "loaded"} THEN window[c] \cup {cell'} ELSE window[c]]
    BY DEF LookupMoves
  <1>2. /\ status' \in Lookup!Statuses /\ cell' \in MaybeAssignment /\ ready' \in BOOLEAN
        /\ (ready => ready') /\ (ready' => cell' # NoAssignment)
    <2>1. /\ status \in Lookup!Statuses /\ cell \in MaybeAssignment /\ ready \in BOOLEAN
          /\ ready => cell # NoAssignment
      BY DEF RouterInv, RouterTypeOK, ReadyInv
    <2>2. CASE Lookup!Start \/ Lookup!Cancel \/ Lookup!Exit
      BY <2>1, <2>2 DEF Lookup!Start, Lookup!Cancel, Lookup!Exit, Lookup!Statuses
    <2>3. CASE Lookup!Publish
      <3>1. cell' \in Assignment /\ status' = status /\ ready' = ready
        BY <2>3 DEF Lookup!Publish
      <3>2. QED
        BY <2>1, <3>1, NilAssumption DEF MaybeAssignment
    <2>4. CASE Lookup!Signal
      BY <2>1, <2>4 DEF Lookup!Signal
    <2>5. QED
      BY <2>2, <2>3, <2>4 DEF LookupMoves, Lookup!Next
  <1>3. window' \in [Callers -> SUBSET MaybeAssignment]
    BY <1>1, <1>2 DEF RouterInv, RouterTypeOK
  <1>4. RouterTypeOK'
    BY <1>1, <1>2, <1>3 DEF RouterInv, RouterTypeOK, RowTypeOK
  <1>5. ReadyInv'
    <2>1. ReadyMeansRoutable' /\ (waited' # {} => ready')
      BY <1>1, <1>2 DEF RouterInv, ReadyInv, ReadyMeansRoutable
    <2>2. QED
      BY <1>2, <2>1 DEF ReadyInv
  <1>6. ASSUME NEW c \in Callers PROVE CallInv(c)' /\ SessionInv(c)'
    <2>1. SessionInv(c)'
      BY <1>1 DEF RouterInv, SessionInv, Contacts
    <2>2. CASE calls[c].pc \in {"called", "loaded"}
      <3>1. window'[c] = window[c] \cup {cell'} /\ calls'[c] = calls[c] /\ CallInv(c)
        BY <1>1, <2>2 DEF RouterInv
      <3>2. QED
        BY <2>1, <2>2, <3>1 DEF CallInv
    <2>3. CASE calls[c].pc \notin {"called", "loaded"}
      <3>1. /\ window'[c] = window[c] /\ calls'[c] = calls[c] /\ sessions'[c] = sessions[c]
            /\ CallInv(c)
        BY <1>1, <2>3 DEF RouterInv
      <3>2. QED
        BY <2>1, <2>3, <3>1 DEF CallInv, AnswerIsCurrent, Answers
    <2>4. QED
      BY <2>1, <2>2, <2>3
  <1>7. QED
    BY <1>4, <1>5, <1>6

-----------------------------------------------------------------------------
(* The counter *)

\* A step that leaves the counter alone leaves its history alone.
LEMMA SpreadStays ==
  ASSUME SpreadInv, UNCHANGED <<rrCounters, row, routed>>
  PROVE  SpreadInv'
  BY DEF SpreadInv

\* The addition goes on to the next of the n replicas, to the first one after the
\* last; so it does at the wrap if n divides the modulus.
LEMMA NextInTurn ==
  ASSUME rrCounters \in 0..(Modulus - 1), rrCounters' = (rrCounters + 1) % Modulus,
         NEW n \in Nat \ {0}, rrCounters' # 0 \/ Modulus % n = 0
  PROVE  rrCounters' % n = IF rrCounters % n = n - 1 THEN 0 ELSE (rrCounters % n) + 1
  <1>1. rrCounters \in Nat /\ Modulus \in Nat \ {0} /\ rrCounters % Modulus = rrCounters
    BY ModulusAssumption
  <1>2. rrCounters' = IF rrCounters = Modulus - 1 THEN 0 ELSE rrCounters + 1
    BY <1>1, CounterFacts
  <1>3. (rrCounters + 1) % n = IF rrCounters % n = n - 1 THEN 0 ELSE (rrCounters % n) + 1
    BY <1>1, CounterFacts
  <1>4. CASE rrCounters # Modulus - 1
    BY <1>2, <1>3, <1>4
  <1>5. CASE rrCounters = Modulus - 1
    <2>1. rrCounters + 1 = Modulus /\ rrCounters' = 0 /\ Modulus % n = 0
      BY <1>1, <1>2, <1>5
    <2>2. rrCounters' % n = 0
      BY <2>1
    <2>3. (rrCounters + 1) % n = 0
      BY <2>1
    <2>4. rrCounters % n \in 0..(n - 1)
      BY <1>1, DivisionFacts
    <2>5. QED
      BY <1>3, <2>2, <2>3, <2>4
  <1>6. QED
    BY <1>4, <1>5

\* The places a row has gone round to once more, after one more of them.
LEMMA MetFacts ==
  ASSUME NEW n \in Nat \ {0}, NEW first \in 0..(n - 1), NEW last \in 0..(n - 1),
         NEW index \in 0..(n - 1), index = IF last = n - 1 THEN 0 ELSE last + 1,
         NEW i \in 0..(n - 1)
  PROVE  /\ Met(index, index, i) <=> i = index
         /\ index = first => Met(first, last, i)
         /\ index # first => /\ ~Met(first, last, index)
                             /\ Met(first, index, i) <=> Met(first, last, i) \/ i = index
  BY DEF Met

\* A row that goes on does so where it was; a new one begins with its first replica.
LEMMA RouteSpreads ==
  ASSUME RouterTypeOK, SpreadInv, NEW c \in Callers, CallInv(c), FinishRoute(c)
  PROVE  SpreadInv'
  <1>1. PICK n : n = Len(Replicas(c))
    OBVIOUS
  <1>2. PICK index : index = rrCounters' % n
    OBVIOUS
  <1>3. PICK last : last = rrCounters % n
    OBVIOUS
  <1>4. /\ n \in Nat \ {0} /\ index \in 0..(n - 1)
        /\ row'.replicas = Replicas(c) /\ DOMAIN Replicas(c) = 1..n
    BY <1>1, <1>2, RowStep
  <1>5. last \in 0..(n - 1)
    BY <1>3, <1>4, DivisionFacts, ModulusAssumption DEF RouterTypeOK
  <1>6. \A i \in 0..(n - 1) : i + 1 \in 1..n /\ (i + 1 = index + 1 <=> i = index)
    BY <1>4
  <1>7. ASSUME row'.wrapped => Modulus % n = 0
        PROVE  \E first \in 0..(n - 1) : \A i \in 0..(n - 1) :
                 row'.shares[i + 1] =
                   row'.shares[index + 1] - (IF Met(first, index, i) THEN 0 ELSE 1)
    <2>1. CASE \A j \in 1..n : row'.shares[j] = IF j = index + 1 THEN 1 ELSE 0
      <3>1. ASSUME NEW i \in 0..(n - 1)
            PROVE  row'.shares[i + 1] =
                     row'.shares[index + 1] - (IF Met(index, index, i) THEN 0 ELSE 1)
        <4>1. Met(index, index, i) <=> i = index
          BY <1>4 DEF Met
        <4>2. row'.shares[i + 1] = IF i = index THEN 1 ELSE 0
          BY <1>6, <2>1
        <4>3. row'.shares[index + 1] = 1
          BY <1>4, <1>6, <2>1
        <4>4. QED
          BY <4>1, <4>2, <4>3
      <3>2. QED
        BY <1>4, <3>1
    <2>2. CASE /\ row.replicas = Replicas(c)
               /\ \A j \in 1..n :
                    row'.shares[j] = row.shares[j] + (IF j = index + 1 THEN 1 ELSE 0)
               /\ row'.wrapped <=> row.wrapped \/ rrCounters' = 0
      <3>1. rrCounters' # 0 \/ Modulus % n = 0
        BY <1>7, <2>2
      <3>2. rrCounters' = (rrCounters + 1) % Modulus /\ rrCounters \in 0..(Modulus - 1)
        BY DEF FinishRoute, RouterTypeOK
      <3>3. index = IF last = n - 1 THEN 0 ELSE last + 1
        BY <1>2, <1>3, <1>4, <3>1, <3>2, NextInTurn
      <3>4. Len(row.replicas) = n /\ n > 0 /\ (row.wrapped => Modulus % n = 0)
        BY <1>1, <1>4, <1>7, <2>2
      <3>5. PICK first \in 0..(n - 1) : \A i \in 0..(n - 1) :
              row.shares[i + 1] = row.shares[last + 1] - (IF Met(first, last, i) THEN 0 ELSE 1)
        BY <1>3, <3>4 DEF SpreadInv
      <3>6. ASSUME NEW i \in 0..(n - 1)
            PROVE  row.shares[i + 1] \in Nat
                   /\ row'.shares[i + 1] = row.shares[i + 1] + (IF i = index THEN 1 ELSE 0)
        <4>1. row.shares \in [1..n -> Nat]
          BY <1>4, <2>2 DEF RouterTypeOK, RowTypeOK
        <4>2. QED
          BY <1>6, <2>2, <4>1
      <3>7. CASE index = first
        <4>1. ASSUME NEW i \in 0..(n - 1)
              PROVE  row'.shares[i + 1] =
                       row'.shares[index + 1] - (IF Met(index, index, i) THEN 0 ELSE 1)
          <5>1. Met(first, last, i) /\ Met(first, last, index) /\ (Met(index, index, i) <=> i = index)
            BY <1>4, <1>5, <3>3, <3>7, MetFacts
          <5>2. row.shares[i + 1] = row.shares[last + 1] - 0
                  /\ row.shares[index + 1] = row.shares[last + 1] - 0
            BY <1>4, <3>5, <5>1
          <5>3. QED
            BY <1>4, <1>5, <3>6, <5>1, <5>2
        <4>2. QED
          BY <1>4, <4>1
      <3>8. CASE index # first
        <4>1. ASSUME NEW i \in 0..(n - 1)
              PROVE  row'.shares[i + 1] =
                       row'.shares[index + 1] - (IF Met(first, index, i) THEN 0 ELSE 1)
          <5>1. ~Met(first, last, index) /\ (Met(first, index, i) <=> Met(first, last, i) \/ i = index)
            BY <1>4, <1>5, <3>3, <3>8, MetFacts
          <5>2. row.shares[i + 1] = row.shares[last + 1] - (IF Met(first, last, i) THEN 0 ELSE 1)
                  /\ row.shares[index + 1] = row.shares[last + 1] - 1
            BY <1>4, <3>5, <5>1
          <5>3. CASE i = index
            BY <1>4, <1>5, <3>6, <5>1, <5>2, <5>3
          <5>4. CASE i # index
            BY <1>4, <1>5, <3>6, <5>1, <5>2, <5>4
          <5>5. QED
            BY <5>3, <5>4
        <4>2. QED
          BY <4>1
      <3>9. QED
        BY <3>7, <3>8
    <2>3. QED
      BY <1>1, <1>2, <2>1, <2>2, RowStep
  <1>8. Len(row'.replicas) = n
    BY <1>1, <1>4
  <1>9. QED
    BY <1>2, <1>7, <1>8 DEF SpreadInv

\* No other step touches the counter.
LEMMA SpreadStep == ASSUME RouterInv, [RouterNext]_vars PROVE SpreadInv'
  <1>1. CASE UNCHANGED <<rrCounters, row, routed>>
    BY <1>1, SpreadStays DEF RouterInv
  <1>2. CASE \E c \in Callers : FinishRoute(c)
    BY <1>2, RouteSpreads DEF RouterInv
  <1>3. ASSUME NEW c \in Callers, CallerStep(c), ~FinishRoute(c)
        PROVE  UNCHANGED <<rrCounters, row, routed>>
    <2>1. CASE WaitReady(c) \/ Loads(c)
      BY <2>1 DEF WaitReady, Loads
    <2>2. CASE \E kind \in KindsOf[c], key \in Keys : Invokes(c, kind, key)
      BY <2>2 DEF Invokes
    <2>3. CASE FinishRouteAll(c) \/ FinishSingle(c) \/ FinishTwoLevel(c)
      BY <2>3 DEF FinishRouteAll, FinishSingle, FinishTwoLevel
    <2>4. CASE FinishRetry(c) \/ Exhausts(c)
      BY <2>4 DEF FinishRetry, Exhausts
    <2>5. CASE Ends(c) \/ ReplicaFails(c)
      BY <2>5 DEF Ends, ReplicaFails
    <2>6. QED
      BY <1>3, <2>1, <2>2, <2>3, <2>4, <2>5 DEF CallerStep
  <1>4. LookupMoves => UNCHANGED <<rrCounters, row, routed>>
    BY DEF LookupMoves
  <1>5. UNCHANGED vars => UNCHANGED <<rrCounters, row, routed>>
    BY DEF vars
  <1>6. QED
    BY <1>1, <1>2, <1>3, <1>4, <1>5 DEF RouterNext

-----------------------------------------------------------------------------
LEMMA RouterStep == RouterInv /\ [RouterNext]_vars => RouterInv'
  <1> SUFFICES ASSUME RouterInv, [RouterNext]_vars PROVE RouterInv'
    OBVIOUS
  <1>0. SpreadInv'
    BY SpreadStep
  <1>1. CASE LookupMoves
    BY <1>0, <1>1, LookupStep DEF RouterInv
  <1>2. ASSUME NEW c \in Callers, CallerStep(c) PROVE RouterInv'
    <2>1. Own(c) /\ ReadyInv'
      BY <1>2, WaitOwn, InvokeOwn, LoadsOwn, RouteOwn, RetryOwn, EndsOwn, FailsOwn DEF CallerStep
    <2>2. ASSUME NEW d \in Callers PROVE CallInv(d)' /\ SessionInv(d)'
      <3>1. CASE d = c
        BY <2>1, <3>1 DEF Own
      <3>2. CASE d # c
        BY <1>2, <3>2, CallerKeeps, OthersKeep DEF RouterInv, lookup
      <3>3. QED
        BY <3>1, <3>2
    <2>3. QED
      BY <1>0, <2>1, <2>2 DEF Own, RouterInv
  <1>3. CASE UNCHANGED vars
    <2>1. RouterTypeOK' /\ ReadyInv'
      BY <1>3 DEF vars, lookup, RouterInv, RouterTypeOK, RowTypeOK, ReadyInv, ReadyMeansRoutable
    <2>2. ASSUME NEW d \in Callers PROVE CallInv(d)' /\ SessionInv(d)'
      BY <1>3, OthersKeep DEF vars, lookup, RouterInv
    <2>3. QED
      BY <1>0, <2>1, <2>2 DEF RouterInv
  <1>4. QED
    BY <1>1, <1>2, <1>3 DEF RouterNext

-----------------------------------------------------------------------------
\* What calls and sessions know holds for any number of callers, keys, replicas
\* and assignments.
THEOREM RouterInvariance == RouterSpec => []RouterInv
  BY RouterInvInit, RouterStep, PTL DEF RouterSpec

\* The variables keep their types; the counter wraps and never leaves its range
\* (router.go:67).
THEOREM RouterTypeCorrect == RouterSpec => []RouterTypeOK
  <1>1. RouterInv => RouterTypeOK
    BY DEF RouterInv
  <1>2. QED
    BY <1>1, RouterInvariance, PTL

\* Every answer is that of one assignment that was current during the call
\* (router.go:39-50).
THEOREM RouterAnswersAreCurrent == RouterSpec => []RouteIsCurrent
  <1>1. RouterInv => RouteIsCurrent
    BY DEF RouterInv, CallInv, RouteIsCurrent
  <1>2. QED
    BY <1>1, RouterInvariance, PTL

\* Readiness is for good (clerk.go, WaitReady, and router.go:41).
THEOREM RouterStaysReady == RouterSpec => []ReadyMeansRoutable
  <1>1. RouterInv => ReadyMeansRoutable
    BY DEF RouterInv, ReadyInv
  <1>2. QED
    BY <1>1, RouterInvariance, PTL

\* Retries contact no incarnation twice (router.go:94-118).
THEOREM RouterRetriesOnce == RouterSpec => []RetryTriesEachOnce
  <1>1. RouterInv => RetryTriesEachOnce
    BY DEF RouterInv, SessionInv, RetryTriesEachOnce
  <1>2. QED
    BY <1>1, RouterInvariance, PTL

\* A row of calls for the same replicas shares them evenly, however many goroutines use
\* the counter and whatever they asked for before the row (router.go:66-67); its wrap is
\* excused unless the number of replicas divides the modulus.
THEOREM RouterSpreadsEvenly == RouterSpec => []EvenSpread
  <1>1. ASSUME RouterInv PROVE EvenSpread
    <2>1. PICK n \in Nat : n = Len(row.replicas) /\ DOMAIN row.replicas = 1..n
      BY <1>1 DEF RouterInv, RouterTypeOK, RowTypeOK
    <2>2. PICK last : last = rrCounters % n
      OBVIOUS
    <2>3. ASSUME row.wrapped => Modulus % n = 0, NEW i \in 1..n, NEW j \in 1..n
          PROVE  row.shares[i] - row.shares[j] <= 1
      <3>1. n \in Nat \ {0} /\ n > 0
        OBVIOUS
      <3>2. last \in 0..(n - 1)
        BY <1>1, <2>2, <3>1, DivisionFacts, ModulusAssumption DEF RouterInv, RouterTypeOK
      <3>3. PICK first \in 0..(n - 1) : \A k \in 0..(n - 1) :
              row.shares[k + 1] = row.shares[last + 1] - (IF Met(first, last, k) THEN 0 ELSE 1)
        BY <1>1, <2>1, <2>2, <2>3, <3>1 DEF RouterInv, SpreadInv
      <3>4. ASSUME NEW k \in 1..n
            PROVE  row.shares[k] \in {row.shares[last + 1] - 0, row.shares[last + 1] - 1}
        <4>1. PICK m \in 0..(n - 1) : m + 1 = k
          BY <3>1
        <4>2. QED
          BY <3>3, <4>1
      <3>5. row.shares[last + 1] \in Nat
        <4>1. row.shares \in [1..n -> Nat]
          BY <1>1, <2>1 DEF RouterInv, RouterTypeOK, RowTypeOK
        <4>2. last + 1 \in 1..n
          BY <3>1, <3>2
        <4>3. QED
          BY <4>1, <4>2
      <3>6. PICK m \in Nat : m = row.shares[last + 1]
        BY <3>5
      <3>7. row.shares[i] \in {m - 0, m - 1} /\ row.shares[j] \in {m - 0, m - 1}
        BY <3>4, <3>6
      <3>8. QED
        BY <3>7
    <2>4. QED
      BY <2>1, <2>3 DEF EvenSpread
  <1>2. QED
    BY <1>1, RouterInvariance, PTL
=============================================================================
