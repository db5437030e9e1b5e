-------------------------- MODULE SliceLookupProofs --------------------------
(***************************************************************************)
(* The driver for any number of requests, calls of Stop, servers and       *)
(* answers.  LookupInv says what every goroutine may be holding; with it   *)
(* each step of the driver is a step of the state machine, or none, and    *)
(* what is proved of the machine holds of the machine inside the driver.   *)
(***************************************************************************)
EXTENDS SliceLookup, AssignmentSyncStateMachineProofs, SequenceTheorems

\* "Newer" composes.
LEMMA NewerTransitive ==
  ASSUME NEW a \in Assignment, NEW b \in Assignment, NEW c \in Assignment,
         Newer(a, b), Newer(b, c)
  PROVE  Newer(a, c)
  <1>1. GenOf[a] \in Generations /\ GenOf[b] \in Generations /\ GenOf[c] \in Generations
    BY GenOfAssumption
  <1>2. Compare(GenOf[a], GenOf[b]) > 0 /\ Compare(GenOf[b], GenOf[c]) > 0
    BY NilAssumption DEF Newer
  <1>3. Compare(GenOf[a], GenOf[b]) \in {-1, 0, 1} /\ Compare(GenOf[b], GenOf[c]) \in {-1, 0, 1}
    BY <1>1, CompareRange
  <1>4. Compare(GenOf[a], GenOf[c]) > 0
    BY <1>1, <1>2, <1>3, CompareTransitive
  <1>5. QED
    BY <1>4 DEF Newer

\* What is not rejected is not older, and what is rejected had a newer one.
LEMMA NotRejected ==
  ASSUME NEW cur \in MaybeAssignment, NEW a \in Assignment
  PROVE  /\ ~Rejects(cur, a) => NotOlder(a, cur)
         /\ Rejects(cur, a) => cur # NoAssignment
         /\ NotOlder(cur, cur)
  <1>1. CASE cur = NoAssignment
    BY <1>1 DEF Rejects, NotOlder
  <1>2. CASE cur \in Assignment
    <2>1. GenOf[cur] \in Generations /\ GenOf[a] \in Generations
      BY <1>2, GenOfAssumption
    <2>2. Compare(GenOf[a], GenOf[cur]) \in {-1, 0, 1} /\ Compare(GenOf[cur], GenOf[cur]) = 0
      BY <2>1, CompareRange, CompareEqual
    <2>3. QED
      BY <1>2, <2>2, NilAssumption DEF Rejects, NotOlder
  <1>3. QED
    BY <1>1, <1>2 DEF MaybeAssignment

-----------------------------------------------------------------------------
\* An action that is held, read by its type.
LEMMA HeldFacts ==
  ASSUME NEW n, NEW act \in HeldAfter(n)
  PROVE  /\ act.type \in {"UseAssignment", "MarkReady", "SendRequest"}
         /\ act.type = "UseAssignment" => act.assignment \in Assignment /\ Known(act.assignment)
         /\ act.type = "MarkReady" => cell # NoAssignment
         /\ act.type = "SendRequest" =>
              /\ act.opID \in Ops /\ n < act.opID /\ act.opID <= sm.lastOpID
              /\ act.redirect \in MaybeAddress
  <1>1. CASE act \in [type : {"UseAssignment"}, assignment : {a \in Assignment : Known(a)}]
    BY <1>1
  <1>2. CASE act \in {x \in {MarkReady} : cell # NoAssignment}
    BY <1>2 DEF MarkReady
  <1>3. CASE act \in [type : {"SendRequest"}, opID : {op \in Ops : n < op /\ op <= sm.lastOpID},
                      redirect : MaybeAddress, syncState : SyncStates]
    BY <1>3
  <1>4. QED
    BY <1>1, <1>2, <1>3 DEF HeldAfter

\* What a step of the driver may do to what has been learnt, issued and published.
Grows ==
  /\ sm.assignment \in MaybeAssignment
  /\ sm.lastOpID \in Nat /\ sm'.lastOpID \in Nat /\ sm.lastOpID <= sm'.lastOpID
  /\ Learns(sm, sm')
  /\ cell' = cell \/ cell' \in Assignment

\* What was known stays known.
LEMMA KnownGrows ==
  ASSUME Grows, NEW a \in Assignment, Known(a)
  PROVE  Known(a)'
  <1>1. CASE sm'.assignment = sm.assignment
    BY <1>1 DEF Known
  <1>2. CASE sm'.assignment \in Assignment /\ Newer(sm'.assignment, sm.assignment)
    BY <1>2, NewerTransitive DEF Known
  <1>3. QED
    BY <1>1, <1>2 DEF Grows, Learns

\* What may be held stays so.
LEMMA HeldGrows ==
  ASSUME Grows, NEW n
  PROVE  HeldAfter(n) \subseteq HeldAfter(n)'
  <1>1. {a \in Assignment : Known(a)} \subseteq {a \in Assignment : Known(a)'}
    BY KnownGrows
  <1>2. [type : {"UseAssignment"}, assignment : {a \in Assignment : Known(a)}]
          \subseteq [type : {"UseAssignment"}, assignment : {a \in Assignment : Known(a)'}]
    BY <1>1
  <1>3. cell # NoAssignment => cell' # NoAssignment
    BY NilAssumption DEF Grows
  <1>4. \A op \in Ops : n < op /\ op <= sm.lastOpID => op <= sm'.lastOpID
    BY MaxOpsAssumption DEF Grows, Ops
  <1>5. [type : {"SendRequest"}, opID : {op \in Ops : n < op /\ op <= sm.lastOpID},
         redirect : MaybeAddress, syncState : SyncStates]
          \subseteq [type : {"SendRequest"}, opID : {op \in Ops : n < op /\ op <= sm'.lastOpID},
                     redirect : MaybeAddress, syncState : SyncStates]
    BY <1>4
  <1>6. QED
    BY <1>2, <1>3, <1>5 DEF HeldAfter

\* The actions of a call of the machine may be held after it.
LEMMA ActionsFacts ==
  ASSUME MachineInv(sm), MachineInv(sm)', Learns(sm, sm'), sm'.lastOpID <= MaxOps,
         sm'.lastOpID \in {sm.lastOpID, sm.lastOpID + 1}, NEW n \in Nat, n <= sm.lastOpID
  PROVE  Actions(sm, sm') \in Seq(HeldAfter(n)')
  <1> DEFINE H == HeldAfter(n)'
             use == IF sm'.assignment # sm.assignment THEN <<UseAssignment(sm')>> ELSE << >>
             send == IF sm'.lastOpID # sm.lastOpID THEN <<SendRequest(sm')>> ELSE << >>
  <1>1. sm'.lastOpID \in Nat /\ sm.lastOpID \in Nat /\ sm'.redirect \in MaybeAddress
        /\ sm'.assignment \in MaybeAssignment
    BY DEF MachineInv, Machines
  <1>2. sm'.assignment # sm.assignment => UseAssignment(sm') \in H
    BY DEF Learns, UseAssignment, HeldAfter, Known
  <1>3. SyncState(sm') \in SyncStates
    BY <1>1, GenOfAssumption DEF SyncState, KnownGen, SyncStates, KnownAssignment, KnownGeneration,
       MaybeAssignment, EmptyGeneration, Generations
  <1>4. sm'.lastOpID # sm.lastOpID => SendRequest(sm') \in H
    <2>1. sm'.lastOpID # sm.lastOpID => sm'.lastOpID \in Ops /\ n < sm'.lastOpID
      BY <1>1, MaxOpsAssumption DEF Ops
    <2>2. QED
      BY <1>1, <1>3, <2>1 DEF SendRequest, HeldAfter
  <1>5. Actions(sm, sm') = use \o send
    BY DEF Actions
  <1> HIDE DEF H
  <1>6. use \in Seq(H) /\ send \in Seq(H)
    BY <1>2, <1>4
  <1> HIDE DEF use, send
  <1>7. use \o send \in Seq(H)
    BY <1>6, ConcatProperties
  <1>8. QED
    BY <1>5, <1>7 DEF H

-----------------------------------------------------------------------------
\* The first of some actions, and what is left of them after its effect.
LEMMA RemainingFacts ==
  ASSUME NEW S, NEW acts \in Seq(S), acts # << >>,
         NEW T, S \subseteq T, Head(acts).type = "UseAssignment" => MarkReady \in T
  PROVE  Head(acts) \in S /\ Remaining(acts) \in Seq(T)
  <1>1. Head(acts) \in S /\ Tail(acts) \in Seq(S)
    BY HeadTailProperties
  <1>2. Tail(acts) \in Seq(T)
    BY <1>1, SeqMonotonic
  <1>3. CASE Head(acts).type = "UseAssignment"
    <2>1. <<MarkReady>> \in Seq(T)
      BY <1>3
    <2>2. <<MarkReady>> \o Tail(acts) \in Seq(T)
      BY <1>2, <2>1, ConcatProperties
    <2>3. QED
      BY <1>1, <1>3, <2>2 DEF Remaining
  <1>4. CASE Head(acts).type # "UseAssignment"
    BY <1>1, <1>2, <1>4 DEF Remaining
  <1>5. QED
    BY <1>3, <1>4

\* The loop after it was handed some actions.
LEMMA HoldingLoop ==
  ASSUME NEW S, NEW g \in [pc : LoopPCs, now : Instants, acts : Seq(S)],
         NEW T, NEW acts \in Seq(T)
  PROVE  LET h == Holding(g, acts, "select") IN
         /\ h \in [pc : LoopPCs, now : Instants, acts : Seq(T)]
         /\ h.acts = acts
         /\ ActsWhenActing(h)
         /\ h.pc \in {"acting", "select"}
  <1>1. 0 \in Instants
    BY MaxLagAssumption DEF Instants
  <1>2. QED
    BY <1>1 DEF Holding, LoopPCs, ActsWhenActing

\* A request's goroutine after it was handed some actions.
LEMMA HoldingRequest ==
  ASSUME NEW S, NEW g \in [pc : RequestPCs, redirect : MaybeAddress,
                           now : Instants, acts : Seq(S)],
         NEW T, NEW acts \in Seq(T)
  PROVE  LET h == Holding(g, acts, "done") IN
         /\ h \in [pc : RequestPCs, redirect : MaybeAddress, now : Instants, acts : Seq(T)]
         /\ h.acts = acts
         /\ ActsWhenActing(h)
         /\ h.pc \in {"acting", "done"}
  <1>1. 0 \in Instants
    BY MaxLagAssumption DEF Instants
  <1>2. QED
    BY <1>1 DEF Holding, RequestPCs, ActsWhenActing

\* One action carried out: the cell moves forward if at all, and is set before the
\* ready channel can be closed.
LEMMA PublishFacts ==
  ASSUME PublishedInv, NEW n, NEW act \in HeldAfter(n), Publish(act), sm' = sm
  PROVE  /\ PublishedInv'
         /\ act.type = "UseAssignment" => cell' # NoAssignment
         /\ cell' = cell \/ cell' \in Assignment
         /\ NotOlder(cell', cell)
  <1>1. /\ cell \in MaybeAssignment
        /\ cell = NoAssignment \/ Known(cell)
        /\ ready \in BOOLEAN
        /\ ready => cell # NoAssignment
    BY DEF PublishedInv, MaybeAssignment
  <1>2. /\ act.type \in {"UseAssignment", "MarkReady", "SendRequest"}
        /\ act.type = "UseAssignment" => act.assignment \in Assignment /\ Known(act.assignment)
        /\ act.type = "MarkReady" => cell # NoAssignment
    BY HeldFacts
  <1>3. \A a : Known(a)' <=> Known(a)
    BY DEF Known
  <1>4. CASE act.type = "UseAssignment" /\ ~Rejects(cell, act.assignment)
    <2>1. cell' = act.assignment /\ ready' = ready
      BY <1>1, <1>4 DEF Publish
    <2>2. NotOlder(cell', cell)
      BY <1>1, <1>2, <1>4, <2>1, NotRejected
    <2>3. PublishedInv'
      BY <1>1, <1>2, <1>3, <1>4, <2>1, NilAssumption DEF PublishedInv
    <2>4. QED
      BY <1>2, <1>4, <2>1, <2>2, <2>3, NilAssumption
  <1>5. CASE ~(act.type = "UseAssignment" /\ ~Rejects(cell, act.assignment))
    <2>1. cell' = cell /\ ready' = (ready \/ act.type = "MarkReady")
      BY <1>5 DEF Publish
    <2>2. act.type = "UseAssignment" => cell # NoAssignment
      BY <1>1, <1>2, <1>5, NotRejected
    <2>3. NotOlder(cell, cell)
      <3>1. CASE cell = NoAssignment
        BY <3>1 DEF NotOlder
      <3>2. CASE cell \in Assignment
        BY <1>1, <3>2, NotRejected
      <3>3. QED
        BY <1>1, <3>1, <3>2 DEF MaybeAssignment
    <2>4. ready' \in BOOLEAN /\ (ready' => cell # NoAssignment)
      BY <1>1, <1>2, <2>1
    <2>5. PublishedInv'
      BY <1>1, <1>3, <2>1, <2>4 DEF PublishedInv, MaybeAssignment
    <2>6. QED
      BY <2>1, <2>2, <2>3, <2>5
  <1>6. QED
    BY <1>4, <1>5

-----------------------------------------------------------------------------
\* LookupInv holds initially.
LEMMA LookupInvInit == LookupInit => LookupInv
  <1> SUFFICES ASSUME LookupInit PROVE LookupInv
    OBVIOUS
  <1>1. MachineInv(sm) /\ sm.lastOpID = 0
    BY NewMachineInv DEF LookupInit, SMInit, NewMachine
  <1>2. 0 \in Instants /\ NoAddress \in MaybeAddress
    BY MaxLagAssumption DEF Instants, MaybeAddress
  <1>3. \A S : << >> \in Seq(S)
    OBVIOUS
  <1>4. LoopInv
    BY <1>1, <1>2, <1>3 DEF LookupInit, LoopInv, LoopPCs, ActsWhenActing
  <1>5. ASSUME NEW op \in Ops PROVE RequestInv(op)
    <2>1. reqs[op] = NoRequest
      BY DEF LookupInit
    <2>2. QED
      BY <1>2, <1>3, <2>1 DEF RequestInv, NoRequest, RequestPCs, ActsWhenActing
  <1>6. reqs = [op \in Ops |-> reqs[op]]
    BY DEF LookupInit
  <1>7. PublishedInv /\ StopInv
    BY DEF LookupInit, PublishedInv, StopInv
  <1>8. QED
    BY <1>1, <1>4, <1>5, <1>6, <1>7, MaxOpsAssumption DEF LookupInv

\* Each step of the driver is a step of the machine or leaves it alone.
LEMMA DriverStep ==
  ASSUME LookupInv, [LookupNext]_vars
  PROVE  [SMNext]_sm /\ sm'.lastOpID <= MaxOps
  <1> USE DEF LookupInv
  <1>1. CASE LoopAdvances
    <2>1. loop.now \in Instants
      BY DEF LoopInv
    <2>2. QED
      BY <1>1, <2>1 DEF LoopAdvances, Feed, SMNext, Advance
  <1>2. CASE LoopExits
    <2>1. sm.isCancelled => OnCancelEvent(sm) = sm
      BY DEF OnCancelEvent, MachineInv, Machines
    <2>2. sm'.lastOpID = sm.lastOpID
      BY <1>2 DEF LoopExits, OnCancelEvent, MachineInv, Machines
    <2>3. QED
      BY <1>2, <2>1, <2>2 DEF LoopExits, SMNext, Cancel
  <1>3. CASE TimePasses
    BY <1>3, AgedFacts DEF TimePasses, SMNext, Tick
  <1>4. ASSUME NEW op \in Ops, RequestStep(op)
        PROVE  [SMNext]_sm /\ sm'.lastOpID <= MaxOps
    <2>1. /\ RequestInv(op)
          /\ reqs[op].now \in Instants /\ reqs[op].redirect \in MaybeAddress
      BY DEF RequestInv
    <2>2. reqs[op].pc # "none" => op \in 1..sm.lastOpID
      BY <2>1, MaxOpsAssumption DEF RequestInv, Ops, MachineInv, Machines
    <2>3. 0 \in Instants
      BY MaxLagAssumption DEF Instants
    <2>4. CASE DialFails(op)
      BY <2>2, <2>3, <2>4 DEF DialFails, Feed, SMNext, ReadFailure
    <2>5. CASE DeliverError(op)
      BY <2>1, <2>2, <2>5 DEF DeliverError, Feed, SMNext, ReadFailure
    <2>6. CASE DeliverResponse(op) \/ ResponsePanics(op)
      <3>1. TargetOf(reqs[op].redirect) \in Address
        BY <2>1, DefaultAddressAssumption DEF TargetOf, IsEmptyRedirect, MaybeAddress
      <3>2. QED
        BY <2>1, <2>2, <2>6, <3>1
           DEF DeliverResponse, ResponsePanics, Feed, SMNext, ReadSuccess
    <2>7. CASE Dials(op) \/ WatchReturns(op) \/ RequestActs(op)
      BY <2>7 DEF Dials, WatchReturns, RequestActs
    <2>8. QED
      BY <1>4, <2>4, <2>5, <2>6, <2>7 DEF RequestStep
  <1>5. CASE Start \/ LoopTicks \/ LoopActs \/ UNCHANGED vars
             \/ \E s \in Stoppers : StopUnstarted(s) \/ Stop(s) \/ StopReturns(s)
    BY <1>5 DEF Start, LoopTicks, LoopActs, vars, StopUnstarted, Stop, StopReturns
  <1>6. QED
    BY <1>1, <1>2, <1>3, <1>4, <1>5 DEF LookupNext, ProcessEnded

\* So the machine keeps its own invariant, learns and issues one step at a time,
\* and stays cancelled.
LEMMA DriverFacts ==
  ASSUME LookupInv, [LookupNext]_vars
  PROVE  /\ MachineInv(sm)'
         /\ sm'.lastOpID <= MaxOps
         /\ Learns(sm, sm')
         /\ sm'.lastOpID \in {sm.lastOpID, sm.lastOpID + 1}
         /\ sm.isCancelled => sm'.isCancelled
  <1>1. [SMNext]_sm /\ sm'.lastOpID <= MaxOps /\ MachineInv(sm)
    BY DriverStep DEF LookupInv
  <1>2. CASE sm' = sm
    BY <1>1, <1>2 DEF Learns, LookupInv, MachineInv, Machines, ReadsLatest, Busy, Prompt,
       Outstanding
  <1>3. CASE SMNext
    <2>1. MachineInv(sm)' /\ Stepped(sm, sm')
      BY <1>1, <1>3, StepFacts
    <2>2. CASE sm' = sm
      BY <1>2, <2>2
    <2>3. CASE Follows(sm, sm')
      BY <1>1, <2>1, <2>3
         DEF Follows, Issues, IssuesDue, IssuesAnswered, IssuesAtOnce, BacksOff
    <2>4. CASE sm' = Aged(sm)
      BY <1>1, <2>1, <2>4, AgedFacts DEF Learns
    <2>5. CASE ~sm.isCancelled /\ sm' = OnCancelEvent(sm)
      BY <1>1, <2>1, <2>5, CancelFacts DEF Learns
    <2>6. QED
      BY <2>1, <2>2, <2>3, <2>4, <2>5 DEF Stepped
  <1>4. QED
    BY <1>1, <1>2, <1>3
\* The cell moves forward, if at all, to what the machine has known.
LEMMA CellStep ==
  ASSUME LookupInv, [LookupNext]_vars
  PROVE  Grows /\ PublishedInv' /\ NotOlder(cell', cell)
  <1>1. PublishedInv /\ LoopInv /\ \A op \in Ops : RequestInv(op)
    BY DEF LookupInv
  <1>2. /\ sm.assignment \in MaybeAssignment
        /\ sm.lastOpID \in Nat /\ sm'.lastOpID \in Nat /\ sm.lastOpID <= sm'.lastOpID
        /\ Learns(sm, sm')
    BY DriverFacts DEF LookupInv, MachineInv, Machines
  <1>3. CASE LoopActs
    <2>1. Head(loop.acts) \in HeldAfter(0)
      BY <1>1, <1>3, HeadTailProperties DEF LoopInv, LoopActs, ActsWhenActing
    <2>2. Publish(Head(loop.acts)) /\ sm' = sm
      BY <1>3 DEF LoopActs
    <2>3. QED
      BY <1>1, <1>2, <2>1, <2>2, PublishFacts DEF Grows
  <1>4. ASSUME NEW op \in Ops, RequestActs(op)
        PROVE  Grows /\ PublishedInv' /\ NotOlder(cell', cell)
    <2>1. Head(reqs[op].acts) \in HeldAfter(op)
      BY <1>1, <1>4, HeadTailProperties DEF RequestInv, RequestActs, ActsWhenActing
    <2>2. Publish(Head(reqs[op].acts)) /\ sm' = sm
      BY <1>4 DEF RequestActs
    <2>3. QED
      BY <1>1, <1>2, <2>1, <2>2, PublishFacts DEF Grows
  <1>5. CASE UNCHANGED <<cell, ready>>
    <2>1. Grows
      BY <1>2, <1>5 DEF Grows
    <2>2. NotOlder(cell, cell)
      <3>1. CASE cell = NoAssignment
        BY <3>1 DEF NotOlder
      <3>2. CASE cell \in Assignment
        BY <3>2, NotRejected DEF MaybeAssignment
      <3>3. QED
        BY <1>1, <3>1, <3>2 DEF PublishedInv
    <2>3. \A a \in Assignment : Known(a) => Known(a)'
      BY <2>1, KnownGrows
    <2>4. PublishedInv'
      BY <1>1, <1>5, <2>3 DEF PublishedInv, Known
    <2>5. QED
      BY <1>5, <2>1, <2>2, <2>4
  <1>6. LoopActs \/ (\E op \in Ops : RequestActs(op)) \/ UNCHANGED <<cell, ready>>
    BY DEF LookupNext, RequestStep, vars, Start, StopUnstarted, Stop, StopReturns, LoopTicks,
       LoopAdvances, LoopExits, Dials, DialFails, WatchReturns, DeliverResponse, ResponsePanics,
       DeliverError, TimePasses, ProcessEnded
  <1>7. QED
    BY <1>3, <1>4, <1>5, <1>6

\* What a goroutine holds it may still hold after the step.
LEMMA KeepsHolding ==
  ASSUME LookupInv, [LookupNext]_vars, NEW n, NEW acts \in Seq(HeldAfter(n))
  PROVE  acts \in Seq(HeldAfter(n)')
  <1>1. HeldAfter(n) \subseteq HeldAfter(n)'
    BY CellStep, HeldGrows
  <1>2. QED
    BY <1>1, SeqMonotonic

\* The goroutine that was handed the actions of a call may hold them.
LEMMA HandedActions ==
  ASSUME LookupInv, [LookupNext]_vars, NEW n \in Nat, n <= sm.lastOpID
  PROVE  Actions(sm, sm') \in Seq(HeldAfter(n)')
  BY DriverFacts, ActionsFacts DEF LookupInv

\* What is left after an action may be held, the signal included.
LEMMA LeftActions ==
  ASSUME LookupInv, [LookupNext]_vars, sm' = sm, NEW n,
         NEW acts \in Seq(HeldAfter(n)), acts # << >>, Publish(Head(acts))
  PROVE  Head(acts) \in HeldAfter(n) /\ Remaining(acts) \in Seq(HeldAfter(n)')
  <1>1. HeldAfter(n) \subseteq HeldAfter(n)'
    BY CellStep, HeldGrows
  <1>2. Head(acts) \in HeldAfter(n)
    BY HeadTailProperties
  <1>3. Head(acts).type = "UseAssignment" => cell' # NoAssignment
    BY <1>2, PublishFacts DEF LookupInv
  <1>4. cell' # NoAssignment => MarkReady \in HeldAfter(n)'
    BY DEF HeldAfter, MarkReady
  <1>5. QED
    BY <1>1, <1>3, <1>4, RemainingFacts

\* A request that is spawned is a newer one than its parent, and starts afresh.
LEMMA SpawnedFacts ==
  ASSUME LookupInv, NEW n, NEW act \in HeldAfter(n)
  PROVE  /\ Spawned(act) = [o \in Ops |-> Spawned(act)[o]]
         /\ \A op \in Ops :
              \/ Spawned(act)[op] = reqs[op]
              \/ /\ n < op /\ op <= sm.lastOpID
                 /\ \E a \in MaybeAddress :
                      Spawned(act)[op] = [pc |-> "dialing", redirect |-> a, now |-> 0,
                                          acts |-> << >>]
  <1>1. reqs = [op \in Ops |-> reqs[op]]
    BY DEF LookupInv
  <1>2. CASE act.type = "SendRequest"
    <2>1. /\ act.opID \in Ops /\ n < act.opID /\ act.opID <= sm.lastOpID
          /\ act.redirect \in MaybeAddress
      BY <1>2, HeldFacts
    <2>2. QED
      BY <1>1, <1>2, <2>1 DEF Spawned, NoRequest
  <1>3. CASE act.type # "SendRequest"
    BY <1>1, <1>3 DEF Spawned
  <1>4. QED
    BY <1>2, <1>3
-----------------------------------------------------------------------------
\* Before Start nothing calls the machine: there is no loop and no request.
LEMMA NothingUnstarted ==
  ASSUME LookupInv, [LookupNext]_vars, ctx' = "none"
  PROVE  sm'.lastOpID = 0 /\ UNCHANGED <<loop, cell, ready>>
  <1>1. ctx = "none" /\ loop.pc = "off" /\ sm.lastOpID = 0 /\ MachineInv(sm)
    <2>1. ctx = "none"
      BY DEF LookupInv, StopInv, LookupNext, RequestStep, vars, Start, StopUnstarted, Stop,
         StopReturns, LoopTicks, LoopAdvances, LoopActs, LoopExits, Dials, DialFails, WatchReturns,
         DeliverResponse, ResponsePanics, DeliverError, RequestActs, TimePasses, ProcessEnded
    <2>2. QED
      BY <2>1 DEF LookupInv, LoopInv
  <1>2. \A op \in Ops : reqs[op].pc = "none"
    BY <1>1, MaxOpsAssumption DEF LookupInv, RequestInv, Ops
  <1>3. CASE TimePasses
    BY <1>1, <1>3, AgedFacts DEF TimePasses
  <1>4. ~Start /\ ~LoopTicks /\ ~LoopAdvances /\ ~LoopActs /\ ~LoopExits
        /\ \A op \in Ops : ~RequestStep(op)
    BY <1>1, <1>2 DEF Start, LoopTicks, LoopAdvances, LoopActs, LoopExits, RequestStep, Dials,
       DialFails, WatchReturns, DeliverResponse, ResponsePanics, DeliverError, RequestActs
  <1>5. CASE UNCHANGED <<sm, loop, cell, ready>>
    BY <1>1, <1>5
  <1>6. QED
    BY <1>3, <1>4, <1>5 DEF LookupNext, ProcessEnded, vars, StopUnstarted, Stop, StopReturns

\* The loop's part of the invariant.
LEMMA LoopStep ==
  ASSUME LookupInv, [LookupNext]_vars
  PROVE  LoopInv'
  <1>1. /\ loop \in [pc : LoopPCs, now : Instants, acts : Seq(HeldAfter(0))]
        /\ ActsWhenActing(loop)
        /\ ctx = "none" => loop.pc = "off" /\ sm.lastOpID = 0
        /\ loop.pc = "exited" => sm.isCancelled /\ ctx = "cancelled"
        /\ sm.isCancelled => sm'.isCancelled
        /\ loop.acts \in Seq(HeldAfter(0)')
        /\ ctx' = "none" => sm'.lastOpID = 0
    BY DriverFacts, KeepsHolding, NothingUnstarted DEF LookupInv, LoopInv
  <1>2. CASE UNCHANGED <<loop, ctx>>
    BY <1>1, <1>2 DEF LoopInv, ActsWhenActing
  <1>3. CASE loop' = loop /\ ctx' = "cancelled"
    BY <1>1, <1>3 DEF LoopInv, ActsWhenActing
  <1>4. CASE Start
    BY <1>1, <1>4 DEF Start, LoopInv, ActsWhenActing, LoopPCs
  <1>5. CASE LoopTicks
    BY <1>1, <1>5 DEF LoopTicks, LoopInv, ActsWhenActing, LoopPCs
  <1>6. CASE LoopExits
    <2>1. sm'.isCancelled /\ ctx' = "cancelled" /\ loop' = [loop EXCEPT !.pc = "exited"]
      BY <1>6 DEF LoopExits, OnCancelEvent, LookupInv, MachineInv, Machines
    <2>2. QED
      BY <1>1, <1>6, <2>1 DEF LoopExits, LoopInv, ActsWhenActing, LoopPCs
  <1>7. CASE LoopAdvances
    <2>1. Actions(sm, sm') \in Seq(HeldAfter(0)')
      BY HandedActions DEF LookupInv, MachineInv, Machines
    <2>2. loop' = Holding(loop, Actions(sm, sm'), "select") /\ ctx' # "none"
      BY <1>1, <1>7 DEF LoopAdvances
    <2>3. QED
      BY <1>1, <2>1, <2>2, HoldingLoop DEF LoopInv, ActsWhenActing
  <1>8. CASE LoopActs
    <2>1. loop.acts # << >> /\ Publish(Head(loop.acts)) /\ sm' = sm
      BY <1>1, <1>8 DEF LoopActs, ActsWhenActing
    <2>2. Remaining(loop.acts) \in Seq(HeldAfter(0)')
      BY <1>1, <2>1, LeftActions
    <2>3. loop' = Holding(loop, Remaining(loop.acts), "select") /\ ctx' # "none"
      BY <1>1, <1>8 DEF LoopActs
    <2>4. QED
      BY <1>1, <2>2, <2>3, HoldingLoop DEF LoopInv, ActsWhenActing
  <1>9. CASE TimePasses
    <2>1. loop' = loop \/ (loop.pc = "ticked" /\ loop.now > -MaxLag
                            /\ loop' = [loop EXCEPT !.now = loop.now - 1])
      BY <1>9 DEF TimePasses
    <2>2. loop.now \in Instants /\ loop.now > -MaxLag => loop.now - 1 \in Instants
      BY MaxLagAssumption DEF Instants
    <2>3. loop' \in [pc : LoopPCs, now : Instants, acts : Seq(HeldAfter(0)')]
          /\ loop'.pc = loop.pc /\ loop'.acts = loop.acts
      BY <1>1, <2>1, <2>2
    <2>4. QED
      BY <1>1, <1>9, <2>3 DEF TimePasses, LoopInv, ActsWhenActing
  <1>10. \/ UNCHANGED <<loop, ctx>> \/ (loop' = loop /\ ctx' = "cancelled")
         \/ Start \/ LoopTicks \/ LoopExits \/ LoopAdvances \/ LoopActs \/ TimePasses
    BY DEF LookupNext, RequestStep, vars, StopUnstarted, Stop, StopReturns, Dials, DialFails,
       WatchReturns, DeliverResponse, ResponsePanics, DeliverError, RequestActs, ProcessEnded
  <1>11. QED
    BY <1>2, <1>3, <1>4, <1>5, <1>6, <1>7, <1>8, <1>9, <1>10

\* What a step may do to one request: nothing, spawn it, let it call Watch or
\* return from it, or hand it some actions.
Spawns(op) ==
  /\ op <= sm.lastOpID
  /\ \E a \in MaybeAddress :
       reqs'[op] = [pc |-> "dialing", redirect |-> a, now |-> 0, acts |-> << >>]

Waits(op) ==
  /\ reqs[op].pc \in {"dialing", "watching", "answered"}
  /\ \E p \in {"watching", "answered", "panicked"}, t \in Instants :
       reqs'[op] = [pc |-> p, redirect |-> reqs[op].redirect, now |-> t, acts |-> reqs[op].acts]

Holds(op) ==
  /\ reqs[op].pc # "none"
  /\ \E acts \in Seq(HeldAfter(op)') : reqs'[op] = Holding(reqs[op], acts, "done")

\* A request's part of the invariant.
LEMMA RequestKeeps ==
  ASSUME LookupInv, [LookupNext]_vars, NEW op \in Ops,
         reqs'[op] = reqs[op] \/ Spawns(op) \/ Waits(op) \/ Holds(op)
  PROVE  RequestInv(op)'
  <1>1. /\ reqs[op] \in [pc : RequestPCs, redirect : MaybeAddress,
                         now : Instants, acts : Seq(HeldAfter(op))]
        /\ ActsWhenActing(reqs[op])
        /\ reqs[op].pc # "none" => op <= sm.lastOpID
        /\ reqs[op].acts \in Seq(HeldAfter(op)')
    BY KeepsHolding DEF LookupInv, RequestInv
  <1>2. op \in Nat /\ sm.lastOpID \in Nat /\ sm'.lastOpID \in Nat /\ sm.lastOpID <= sm'.lastOpID
    BY CellStep, MaxOpsAssumption DEF Grows, Ops
  <1>3. 0 \in Instants
    BY MaxLagAssumption DEF Instants
  <1>4. CASE reqs'[op] = reqs[op]
    BY <1>1, <1>2, <1>4 DEF RequestInv, ActsWhenActing
  <1>5. CASE Spawns(op)
    <2>1. PICK a \in MaybeAddress :
            reqs'[op] = [pc |-> "dialing", redirect |-> a, now |-> 0, acts |-> << >>]
      BY <1>5 DEF Spawns
    <2>2. << >> \in Seq(HeldAfter(op)')
      OBVIOUS
    <2>3. op <= sm'.lastOpID
      BY <1>2, <1>5 DEF Spawns
    <2>4. QED
      BY <1>3, <2>1, <2>2, <2>3 DEF RequestInv, ActsWhenActing, RequestPCs
  <1>6. CASE Waits(op)
    <2>1. PICK p \in {"watching", "answered", "panicked"}, t \in Instants :
            reqs'[op] = [pc |-> p, redirect |-> reqs[op].redirect, now |-> t,
                         acts |-> reqs[op].acts]
      BY <1>6 DEF Waits
    <2>2. reqs[op].acts = << >> /\ op <= sm'.lastOpID
      BY <1>1, <1>2, <1>6 DEF Waits, ActsWhenActing
    <2>3. QED
      BY <1>1, <2>1, <2>2 DEF RequestInv, ActsWhenActing, RequestPCs
  <1>7. CASE Holds(op)
    <2>1. PICK acts \in Seq(HeldAfter(op)') : reqs'[op] = Holding(reqs[op], acts, "done")
      BY <1>7 DEF Holds
    <2>2. op <= sm'.lastOpID
      BY <1>1, <1>2, <1>7 DEF Holds
    <2>3. QED
      BY <1>1, <2>1, <2>2, HoldingRequest DEF RequestInv
  <1>8. QED
    BY <1>4, <1>5, <1>6, <1>7

\* One goroutine moves at a time, and may spawn a newer one.
LEMMA RequestsStep ==
  ASSUME LookupInv, [LookupNext]_vars
  PROVE  /\ reqs' = [op \in Ops |-> reqs'[op]]
         /\ \A op \in Ops : RequestInv(op)'
  <1> DEFINE Moves(o) == reqs'[o] = reqs[o] \/ Spawns(o) \/ Waits(o) \/ Holds(o)
             Shaped == reqs' = [o \in Ops |-> reqs'[o]]
  <1> SUFFICES Shaped /\ \A o \in Ops : Moves(o)
    BY RequestKeeps
  <1>1. reqs = [o \in Ops |-> reqs[o]] /\ 0 \in Instants
    BY MaxLagAssumption DEF LookupInv, Instants
  <1>2. ASSUME NEW o \in Ops
        PROVE  /\ reqs[o] \in [pc : RequestPCs, redirect : MaybeAddress,
                               now : Instants, acts : Seq(HeldAfter(o))]
               /\ ActsWhenActing(reqs[o])
               /\ reqs[o].pc # "none" => o \in Nat /\ o <= sm.lastOpID
    BY MaxOpsAssumption DEF LookupInv, RequestInv, Ops
  <1>3. CASE reqs' = reqs
    BY <1>1, <1>3
  <1>4. CASE LoopActs
    <2>1. /\ loop.acts \in Seq(HeldAfter(0)) /\ loop.acts # << >>
          /\ Publish(Head(loop.acts)) /\ sm' = sm
          /\ reqs' = Spawned(Head(loop.acts))
      BY <1>4 DEF LoopActs, LookupInv, LoopInv, ActsWhenActing
    <2>2. Head(loop.acts) \in HeldAfter(0)
      BY <2>1, HeadTailProperties
    <2>3. QED
      BY <2>1, <2>2, SpawnedFacts DEF Spawns
  <1>5. ASSUME NEW op \in Ops, RequestStep(op)
        PROVE  Shaped /\ \A o \in Ops : Moves(o)
    <2>1. CASE Dials(op)
      <3>1. Waits(op)
        <4>1. reqs'[op] = [pc |-> "watching", redirect |-> reqs[op].redirect,
                           now |-> reqs[op].now, acts |-> reqs[op].acts]
          BY <1>1, <1>2, <2>1 DEF Dials
        <4>2. QED
          BY <1>2, <2>1, <4>1 DEF Waits, Dials
      <3>2. QED
        BY <1>1, <2>1, <3>1 DEF Dials
    <2>2. CASE WatchReturns(op)
      <3>1. Waits(op)
        <4>1. reqs'[op] = [pc |-> "answered", redirect |-> reqs[op].redirect,
                           now |-> 0, acts |-> reqs[op].acts]
          BY <1>1, <1>2, <2>2 DEF WatchReturns
        <4>2. QED
          BY <1>1, <2>2, <4>1 DEF Waits, WatchReturns
      <3>2. QED
        BY <1>1, <2>2, <3>1 DEF WatchReturns
    <2>3. CASE DialFails(op) \/ DeliverResponse(op) \/ DeliverError(op)
      <3>1. /\ reqs[op].pc # "none"
            /\ reqs' = [reqs EXCEPT ![op] = Holding(reqs[op], Actions(sm, sm'), "done")]
        BY <2>3 DEF DialFails, DeliverResponse, DeliverError
      <3>2. Actions(sm, sm') \in Seq(HeldAfter(op)')
        BY <1>2, <3>1, HandedActions
      <3>3. Holds(op)
        BY <1>1, <3>1, <3>2 DEF Holds
      <3>4. QED
        BY <1>1, <3>1, <3>3
    <2>4. CASE RequestActs(op)
      <3> DEFINE act == Head(reqs[op].acts)
      <3>1. /\ reqs[op].acts \in Seq(HeldAfter(op)) /\ reqs[op].acts # << >>
            /\ reqs[op].pc # "none" /\ op \in Nat /\ Publish(act) /\ sm' = sm
        BY <1>2, <2>4 DEF RequestActs, ActsWhenActing
      <3>2. act \in HeldAfter(op) /\ Remaining(reqs[op].acts) \in Seq(HeldAfter(op)')
        BY <3>1, LeftActions
      <3> HIDE DEF act
      <3>3. /\ Spawned(act) = [o \in Ops |-> Spawned(act)[o]]
            /\ \A o \in Ops :
                 \/ Spawned(act)[o] = reqs[o]
                 \/ /\ op < o /\ o <= sm.lastOpID
                    /\ \E a \in MaybeAddress :
                         Spawned(act)[o] = [pc |-> "dialing", redirect |-> a, now |-> 0,
                                            acts |-> << >>]
        BY <3>2, SpawnedFacts
      <3>4. Spawned(act)[op] = reqs[op]
        BY <3>1, <3>3
      <3>5. reqs' = [Spawned(act) EXCEPT ![op] = Holding(Spawned(act)[op],
                                                         Remaining(Spawned(act)[op].acts), "done")]
        BY <2>4 DEF RequestActs, act
      <3>6. Holds(op)
        BY <3>1, <3>2, <3>3, <3>4, <3>5 DEF Holds
      <3>7. \A o \in Ops : o # op => reqs'[o] = reqs[o] \/ Spawns(o)
        BY <3>3, <3>5 DEF Spawns
      <3>8. Shaped
        BY <3>3, <3>5
      <3>9. QED
        BY <3>6, <3>7, <3>8
    <2>5. CASE ResponsePanics(op)
      <3>1. Waits(op)
        <4>1. reqs'[op] = [pc |-> "panicked", redirect |-> reqs[op].redirect,
                           now |-> reqs[op].now, acts |-> reqs[op].acts]
          BY <1>1, <1>2, <2>5 DEF ResponsePanics
        <4>2. QED
          BY <1>2, <2>5, <4>1 DEF Waits, ResponsePanics
      <3>2. QED
        BY <1>1, <2>5, <3>1 DEF ResponsePanics
    <2>6. QED
      BY <1>5, <2>1, <2>2, <2>3, <2>4, <2>5 DEF RequestStep
  <1>6. CASE TimePasses
    <2>1. ASSUME NEW o \in Ops PROVE Moves(o)
      <3>1. CASE reqs[o].pc = "answered"
        <4>1. reqs'[o] = [reqs[o] EXCEPT !.now = reqs[o].now - 1] /\ reqs[o].now > -MaxLag
          BY <1>6, <3>1 DEF TimePasses
        <4>2. reqs[o].now - 1 \in Instants
          BY <1>2, <4>1, MaxLagAssumption DEF Instants
        <4>3. reqs'[o] = [pc |-> "answered", redirect |-> reqs[o].redirect,
                          now |-> reqs[o].now - 1, acts |-> reqs[o].acts]
          BY <1>2, <3>1, <4>1
        <4>4. QED
          BY <3>1, <4>2, <4>3 DEF Waits
      <3>2. CASE reqs[o].pc # "answered"
        BY <1>6, <3>2 DEF TimePasses
      <3>3. QED
        BY <3>1, <3>2
    <2>2. Shaped
      BY <1>6 DEF TimePasses
    <2>3. QED
      BY <2>1, <2>2
  <1>7. reqs' = reqs \/ LoopActs \/ (\E op \in Ops : RequestStep(op)) \/ TimePasses
    BY DEF LookupNext, vars, Start, StopUnstarted, Stop, StopReturns, LoopTicks, LoopAdvances,
       LoopExits, ProcessEnded
  <1>8. QED
    BY <1>3, <1>4, <1>5, <1>6, <1>7

\* Stop returns only after the loop has exited, and the loop does not come back.
LEMMA StopStep ==
  ASSUME LookupInv, [LookupNext]_vars
  PROVE  StopInv'
  <1>1. /\ ctx \in {"none", "live", "cancelled"}
        /\ stopping \in [Stoppers -> {"idle", "waiting", "stopped", "ignored"}]
        /\ \A s \in Stoppers : stopping[s] = "stopped" => loop.pc = "exited"
        /\ ctx = "none" => loop.pc = "off"
        /\ loop \in [pc : LoopPCs, now : Instants, acts : Seq(HeldAfter(0))]
    BY DEF LookupInv, StopInv, LoopInv
  <1>2. loop.pc = "exited" => loop'.pc = "exited"
    BY <1>1 DEF LookupNext, RequestStep, vars, Start, StopUnstarted, Stop, StopReturns, LoopTicks,
       LoopAdvances, LoopActs, LoopExits, Dials, DialFails, WatchReturns, DeliverResponse,
       ResponsePanics, DeliverError, RequestActs, TimePasses, ProcessEnded
  <1>3. CASE UNCHANGED <<ctx, stopping>>
    BY <1>1, <1>2, <1>3 DEF StopInv
  <1>4. CASE Start
    BY <1>1, <1>2, <1>4 DEF Start, StopInv
  <1>5. ASSUME NEW s \in Stoppers, StopUnstarted(s) \/ Stop(s) \/ StopReturns(s)
        PROVE  StopInv'
    BY <1>1, <1>2, <1>5 DEF StopUnstarted, Stop, StopReturns, StopInv
  <1>6. \/ UNCHANGED <<ctx, stopping>> \/ Start
        \/ \E s \in Stoppers : StopUnstarted(s) \/ Stop(s) \/ StopReturns(s)
    BY DEF LookupNext, RequestStep, vars, LoopTicks, LoopAdvances, LoopActs, LoopExits, Dials,
       DialFails, WatchReturns, DeliverResponse, ResponsePanics, DeliverError, RequestActs,
       TimePasses, ProcessEnded
  <1>7. QED
    BY <1>3, <1>4, <1>5, <1>6

-----------------------------------------------------------------------------
\* The invariant of the driver: the machine's, and what each goroutine may hold.
THEOREM LookupInvariance == LookupSpec => []LookupInv
  <1>1. LookupInv /\ [LookupNext]_vars => LookupInv'
    BY DriverFacts, CellStep, LoopStep, RequestsStep, StopStep DEF LookupInv
  <1>2. QED
    BY <1>1, LookupInvInit, PTL DEF LookupSpec

\* slice_lookup.go:113-255 drives the machine as its contract allows: a behaviour
\* of the driver is one of the machine, so what is proved of the machine under
\* any driver holds of it here.
THEOREM LookupImplementsMachine == LookupSpec => SMSpec
  <1>1. LookupInit => SMInit
    BY DEF LookupInit
  <1>2. LookupInv /\ [LookupNext]_vars => [SMNext]_sm
    BY DriverStep
  <1>3. QED
    BY <1>1, <1>2, LookupInvariance, PTL DEF LookupSpec, SMSpec

\* The driver's state keeps its types; a goroutine holds well-formed actions only.
THEOREM LookupTypeCorrect == LookupSpec => []LookupTypeOK
  <1>1. LookupInv => LookupTypeOK
    <2> SUFFICES ASSUME LookupInv PROVE LookupTypeOK
      OBVIOUS
    <2>1. ASSUME NEW n PROVE Seq(HeldAfter(n)) \subseteq Seq(ActionRecords)
      <3>1. HeldAfter(n) \subseteq ActionRecords
        BY DEF HeldAfter, ActionRecords
      <3>2. QED
        BY <3>1, SeqMonotonic
    <2>2. loop \in [pc : LoopPCs, now : Instants, acts : Seq(ActionRecords)]
      BY <2>1 DEF LookupInv, LoopInv
    <2>3. ASSUME NEW op \in Ops
          PROVE  reqs[op] \in [pc : RequestPCs, redirect : MaybeAddress,
                               now : Instants, acts : Seq(ActionRecords)]
      BY <2>1 DEF LookupInv, RequestInv
    <2>4. reqs \in [Ops -> [pc : RequestPCs, redirect : MaybeAddress,
                            now : Instants, acts : Seq(ActionRecords)]]
      BY <2>3 DEF LookupInv
    <2>5. SMTypeOK
      BY DEF LookupInv, MachineInv, SMTypeOK
    <2>6. QED
      BY <2>2, <2>4, <2>5 DEF LookupInv, PublishedInv, StopInv, MaybeAssignment, LookupTypeOK
  <1>2. QED
    BY <1>1, LookupInvariance, PTL

\* readyChan is closed only after the cell was set (slice_lookup.go:161-171).
THEOREM LookupReadyMeansAssigned == LookupSpec => []ReadyMeansAssigned
  <1>1. LookupInv => ReadyMeansAssigned
    BY DEF LookupInv, PublishedInv, ReadyMeansAssigned
  <1>2. QED
    BY <1>1, LookupInvariance, PTL

\* A Stop that returned left the machine cancelled (slice_lookup.go:126-147).
THEOREM LookupStopLeavesMachineInert == LookupSpec => []StopLeavesMachineInert
  <1>1. LookupInv => StopLeavesMachineInert
    BY DEF LookupInv, LoopInv, StopInv, StopLeavesMachineInert
  <1>2. QED
    BY <1>1, LookupInvariance, PTL

\* Whatever the order in which goroutines carry out the actions they were handed,
\* the assignment the router reads never goes back (slice_lookup.go:164).
THEOREM LookupCellNeverGoesBack == LookupSpec => CellNeverGoesBack
  <1>1. LookupInv /\ [LookupNext]_vars => [NotOlder(cell', cell)]_vars
    BY CellStep
  <1>2. QED
    BY <1>1, LookupInvariance, PTL DEF LookupSpec, CellNeverGoesBack

-----------------------------------------------------------------------------
\* Each step is one of the service's, or is not seen by those who use it.
LEMMA ServiceStep ==
  ASSUME LookupInv, [LookupNext]_vars
  PROVE  [Service!Next]_<<statusBar, cell, ready>>
  <1> DEFINE seen == [Service!Next]_<<statusBar, cell, ready>>
  <1>1. /\ LoopInv /\ StopInv /\ PublishedInv
        /\ NotOlder(cell', cell) /\ PublishedInv'
        /\ cell' = cell \/ cell' \in Assignment
    BY CellStep DEF LookupInv, Grows
  <1>2. /\ ctx \in {"none", "live", "cancelled"}
        /\ ctx = "none" => loop.pc = "off"
        /\ loop.pc = "exited" => ctx = "cancelled"
        /\ ready \in BOOLEAN
        /\ loop \in [pc : LoopPCs, now : Instants, acts : Seq(HeldAfter(0))]
    BY <1>1 DEF LoopInv, StopInv, PublishedInv
  <1>3. CASE UNCHANGED <<ctx, cell, ready>> /\ (loop'.pc = "exited" <=> loop.pc = "exited")
    BY <1>3 DEF statusBar
  <1>4. CASE Start
    <2>1. statusBar = "new" /\ statusBar' = "running" /\ UNCHANGED <<cell, ready>>
      BY <1>4 DEF Start, statusBar
    <2>2. QED
      BY <2>1 DEF Service!Start, Service!Next
  <1>5. ASSUME NEW s \in Stoppers, Stop(s) PROVE seen
    <2>1. UNCHANGED <<cell, ready>> /\ ctx # "none" /\ ctx' = "cancelled" /\ loop' = loop
      BY <1>5 DEF Stop
    <2>2. CASE ctx = "live"
      <3>1. statusBar = "running" /\ statusBar' = "cancelled"
        BY <1>2, <2>1, <2>2 DEF statusBar
      <3>2. QED
        BY <2>1, <3>1 DEF Service!Cancel, Service!Next
    <2>3. CASE ctx = "cancelled"
      BY <2>1, <2>3 DEF statusBar
    <2>4. QED
      BY <1>2, <2>1, <2>2, <2>3
  <1>6. CASE LoopExits
    <2>1. statusBar = "cancelled" /\ statusBar' = "exited" /\ UNCHANGED <<cell, ready>>
      BY <1>2, <1>6 DEF LoopExits, statusBar
    <2>2. QED
      BY <2>1 DEF Service!Exit, Service!Next
  <1>7. ASSUME NEW act, Publish(act), UNCHANGED ctx, ctx # "none",
               loop'.pc = "exited" <=> loop.pc = "exited"
        PROVE  seen
    <2>1. UNCHANGED statusBar /\ statusBar # "new"
      BY <1>2, <1>7 DEF statusBar
    <2>2. CASE act.type = "UseAssignment"
      <3>1. ready' = ready
        BY <1>2, <1>7, <2>2 DEF Publish
      <3>2. Service!NotOlder(cell', cell)
        BY <1>1 DEF NotOlder, Service!NotOlder, Compare, Service!Compare,
           Service!IncarnationCompare, IncarnationCompare
      <3>3. cell' = cell \/ Service!Publish
        BY <1>1, <2>1, <3>1, <3>2 DEF Service!Publish
      <3>4. QED
        BY <2>1, <3>1, <3>3 DEF Service!Next
    <2>3. CASE act.type # "UseAssignment"
      <3>1. cell' = cell /\ (ready' = ready \/ (ready' = TRUE /\ cell' # NoAssignment))
        BY <1>1, <1>2, <1>7, <2>3 DEF Publish, PublishedInv
      <3>2. QED
        BY <2>1, <3>1 DEF Service!Signal, Service!Next
    <2>4. QED
      BY <2>2, <2>3
  <1>8. CASE LoopActs
    <2>1. ctx # "none" /\ loop.pc = "acting" /\ loop'.pc # "exited"
      BY <1>2, <1>8 DEF LoopActs, Holding
    <2>2. QED
      BY <1>7, <1>8, <2>1 DEF LoopActs
  <1>9. ASSUME NEW op \in Ops, RequestActs(op) PROVE seen
    <2>1. ctx # "none"
      <3>1. op > 0 /\ reqs[op].pc = "acting" /\ RequestInv(op) /\ LoopInv
        BY <1>9, MaxOpsAssumption DEF RequestActs, LookupInv, Ops
      <3>2. sm.lastOpID \in Nat /\ op \in Nat /\ op <= sm.lastOpID
        BY <3>1, MaxOpsAssumption DEF RequestInv, LookupInv, MachineInv, Machines, Ops
      <3>3. QED
        BY <3>1, <3>2 DEF LoopInv
    <2>2. QED
      BY <1>7, <1>9, <2>1 DEF RequestActs
  <1>10. CASE LoopTicks \/ LoopAdvances \/ TimePasses
    BY <1>2, <1>3, <1>10 DEF LoopTicks, LoopAdvances, TimePasses, Holding
  <1>11. CASE \/ UNCHANGED vars
              \/ \E s \in Stoppers : StopUnstarted(s) \/ StopReturns(s)
              \/ \E op \in Ops : RequestStep(op) /\ ~RequestActs(op)
    BY <1>3, <1>11 DEF vars, StopUnstarted, StopReturns, RequestStep, Dials, DialFails,
       WatchReturns, DeliverResponse, ResponsePanics, DeliverError
  <1>12. QED
    BY <1>4, <1>5, <1>6, <1>8, <1>9, <1>10, <1>11 DEF LookupNext, ProcessEnded

\* Whoever shares a lookup may rely on the service: slice_lookup.go keeps to it in
\* every interleaving of the loop, the requests and the calls of Stop.
THEOREM LookupImplementsService == LookupSpec => LookupIsAService
  <1>1. LookupInit => Service!Init
    BY DEF LookupInit, Service!Init, statusBar
  <1>2. LookupInv /\ [LookupNext]_vars => [Service!Next]_Service!vars
    BY ServiceStep DEF Service!vars
  <1>3. QED
    BY <1>1, <1>2, LookupInvariance, PTL DEF LookupSpec, LookupIsAService, Service!Spec

-----------------------------------------------------------------------------
(* Who carries what: no action is lost between the machine and the network. *)

\* The goroutines by number: the loop, then the requests.
LEMMA GoroutineFacts ==
  /\ Goroutines = {0} \cup Ops /\ 0 \notin Ops
  /\ \A h \in Goroutines : h \in Nat
  BY MaxOpsAssumption DEF Goroutines, Ops

\* What is pending, goroutine by goroutine.
LEMMA PendingFacts ==
  /\ \A act : act \in Pending <=>
       \E h \in Goroutines : \E i \in 1..Len(ActsOf(h)) : act = ActsOf(h)[i]
  /\ \A act : act \in Pending' <=>
       \E h \in Goroutines : \E i \in 1..Len(ActsOf(h)') : act = ActsOf(h)'[i]
  <1>1. ASSUME NEW act
        PROVE  act \in Pending <=>
                 \E h \in Goroutines : \E i \in 1..Len(ActsOf(h)) : act = ActsOf(h)[i]
    <2>1. act \in Pending <=> \/ \E i \in 1..Len(loop.acts) : act = loop.acts[i]
                             \/ \E op \in Ops : \E i \in 1..Len(reqs[op].acts) : act = reqs[op].acts[i]
      BY DEF Pending
    <2>2. ActsOf(0) = loop.acts /\ \A op \in Ops : ActsOf(op) = reqs[op].acts
      BY GoroutineFacts DEF ActsOf
    <2>3. QED
      BY <2>1, <2>2, GoroutineFacts
  <1>2. ASSUME NEW act
        PROVE  act \in Pending' <=>
                 \E h \in Goroutines : \E i \in 1..Len(ActsOf(h)') : act = ActsOf(h)'[i]
    <2>1. act \in Pending' <=> \/ \E i \in 1..Len(loop'.acts) : act = loop'.acts[i]
                              \/ \E op \in Ops : \E i \in 1..Len(reqs'[op].acts) : act = reqs'[op].acts[i]
      BY DEF Pending
    <2>2. (ActsOf(0))' = loop'.acts /\ \A op \in Ops : (ActsOf(op))' = reqs'[op].acts
      BY GoroutineFacts DEF ActsOf
    <2>3. QED
      BY <2>1, <2>2, GoroutineFacts
  <1>3. QED
    BY <1>1, <1>2

\* What a goroutine holds, and when it holds nothing.
LEMMA ActsFacts ==
  ASSUME LookupInv, NEW h \in Goroutines
  PROVE  /\ ActsOf(h) \in Seq(HeldAfter(h))
         /\ h = 0 /\ loop.pc # "acting" => ActsOf(h) = << >>
         /\ h \in Ops /\ reqs[h].pc # "acting" => ActsOf(h) = << >>
  <1>1. CASE h = 0
    BY <1>1, GoroutineFacts DEF LookupInv, LoopInv, ActsWhenActing, ActsOf
  <1>2. CASE h \in Ops
    BY <1>2, GoroutineFacts DEF LookupInv, RequestInv, ActsWhenActing, ActsOf
  <1>3. QED
    BY <1>1, <1>2, GoroutineFacts

\* What a goroutine is to send was issued, and after it was itself.
LEMMA SendsFacts ==
  ASSUME LookupInv, NEW h \in Goroutines, NEW op \in Ops, NEW i, SendsAt(h, i, op)
  PROVE  h < op /\ op <= sm.lastOpID
  <1>1. ActsOf(h)[i] \in HeldAfter(h)
    BY ActsFacts DEF SendsAt
  <1>2. QED
    BY <1>1, HeldFacts DEF SendsAt

\* Where a request's goroutine is in the network.
Running == {"dialing", "watching", "answered"}

\* A step that carries nothing out and issues nothing.
Quiet ==
  /\ sm'.assignment = sm.assignment /\ sm'.lastOpID = sm.lastOpID /\ cell' = cell
  /\ \A h \in Goroutines : ActsOf(h)' = ActsOf(h)
  /\ \A op \in Ops :
       /\ reqs'[op].pc = "none" <=> reqs[op].pc = "none"
       /\ reqs[op].pc \in Running => reqs'[op].pc \in Running \cup {"panicked"}
  /\ Outstanding(sm') /\ ~sm'.isCancelled => Outstanding(sm) /\ ~sm.isCancelled

\* A call of the machine hands its actions to h, which has no others.
Hands(h) ==
  /\ cell' = cell
  /\ ActsOf(h) = << >> /\ ActsOf(h)' = Actions(sm, sm')
  /\ \A g \in Goroutines \ {h} : ActsOf(g)' = ActsOf(g)
  /\ \A op \in Ops :
       /\ reqs'[op].pc = "none" <=> reqs[op].pc = "none"
       /\ op # h => reqs'[op].pc = reqs[op].pc
  /\ Outstanding(sm') /\ ~sm'.isCancelled /\ sm'.lastOpID = sm.lastOpID =>
       Outstanding(sm) /\ ~sm.isCancelled /\ h # sm.lastOpID

\* The first action of h is to send the request op.
Sent(h, op) == Head(ActsOf(h)).type = "SendRequest" /\ Head(ActsOf(h)).opID = op

\* h carries its first action out.
Carries(h) ==
  /\ sm' = sm
  /\ ActsOf(h) # << >> /\ Publish(Head(ActsOf(h)))
  /\ ActsOf(h)' = Remaining(ActsOf(h))
  /\ \A g \in Goroutines \ {h} : ActsOf(g)' = ActsOf(g)
  /\ \A op \in Ops :
       /\ Sent(h, op) => reqs'[op].pc = "dialing"
       /\ ~Sent(h, op) =>
            /\ reqs'[op].pc = "none" <=> reqs[op].pc = "none"
            /\ reqs[op].pc \in Running => reqs'[op].pc \in Running

-----------------------------------------------------------------------------
\* Without a read the machine starts the next one, or waits.
LEMMA StartsNext ==
  ASSUME NEW u \in Machines, ~Outstanding(u), NEW now, NEW d, NEW t,
         t = OnAdvanceInternal(u, now, d)
  PROVE  ~Outstanding(t) \/ t.lastOpID # u.lastOpID
  <1>1. t = IssueRequest(u, now)
    BY DEF OnAdvanceInternal, GiveUp
  <1>2. u.lastOpID \in Nat
    BY DEF Machines
  <1>3. CASE t = u
    BY <1>3
  <1>4. CASE t.lastOpID = u.lastOpID + 1
    BY <1>2, <1>4
  <1>5. QED
    BY <1>1, <1>3, <1>4 DEF IssueRequest, Machines

\* So the failure of the latest read never leaves that read outstanding,
LEMMA FailureEndsRead ==
  ASSUME NEW s, MachineInv(s), Outstanding(s), ~s.isCancelled, NEW now \in Instants,
         NEW t \in OnFailureEvent(s, now, s.lastOpID)
  PROVE  ~Outstanding(t) \/ t.lastOpID # s.lastOpID
  <1>1. IsLatest(s, s.lastOpID) /\ s \in Machines
    BY DEF MachineInv, ReadsLatest, IsLatest
  <1>2. PICK d \in JitteredDelays(s) :
          t = OnAdvanceInternal(OnReadFailure(s, now, s.lastOpID, d), now, d)
    BY DEF OnFailureEvent
  <1>3. PICK u : u = SetupRetry(s, now, d)
    OBVIOUS
  <1>4. u \in Machines /\ ~Outstanding(u) /\ u.lastOpID = s.lastOpID
    BY <1>1, <1>2, <1>3, SetupRetryFacts DEF MachineInv, Bounded
  <1>5. t = OnAdvanceInternal(u, now, d)
    BY <1>1, <1>2, <1>3 DEF OnReadFailure
  <1>6. QED
    BY <1>4, <1>5, StartsNext

\* and neither does a response that converts.
LEMMA ResponseEndsRead ==
  ASSUME NEW s, MachineInv(s), Outstanding(s), ~s.isCancelled, NEW now \in Instants,
         NEW address \in Address, NEW r \in Responses, ~Panics(r),
         NEW t \in OnSuccessEvent(s, now, address, s.lastOpID, r)
  PROVE  ~Outstanding(t) \/ t.lastOpID # s.lastOpID
  <1>1. IsLatest(s, s.lastOpID) /\ s \in Machines /\ s.lastOpID \in 1..s.lastOpID
    BY DEF MachineInv, ReadsLatest, IsLatest, Machines
  <1>2. PICK d \in JitteredDelays(s) :
          t = OnAdvanceInternal(OnReadSuccess(s, now, address, s.lastOpID, r), now, d)
    BY DEF OnSuccessEvent
  <1>3. PICK u : u = OnReadSuccess(s, now, address, s.lastOpID, r)
    OBVIOUS
  <1>4. u = EndRead(NoteRemote(Incorporate(s, r), address, r), now)
    BY <1>1, <1>3, ResponsesAssumption DEF OnReadSuccess
  <1>5. u.latestReadState = NoRead
    BY <1>1, <1>4 DEF EndRead, ResetBackoff, NoteRemote, Incorporate, Machines
  <1>6. u \in Machines /\ u.lastOpID = s.lastOpID
    BY <1>1, <1>3, SuccessFacts DEF Due
  <1>7. QED
    BY <1>2, <1>3, <1>5, <1>6, StartsNext DEF Outstanding

\* The goroutines' part of a quiet step, said of the variables.
LEMMA QuietWhen ==
  ASSUME sm'.assignment = sm.assignment, sm'.lastOpID = sm.lastOpID, cell' = cell,
         loop'.acts = loop.acts,
         \A op \in Ops : /\ reqs'[op].acts = reqs[op].acts
                         /\ reqs'[op].pc = "none" <=> reqs[op].pc = "none"
                         /\ reqs[op].pc \in Running =>
                              reqs'[op].pc \in Running \cup {"panicked"},
         Outstanding(sm') /\ ~sm'.isCancelled => Outstanding(sm) /\ ~sm.isCancelled
  PROVE  Quiet
  <1>1. ASSUME NEW h \in Goroutines PROVE ActsOf(h)' = ActsOf(h)
    BY GoroutineFacts DEF ActsOf
  <1>2. QED
    BY <1>1 DEF Quiet

\* Of a call of the machine: it starts a read under a new number, or goes on with one.
LEMMA CallFacts ==
  ASSUME LookupInv,
         \/ \E now \in Instants : sm' \in OnAdvance(sm, now)
         \/ \E now \in Instants, op \in Nat : sm' \in OnFailureEvent(sm, now, op)
         \/ \E now \in Instants, address \in Address, op \in 1..sm.lastOpID, r \in Responses :
              sm' \in OnSuccessEvent(sm, now, address, op, r),
         Outstanding(sm'), ~sm'.isCancelled, sm'.lastOpID = sm.lastOpID
  PROVE  Outstanding(sm) /\ ~sm.isCancelled /\ sm.lastOpID \in Nat \ {0}
  <1>1. MachineInv(sm) /\ sm.lastOpID \in Nat
    BY DEF LookupInv, MachineInv, Machines
  <1>2. sm' = sm \/ Follows(sm, sm')
    <2>1. ASSUME NEW now \in Instants, sm' \in OnAdvance(sm, now)
          PROVE  sm' = sm \/ Follows(sm, sm')
      BY <1>1, <2>1, OnAdvanceFacts
    <2>2. ASSUME NEW now \in Instants, NEW op \in Nat, sm' \in OnFailureEvent(sm, now, op)
          PROVE  sm' = sm \/ Follows(sm, sm')
      BY <1>1, <2>2, OnFailureFacts
    <2>3. ASSUME NEW now \in Instants, NEW address \in Address, NEW op \in 1..sm.lastOpID,
                 NEW r \in Responses, sm' \in OnSuccessEvent(sm, now, address, op, r)
          PROVE  sm' = sm \/ Follows(sm, sm')
      BY <1>1, <2>3, OnSuccessFacts
    <2>4. QED
      BY <2>1, <2>2, <2>3
  <1>3. Outstanding(sm) /\ ~sm.isCancelled
    BY <1>1, <1>2
       DEF Follows, Issues, IssuesDue, IssuesAnswered, IssuesAtOnce, BacksOff
  <1>4. QED
    BY <1>1, <1>3 DEF MachineInv, ReadsLatest

\* The loop gets the actions of OnAdvance.
LEMMA LoopHands == ASSUME LookupInv, [LookupNext]_vars, LoopAdvances PROVE Hands(0)
  <1>1. /\ loop.pc = "ticked" /\ reqs' = reqs /\ cell' = cell
        /\ loop' = Holding(loop, Actions(sm, sm'), "select")
        /\ sm' \in OnAdvance(sm, loop.now) /\ loop.now \in Instants
    BY DEF LoopAdvances, Feed, LookupInv, LoopInv
  <1>2. 0 \in Goroutines /\ \A g \in Goroutines \ {0} : g \in Ops
    BY GoroutineFacts
  <1>3. ActsOf(0) = << >>
    BY <1>1, <1>2, ActsFacts
  <1>4. loop'.acts = Actions(sm, sm')
    <2>1. Actions(sm, sm') \in Seq(HeldAfter(0)')
      BY HandedActions DEF LookupInv, MachineInv, Machines
    <2>2. loop \in [pc : LoopPCs, now : Instants, acts : Seq(HeldAfter(0))]
      BY DEF LookupInv, LoopInv
    <2>3. QED
      BY <1>1, <2>1, <2>2, HoldingLoop
  <1>5. (ActsOf(0))' = Actions(sm, sm') /\ \A g \in Goroutines \ {0} : ActsOf(g)' = ActsOf(g)
    BY <1>1, <1>4 DEF ActsOf
  <1>6. Outstanding(sm') /\ ~sm'.isCancelled /\ sm'.lastOpID = sm.lastOpID =>
          Outstanding(sm) /\ ~sm.isCancelled /\ 0 # sm.lastOpID
    BY <1>1, CallFacts
  <1>7. QED
    BY <1>1, <1>3, <1>5, <1>6 DEF Hands

\* A request's goroutine gets the actions of the answer it delivers.
LEMMA RequestHands ==
  ASSUME LookupInv, [LookupNext]_vars, NEW op \in Ops,
         DialFails(op) \/ DeliverResponse(op) \/ DeliverError(op)
  PROVE  Hands(op)
  <1>1. /\ reqs[op].pc \in {"dialing", "answered"} /\ loop' = loop /\ cell' = cell
        /\ reqs' = [reqs EXCEPT ![op] = Holding(reqs[op], Actions(sm, sm'), "done")]
    BY DEF DialFails, DeliverResponse, DeliverError
  <1>2. /\ reqs[op] \in [pc : RequestPCs, redirect : MaybeAddress,
                         now : Instants, acts : Seq(HeldAfter(op))]
        /\ op <= sm.lastOpID /\ op \in Nat \ {0} /\ MachineInv(sm) /\ sm.lastOpID \in Nat
        /\ reqs = [o \in Ops |-> reqs[o]]
    BY <1>1, MaxOpsAssumption DEF LookupInv, RequestInv, MachineInv, Machines, Ops
  <1>3. op \in Goroutines /\ op # 0 /\ ActsOf(op) = << >>
    BY <1>1, ActsFacts, GoroutineFacts
  <1>4. reqs'[op].acts = Actions(sm, sm') /\ reqs'[op].pc # "none"
    <2>1. Actions(sm, sm') \in Seq(HeldAfter(op)')
      BY <1>2, HandedActions
    <2>2. LET h == Holding(reqs[op], Actions(sm, sm'), "done")
          IN  h.acts = Actions(sm, sm') /\ h.pc \in {"acting", "done"}
      BY <1>2, <2>1, HoldingRequest
    <2>3. reqs'[op] = Holding(reqs[op], Actions(sm, sm'), "done")
      BY <1>1, <1>2
    <2>4. QED
      BY <2>2, <2>3
  <1>5. \A o \in Ops : o # op => reqs'[o] = reqs[o]
    BY <1>1, <1>2
  <1>6. (ActsOf(op))' = Actions(sm, sm') /\ \A g \in Goroutines \ {op} : ActsOf(g)' = ActsOf(g)
    BY <1>1, <1>3, <1>4, <1>5, GoroutineFacts DEF ActsOf
  <1>7. ASSUME Outstanding(sm'), ~sm'.isCancelled, sm'.lastOpID = sm.lastOpID
        PROVE  Outstanding(sm) /\ ~sm.isCancelled /\ op # sm.lastOpID
    <2>1. 0 \in Instants /\ reqs[op].now \in Instants /\ op \in 1..sm.lastOpID
          /\ TargetOf(reqs[op].redirect) \in Address
      BY <1>2, MaxLagAssumption, DefaultAddressAssumption DEF Instants, TargetOf, IsEmptyRedirect,
         MaybeAddress
    <2>2. \/ \E now \in Instants : sm' \in OnFailureEvent(sm, now, op)
          \/ \E now \in Instants, address \in Address, r \in Responses :
               /\ ~Panics(r) \/ sm.isCancelled
               /\ sm' \in OnSuccessEvent(sm, now, address, op, r)
      BY <2>1 DEF DialFails, DeliverResponse, DeliverError, Feed
    <2>3. Outstanding(sm) /\ ~sm.isCancelled
      BY <1>2, <1>7, <2>1, <2>2, CallFacts
    <2>4. op # sm.lastOpID
      <3> SUFFICES ASSUME op = sm.lastOpID PROVE FALSE
        OBVIOUS
      <3>1. CASE \E now \in Instants : sm' \in OnFailureEvent(sm, now, op)
        BY <1>2, <1>7, <2>3, <3>1, FailureEndsRead
      <3>2. ASSUME NEW now \in Instants, NEW address \in Address, NEW r \in Responses,
                   ~Panics(r), sm' \in OnSuccessEvent(sm, now, address, op, r)
            PROVE  FALSE
        BY <1>2, <1>7, <2>3, <3>2, ResponseEndsRead
      <3>3. QED
        BY <2>2, <2>3, <3>1, <3>2
    <2>5. QED
      BY <2>3, <2>4
  <1>8. QED
    BY <1>1, <1>3, <1>4, <1>5, <1>6, <1>7 DEF Hands

\* The request that is spawned had not begun; the others are left alone.
LEMMA SpawnedWhenSent ==
  ASSUME LookupInv, UnsentInv, NEW h \in Goroutines, ActsOf(h) # << >>, NEW op \in Ops
  PROVE  /\ Sent(h, op) =>
              /\ op # h /\ ActsOf(op) = << >> /\ reqs[op].pc = "none"
              /\ Spawned(Head(ActsOf(h)))[op].pc = "dialing"
              /\ Spawned(Head(ActsOf(h)))[op].acts = << >>
         /\ ~Sent(h, op) => Spawned(Head(ActsOf(h)))[op] = reqs[op]
  <1>1. /\ ActsOf(h) \in Seq(HeldAfter(h)) /\ Head(ActsOf(h)) = ActsOf(h)[1]
        /\ Len(ActsOf(h)) \in Nat \ {0} /\ reqs = [o \in Ops |-> reqs[o]]
    <2>1. ActsOf(h) \in Seq(HeldAfter(h))
      BY ActsFacts
    <2>2. QED
      BY <2>1 DEF LookupInv
  <1>2. CASE Sent(h, op)
    <2>1. SendsAt(h, 1, op)
      BY <1>1, <1>2 DEF Sent, SendsAt
    <2>2. h < op /\ h \in Nat /\ op \in Nat /\ op \in Goroutines
      BY <2>1, SendsFacts, GoroutineFacts
    <2>3. reqs[op].pc = "none"
      BY <1>1, <2>1 DEF UnsentInv
    <2>4. ActsOf(op) = << >>
      BY <2>2, <2>3, ActsFacts
    <2>5. Spawned(Head(ActsOf(h))) =
            [reqs EXCEPT ![op] = [NoRequest EXCEPT !.pc = "dialing",
                                                   !.redirect = Head(ActsOf(h)).redirect]]
      BY <1>2 DEF Sent, Spawned
    <2>6. Spawned(Head(ActsOf(h)))[op] = [NoRequest EXCEPT !.pc = "dialing",
                                           !.redirect = Head(ActsOf(h)).redirect]
      BY <1>1, <2>5
    <2>7. QED
      BY <1>2, <2>2, <2>3, <2>4, <2>6 DEF NoRequest
  <1>3. CASE ~Sent(h, op)
    <2>1. Head(ActsOf(h)).type = "SendRequest" => Head(ActsOf(h)).opID # op
      BY <1>3 DEF Sent
    <2>2. QED
      BY <1>1, <1>3, <2>1 DEF Spawned
  <1>4. QED
    BY <1>2, <1>3

\* The loop carries its first action out.
LEMMA LoopCarries ==
  ASSUME LookupInv, UnsentInv, [LookupNext]_vars, LoopActs PROVE Carries(0)
  <1>1. /\ loop.pc = "acting" /\ sm' = sm /\ Publish(Head(loop.acts))
        /\ reqs' = Spawned(Head(loop.acts))
        /\ loop' = Holding(loop, Remaining(loop.acts), "select")
    BY DEF LoopActs
  <1>2. /\ 0 \in Goroutines /\ 0 \notin Ops /\ ActsOf(0) = loop.acts /\ ActsOf(0)' = loop'.acts
        /\ loop \in [pc : LoopPCs, now : Instants, acts : Seq(HeldAfter(0))]
        /\ loop.acts # << >>
    BY <1>1, GoroutineFacts DEF ActsOf, LookupInv, LoopInv, ActsWhenActing
  <1>3. loop'.acts = Remaining(loop.acts)
    <2>1. Remaining(loop.acts) \in Seq(HeldAfter(0)')
      BY <1>1, <1>2, LeftActions
    <2>2. QED
      BY <1>1, <1>2, <2>1, HoldingLoop
  <1>4. ASSUME NEW op \in Ops
        PROVE  /\ Sent(0, op) => reqs'[op].pc = "dialing"
               /\ ~Sent(0, op) => reqs'[op] = reqs[op]
               /\ ActsOf(op)' = ActsOf(op)
    <2>1. ActsOf(op) = reqs[op].acts /\ ActsOf(op)' = reqs'[op].acts
      BY GoroutineFacts DEF ActsOf
    <2>2. QED
      BY <1>1, <1>2, <2>1, SpawnedWhenSent
  <1>5. QED
    BY <1>1, <1>2, <1>3, <1>4, GoroutineFacts DEF Carries

\* So does a request's goroutine.
LEMMA RequestCarries ==
  ASSUME LookupInv, UnsentInv, [LookupNext]_vars, NEW op \in Ops, RequestActs(op)
  PROVE  Carries(op)
  <1> DEFINE act == Head(ActsOf(op))
  <1>1. op \in Goroutines /\ op # 0 /\ \A o \in Ops : ActsOf(o) = reqs[o].acts /\ ActsOf(o)' = reqs'[o].acts
    BY GoroutineFacts DEF ActsOf
  <1>2. /\ reqs[op].pc = "acting" /\ sm' = sm /\ loop' = loop
        /\ Publish(act)
        /\ reqs' = [Spawned(act) EXCEPT ![op] = Holding(Spawned(act)[op],
                                                        Remaining(Spawned(act)[op].acts), "done")]
    BY <1>1 DEF RequestActs
  <1>3. /\ reqs[op] \in [pc : RequestPCs, redirect : MaybeAddress,
                         now : Instants, acts : Seq(HeldAfter(op))]
        /\ ActsOf(op) # << >>
    BY <1>1, <1>2 DEF LookupInv, RequestInv, ActsWhenActing
  <1>4. act \in HeldAfter(op) /\ Remaining(ActsOf(op)) \in Seq(HeldAfter(op)')
    BY <1>1, <1>2, <1>3, LeftActions
  <1>5. /\ Spawned(act) = [o \in Ops |-> Spawned(act)[o]]
        /\ Spawned(act)[op] = reqs[op]
        /\ ~Sent(op, op)
    BY <1>1, <1>3, <1>4, SpawnedFacts, SpawnedWhenSent
  <1>6. \A o \in Ops : /\ Sent(op, o) => /\ o # op /\ ActsOf(o) = << >>
                                         /\ Spawned(act)[o].pc = "dialing"
                                         /\ Spawned(act)[o].acts = << >>
                       /\ ~Sent(op, o) => Spawned(act)[o] = reqs[o]
    BY <1>1, <1>3, SpawnedWhenSent
  <1> HIDE DEF act
  <1>7. reqs'[op] = Holding(reqs[op], Remaining(ActsOf(op)), "done")
    BY <1>1, <1>2, <1>5
  <1>8. reqs'[op].acts = Remaining(ActsOf(op)) /\ reqs'[op].pc \in {"acting", "done"}
    BY <1>3, <1>4, <1>7, HoldingRequest
  <1>9. \A o \in Ops \ {op} : reqs'[o] = Spawned(act)[o]
    BY <1>2, <1>5
  <1>10. ASSUME NEW g \in Goroutines \ {op} PROVE ActsOf(g)' = ActsOf(g)
    <2>1. CASE g = 0
      BY <1>2, <2>1 DEF ActsOf
    <2>2. CASE g \in Ops
      BY <1>1, <1>6, <1>9, <2>2
    <2>3. QED
      BY <2>1, <2>2, GoroutineFacts
  <1>11. ASSUME NEW o \in Ops
         PROVE  /\ Sent(op, o) => reqs'[o].pc = "dialing"
                /\ ~Sent(op, o) =>
                     /\ reqs'[o].pc = "none" <=> reqs[o].pc = "none"
                     /\ reqs[o].pc \in Running => reqs'[o].pc \in Running
    <2>1. CASE o = op
      BY <1>2, <1>5, <1>8, <2>1 DEF Running
    <2>2. CASE o # op
      BY <1>6, <1>9, <2>2
    <2>3. QED
      BY <2>1, <2>2
  <1>12. ActsOf(op)' = Remaining(ActsOf(op))
    BY <1>1, <1>8
  <1>13. QED
    BY <1>2, <1>3, <1>10, <1>11, <1>12 DEF Carries, act

\* Every step is quiet, hands some actions, or carries one out.
LEMMA CarrierCases ==
  ASSUME LookupInv, UnsentInv, [LookupNext]_vars
  PROVE  Quiet \/ \E h \in Goroutines : Hands(h) \/ Carries(h)
  <1>1. /\ loop \in [pc : LoopPCs, now : Instants, acts : Seq(HeldAfter(0))]
        /\ reqs = [op \in Ops |-> reqs[op]] /\ MachineInv(sm)
        /\ 0 \in Goroutines /\ \A op \in Ops : op \in Goroutines
    BY GoroutineFacts DEF LookupInv, LoopInv
  <1>2. ASSUME UNCHANGED <<sm, reqs, cell>>, loop'.acts = loop.acts PROVE Quiet
    BY <1>2, QuietWhen
  <1>3. CASE Start
    BY <1>1, <1>2, <1>3 DEF Start
  <1>4. CASE LoopTicks
    BY <1>1, <1>2, <1>4 DEF LoopTicks
  <1>5. ASSUME NEW s \in Stoppers, StopUnstarted(s) \/ Stop(s) \/ StopReturns(s)
        PROVE  Quiet
    BY <1>2, <1>5 DEF StopUnstarted, Stop, StopReturns
  <1>6. CASE LoopExits
    <2>1. sm' = OnCancelEvent(sm) /\ reqs' = reqs /\ cell' = cell /\ loop'.acts = loop.acts
      BY <1>1, <1>6 DEF LoopExits
    <2>2. sm'.isCancelled /\ sm'.lastOpID = sm.lastOpID /\ sm'.assignment = sm.assignment
      BY <1>1, <2>1, CancelFacts
    <2>3. QED
      BY <2>1, <2>2, QuietWhen
  <1>7. CASE TimePasses
    <2>1. sm' = Aged(sm) /\ cell' = cell
      BY <1>7 DEF TimePasses
    <2>2. loop'.acts = loop.acts
      BY <1>1, <1>7 DEF TimePasses
    <2>3. ASSUME NEW op \in Ops PROVE reqs'[op].acts = reqs[op].acts /\ reqs'[op].pc = reqs[op].pc
      <3>1. reqs'[op] = reqs[op] \/ reqs'[op] = [reqs[op] EXCEPT !.now = reqs[op].now - 1]
        BY <1>7 DEF TimePasses
      <3>2. reqs[op] \in [pc : RequestPCs, redirect : MaybeAddress,
                          now : Instants, acts : Seq(HeldAfter(op))]
        BY DEF LookupInv, RequestInv
      <3>3. QED
        BY <3>1, <3>2
    <2>4. /\ sm'.lastOpID = sm.lastOpID /\ sm'.assignment = sm.assignment
          /\ sm'.isCancelled = sm.isCancelled /\ (Outstanding(sm') <=> Outstanding(sm))
      BY <1>1, <2>1, AgedFacts
    <2>5. QED
      BY <2>1, <2>2, <2>3, <2>4, QuietWhen
  <1>8. ASSUME NEW op \in Ops, Dials(op) \/ WatchReturns(op) PROVE Quiet
    <2>1. sm' = sm /\ loop' = loop /\ cell' = cell /\ reqs[op].pc \in {"dialing", "watching"}
      BY <1>8 DEF Dials, WatchReturns
    <2>2. \A o \in Ops \ {op} : reqs'[o] = reqs[o]
      BY <1>1, <1>8 DEF Dials, WatchReturns
    <2>3. reqs'[op].acts = reqs[op].acts /\ reqs'[op].pc \in {"watching", "answered"}
      <3>1. reqs[op] \in [pc : RequestPCs, redirect : MaybeAddress,
                          now : Instants, acts : Seq(HeldAfter(op))]
        BY DEF LookupInv, RequestInv
      <3>2. CASE Dials(op)
        BY <1>1, <3>1, <3>2 DEF Dials
      <3>3. CASE WatchReturns(op)
        BY <1>1, <3>1, <3>3 DEF WatchReturns
      <3>4. QED
        BY <1>8, <3>2, <3>3
    <2>4. \A o \in Ops : /\ reqs'[o].acts = reqs[o].acts
                         /\ reqs'[o].pc = "none" <=> reqs[o].pc = "none"
                         /\ reqs[o].pc \in Running => reqs'[o].pc \in Running
      BY <2>1, <2>2, <2>3 DEF Running
    <2>5. QED
      BY <2>1, <2>4, QuietWhen
  <1>9. ASSUME NEW op \in Ops, ResponsePanics(op) PROVE Quiet
    <2>1. /\ loop' = loop /\ cell' = cell /\ reqs[op].pc = "answered" /\ ~sm.isCancelled
          /\ reqs' = [reqs EXCEPT ![op].pc = "panicked"]
      BY <1>9 DEF ResponsePanics
    <2>2. PICK r \in Responses : sm' = Interrupted(sm, r)
      BY <1>9, <2>1 DEF ResponsePanics, Feed, OnSuccessEvent, Panics
    <2>3. /\ sm'.assignment = sm.assignment /\ sm'.lastOpID = sm.lastOpID
          /\ sm'.latestReadState = sm.latestReadState
      BY <1>1, <2>2 DEF Interrupted, MachineInv, Machines
    <2>4. reqs[op] \in [pc : RequestPCs, redirect : MaybeAddress,
                        now : Instants, acts : Seq(HeldAfter(op))]
      BY DEF LookupInv, RequestInv
    <2>5. reqs'[op].acts = reqs[op].acts /\ reqs'[op].pc = "panicked"
          /\ \A o \in Ops \ {op} : reqs'[o] = reqs[o]
      BY <1>1, <2>1, <2>4
    <2>6. QED
      BY <2>1, <2>3, <2>5, QuietWhen DEF Outstanding
  <1>10. CASE LoopAdvances
    BY <1>1, <1>10, LoopHands
  <1>11. CASE LoopActs
    BY <1>1, <1>11, LoopCarries
  <1>12. ASSUME NEW op \in Ops, RequestStep(op)
         PROVE  Quiet \/ Hands(op) \/ Carries(op)
    BY <1>8, <1>9, <1>12, RequestHands, RequestCarries DEF RequestStep
  <1>13. CASE UNCHANGED vars
    BY <1>2, <1>13 DEF vars
  <1>14. QED
    BY <1>1, <1>3, <1>4, <1>5, <1>6, <1>7, <1>10, <1>11, <1>12, <1>13
       DEF LookupNext, ProcessEnded

\* What is left after an action: the later ones, in place of the first or after
\* the signal that takes its place.
LEMMA LeftFacts ==
  ASSUME NEW S, NEW acts \in Seq(S), acts # << >>
  PROVE  /\ \E d \in {0, 1} : \A i \in 1..Len(Remaining(acts)) :
              Remaining(acts)[i].type = "SendRequest" =>
                i + d \in 2..Len(acts) /\ Remaining(acts)[i] = acts[i + d]
         /\ \A j \in 2..Len(acts) : \E i \in 1..Len(Remaining(acts)) : Remaining(acts)[i] = acts[j]
  <1>1. /\ Len(acts) \in Nat \ {0} /\ Len(Tail(acts)) = Len(acts) - 1
        /\ \A i \in 1..(Len(acts) - 1) : Tail(acts)[i] = acts[i + 1]
        /\ Tail(acts) \in Seq(S)
    OBVIOUS
  <1>2. CASE Head(acts).type = "UseAssignment"
    <2>1. Remaining(acts) = <<MarkReady>> \o Tail(acts)
      BY <1>2 DEF Remaining
    <2>2. PICK t : t = Tail(acts)
      OBVIOUS
    <2>3. t \in Seq(S \cup {MarkReady}) /\ <<MarkReady>> \in Seq(S \cup {MarkReady})
      <3>1. S \subseteq S \cup {MarkReady}
        OBVIOUS
      <3>2. t \in Seq(S \cup {MarkReady})
        BY <1>1, <2>2, <3>1, SeqMonotonic
      <3>3. QED
        BY <3>2
    <2>4. /\ Len(Remaining(acts)) = Len(acts) /\ Remaining(acts)[1] = MarkReady
          /\ \A i \in 2..Len(acts) : Remaining(acts)[i] = t[i - 1]
      BY <1>1, <2>1, <2>2, <2>3
    <2>5. \A i \in 2..Len(acts) : Remaining(acts)[i] = acts[i]
      BY <1>1, <2>2, <2>4
    <2>6. \A i \in 1..Len(Remaining(acts)) :
            Remaining(acts)[i].type = "SendRequest" =>
              i + 0 \in 2..Len(acts) /\ Remaining(acts)[i] = acts[i + 0]
      BY <1>1, <2>4, <2>5 DEF MarkReady
    <2>7. QED
      BY <1>1, <2>4, <2>5, <2>6
  <1>3. CASE Head(acts).type # "UseAssignment"
    <2>1. Remaining(acts) = Tail(acts)
      BY <1>3 DEF Remaining
    <2>2. \A i \in 1..Len(Remaining(acts)) :
            i + 1 \in 2..Len(acts) /\ Remaining(acts)[i] = acts[i + 1]
      BY <1>1, <2>1
    <2>3. ASSUME NEW j \in 2..Len(acts)
          PROVE  \E i \in 1..Len(Remaining(acts)) : Remaining(acts)[i] = acts[j]
      <3>1. j - 1 \in 1..Len(Remaining(acts)) /\ (j - 1) + 1 = j
        BY <1>1, <2>1
      <3>2. Remaining(acts)[j - 1] = acts[j]
        BY <1>1, <2>1, <3>1
      <3>3. QED
        BY <3>1, <3>2
    <2>4. QED
      BY <2>2, <2>3
  <1>4. QED
    BY <1>2, <1>3

\* What a call of the machine asks its caller to do.
LEMMA AskedFacts ==
  ASSUME NEW s, NEW t
  PROVE  /\ \A i \in 1..Len(Actions(s, t)) : Actions(s, t)[i].type = "SendRequest" =>
              t.lastOpID # s.lastOpID /\ Actions(s, t)[i].opID = t.lastOpID /\ i = Len(Actions(s, t))
         /\ t.assignment # s.assignment =>
              \E i \in 1..Len(Actions(s, t)) : Actions(s, t)[i] = UseAssignment(t)
         /\ t.lastOpID # s.lastOpID =>
              \E i \in 1..Len(Actions(s, t)) : Actions(s, t)[i] = SendRequest(t)
  <1> DEFINE acts == Actions(s, t)
  <1>1. PICK use, send : use = UseAssignment(t) /\ send = SendRequest(t)
    OBVIOUS
  <1>2. /\ use.type = "UseAssignment"
        /\ send.type = "SendRequest" /\ send.opID = t.lastOpID
    BY <1>1 DEF UseAssignment, SendRequest
  <1>3. acts = (IF t.assignment # s.assignment THEN <<use>> ELSE << >>) \o
               (IF t.lastOpID # s.lastOpID THEN <<send>> ELSE << >>)
    BY <1>1 DEF Actions
  <1>4. CASE t.assignment # s.assignment /\ t.lastOpID # s.lastOpID
    <2>1. acts = <<use>> \o <<send>>
      BY <1>3, <1>4
    <2> HIDE DEF acts
    <2>2. Len(acts) = 2 /\ acts[1] = use /\ acts[2] = send
      BY <2>1
    <2>3. QED
      BY <1>1, <1>2, <1>4, <2>2 DEF acts
  <1>5. CASE t.assignment # s.assignment /\ t.lastOpID = s.lastOpID
    <2>1. acts = <<use>>
      BY <1>3, <1>5
    <2> HIDE DEF acts
    <2>2. Len(acts) = 1 /\ acts[1] = use
      BY <2>1
    <2>3. QED
      BY <1>1, <1>2, <1>5, <2>2 DEF acts
  <1>6. CASE t.assignment = s.assignment /\ t.lastOpID # s.lastOpID
    <2>1. acts = <<send>>
      BY <1>3, <1>6
    <2> HIDE DEF acts
    <2>2. Len(acts) = 1 /\ acts[1] = send
      BY <2>1
    <2>3. QED
      BY <1>1, <1>2, <1>6, <2>2 DEF acts
  <1>7. CASE t.assignment = s.assignment /\ t.lastOpID = s.lastOpID
    <2>1. acts = << >>
      BY <1>3, <1>7
    <2>2. QED
      BY <1>7, <2>1
  <1>8. QED
    BY <1>4, <1>5, <1>6, <1>7

-----------------------------------------------------------------------------
\* A request stays in one place while it waits to be sent.
LEMMA UnsentStays == ASSUME UnsentInv, Quiet PROVE UnsentInv'
  <1>1. \A h \in Goroutines : ActsOf(h)' = ActsOf(h)
    BY DEF Quiet
  <1>2. ASSUME NEW h \in Goroutines, NEW i, NEW op \in Ops
        PROVE  SendsAt(h, i, op)' <=> SendsAt(h, i, op)
    BY <1>1 DEF SendsAt
  <1>3. \A op \in Ops : reqs[op].pc = "none" => reqs'[op].pc = "none"
    BY DEF Quiet
  <1>4. QED
    BY <1>1, <1>2, <1>3 DEF UnsentInv

\* The request a call issues is in one place: it is new, and the last action handed.
LEMMA UnsentHanded ==
  ASSUME LookupInv, UnsentInv, [LookupNext]_vars, NEW h \in Goroutines, Hands(h)
  PROVE  UnsentInv'
  <1>1. /\ sm.lastOpID \in Nat /\ sm'.lastOpID \in {sm.lastOpID, sm.lastOpID + 1}
        /\ \A op \in Ops : op \in Nat /\ (reqs[op].pc # "none" => op <= sm.lastOpID)
    BY DriverFacts, MaxOpsAssumption DEF LookupInv, RequestInv, MachineInv, Machines, Ops
  <1>2. ASSUME NEW g \in Goroutines \ {h}, NEW j, NEW op \in Ops
        PROVE  SendsAt(g, j, op)' => /\ SendsAt(g, j, op) /\ op <= sm.lastOpID
                                     /\ ActsOf(g)' = ActsOf(g) /\ reqs'[op].pc = "none"
    <2>1. ActsOf(g)' = ActsOf(g)
      BY DEF Hands
    <2>2. SendsAt(g, j, op)' => SendsAt(g, j, op)
      BY <2>1 DEF SendsAt
    <2>3. SendsAt(g, j, op) => op <= sm.lastOpID /\ reqs[op].pc = "none"
      BY SendsFacts DEF UnsentInv, SendsAt
    <2>4. QED
      BY <2>1, <2>2, <2>3 DEF Hands
  <1>3. ASSUME NEW j, NEW op \in Ops
        PROVE  SendsAt(h, j, op)' => /\ op = sm.lastOpID + 1 /\ j = Len(Actions(sm, sm'))
                                     /\ reqs'[op].pc = "none"
    <2>1. ActsOf(h)' = Actions(sm, sm')
      BY DEF Hands
    <2>2. SendsAt(h, j, op)' => sm'.lastOpID # sm.lastOpID /\ op = sm'.lastOpID
                                /\ j = Len(Actions(sm, sm'))
      BY <2>1, AskedFacts DEF SendsAt
    <2>3. QED
      BY <1>1, <2>2 DEF Hands
  <1>4. ASSUME NEW g \in Goroutines, NEW op \in Ops, NEW j, SendsAt(g, j, op)',
               NEW k \in Goroutines, NEW l, SendsAt(k, l, op)'
        PROVE  reqs'[op].pc = "none" /\ k = g /\ l = j
    <2>1. CASE g # h /\ k # h
      BY <1>2, <1>4, <2>1 DEF UnsentInv, SendsAt
    <2>2. CASE g = h /\ k = h
      BY <1>3, <1>4, <2>2
    <2>3. CASE (g = h) # (k = h)
      BY <1>1, <1>2, <1>3, <1>4, <2>3
    <2>4. QED
      BY <2>1, <2>2, <2>3
  <1>5. QED
    BY <1>4 DEF UnsentInv

\* Carrying an action out moves the later ones together.
LEMMA UnsentCarried ==
  ASSUME LookupInv, UnsentInv, NEW h \in Goroutines, Carries(h)
  PROVE  UnsentInv'
  <1>1. ActsOf(h) \in Seq(HeldAfter(h)) /\ ActsOf(h) # << >> /\ ActsOf(h)' = Remaining(ActsOf(h))
    BY ActsFacts DEF Carries
  <1>2. PICK d \in {0, 1} : \A i \in 1..Len(Remaining(ActsOf(h))) :
          Remaining(ActsOf(h))[i].type = "SendRequest" =>
            i + d \in 2..Len(ActsOf(h)) /\ Remaining(ActsOf(h))[i] = ActsOf(h)[i + d]
    BY <1>1, LeftFacts
  <1>3. ASSUME NEW j, NEW op \in Ops, SendsAt(h, j, op)'
        PROVE  SendsAt(h, j + d, op) /\ j + d # 1 /\ j \in Nat
    <2>1. Len(ActsOf(h)) \in Nat /\ Len(Remaining(ActsOf(h))) \in Nat
      <3>1. Remaining(ActsOf(h)) \in Seq(HeldAfter(h) \cup {MarkReady})
        BY <1>1, RemainingFacts
      <3>2. QED
        BY <1>1, <3>1
    <2>2. j \in 1..Len(Remaining(ActsOf(h))) /\ Remaining(ActsOf(h))[j].type = "SendRequest"
          /\ Remaining(ActsOf(h))[j].opID = op
      BY <1>1, <1>3 DEF SendsAt
    <2>3. QED
      BY <1>2, <2>1, <2>2 DEF SendsAt
  <1>4. ASSUME NEW g \in Goroutines \ {h}, NEW j, NEW op \in Ops, SendsAt(g, j, op)'
        PROVE  SendsAt(g, j, op)
    <2>1. ActsOf(g)' = ActsOf(g)
      BY DEF Carries
    <2>2. QED
      BY <1>4, <2>1 DEF SendsAt
  <1>5. ASSUME NEW op \in Ops, Sent(h, op) PROVE SendsAt(h, 1, op)
    <2>1. Head(ActsOf(h)) = ActsOf(h)[1] /\ Len(ActsOf(h)) \in Nat \ {0}
      BY <1>1
    <2>2. QED
      BY <1>5, <2>1 DEF Sent, SendsAt
  <1>6. \A op \in Ops, g \in Goroutines, k \in Goroutines : \A j, l :
          SendsAt(g, j, op) /\ SendsAt(k, l, op) => reqs[op].pc = "none" /\ k = g /\ l = j
    BY DEF UnsentInv, SendsAt
  <1>7. ASSUME NEW g \in Goroutines, NEW op \in Ops, NEW j, SendsAt(g, j, op)'
        PROVE  reqs'[op].pc = "none"
    <2>1. reqs[op].pc = "none" /\ ~Sent(h, op)
      BY <1>3, <1>4, <1>5, <1>6, <1>7
    <2>2. QED
      BY <2>1 DEF Carries
  <1>8. ASSUME NEW g \in Goroutines, NEW op \in Ops, NEW j, SendsAt(g, j, op)',
               NEW k \in Goroutines, NEW l, SendsAt(k, l, op)'
        PROVE  k = g /\ l = j
    <2>1. CASE g # h /\ k # h
      BY <1>4, <1>6, <1>8, <2>1
    <2>2. CASE g = h /\ k = h
      <3>1. l + d = j + d /\ l \in Nat /\ j \in Nat
        BY <1>3, <1>6, <1>8, <2>2
      <3>2. QED
        BY <2>2, <3>1
    <2>3. CASE (g = h) # (k = h)
      BY <1>3, <1>4, <1>6, <1>8, <2>3
    <2>4. QED
      BY <2>1, <2>2, <2>3
  <1>9. QED
    BY <1>7, <1>8 DEF UnsentInv

\* What is pending stays so, but for the action that is carried out.
LEMMA PendingStays ==
  ASSUME LookupInv, NEW act \in Pending
  PROVE  /\ Quiet => act \in Pending'
         /\ \A h \in Goroutines : Hands(h) => act \in Pending'
         /\ \A h \in Goroutines : Carries(h) => act \in Pending' \/ act = Head(ActsOf(h))
  <1>1. PICK g \in Goroutines : \E i \in 1..Len(ActsOf(g)) : act = ActsOf(g)[i]
    BY PendingFacts
  <1>2. ASSUME ActsOf(g)' = ActsOf(g) PROVE act \in Pending'
    BY <1>1, <1>2, PendingFacts
  <1>3. Quiet => act \in Pending'
    BY <1>2 DEF Quiet
  <1>4. ASSUME NEW h \in Goroutines, Hands(h) PROVE act \in Pending'
    <2>1. g # h
      BY <1>1, <1>4 DEF Hands
    <2>2. QED
      BY <1>2, <1>4, <2>1 DEF Hands
  <1>5. ASSUME NEW h \in Goroutines, Carries(h)
        PROVE  act \in Pending' \/ act = Head(ActsOf(h))
    <2>1. CASE g # h
      BY <1>2, <1>5, <2>1 DEF Carries
    <2>2. CASE g = h
      <3>1. ActsOf(h) \in Seq(HeldAfter(h)) /\ ActsOf(h) # << >> /\ ActsOf(h)' = Remaining(ActsOf(h))
        BY <1>5, ActsFacts DEF Carries
      <3>2. PICK i \in 1..Len(ActsOf(h)) : act = ActsOf(h)[i]
        BY <1>1, <2>2
      <3>3. CASE i = 1
        BY <3>1, <3>2, <3>3
      <3>4. CASE i \in 2..Len(ActsOf(h))
        <4>1. \E j \in 1..Len(Remaining(ActsOf(h))) : Remaining(ActsOf(h))[j] = ActsOf(h)[i]
          BY <3>1, <3>4, LeftFacts
        <4>2. QED
          BY <3>1, <3>2, <4>1, PendingFacts
      <3>5. QED
        BY <3>1, <3>2, <3>3, <3>4
    <2>3. QED
      BY <2>1, <2>2
  <1>6. QED
    BY <1>3, <1>4, <1>5

\* What is published is never ahead of what is known.
LEMMA KnownIsNotAhead ==
  ASSUME NEW a \in MaybeAssignment, NEW c \in MaybeAssignment,
         c = NoAssignment \/ c = a \/ (a \in Assignment /\ Newer(a, c))
  PROVE  NotOlder(a, c)
  <1>1. CASE c = NoAssignment
    BY <1>1 DEF NotOlder
  <1>2. CASE c = a
    <2>1. CASE a \in Assignment
      BY <1>2, <2>1, NotRejected
    <2>2. QED
      BY <1>1, <1>2, <2>1 DEF MaybeAssignment
  <1>3. CASE c \in Assignment /\ a \in Assignment /\ Newer(a, c)
    <2>1. GenOf[a] \in Generations /\ GenOf[c] \in Generations
      BY <1>3, GenOfAssumption
    <2>2. Compare(GenOf[a], GenOf[c]) \in {-1, 0, 1}
      BY <2>1, CompareRange
    <2>3. QED
      BY <1>3, <2>2, NilAssumption DEF Newer, NotOlder
  <1>4. QED
    BY <1>1, <1>2, <1>3 DEF MaybeAssignment

\* The cell takes the machine's assignment, and gives it up for no other.
LEMMA PublishesLatest ==
  ASSUME LookupInv, CellFollowsMachine, NEW n, NEW act \in HeldAfter(n), Publish(act), sm' = sm
  PROVE  /\ act = UseAssignment(sm) => cell' = sm.assignment
         /\ cell = sm.assignment => cell' = sm.assignment
  <1>1. /\ sm.assignment \in MaybeAssignment /\ cell \in MaybeAssignment
        /\ NotOlder(sm.assignment, cell)
    BY DEF LookupInv, PublishedInv, MachineInv, Machines, CellFollowsMachine, MaybeAssignment
  <1>2. /\ act.type = "UseAssignment" => act.assignment \in Assignment /\ Known(act.assignment)
        /\ cell' = IF act.type = "UseAssignment" /\ ~Rejects(cell, act.assignment)
                     THEN act.assignment ELSE cell
    BY HeldFacts DEF Publish
  <1>3. \A a \in Assignment, b \in Assignment : Compare(GenOf[a], GenOf[b]) \in {-1, 0, 1}
          /\ Compare(GenOf[a], GenOf[b]) = 0 - Compare(GenOf[b], GenOf[a])
    BY GenOfAssumption, CompareRange, CompareAntisymmetric
  <1>4. ASSUME act = UseAssignment(sm) PROVE cell' = sm.assignment
    <2>1. act.type = "UseAssignment" /\ act.assignment = sm.assignment
      BY <1>4 DEF UseAssignment
    <2>2. ~Rejects(cell, sm.assignment)
      BY <1>1, <1>2, <1>3, <2>1 DEF Rejects, NotOlder, MaybeAssignment
    <2>3. QED
      BY <1>2, <2>1, <2>2
  <1>5. ASSUME cell = sm.assignment PROVE cell' = sm.assignment
    <2>1. CASE act.type = "UseAssignment" /\ act.assignment # sm.assignment
      <3>1. /\ act.assignment \in Assignment /\ sm.assignment \in Assignment
            /\ Newer(sm.assignment, act.assignment)
        BY <1>2, <2>1 DEF Known
      <3>2. Rejects(cell, act.assignment)
        BY <1>3, <1>5, <3>1, NilAssumption DEF Newer, Rejects
      <3>3. QED
        BY <1>2, <1>5, <3>2
    <2>2. QED
      BY <1>2, <1>5, <2>1
  <1>6. QED
    BY <1>4, <1>5

\* The first action is one of those that are held.
LEMMA CarriedFacts ==
  ASSUME LookupInv, NEW h \in Goroutines, Carries(h)
  PROVE  Head(ActsOf(h)) \in HeldAfter(h) /\ Publish(Head(ActsOf(h))) /\ sm' = sm
  <1>1. ActsOf(h) \in Seq(HeldAfter(h)) /\ ActsOf(h) # << >>
    BY ActsFacts DEF Carries
  <1>2. QED
    BY <1>1, HeadTailProperties DEF Carries

\* No step loses the machine's assignment on its way to the cell.
LEMMA CellFollowsStep ==
  ASSUME LookupInv, UnsentInv, CellFollowsMachine, [LookupNext]_vars
  PROVE  CellFollowsMachine'
  <1>1. NotOlder(sm.assignment, cell)'
    <2>1. PublishedInv' /\ MachineInv(sm)'
      BY CellStep, DriverFacts
    <2>2. sm'.assignment \in MaybeAssignment /\ cell' \in MaybeAssignment
          /\ (cell' = NoAssignment \/ Known(cell)')
      BY <2>1 DEF PublishedInv, MachineInv, Machines, MaybeAssignment
    <2>3. \/ cell' = NoAssignment \/ cell' = sm'.assignment
          \/ (sm'.assignment \in Assignment /\ Newer(sm'.assignment, cell'))
      BY <2>2 DEF Known
    <2>4. NotOlder(sm'.assignment, cell')
      BY <2>2, <2>3, KnownIsNotAhead
    <2>5. QED
      BY <2>4 DEF NotOlder
  <1>2. ASSUME sm'.assignment = sm.assignment
        PROVE  UseAssignment(sm') = UseAssignment(sm)
    BY <1>2 DEF UseAssignment
  <1>3. cell = sm.assignment \/ UseAssignment(sm) \in Pending
    BY DEF CellFollowsMachine
  <1>4. CASE Quiet
    BY <1>2, <1>3, <1>4, PendingStays DEF Quiet, CellFollowsMachine
  <1>5. ASSUME NEW h \in Goroutines, Hands(h)
        PROVE  cell' = sm'.assignment \/ UseAssignment(sm') \in Pending'
    <2>1. CASE sm'.assignment = sm.assignment
      BY <1>2, <1>3, <1>5, <2>1, PendingStays DEF Hands
    <2>2. CASE sm'.assignment # sm.assignment
      <3>1. \E i \in 1..Len(Actions(sm, sm')) : Actions(sm, sm')[i] = UseAssignment(sm')
        BY <2>2, AskedFacts
      <3>2. ActsOf(h)' = Actions(sm, sm')
        BY <1>5 DEF Hands
      <3>3. QED
        BY <3>1, <3>2, PendingFacts
    <2>3. QED
      BY <2>1, <2>2
  <1>6. ASSUME NEW h \in Goroutines, Carries(h)
        PROVE  cell' = sm'.assignment \/ UseAssignment(sm') \in Pending'
    <2>1. Head(ActsOf(h)) \in HeldAfter(h) /\ Publish(Head(ActsOf(h))) /\ sm' = sm
      BY <1>6, CarriedFacts
    <2>2. CASE cell = sm.assignment \/ UseAssignment(sm) = Head(ActsOf(h))
      BY <2>1, <2>2, PublishesLatest
    <2>3. QED
      BY <1>2, <1>3, <1>6, <2>1, <2>2, PendingStays
  <1>7. QED
    BY <1>1, <1>4, <1>5, <1>6, CarrierCases DEF Quiet, CellFollowsMachine

\* The request of the latest read, and how it is carried.
Carried(op) ==
  \/ \E act \in Pending : act.type = "SendRequest" /\ act.opID = op
  \/ reqs[op].pc \in Running

\* The read the machine waits for is that of the last request it issued.
LEMMA ReadFacts ==
  ASSUME MachineInv(sm), sm.lastOpID <= MaxOps
  PROVE  /\ Outstanding(sm) => sm.lastOpID \in Ops /\ sm.latestReadState.opID = sm.lastOpID
         /\ ReadHasCarrier <=>
              (Outstanding(sm) /\ ~sm.isCancelled /\ Alive => Carried(sm.lastOpID))
  <1>1. Outstanding(sm) => sm.lastOpID \in Ops /\ sm.latestReadState.opID = sm.lastOpID
    BY MaxOpsAssumption DEF MachineInv, Machines, ReadsLatest, Ops
  <1>2. QED
    BY <1>1 DEF ReadHasCarrier, Carried, Running

\* A process that has ended stays so.
LEMMA EndIsFinal ==
  ASSUME [LookupNext]_vars, Alive' PROVE Alive
  <1>1. CASE UNCHANGED vars
    BY <1>1 DEF vars, Alive
  <1>2. CASE LookupNext
    BY <1>1, <1>2
       DEF LookupNext, ProcessEnded, Start, StopUnstarted, Stop, StopReturns, LoopTicks,
           LoopAdvances, LoopActs, LoopExits, TimePasses, RequestStep, Dials, DialFails,
           WatchReturns, DeliverResponse, ResponsePanics, DeliverError, RequestActs
  <1>3. QED
    BY <1>1, <1>2

\* No step loses the request of the read the machine waits for.
LEMMA ReadHasCarrierStep ==
  ASSUME LookupInv, UnsentInv, ReadHasCarrier, [LookupNext]_vars
  PROVE  ReadHasCarrier'
  <1>1. MachineInv(sm) /\ sm.lastOpID <= MaxOps /\ MachineInv(sm)' /\ sm'.lastOpID <= MaxOps
    BY DriverFacts DEF LookupInv
  <1> SUFFICES ASSUME Outstanding(sm'), ~sm'.isCancelled, Alive'
               PROVE  Carried(sm.lastOpID)'
    <2>1. ReadHasCarrier' <=>
            (Outstanding(sm') /\ ~sm'.isCancelled /\ Alive' => Carried(sm.lastOpID)')
      <3>1. Outstanding(sm') => sm'.latestReadState.opID = sm'.lastOpID
        BY <1>1 DEF MachineInv, ReadsLatest
      <3>2. QED
        BY <3>1 DEF ReadHasCarrier, Carried, Running
    <2>2. QED
      BY <2>1
  <1>2. PICK op : op = sm'.lastOpID
    OBVIOUS
  <1>3. op \in Ops
    BY <1>1, <1>2, MaxOpsAssumption DEF MachineInv, Machines, ReadsLatest, Ops
  <1>4. ASSUME Outstanding(sm), ~sm.isCancelled, op = sm.lastOpID PROVE Carried(op)
    BY <1>1, <1>4, ReadFacts, EndIsFinal
  <1>5. ASSUME \/ \E act \in Pending' : act.type = "SendRequest" /\ act.opID = op
               \/ reqs'[op].pc \in Running
        PROVE  Carried(sm.lastOpID)'
    BY <1>2, <1>5 DEF Carried
  <1>6. CASE Quiet
    <2>1. Carried(op)
      BY <1>2, <1>4, <1>6 DEF Quiet
    <2>2. reqs'[op].pc # "panicked"
      BY <1>3 DEF Alive
    <2>3. QED
      BY <1>3, <1>5, <1>6, <2>1, <2>2, PendingStays DEF Carried, Quiet
  <1>7. ASSUME NEW h \in Goroutines, Hands(h) PROVE Carried(sm.lastOpID)'
    <2>1. CASE sm'.lastOpID = sm.lastOpID
      <3>1. Carried(op) /\ op # h
        BY <1>2, <1>4, <1>7, <2>1 DEF Hands
      <3>2. reqs'[op].pc = reqs[op].pc
        BY <1>3, <1>7, <3>1 DEF Hands
      <3>3. QED
        BY <1>5, <1>7, <3>1, <3>2, PendingStays DEF Carried
    <2>2. CASE sm'.lastOpID # sm.lastOpID
      <3>1. PICK i \in 1..Len(Actions(sm, sm')) : Actions(sm, sm')[i] = SendRequest(sm')
        BY <2>2, AskedFacts
      <3>2. ActsOf(h)' = Actions(sm, sm')
        BY <1>7 DEF Hands
      <3>3. SendRequest(sm') \in Pending'
        BY <3>1, <3>2, PendingFacts
      <3>4. SendRequest(sm').type = "SendRequest" /\ SendRequest(sm').opID = op
        BY <1>2 DEF SendRequest
      <3>5. QED
        BY <1>5, <3>3, <3>4
    <2>3. QED
      BY <2>1, <2>2
  <1>8. ASSUME NEW h \in Goroutines, Carries(h) PROVE Carried(sm.lastOpID)'
    <2>1. sm' = sm /\ Carried(op)
      BY <1>2, <1>4, <1>8 DEF Carries
    <2>2. CASE Sent(h, op)
      <3>1. reqs'[op].pc = "dialing"
        BY <1>3, <1>8, <2>2 DEF Carries
      <3>2. QED
        BY <1>5, <3>1 DEF Running
    <2>3. CASE ~Sent(h, op)
      <3>1. CASE reqs[op].pc \in Running
        <4>1. reqs'[op].pc \in Running
          BY <1>3, <1>8, <2>3, <3>1 DEF Carries
        <4>2. QED
          BY <1>5, <4>1
      <3>2. ASSUME NEW act \in Pending, act.type = "SendRequest", act.opID = op
            PROVE  Carried(sm.lastOpID)'
        <4>1. act # Head(ActsOf(h))
          BY <2>3, <3>2 DEF Sent
        <4>2. act \in Pending'
          BY <1>8, <4>1, PendingStays
        <4>3. QED
          BY <1>5, <3>2, <4>2
      <3>3. QED
        BY <2>1, <3>1, <3>2 DEF Carried
    <2>4. QED
      BY <2>2, <2>3
  <1>9. QED
    BY <1>6, <1>7, <1>8, CarrierCases

-----------------------------------------------------------------------------
\* The carriers' invariant holds initially.
LEMMA CarrierInit == LookupInit => UnsentInv /\ CellFollowsMachine /\ ReadHasCarrier
  <1> SUFFICES ASSUME LookupInit PROVE UnsentInv /\ CellFollowsMachine /\ ReadHasCarrier
    OBVIOUS
  <1>1. \A h \in Goroutines : ActsOf(h) = << >>
    BY GoroutineFacts DEF LookupInit, ActsOf, NoRequest
  <1>2. UnsentInv
    BY <1>1 DEF UnsentInv
  <1>3. sm.assignment = NoAssignment /\ cell = NoAssignment /\ ~Outstanding(sm)
    BY DEF LookupInit, SMInit, NewMachine, Outstanding
  <1>4. QED
    BY <1>2, <1>3 DEF CellFollowsMachine, NotOlder, ReadHasCarrier

\* The invariant of who carries what, with the one of the driver.
THEOREM LookupCarrierInvariance == LookupSpec => []CarrierInv
  <1>1. CarrierInv /\ [LookupNext]_vars => CarrierInv'
    <2> SUFFICES ASSUME CarrierInv, [LookupNext]_vars PROVE CarrierInv'
      OBVIOUS
    <2>1. LookupInv /\ UnsentInv /\ CellFollowsMachine /\ ReadHasCarrier
      BY DEF CarrierInv
    <2>2. LookupInv'
      BY <2>1, DriverFacts, CellStep, LoopStep, RequestsStep, StopStep DEF LookupInv
    <2>3. UnsentInv'
      BY <2>1, CarrierCases, UnsentStays, UnsentHanded, UnsentCarried
    <2>4. QED
      BY <2>1, <2>2, <2>3, CellFollowsStep, ReadHasCarrierStep DEF CarrierInv
  <1>2. LookupInit => CarrierInv
    BY LookupInvInit, CarrierInit DEF CarrierInv
  <1>3. QED
    BY <1>1, <1>2, PTL DEF LookupSpec

\* Whatever the order in which goroutines carry out, outside sl.mu, the actions that
\* were computed under it, no assignment is lost: the cell is never ahead of the
\* machine, and behind it only while a publication of its assignment is pending
\* (slice_lookup.go:149-171, atomic_assignment.go:39-54).
THEOREM LookupCellFollowsMachine == LookupSpec => []CellFollowsMachine
  <1>1. CarrierInv => CellFollowsMachine
    BY DEF CarrierInv
  <1>2. QED
    BY <1>1, LookupCarrierInvariance, PTL

\* And no request is: while the machine waits for a read, some goroutine is about to
\* start that read or is in it (slice_lookup.go:149-255).
THEOREM LookupReadHasCarrier == LookupSpec => []ReadHasCarrier
  <1>1. CarrierInv => ReadHasCarrier
    BY DEF CarrierInv
  <1>2. QED
    BY <1>1, LookupCarrierInvariance, PTL
=============================================================================
