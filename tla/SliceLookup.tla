---------------------------- MODULE SliceLookup -----------------------------
(***************************************************************************)
(* pkg/client/slice_lookup.go: the driver of AssignmentSyncStateMachine.   *)
(* A ticker loop and one goroutine per Watch request feed the machine      *)
(* under sl.mu and carry out, outside the lock, the actions it returns.    *)
(* A step is one critical section, or one action carried out, or a wait    *)
(* that ends.  Set on the cell is one step: AtomicAssignmentCell is shown  *)
(* to be an atomic register.  A panic in a goroutine ends the process, and *)
(* with it every other goroutine: none of them recovers.                   *)
(***************************************************************************)
EXTENDS AssignmentSyncStateMachine

CONSTANTS
  Stoppers,              \* the calls of Stop, each made once
  DefaultWatchAddress,   \* StateMachineConfig.DefaultWatchAddress
  MaxOps                 \* bound: the requests of a behaviour

ASSUME DefaultAddressAssumption == DefaultWatchAddress \in Address

ASSUME MaxOpsAssumption == MaxOps \in Nat

Ops == 1..MaxOps

VARIABLES
  ctx,        \* sl.ctx: "none" until Start, then "live", then "cancelled"
  loop,       \* runLoop: where it is, its clock reading, its pending actions
  reqs,       \* executeSendRequest, by operation: the same, and its redirect
  cell,       \* sl.cell's assignment
  ready,      \* readyChan is closed
  stopping    \* the progress of each call of Stop

vars == <<sm, ctx, loop, reqs, cell, ready, stopping>>

LoopPCs == {"off", "select", "ticked", "acting", "exited"}
RequestPCs == {"none", "dialing", "watching", "answered", "acting", "done", "panicked"}

NoRequest == [pc |-> "none", redirect |-> NoAddress, now |-> 0, acts |-> << >>]

LookupInit ==
  /\ SMInit
  /\ ctx = "none"
  /\ loop = [pc |-> "off", now |-> 0, acts |-> << >>]
  /\ reqs = [op \in Ops |-> NoRequest]
  /\ cell = NoAssignment
  /\ ready = FALSE
  /\ stopping = [s \in Stoppers |-> "idle"]

-----------------------------------------------------------------------------
(* The machine is called under the lock, and its actions are taken away. *)

\* Call the machine, within the bound on the number of requests.  Time stops at
\* the bound, so it holds back little: an answer to the last request, and the retry
\* of one that was given up because its timeout had overflowed.
Feed(machines) == sm' \in machines /\ sm'.lastOpID <= MaxOps

\* A goroutine that has these actions to carry out, and rests after the last.
Holding(goroutine, acts, rest) ==
  [goroutine EXCEPT !.pc = IF acts = << >> THEN rest ELSE "acting", !.now = 0, !.acts = acts]

\* The process runs as long as none of its goroutines has panicked.
Alive == \A op \in Ops : reqs[op].pc # "panicked"

\* The address a request goes to.
TargetOf(redirect) == IF IsEmptyRedirect(redirect) THEN DefaultWatchAddress ELSE redirect

-----------------------------------------------------------------------------
(* handleAction, one effect at a time *)

MarkReady == [type |-> "MarkReady"]

\* Mutant: readyChan is never closed.
RemainingUnready(acts) == Tail(acts)

\* What is left of the actions after the first effect of the first one: a
\* published assignment is followed by the once-only close of readyChan.
Remaining(acts) ==
  IF Head(acts).type = "UseAssignment" THEN <<MarkReady>> \o Tail(acts) ELSE Tail(acts)

\* Mutant: a plain store of the assignment.
PublishUnchecked(act) ==
  /\ cell' = IF act.type = "UseAssignment" THEN act.assignment ELSE cell
  /\ ready' = (ready \/ act.type = "MarkReady")

\* Mutant: only the first assignment is published.
PublishFirst(act) ==
  /\ cell' = IF act.type = "UseAssignment" /\ cell = NoAssignment
               THEN act.assignment ELSE cell
  /\ ready' = (ready \/ act.type = "MarkReady")

\* Mutant: the channel is closed by the first action of any kind.
PublishReady(act) ==
  /\ cell' = IF act.type = "UseAssignment" /\ ~Rejects(cell, act.assignment)
               THEN act.assignment ELSE cell
  /\ ready' = TRUE

\* cell.Set, the close of readyChan.
Publish(act) ==
  /\ cell' = IF act.type = "UseAssignment" /\ ~Rejects(cell, act.assignment)
               THEN act.assignment ELSE cell
  /\ ready' = (ready \/ act.type = "MarkReady")

\* The requests after go executeSendRequest(act).
Spawned(act) ==
  IF act.type = "SendRequest"
    THEN [reqs EXCEPT ![act.opID] = [NoRequest EXCEPT !.pc = "dialing", !.redirect = act.redirect]]
    ELSE reqs

-----------------------------------------------------------------------------
(* Start, Stop and runLoop *)

\* Start; a second call finds sl.ctx set and does nothing.
Start ==
  /\ Alive
  /\ ctx = "none"
  /\ ctx' = "live"
  /\ loop' = [loop EXCEPT !.pc = "select"]
  /\ UNCHANGED <<sm, reqs, cell, ready, stopping>>

\* Stop before Start: there is nothing to cancel.
StopUnstarted(s) ==
  /\ Alive
  /\ stopping[s] = "idle"
  /\ ctx = "none"
  /\ stopping' = [stopping EXCEPT ![s] = "ignored"]
  /\ UNCHANGED <<sm, ctx, loop, reqs, cell, ready>>

\* Mutant: Stop waits without cancelling.
StopWithoutCancel(s) ==
  /\ Alive
  /\ stopping[s] = "idle"
  /\ ctx # "none"
  /\ stopping' = [stopping EXCEPT ![s] = "waiting"]
  /\ UNCHANGED <<sm, ctx, loop, reqs, cell, ready>>

\* Stop cancels the context and waits for the loop.
Stop(s) ==
  /\ Alive
  /\ stopping[s] = "idle"
  /\ ctx # "none"
  /\ ctx' = "cancelled"
  /\ stopping' = [stopping EXCEPT ![s] = "waiting"]
  /\ UNCHANGED <<sm, loop, reqs, cell, ready>>

\* wg.Wait is over.
StopReturns(s) ==
  /\ Alive
  /\ stopping[s] = "waiting"
  /\ loop.pc = "exited"
  /\ stopping' = [stopping EXCEPT ![s] = "stopped"]
  /\ UNCHANGED <<sm, ctx, loop, reqs, cell, ready>>

\* The select receives a reading of the clock the ticker took when it fired; it may
\* have waited in the channel while the loop was busy.
LoopTicks ==
  /\ Alive
  /\ loop.pc = "select"
  /\ \E now \in Instants : loop' = [loop EXCEPT !.pc = "ticked", !.now = now]
  /\ UNCHANGED <<sm, ctx, reqs, cell, ready, stopping>>

LoopAdvances ==
  /\ Alive
  /\ loop.pc = "ticked"
  /\ Feed(OnAdvance(sm, loop.now))
  /\ loop' = Holding(loop, Actions(sm, sm'), "select")
  /\ UNCHANGED <<ctx, reqs, cell, ready, stopping>>

LoopActs ==
  /\ Alive
  /\ loop.pc = "acting"
  /\ Publish(Head(loop.acts))
  /\ reqs' = Spawned(Head(loop.acts))
  /\ loop' = Holding(loop, Remaining(loop.acts), "select")
  /\ UNCHANGED <<sm, ctx, stopping>>

\* Mutant: the loop leaves a new machine behind.
LoopExitsRenewed ==
  /\ Alive
  /\ loop.pc = "select"
  /\ ctx = "cancelled"
  /\ sm' = NewMachine
  /\ loop' = [loop EXCEPT !.pc = "exited"]
  /\ UNCHANGED <<ctx, reqs, cell, ready, stopping>>

\* The select finds the context done.
LoopExits ==
  /\ Alive
  /\ loop.pc = "select"
  /\ ctx = "cancelled"
  /\ sm' = OnCancelEvent(sm)
  /\ loop' = [loop EXCEPT !.pc = "exited"]
  /\ UNCHANGED <<ctx, reqs, cell, ready, stopping>>

-----------------------------------------------------------------------------
(* executeSendRequest *)

\* grpcClientFn gives a client, and Watch is called.
Dials(op) ==
  /\ Alive
  /\ reqs[op].pc = "dialing"
  /\ reqs' = [reqs EXCEPT ![op].pc = "watching"]
  /\ UNCHANGED <<sm, ctx, loop, cell, ready, stopping>>

\* Mutant: the failure to dial is not reported.
DialFailsSilently(op) ==
  /\ Alive
  /\ reqs[op].pc = "dialing"
  /\ reqs' = [reqs EXCEPT ![op].pc = "done"]
  /\ UNCHANGED <<sm, ctx, loop, cell, ready, stopping>>

\* grpcClientFn fails; the clock is read under the lock.
DialFails(op) ==
  /\ Alive
  /\ reqs[op].pc = "dialing"
  /\ Feed(OnFailureEvent(sm, 0, op))
  /\ reqs' = [reqs EXCEPT ![op] = Holding(@, Actions(sm, sm'), "done")]
  /\ UNCHANGED <<ctx, loop, cell, ready, stopping>>

\* Mutant: Watch is not under the lookup's context, and hangs once it is stopped.
WatchReturnsWhileLive(op) ==
  /\ Alive
  /\ reqs[op].pc = "watching"
  /\ ctx = "live"
  /\ reqs' = [reqs EXCEPT ![op].pc = "answered", ![op].now = 0]
  /\ UNCHANGED <<sm, ctx, loop, cell, ready, stopping>>

\* Watch returns, at the latest when its context ends; the clock is read
\* before the lock is requested.
WatchReturns(op) ==
  /\ Alive
  /\ reqs[op].pc = "watching"
  /\ reqs' = [reqs EXCEPT ![op].pc = "answered", ![op].now = 0]
  /\ UNCHANGED <<sm, ctx, loop, cell, ready, stopping>>

\* It returned a response.
DeliverResponse(op) ==
  /\ Alive
  /\ reqs[op].pc = "answered"
  /\ \E r \in Responses :
       /\ ~Panics(r) \/ sm.isCancelled
       /\ Feed(OnSuccessEvent(sm, reqs[op].now, TargetOf(reqs[op].redirect), op, r))
  /\ reqs' = [reqs EXCEPT ![op] = Holding(@, Actions(sm, sm'), "done")]
  /\ UNCHANGED <<ctx, loop, cell, ready, stopping>>

\* It returned a response that the machine, unless it was cancelled, cannot convert.
ResponsePanics(op) ==
  /\ Alive
  /\ reqs[op].pc = "answered"
  /\ ~sm.isCancelled
  /\ \E r \in Responses :
       /\ Panics(r)
       /\ Feed(OnSuccessEvent(sm, reqs[op].now, TargetOf(reqs[op].redirect), op, r))
  /\ reqs' = [reqs EXCEPT ![op].pc = "panicked"]
  /\ UNCHANGED <<ctx, loop, cell, ready, stopping>>

\* It returned an error.
DeliverError(op) ==
  /\ Alive
  /\ reqs[op].pc = "answered"
  /\ Feed(OnFailureEvent(sm, reqs[op].now, op))
  /\ reqs' = [reqs EXCEPT ![op] = Holding(@, Actions(sm, sm'), "done")]
  /\ UNCHANGED <<ctx, loop, cell, ready, stopping>>

RequestActs(op) ==
  /\ Alive
  /\ reqs[op].pc = "acting"
  /\ Publish(Head(reqs[op].acts))
  /\ reqs' = [Spawned(Head(reqs[op].acts)) EXCEPT
                ![op] = Holding(@, Remaining(@.acts), "done")]
  /\ UNCHANGED <<sm, ctx, loop, stopping>>

-----------------------------------------------------------------------------
\* After a panic there is nothing left to run.
ProcessEnded == ~Alive /\ UNCHANGED vars

\* Time passes, for the machine and for every clock reading in hand; none of
\* them waits for the lock for longer than MaxLag.
TimePasses ==
  /\ Alive
  /\ sm.lastOpID < MaxOps \/ sm.isCancelled
  /\ loop.pc = "ticked" => loop.now > -MaxLag
  /\ \A op \in Ops : reqs[op].pc = "answered" => reqs[op].now > -MaxLag
  /\ sm' = Aged(sm)
  /\ loop' = IF loop.pc = "ticked" THEN [loop EXCEPT !.now = @ - 1] ELSE loop
  /\ reqs' = [op \in Ops |->
                IF reqs[op].pc = "answered" THEN [reqs[op] EXCEPT !.now = @ - 1] ELSE reqs[op]]
  /\ UNCHANGED <<ctx, cell, ready, stopping>>

RequestStep(op) ==
  Dials(op) \/ DialFails(op) \/ WatchReturns(op)
    \/ DeliverResponse(op) \/ ResponsePanics(op) \/ DeliverError(op) \/ RequestActs(op)

LookupNext ==
  \/ Start
  \/ \E s \in Stoppers : StopUnstarted(s) \/ Stop(s) \/ StopReturns(s)
  \/ LoopTicks \/ LoopAdvances \/ LoopActs \/ LoopExits
  \/ \E op \in Ops : RequestStep(op)
  \/ TimePasses \/ ProcessEnded

LookupSpec == LookupInit /\ [][LookupNext]_vars

\* Goroutines run, the ticker ticks, Watch honours its context's deadline, and
\* time passes: it waits for no goroutine, only for the clock readings that are
\* as old as the bound allows, and these are used again and again.  A select with
\* both cases ready picks either at random, so the loop is not forever diverted
\* from a context that is done.
LookupFairness ==
  /\ SF_vars(TimePasses)
  /\ WF_vars(LoopTicks) /\ WF_vars(LoopAdvances) /\ WF_vars(LoopActs)
  /\ SF_vars(LoopExits)
  /\ \A op \in Ops : WF_vars(RequestStep(op))
  /\ \A s \in Stoppers : WF_vars(StopReturns(s))

FairLookupSpec == LookupSpec /\ LookupFairness

-----------------------------------------------------------------------------
SyncStates ==
  [kind : {"KnownAssignment"}, assignment : Assignment]
    \cup [kind : {"KnownGeneration"}, generation : Generations]

ActionRecords ==
  [type : {"UseAssignment"}, assignment : Assignment]
    \cup {MarkReady}
    \cup [type : {"SendRequest"}, opID : Ops, redirect : MaybeAddress, syncState : SyncStates]

LookupTypeOK ==
  /\ SMTypeOK
  /\ ctx \in {"none", "live", "cancelled"}
  /\ loop \in [pc : LoopPCs, now : Instants, acts : Seq(ActionRecords)]
  /\ reqs \in [Ops -> [pc : RequestPCs, redirect : MaybeAddress,
                       now : Instants, acts : Seq(ActionRecords)]]
  /\ cell \in MaybeAssignment
  /\ ready \in BOOLEAN
  /\ stopping \in [Stoppers -> {"idle", "waiting", "stopped", "ignored"}]

\* The actions some goroutine still has to carry out.
Pending ==
  {loop.acts[i] : i \in 1..Len(loop.acts)} \cup
  UNION {{reqs[op].acts[i] : i \in 1..Len(reqs[op].acts)} : op \in Ops}

\* The cell never runs ahead of the machine, and it is behind it only while the
\* goroutine that was handed the machine's assignment has still to publish it:
\* actions carried out of order outside the lock lose no assignment.
CellFollowsMachine ==
  /\ NotOlder(sm.assignment, cell)
  /\ cell = sm.assignment \/ UseAssignment(sm) \in Pending

\* Ready is signalled only once there is an assignment to route with.
ReadyMeansAssigned == ready => cell # NoAssignment

\* While the machine waits for a read, one goroutine is about to start it or is
\* still in it: no request is lost between the machine and the network, unless the
\* process is lost.
ReadHasCarrier ==
  Outstanding(sm) /\ ~sm.isCancelled /\ Alive =>
    \/ \E act \in Pending : act.type = "SendRequest" /\ act.opID = sm.latestReadState.opID
    \/ reqs[sm.latestReadState.opID].pc \in {"dialing", "watching", "answered"}

\* A Stop that cancelled the lookup returns only when the machine is inert.
StopLeavesMachineInert ==
  \A s \in Stoppers : stopping[s] = "stopped" => sm.isCancelled

\* What the router reads from the cell never goes back.
CellNeverGoesBack == [][NotOlder(cell', cell)]_vars

\* No request is running, and none is about to.
Drained == Pending = {} /\ \A op \in Ops : reqs[op].pc \in {"none", "done"}

\* Stop returns, whatever the ticker, the requests and the server do; and from some
\* time after it the requests still running have ended, and no more are made.  Only
\* the end of the process forestalls it.
StopCompletes ==
  /\ \A s \in Stoppers : stopping[s] = "waiting" ~> (stopping[s] = "stopped" \/ ~Alive)
  /\ ctx = "cancelled" ~> [](Drained \/ ~Alive)

\* A running lookup never stops asking: every failure, timeout or late answer is
\* followed by another request (as long as the bound allows one, and unless an answer
\* ends the process).
KeepsTrying ==
  \A k \in 0..(MaxOps - 1) :
    (ctx = "live" /\ sm.lastOpID = k) ~> (sm.lastOpID > k \/ ctx = "cancelled" \/ ~Alive)

\* An assignment the machine accepted reaches the cell, or a newer one does, and
\* waiters are woken, while the process lives.
AssignmentIsPublished ==
  \A a \in Assignment :
    sm.assignment = a ~> ((ready /\ cell # NoAssignment /\ ~Newer(a, cell)) \/ ~Alive)

-----------------------------------------------------------------------------
\* How far the life of the lookup is.
statusBar ==
  IF ctx = "none" THEN "new"
  ELSE IF ctx = "live" THEN "running"
  ELSE IF loop.pc = "exited" THEN "exited" ELSE "cancelled"

Service == INSTANCE LookupService WITH status <- statusBar

\* Whoever shares the lookup sees the service of LookupService: its life never
\* goes back, nor does what its router reads, and the signal comes with an
\* assignment, in whatever order the goroutines carry out their actions.
LookupIsAService == Service!Spec

-----------------------------------------------------------------------------
(* The inductive invariant behind the refinement and the safety properties. *)

\* An assignment the machine has, or has replaced by a newer one.
Known(a) ==
  \/ a = sm.assignment
  \/ sm.assignment \in Assignment /\ Newer(sm.assignment, a)

\* The actions that may be pending now: assignments the machine has known, the
\* signal once there is an assignment, requests it has issued after the n-th.
HeldAfter(n) ==
  [type : {"UseAssignment"}, assignment : {a \in Assignment : Known(a)}]
    \cup {act \in {MarkReady} : cell # NoAssignment}
    \cup [type : {"SendRequest"}, opID : {op \in Ops : n < op /\ op <= sm.lastOpID},
          redirect : MaybeAddress, syncState : SyncStates]

\* A goroutine has actions exactly when it is about to carry them out.
ActsWhenActing(goroutine) == goroutine.pc = "acting" <=> goroutine.acts # << >>

LoopInv ==
  /\ loop \in [pc : LoopPCs, now : Instants, acts : Seq(HeldAfter(0))]
  /\ ActsWhenActing(loop)
  /\ ctx = "none" => loop.pc = "off" /\ sm.lastOpID = 0
  /\ loop.pc = "exited" => sm.isCancelled /\ ctx = "cancelled"

RequestInv(op) ==
  /\ reqs[op] \in [pc : RequestPCs, redirect : MaybeAddress,
                   now : Instants, acts : Seq(HeldAfter(op))]
  /\ ActsWhenActing(reqs[op])
  /\ reqs[op].pc # "none" => op <= sm.lastOpID

PublishedInv ==
  /\ cell \in {NoAssignment} \cup {a \in Assignment : Known(a)}
  /\ ready \in BOOLEAN
  /\ ready => cell # NoAssignment

StopInv ==
  /\ ctx \in {"none", "live", "cancelled"}
  /\ stopping \in [Stoppers -> {"idle", "waiting", "stopped", "ignored"}]
  /\ \A s \in Stoppers : stopping[s] = "stopped" => loop.pc = "exited"

LookupInv ==
  /\ MachineInv(sm) /\ sm.lastOpID <= MaxOps
  /\ LoopInv
  /\ reqs = [op \in Ops |-> reqs[op]]
  /\ \A op \in Ops : RequestInv(op)
  /\ PublishedInv
  /\ StopInv

-----------------------------------------------------------------------------
(* The inductive invariant behind CellFollowsMachine and ReadHasCarrier. *)

\* Who may have actions to carry out: the loop, as 0, and the requests.
Goroutines == 0..MaxOps
ActsOf(h) == IF h = 0 THEN loop.acts ELSE reqs[h].acts

\* The i-th action of h is to send the request op.
SendsAt(h, i, op) ==
  /\ i \in 1..Len(ActsOf(h))
  /\ ActsOf(h)[i].type = "SendRequest" /\ ActsOf(h)[i].opID = op

\* A request that was issued and not sent yet is in one place of one goroutine's
\* actions, and it has not begun: sending it disturbs nothing that is under way.
UnsentInv ==
  \A h \in Goroutines, op \in Ops : \A i \in 1..Len(ActsOf(h)) :
    SendsAt(h, i, op) =>
      /\ reqs[op].pc = "none"
      /\ \A g \in Goroutines : \A j \in 1..Len(ActsOf(g)) :
           SendsAt(g, j, op) => g = h /\ j = i

CarrierInv == LookupInv /\ UnsentInv /\ CellFollowsMachine /\ ReadHasCarrier

-----------------------------------------------------------------------------
(* What the documentation says and the code does not do *)

\* "If the redirect endpoint fails, the client clears the redirect and falls back
\* to DefaultWatchAddress": a machine in backoff has no redirect.
BackoffFallsBackToDefault == sm.inBackoff => IsEmptyRedirect(sm.redirect)

\* "If the remote server reports an older generation than what the client
\* currently holds, the client switches to KnownAssignment": whenever a request
\* is issued to the server that last answered with an older generation.
LaggingServerIsFed ==
  [][/\ sm'.lastOpID # sm.lastOpID
     /\ sm'.assignment # NoAssignment
     /\ TargetOf(sm'.redirect) = sm'.remoteKnown.address
     /\ Compare(GenOf[sm'.assignment], sm'.remoteKnown.generation) > 0
     => SyncState(sm') = KnownAssignment(sm'.assignment)]_vars

\* "Close() stops all active background goroutines": nothing runs once a Stop
\* that cancelled the lookup has returned.
StopStopsEverything ==
  (\E s \in Stoppers : stopping[s] = "stopped") => Drained
=============================================================================
