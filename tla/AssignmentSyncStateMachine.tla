--------------------- MODULE AssignmentSyncStateMachine ---------------------
(***************************************************************************)
(* pkg/client/state_machine.go: the passive machine that decides when the  *)
(* client watches, whom it asks, when it gives up and what it keeps.  Its  *)
(* fields are the record sm; a handler is an operator from the machine     *)
(* before to the set of machines that may result (the jitter is a choice). *)
(*                                                                         *)
(* Instants are kept relative to the wall clock, so 0 is now and Tick      *)
(* moves every instant one unit into the past.  A driver may pass a clock  *)
(* reading it took up to MaxLag units ago; an instant older than that is   *)
(* before every reading, and is kept at -MaxLag.  A unit is the one of     *)
(* time.Duration, whose integers are DurationLimit in each direction.      *)
(***************************************************************************)
EXTENDS Assignments, Sequences

CONSTANTS
  Address,        \* endpoints of watch servers
  NoAddress,      \* a nil *string
  BlankAddress,   \* a pointer to ""
  Config,         \* StateMachineConfig as given
  DefaultConfig,  \* the delays NewAssignmentSyncStateMachine falls back to
  Responses,      \* the answers a watch server may give
  NoResponse,     \* a nil *ClientResponseP
  DurationLimit,  \* the first integer too large for an int64
  Millisecond,    \* time.Millisecond
  MaxLag          \* how stale the clock reading of a handler may be

MaybeAddress == Address \cup {NoAddress, BlankAddress}

\* The values of an int64, among them those of a time.Duration.
Durations == -DurationLimit..(DurationLimit - 1)

Configs(Delay) == [WatchRPCTimeout : Delay, MinRetryDelay : Delay, MaxRetryDelay : Delay]

\* A ClientResponseP.  assignment is what AssignmentFromProto makes of a
\* KnownAssignment; it is nil for one that does not convert, for a
\* KnownGeneration and for no sync state at all (generation is then empty).
\* panics says which conversion of the response panics, if one does: that of the
\* assignment (an incarnation above the guardrail, a negative index), or that of a
\* KnownGeneration.
Response ==
  [assignment : MaybeAssignment, generation : Generations, redirect : MaybeAddress,
   suggestedTimeout : Durations, panics : {"nothing", "assignment", "generation"}]

ASSUME AddressAssumption ==
  NoAddress \notin Address /\ BlankAddress \notin Address /\ NoAddress # BlankAddress

ASSUME DurationAssumption == DurationLimit \in Nat \ {0} /\ Millisecond \in Nat \ {0}

\* Delays are below 146 years, so that doubling and jitter do not overflow.
ASSUME ConfigAssumption ==
  /\ Config \in Configs(Durations)
  /\ DefaultConfig \in Configs(Durations \cap (Nat \ {0}))
  /\ \A c \in {Config, DefaultConfig} :
       2 * c.MinRetryDelay < DurationLimit /\ 2 * c.MaxRetryDelay < DurationLimit

ASSUME ResponsesAssumption == Responses \subseteq Response /\ NoResponse \notin Responses

ASSUME MaxLagAssumption == MaxLag \in Nat

\* The clock readings a handler may be given.
Instants == -MaxLag..0

\* An instant, or -MaxLag for an older one.
Kept(t) == IF t < -MaxLag THEN -MaxLag ELSE t

VARIABLE sm

-----------------------------------------------------------------------------
(* The machine's fields *)

\* latestReadState; operations are numbered from 1, so 0 stands for nil.
NoRead == [opID |-> 0, deadline |-> 0]

Outstanding(s) == s.latestReadState # NoRead

IsLatest(s, opID) == Outstanding(s) /\ opID = s.latestReadState.opID

\* Redirect.IsEmpty.
IsEmptyRedirect(address) == address \in {NoAddress, BlankAddress}

\* Mutant: a zero duration is taken as given.
OrDefaultIfNegative(given, default) == IF given < 0 THEN default ELSE given

OrDefault(given, default) == IF given <= 0 THEN default ELSE given

\* The configuration as the constructor corrects it, field by field.
WatchRPCTimeout == OrDefault(Config.WatchRPCTimeout, DefaultConfig.WatchRPCTimeout)
MinRetryDelay == OrDefault(Config.MinRetryDelay, DefaultConfig.MinRetryDelay)
MaxRetryDelay == OrDefault(Config.MaxRetryDelay, DefaultConfig.MaxRetryDelay)

\* NewAssignmentSyncStateMachine; the zero scheduledReadTime is long past.
NewMachine ==
  [isCancelled |-> FALSE,
   assignment |-> NoAssignment,
   lastOpID |-> 0,
   latestReadState |-> NoRead,
   redirect |-> NoAddress,
   remoteKnown |-> [address |-> NoAddress, generation |-> EmptyGeneration],
   watchRPCTimeout |-> WatchRPCTimeout,
   inBackoff |-> FALSE,
   currentBackoffWait |-> MinRetryDelay,
   scheduledReadTime |-> -MaxLag]

-----------------------------------------------------------------------------
(* The internal functions *)

\* The delays within the jitter of [0.5, 1.5] times the current wait.
JitteredDelays(s) == (s.currentBackoffWait \div 2)..((3 * s.currentBackoffWait) \div 2)

\* Mutant: the wait doubles without a cap.
UncappedWait(s) == 2 * s.currentBackoffWait

DoubledWait(s) ==
  IF 2 * s.currentBackoffWait > MaxRetryDelay THEN MaxRetryDelay ELSE 2 * s.currentBackoffWait

SetupRetry(s, now, delay) ==
  [s EXCEPT !.latestReadState = NoRead,
            !.redirect = NoAddress,
            !.inBackoff = TRUE,
            !.scheduledReadTime = now + delay,
            !.currentBackoffWait = DoubledWait(s)]

ResetBackoff(s) == [s EXCEPT !.inBackoff = FALSE, !.currentBackoffWait = MinRetryDelay]

\* The generation a response reports, whatever the client makes of the rest.
RespGeneration(r) ==
  IF r.assignment # NoAssignment THEN GenOf[r.assignment] ELSE r.generation

\* incorporateSyncState: does the response bring a strictly newer assignment?
IsNew(s, r) == r.assignment # NoAssignment /\ Newer(r.assignment, s.assignment)

\* The assignment and the redirect are taken from any response, old or latest.
Incorporate(s, r) ==
  [s EXCEPT !.assignment = IF IsNew(s, r) THEN r.assignment ELSE @,
            !.redirect = r.redirect]

\* time.Duration(millis) * time.Millisecond, which wraps around: a suggestion may
\* be positive, and the timeout made of it negative.
FromMillis(millis) ==
  ((millis * Millisecond + DurationLimit) % (2 * DurationLimit)) - DurationLimit

\* What the response tells of the server at address, and its suggested timeout.
NoteRemote(s, address, r) ==
  [s EXCEPT !.remoteKnown = [address |-> address, generation |-> RespGeneration(r)],
            !.watchRPCTimeout =
               IF r.suggestedTimeout > 0 THEN FromMillis(r.suggestedTimeout) ELSE @]

\* The latest read is over, and the next one is due at once.
EndRead(s, now) ==
  [ResetBackoff(s) EXCEPT !.latestReadState = NoRead, !.scheduledReadTime = now]

OnReadSuccess(s, now, address, opID, r) ==
  IF r = NoResponse THEN s
  ELSE IF IsLatest(s, opID)
         THEN EndRead(NoteRemote(Incorporate(s, r), address, r), now)
         ELSE IF IsNew(s, r) THEN NoteRemote(Incorporate(s, r), address, r)
                             ELSE Incorporate(s, r)

\* Mutant: the failure of a request that was given up sets up a retry again.
OnAnyReadFailure(s, now, opID, delay) == SetupRetry(s, now, delay)

OnReadFailure(s, now, opID, delay) ==
  IF IsLatest(s, opID) THEN SetupRetry(s, now, delay) ELSE s

\* The first half of onAdvanceInternal: give up a read past its deadline.
GiveUp(s, now, delay) ==
  IF Outstanding(s) /\ now >= s.latestReadState.deadline THEN SetupRetry(s, now, delay) ELSE s

\* Mutant: the operation number is read before it is incremented.
IssueWithOldID(s, now) ==
  IF ~Outstanding(s) /\ now >= s.scheduledReadTime
    THEN [s EXCEPT !.inBackoff = FALSE,
                   !.lastOpID = @ + 1,
                   !.latestReadState =
                      [opID |-> s.lastOpID, deadline |-> Kept(now + s.watchRPCTimeout)]]
    ELSE s

\* Mutant: the retry request leaves the machine in backoff.
IssueInBackoff(s, now) ==
  IF ~Outstanding(s) /\ now >= s.scheduledReadTime
    THEN [s EXCEPT !.lastOpID = @ + 1,
                   !.latestReadState =
                      [opID |-> s.lastOpID + 1, deadline |-> Kept(now + s.watchRPCTimeout)]]
    ELSE s

\* Mutant: the end of a backoff is left to somebody else.
IssueUnlessBackoff(s, now) ==
  IF ~Outstanding(s) /\ ~s.inBackoff /\ now >= s.scheduledReadTime
    THEN [s EXCEPT !.lastOpID = @ + 1,
                   !.latestReadState =
                      [opID |-> s.lastOpID + 1, deadline |-> Kept(now + s.watchRPCTimeout)]]
    ELSE s

\* The second half: issue a request once it is due and none is outstanding.
IssueRequest(s, now) ==
  IF ~Outstanding(s) /\ now >= s.scheduledReadTime
    THEN [s EXCEPT !.inBackoff = FALSE,
                   !.lastOpID = @ + 1,
                   !.latestReadState =
                      [opID |-> s.lastOpID + 1, deadline |-> Kept(now + s.watchRPCTimeout)]]
    ELSE s

OnAdvanceInternal(s, now, delay) == IssueRequest(GiveUp(s, now, delay), now)

\* A conversion panics: where the handler is left, for a caller that recovers.  The
\* assignment is converted before the redirect is taken, a KnownGeneration after.
Panics(r) == r # NoResponse /\ r.panics # "nothing"

Interrupted(s, r) ==
  IF r.panics = "generation" THEN [s EXCEPT !.redirect = r.redirect] ELSE s

-----------------------------------------------------------------------------
(* The handlers: the machines a call may leave behind *)

OnAdvance(s, now) ==
  IF s.isCancelled THEN {s} ELSE {OnAdvanceInternal(s, now, d) : d \in JitteredDelays(s)}

\* Mutant: a cancelled machine still takes in answers.
OnSuccessEventAlways(s, now, address, opID, r) ==
  {OnAdvanceInternal(OnReadSuccess(s, now, address, opID, r), now, d) : d \in JitteredDelays(s)}

OnSuccessEvent(s, now, address, opID, r) ==
  IF s.isCancelled THEN {s}
  ELSE IF Panics(r) THEN {Interrupted(s, r)}
  ELSE {OnAdvanceInternal(OnReadSuccess(s, now, address, opID, r), now, d) :
          d \in JitteredDelays(s)}

OnFailureEvent(s, now, opID) ==
  IF s.isCancelled THEN {s}
  ELSE {OnAdvanceInternal(OnReadFailure(s, now, opID, d), now, d) : d \in JitteredDelays(s)}

OnCancelEvent(s) == [s EXCEPT !.isCancelled = TRUE]

-----------------------------------------------------------------------------
(* The actions a call emits, read off the machine before and after it *)

KnownAssignment(a) == [kind |-> "KnownAssignment", assignment |-> a]
KnownGeneration(g) == [kind |-> "KnownGeneration", generation |-> g]

\* The generation of what the client has.
KnownGen(s) == IF s.assignment = NoAssignment THEN EmptyGeneration ELSE GenOf[s.assignment]

\* Mutant: a server that knows as much counts as lagging, even if that is nothing.
SyncStateIfEqual(s) ==
  IF /\ Compare(KnownGen(s), s.remoteKnown.generation) >= 0
     /\ s.redirect = s.remoteKnown.address
    THEN KnownAssignment(s.assignment)
    ELSE KnownGeneration(KnownGen(s))

\* What the next request says the client has; pointers to equal strings agree.
SyncState(s) ==
  IF /\ s.assignment # NoAssignment
     /\ Compare(GenOf[s.assignment], s.remoteKnown.generation) > 0
     /\ s.redirect = s.remoteKnown.address
    THEN KnownAssignment(s.assignment)
    ELSE KnownGeneration(KnownGen(s))

UseAssignment(s) == [type |-> "UseAssignment", assignment |-> s.assignment]

SendRequest(s) ==
  [type |-> "SendRequest", opID |-> s.lastOpID, redirect |-> s.redirect,
   syncState |-> SyncState(s)]

\* Both are emitted at most once in a call, the assignment first.
Actions(before, after) ==
  (IF after.assignment # before.assignment THEN <<UseAssignment(after)>> ELSE << >>) \o
  (IF after.lastOpID # before.lastOpID THEN <<SendRequest(after)>> ELSE << >>)

-----------------------------------------------------------------------------
(* The machine under any driver and any network *)

Earlier(t) == Kept(t - 1)

\* The machine one time unit later.
AgedRead(s) ==
  IF Outstanding(s)
    THEN [opID |-> s.latestReadState.opID, deadline |-> Earlier(s.latestReadState.deadline)]
    ELSE s.latestReadState

Aged(s) ==
  [s EXCEPT !.scheduledReadTime = Earlier(@), !.latestReadState = AgedRead(s)]

Advance == \E now \in Instants : sm' \in OnAdvance(sm, now)

\* An answer, late or repeated ones included, to any request issued so far.
ReadSuccess ==
  \E now \in Instants, address \in Address \cup {NoAddress}, opID \in 1..sm.lastOpID,
     r \in Responses \cup {NoResponse} :
    sm' \in OnSuccessEvent(sm, now, address, opID, r)

ReadFailure ==
  \E now \in Instants, opID \in 1..sm.lastOpID : sm' \in OnFailureEvent(sm, now, opID)

Cancel == sm' = IF sm.isCancelled THEN sm ELSE OnCancelEvent(sm)

Tick == sm' = Aged(sm)

SMInit == sm = NewMachine

SMNext == Advance \/ ReadSuccess \/ ReadFailure \/ Cancel \/ Tick

SMSpec == SMInit /\ [][SMNext]_sm

-----------------------------------------------------------------------------
Machines ==
  [isCancelled : BOOLEAN,
   assignment : MaybeAssignment,
   lastOpID : Nat,
   latestReadState : [opID : Nat, deadline : Int],
   redirect : MaybeAddress,
   remoteKnown : [address : MaybeAddress, generation : Generations],
   watchRPCTimeout : Durations,
   inBackoff : BOOLEAN,
   currentBackoffWait : Nat \ {0},
   scheduledReadTime : Int]

SMTypeOK == sm \in Machines

ReadsLatest(s) == Outstanding(s) => s.lastOpID > 0 /\ s.latestReadState.opID = s.lastOpID

Busy(s) == s.lastOpID > 0 => (s.inBackoff <=> ~Outstanding(s))

\* t is at most the timeout the machine began with, or one a server suggested.
WithinTimeout(t) ==
  \/ t <= WatchRPCTimeout
  \/ \E r \in Responses : r.suggestedTimeout > 0 /\ t <= r.suggestedTimeout * Millisecond

\* t is at most 1.5 times the longest wait.
WithinDelay(t) == 2 * t <= 3 * MinRetryDelay \/ 2 * t <= 3 * MaxRetryDelay

Prompt(s) ==
  IF Outstanding(s) THEN WithinTimeout(s.latestReadState.deadline)
                    ELSE WithinDelay(s.scheduledReadTime)

\* The read that is tracked is always the newest request, so the answer to a
\* request that was given up never ends the read of its successor.
LatestIsLast == ReadsLatest(sm)

\* Once the first request is out the machine either reads or backs off, never
\* both and never neither; and however failures, late answers and the jitter
\* combine, that ends within the longest timeout it was given or 1.5 times its
\* longest delay: no event leaves it without a next step in bounded time.  A
\* suggestion that overflows only makes it earlier.
WakesUpInTime == Busy(sm) /\ Prompt(sm)

\* The waits and timeouts the next deadline will be computed from are bounded too.
MachineInv(s) ==
  /\ s \in Machines
  /\ ReadsLatest(s)
  /\ Busy(s)
  /\ Prompt(s)
  /\ s.currentBackoffWait <= MinRetryDelay \/ s.currentBackoffWait <= MaxRetryDelay
  /\ WithinTimeout(s.watchRPCTimeout)

\* Events of requests that were given up do not touch a retry that is waiting:
\* they neither bring it forward nor put it off, and the delays keep doubling.
LateEventsKeepRetry ==
  [][~Outstanding(sm) /\ ~Outstanding(sm') =>
       /\ sm'.inBackoff = sm.inBackoff
       /\ sm'.currentBackoffWait = sm.currentBackoffWait
       /\ sm'.scheduledReadTime \in {sm.scheduledReadTime, Aged(sm).scheduledReadTime}]_sm

-----------------------------------------------------------------------------
\* The lifecycle phase of the machine.
phaseBar ==
  IF sm.isCancelled THEN "Cancelled"
  ELSE IF Outstanding(sm) THEN "RequestInFlight"
  ELSE IF sm.inBackoff THEN "ErrorBackoff" ELSE "Idle"

Session == INSTANCE WatchSession
             WITH MinDelay <- MinRetryDelay, MaxDelay <- MaxRetryDelay, phase <- phaseBar,
                  attempts <- sm.lastOpID, delay <- sm.currentBackoffWait,
                  held <- sm.assignment

\* Every behaviour of the machine is one of WatchSession: the current request is
\* replaced only once it was answered or failed, whatever late events come between.
MachineFollowsLifecycle == Session!Spec

-----------------------------------------------------------------------------
(* What the documentation says and the code does not do *)

\* "If an RPC exceeds its deadline, the state machine triggers a hedge retry
\* without blocking", and the diagram has it stay in RequestInFlight: time alone
\* never takes the machine out of it.
DeadlineIsHedged == [][Outstanding(sm) /\ Advance => Outstanding(sm')]_sm

\* RPCs are tracked "against watchRPCTimeout (default 30s or server suggested
\* timeout)".
TimeoutIsAsSuggested ==
  \/ sm.watchRPCTimeout = WatchRPCTimeout
  \/ \E r \in Responses :
       r.suggestedTimeout > 0 /\ sm.watchRPCTimeout = r.suggestedTimeout * Millisecond
=============================================================================
