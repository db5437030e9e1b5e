------------------ MODULE AssignmentSyncStateMachineProofs ------------------
(***************************************************************************)
(* The state machine for any configuration, any servers and any number of  *)
(* requests.  A handler goes from a machine that satisfies MachineInv      *)
(* through one whose read has just ended (Due, which does not) to one that *)
(* satisfies it again; Follows says how the two ends are related.  First,  *)
(* that generations are totally ordered, on which "newer than" rests.      *)
(***************************************************************************)
EXTENDS AssignmentSyncStateMachine, TLAPS

-----------------------------------------------------------------------------
(* "Newer than": the comparison of generations *)

\* Generation.Compare answers one of -1, 0 and 1.
LEMMA CompareRange ==
  ASSUME NEW g \in Generations, NEW h \in Generations
  PROVE  Compare(g, h) \in {-1, 0, 1}
  BY DEF Compare, IncarnationCompare, Generations

\* Swapping the arguments of Generation.Compare flips its sign.
LEMMA CompareAntisymmetric ==
  ASSUME NEW g \in Generations, NEW h \in Generations
  PROVE  Compare(h, g) = 0 - Compare(g, h)
  BY DEF Compare, IncarnationCompare, Generations

\* Two generations compare equal only when they are the same generation.
LEMMA CompareEqual ==
  ASSUME NEW g \in Generations, NEW h \in Generations
  PROVE  Compare(g, h) = 0 <=> g = h
  BY DEF Compare, IncarnationCompare, Generations

\* "At least as new as" composes: g >= h and h >= k give g >= k, strictly if
\* either of the two is strict.
LEMMA CompareTransitive ==
  ASSUME NEW g \in Generations, NEW h \in Generations, NEW k \in Generations,
         Compare(g, h) >= 0, Compare(h, k) >= 0
  PROVE  /\ Compare(g, k) >= 0
         /\ (Compare(g, h) > 0 \/ Compare(h, k) > 0) => Compare(g, k) > 0
  BY DEF Compare, IncarnationCompare, Generations

\* Generation.Compare is a total order of the generations with the empty
\* generation at its bottom, whatever the incarnations and numbers are.
THEOREM GenerationTotalOrder ==
  ASSUME NEW g \in Generations, NEW h \in Generations, NEW k \in Generations
  PROVE  /\ Less(g, h) \/ Equal(g, h) \/ Less(h, g)
         /\ ~(Less(g, h) /\ Less(h, g))
         /\ Less(g, h) /\ Less(h, k) => Less(g, k)
         /\ ~Less(g, EmptyGeneration)
  <1>1. Compare(g, h) \in {-1, 0, 1} /\ Compare(h, g) = 0 - Compare(g, h)
    BY CompareRange, CompareAntisymmetric
  <1>2. ASSUME Less(g, h), Less(h, k)
        PROVE  Less(g, k)
    <2>1. Compare(h, g) >= 0 /\ Compare(h, g) > 0 /\ Compare(k, h) >= 0
      BY <1>2, CompareAntisymmetric, CompareRange DEF Less
    <2>2. Compare(k, g) > 0
      BY <2>1, CompareTransitive
    <2>3. QED
      BY <2>2, CompareAntisymmetric, CompareRange DEF Less
  <1>3. ~Less(g, EmptyGeneration)
    BY DEF Less, Compare, IncarnationCompare, Generations, EmptyGeneration
  <1>4. QED
    BY <1>1, <1>2, <1>3 DEF Less, Equal

-----------------------------------------------------------------------------
(* The machine *)

\* The corrected configuration is positive, whatever was given.
LEMMA ConfigType ==
  /\ WatchRPCTimeout \in Nat \ {0}
  /\ MinRetryDelay \in Nat \ {0}
  /\ MaxRetryDelay \in Nat \ {0}
  /\ WatchRPCTimeout \in Durations
  BY ConfigAssumption, DurationAssumption
     DEF Configs, Durations, WatchRPCTimeout, MinRetryDelay, MaxRetryDelay, OrDefault

\* Multiplication wraps: the timeout made of a suggestion is a Duration, and no
\* longer than what was suggested.
LEMMA FromMillisFacts ==
  ASSUME NEW n \in Nat
  PROVE  FromMillis(n) \in Durations /\ FromMillis(n) <= n * Millisecond
  <1>1. PICK x : x = n * Millisecond
    OBVIOUS
  <1>2. x \in Nat
    BY <1>1, DurationAssumption
  <1>3. PICK m : m = 2 * DurationLimit
    OBVIOUS
  <1>4. m \in Nat \ {0}
    BY <1>3, DurationAssumption
  <1>5. \A y \in Nat : y % m \in 0..(m - 1) /\ y % m <= y
    BY <1>4
  <1>6. FromMillis(n) = ((x + DurationLimit) % m) - DurationLimit
    BY <1>1, <1>3 DEF FromMillis
  <1>7. /\ x + DurationLimit \in Nat
        /\ (x + DurationLimit) % m \in 0..(m - 1) /\ (x + DurationLimit) % m <= x + DurationLimit
    BY <1>2, <1>5, DurationAssumption
  <1>8. PICK k : k = (x + DurationLimit) % m
    OBVIOUS
  <1>9. k \in 0..(m - 1) /\ k <= x + DurationLimit /\ FromMillis(n) = k - DurationLimit
    BY <1>6, <1>7, <1>8
  <1>10. QED
    BY <1>1, <1>2, <1>3, <1>9, DurationAssumption DEF Durations

\* The fields of a machine have their types.
LEMMA MachineFields ==
  ASSUME NEW s \in Machines
  PROVE  /\ s.isCancelled \in BOOLEAN /\ s.inBackoff \in BOOLEAN
         /\ s.assignment \in MaybeAssignment
         /\ s.lastOpID \in Nat
         /\ s.latestReadState \in [opID : Nat, deadline : Int]
         /\ s.watchRPCTimeout \in Int /\ s.watchRPCTimeout \in Durations
         /\ s.currentBackoffWait \in Nat \ {0}
         /\ s.scheduledReadTime \in Int
  BY DurationAssumption DEF Machines, Durations

\* The waits and timeouts of a machine stay within what it was configured with.
Bounded(s) ==
  /\ s.currentBackoffWait <= MinRetryDelay \/ s.currentBackoffWait <= MaxRetryDelay
  /\ WithinTimeout(s.watchRPCTimeout)

\* A machine in the middle of a handler: it is busy, or its next read is due.
Due(s, now) ==
  /\ s \in Machines
  /\ ReadsLatest(s)
  /\ Prompt(s)
  /\ Bounded(s)
  /\ Busy(s) \/ (~Outstanding(s) /\ now >= s.scheduledReadTime)

\* A delay a retry of s may get.
DelayFor(s, d) == d \in Int /\ (Outstanding(s) => d \in JitteredDelays(s))

\* The assignment stays or is replaced by a newer one that an answer brought.
Learns(s, t) ==
  \/ t.assignment = s.assignment
  \/ t.assignment \in Assignment /\ Newer(t.assignment, s.assignment) /\ s.lastOpID > 0

\* The retry schedule is left alone.
SameRetry(s, t) ==
  /\ t.inBackoff = s.inBackoff
  /\ t.currentBackoffWait = s.currentBackoffWait
  /\ t.scheduledReadTime = s.scheduledReadTime

\* t has issued the next request.
Issues(s, t) == t.lastOpID = s.lastOpID + 1 /\ Outstanding(t)

\* No read was under way, and its time had come.
IssuesDue(s, t) ==
  Issues(s, t) /\ ~Outstanding(s) /\ t.currentBackoffWait = s.currentBackoffWait

\* The read was answered.
IssuesAnswered(s, t) ==
  Issues(s, t) /\ Outstanding(s) /\ t.currentBackoffWait = MinRetryDelay

\* The read failed, and the jitter has left nothing of the delay.
IssuesAtOnce(s, t) ==
  /\ Issues(s, t) /\ Outstanding(s)
  /\ s.currentBackoffWait \div 2 = 0 /\ t.currentBackoffWait = DoubledWait(s)

\* The read failed.
BacksOff(s, t) ==
  /\ t.lastOpID = s.lastOpID /\ Outstanding(s) /\ ~Outstanding(t) /\ t.inBackoff
  /\ t.currentBackoffWait = DoubledWait(s)

\* What a handler may do to a machine that is not cancelled: issue a request,
\* end the read with a failure, or neither.
Follows(s, t) ==
  /\ ~s.isCancelled /\ ~t.isCancelled
  /\ Learns(s, t)
  /\ \/ IssuesDue(s, t) \/ IssuesAnswered(s, t) \/ IssuesAtOnce(s, t)
     \/ BacksOff(s, t)
     \/ t.lastOpID = s.lastOpID /\ (Outstanding(t) <=> Outstanding(s)) /\ SameRetry(s, t)

\* A read or a backoff that is cut short by a panic is as it was.
LEMMA InterruptedFacts ==
  ASSUME NEW s, MachineInv(s), ~s.isCancelled, NEW r \in Responses
  PROVE  MachineInv(Interrupted(s, r)) /\ Follows(s, Interrupted(s, r))
  <1> DEFINE t == Interrupted(s, r)
  <1>1. s \in Machines /\ r.redirect \in MaybeAddress
    BY ResponsesAssumption DEF MachineInv, Response
  <1>2. t \in Machines
    BY <1>1 DEF Interrupted, Machines
  <1>3. /\ t.latestReadState = s.latestReadState /\ t.lastOpID = s.lastOpID
        /\ t.assignment = s.assignment /\ t.isCancelled = s.isCancelled
        /\ t.watchRPCTimeout = s.watchRPCTimeout /\ SameRetry(s, t)
    BY <1>1 DEF Interrupted, Machines, SameRetry
  <1> HIDE DEF t
  <1>4. MachineInv(t)
    BY <1>2, <1>3 DEF MachineInv, ReadsLatest, Busy, Prompt, Outstanding, SameRetry
  <1>5. Follows(s, t)
    BY <1>3 DEF Follows, Learns, Outstanding
  <1>6. QED
    BY <1>4, <1>5 DEF t

-----------------------------------------------------------------------------
\* A new machine satisfies the invariant.
LEMMA NewMachineInv == MachineInv(NewMachine)
  <1>1. NewMachine \in Machines
    BY ConfigType, MaxLagAssumption DEF NewMachine, Machines, NoRead, MaybeAssignment,
       MaybeAddress, EmptyGeneration, Generations
  <1>2. ~Outstanding(NewMachine)
    BY DEF Outstanding, NewMachine
  <1>3. NewMachine.scheduledReadTime = -MaxLag /\ NewMachine.lastOpID = 0
        /\ NewMachine.currentBackoffWait = MinRetryDelay
        /\ NewMachine.watchRPCTimeout = WatchRPCTimeout
    BY DEF NewMachine
  <1>4. QED
    BY <1>1, <1>2, <1>3, ConfigType, MaxLagAssumption DEF MachineInv, ReadsLatest, Busy,
       Prompt, WithinDelay, WithinTimeout

\* A deadline or a scheduled time is not put off by being kept.
LEMMA KeptFacts ==
  ASSUME NEW t \in Int
  PROVE  /\ Kept(t) \in Int /\ (Kept(t) = t \/ Kept(t) = -MaxLag)
         /\ Kept(t) <= 0 \/ Kept(t) = t
         /\ Earlier(t) \in Int /\ (Earlier(t) <= t \/ Earlier(t) <= 0)
  BY MaxLagAssumption DEF Kept, Earlier

\* A retry is scheduled within 1.5 times the longest wait, and clears the read.
LEMMA SetupRetryFacts ==
  ASSUME NEW s \in Machines, Bounded(s), NEW now \in Instants, NEW d \in JitteredDelays(s)
  PROVE  LET t == SetupRetry(s, now, d) IN
         /\ t \in Machines
         /\ ~Outstanding(t) /\ t.inBackoff
         /\ t.lastOpID = s.lastOpID /\ t.assignment = s.assignment
         /\ t.isCancelled = s.isCancelled
         /\ WithinDelay(t.scheduledReadTime)
         /\ Bounded(t)
         /\ t.currentBackoffWait = DoubledWait(s)
         /\ now >= t.scheduledReadTime => s.currentBackoffWait \div 2 = 0
  <1> DEFINE t == SetupRetry(s, now, d)
  <1>1. now \in Int /\ now <= 0
    BY MaxLagAssumption DEF Instants
  <1>2. s.currentBackoffWait \in Nat \ {0} /\ s.scheduledReadTime \in Int
    BY MachineFields
  <1>3. d \in Int /\ 2 * d <= 3 * s.currentBackoffWait /\ s.currentBackoffWait \div 2 <= d
    BY <1>2 DEF JitteredDelays
  <1>4. DoubledWait(s) \in Nat \ {0} /\ DoubledWait(s) <= MaxRetryDelay
    BY <1>2, ConfigType DEF DoubledWait
  <1>5. t \in Machines
    <2>1. NoRead \in [opID : Nat, deadline : Int] /\ NoAddress \in MaybeAddress
          /\ now + d \in Int
      BY <1>1, <1>3 DEF NoRead, MaybeAddress
    <2>2. QED
      BY <1>4, <2>1 DEF SetupRetry, Machines
  <1>6. /\ t.latestReadState = NoRead /\ t.inBackoff /\ t.lastOpID = s.lastOpID
        /\ t.assignment = s.assignment /\ t.isCancelled = s.isCancelled
        /\ t.scheduledReadTime = now + d /\ t.currentBackoffWait = DoubledWait(s)
        /\ t.watchRPCTimeout = s.watchRPCTimeout
    BY DEF SetupRetry, Machines
  <1>7. WithinDelay(now + d)
    BY <1>1, <1>2, <1>3, ConfigType DEF WithinDelay, Bounded
  <1>8. now >= now + d => s.currentBackoffWait \div 2 = 0
    BY <1>1, <1>2, <1>3
  <1>9. QED
    BY <1>4, <1>5, <1>6, <1>7, <1>8 DEF Outstanding, Bounded

\* A machine whose read is due issues the next request, and is then busy with it.
LEMMA IssueFacts ==
  ASSUME NEW s \in Machines, Bounded(s), NEW now \in Instants,
         ~Outstanding(s), now >= s.scheduledReadTime
  PROVE  LET t == IssueRequest(s, now) IN
         /\ MachineInv(t)
         /\ Outstanding(t)
         /\ t.lastOpID = s.lastOpID + 1
         /\ t.assignment = s.assignment /\ t.isCancelled = s.isCancelled
         /\ t.currentBackoffWait = s.currentBackoffWait
  <1> DEFINE t == IssueRequest(s, now)
             end == Kept(now + s.watchRPCTimeout)
             read == [opID |-> s.lastOpID + 1, deadline |-> end]
  <1>1. now \in Int /\ now <= 0
    BY MaxLagAssumption DEF Instants
  <1>2. s.lastOpID \in Nat /\ s.watchRPCTimeout \in Int
    BY MachineFields
  <1>3. t = [s EXCEPT !.inBackoff = FALSE, !.lastOpID = s.lastOpID + 1, !.latestReadState = read]
    BY DEF IssueRequest
  <1>4. read \in [opID : Nat, deadline : Int] /\ s.lastOpID + 1 \in Nat /\ end \in Int
    BY <1>1, <1>2, KeptFacts
  <1>5. t \in Machines
    BY <1>3, <1>4 DEF Machines
  <1>6. /\ ~t.inBackoff /\ t.lastOpID = s.lastOpID + 1 /\ t.latestReadState = read
        /\ t.assignment = s.assignment /\ t.isCancelled = s.isCancelled
        /\ t.currentBackoffWait = s.currentBackoffWait /\ t.watchRPCTimeout = s.watchRPCTimeout
    BY <1>3 DEF Machines
  <1>7. read.opID = s.lastOpID + 1 /\ read.deadline = end
    OBVIOUS
  <1>8. Outstanding(t) /\ ReadsLatest(t) /\ Busy(t)
    BY <1>2, <1>6, <1>7 DEF Outstanding, NoRead, ReadsLatest, Busy
  <1>9. WithinTimeout(end)
    <2>1. end <= 0 \/ end = now + s.watchRPCTimeout
      BY <1>1, <1>2, KeptFacts
    <2>2. CASE end <= 0
      BY <1>4, <2>2, ConfigType DEF WithinTimeout
    <2>3. CASE end = now + s.watchRPCTimeout
      <3>1. ASSUME NEW limit \in Int, s.watchRPCTimeout <= limit
            PROVE  end <= limit
        BY <1>1, <1>2, <2>3, <3>1
      <3>2. \A r \in Responses : r.suggestedTimeout * Millisecond \in Int
        BY ResponsesAssumption, DurationAssumption DEF Response, Durations
      <3>3. WatchRPCTimeout \in Int
        BY ConfigType
      <3>4. QED
        BY <3>1, <3>2, <3>3 DEF Bounded, WithinTimeout
    <2>4. QED
      BY <2>1, <2>2, <2>3
  <1>10. QED
    BY <1>5, <1>6, <1>7, <1>8, <1>9 DEF MachineInv, Prompt, Bounded

\* onAdvanceInternal, from any machine a handler may pass to it.
LEMMA AdvanceFacts ==
  ASSUME NEW s, NEW now \in Instants, NEW d, Due(s, now), DelayFor(s, d)
  PROVE  LET t == OnAdvanceInternal(s, now, d) IN
         /\ MachineInv(t)
         /\ t.assignment = s.assignment /\ t.isCancelled = s.isCancelled
         /\ \/ IssuesDue(s, t) /\ now >= s.scheduledReadTime
            \/ IssuesAtOnce(s, t) \/ BacksOff(s, t)
            \/ t = s /\ Busy(s)
  <1> DEFINE t == OnAdvanceInternal(s, now, d)
  <1>1. s \in Machines /\ Bounded(s)
    BY DEF Due
  <1>2. CASE Outstanding(s) /\ now >= s.latestReadState.deadline
    <2> DEFINE u == SetupRetry(s, now, d)
    <2>1. /\ u \in Machines /\ ~Outstanding(u) /\ u.inBackoff /\ u.lastOpID = s.lastOpID
          /\ u.assignment = s.assignment /\ u.isCancelled = s.isCancelled
          /\ WithinDelay(u.scheduledReadTime) /\ Bounded(u)
          /\ u.currentBackoffWait = DoubledWait(s)
          /\ now >= u.scheduledReadTime => s.currentBackoffWait \div 2 = 0
      BY <1>1, <1>2, SetupRetryFacts DEF DelayFor
    <2>2. t = IssueRequest(u, now)
      BY <1>2 DEF OnAdvanceInternal, GiveUp
    <2> HIDE DEF u
    <2>3. CASE now >= u.scheduledReadTime
      <3>1. /\ MachineInv(t) /\ Outstanding(t) /\ t.lastOpID = u.lastOpID + 1
            /\ t.assignment = u.assignment /\ t.isCancelled = u.isCancelled
            /\ t.currentBackoffWait = u.currentBackoffWait
        BY <2>1, <2>2, <2>3, IssueFacts
      <3>2. QED
        BY <1>2, <2>1, <2>3, <3>1 DEF IssuesAtOnce, Issues
    <2>4. CASE ~(now >= u.scheduledReadTime)
      <3>1. t = u
        BY <2>2, <2>4 DEF IssueRequest
      <3>2. MachineInv(u)
        BY <2>1 DEF MachineInv, Bounded, Busy, ReadsLatest, Prompt
      <3>3. QED
        BY <1>2, <2>1, <3>1, <3>2 DEF BacksOff
    <2>5. QED
      BY <2>3, <2>4
  <1>3. CASE ~(Outstanding(s) /\ now >= s.latestReadState.deadline)
    <2>1. t = IssueRequest(s, now)
      BY <1>3 DEF OnAdvanceInternal, GiveUp
    <2>2. CASE ~Outstanding(s) /\ now >= s.scheduledReadTime
      <3>1. /\ MachineInv(t) /\ Outstanding(t) /\ t.lastOpID = s.lastOpID + 1
            /\ t.assignment = s.assignment /\ t.isCancelled = s.isCancelled
            /\ t.currentBackoffWait = s.currentBackoffWait
        BY <1>1, <2>1, <2>2, IssueFacts
      <3>2. QED
        BY <2>2, <3>1 DEF IssuesDue, Issues
    <2>3. CASE ~(~Outstanding(s) /\ now >= s.scheduledReadTime)
      <3>1. t = s
        BY <2>1, <2>3 DEF IssueRequest
      <3>2. MachineInv(s) /\ Busy(s)
        BY <2>3 DEF Due, MachineInv, Bounded
      <3>3. QED
        BY <3>1, <3>2
    <2>4. QED
      BY <2>2, <2>3
  <1>4. QED
    BY <1>2, <1>3

\* onReadSuccess: the latest read ends and the next is due, or the read and the
\* retry schedule are left alone.
LEMMA SuccessFacts ==
  ASSUME NEW s, MachineInv(s), NEW now \in Instants,
         NEW address \in Address \cup {NoAddress}, NEW opID \in 1..s.lastOpID,
         NEW r \in Responses \cup {NoResponse}
  PROVE  LET u == OnReadSuccess(s, now, address, opID, r) IN
         /\ Due(u, now)
         /\ u.lastOpID = s.lastOpID /\ u.isCancelled = s.isCancelled
         /\ Learns(s, u)
         /\ \/ /\ Outstanding(s) /\ ~Outstanding(u) /\ ~Busy(u)
               /\ u.currentBackoffWait = MinRetryDelay
            \/ u.latestReadState = s.latestReadState /\ SameRetry(s, u)
  <1> DEFINE u == OnReadSuccess(s, now, address, opID, r)
  <1>1. s \in Machines /\ now \in Int /\ now <= 0
    BY MaxLagAssumption DEF MachineInv, Instants
  <1>2. s.lastOpID > 0
    BY <1>1, MachineFields
  <1>3. CASE r = NoResponse
    BY <1>3 DEF OnReadSuccess, Due, MachineInv, Bounded, Learns, SameRetry
  <1>4. CASE r # NoResponse
    <2> DEFINE a == IF IsNew(s, r) THEN r.assignment ELSE s.assignment
               remote == [address |-> address, generation |-> RespGeneration(r)]
               timeout == IF r.suggestedTimeout > 0 THEN FromMillis(r.suggestedTimeout)
                                                    ELSE s.watchRPCTimeout
    <2>1. /\ r \in Responses /\ r.redirect \in MaybeAddress /\ r.suggestedTimeout \in Int
          /\ r.assignment \in MaybeAssignment /\ r.generation \in Generations
      BY <1>4, ResponsesAssumption, DurationAssumption DEF Response, Durations
    <2>2. /\ a \in MaybeAssignment
          /\ a = s.assignment \/ (a \in Assignment /\ Newer(a, s.assignment))
      BY <1>1, <2>1, MachineFields DEF IsNew, MaybeAssignment
    <2>3. remote \in [address : MaybeAddress, generation : Generations]
      BY <2>1, GenOfAssumption DEF RespGeneration, MaybeAddress, MaybeAssignment
    <2>4. timeout \in Durations /\ WithinTimeout(timeout)
      <3>1. CASE r.suggestedTimeout > 0
        <4>1. r.suggestedTimeout \in Nat
          BY <2>1, <3>1
        <4>2. QED
          BY <2>1, <3>1, <4>1, FromMillisFacts DEF WithinTimeout
      <3>2. CASE ~(r.suggestedTimeout > 0)
        BY <1>1, <3>2, MachineFields DEF MachineInv
      <3>3. QED
        BY <3>1, <3>2
    <2>5. CASE IsLatest(s, opID)
      <3>1. u = [s EXCEPT !.assignment = a, !.redirect = r.redirect, !.remoteKnown = remote,
                          !.watchRPCTimeout = timeout, !.inBackoff = FALSE,
                          !.currentBackoffWait = MinRetryDelay,
                          !.latestReadState = NoRead, !.scheduledReadTime = now]
        BY <1>1, <1>4, <2>5 DEF OnReadSuccess, EndRead, ResetBackoff, NoteRemote, Incorporate,
           Machines
      <3> HIDE DEF u, a, remote, timeout
      <3>2. NoRead \in [opID : Nat, deadline : Int]
        BY DEF NoRead
      <3>3. u \in Machines
        BY <1>1, <2>1, <2>2, <2>3, <2>4, <3>1, <3>2, ConfigType DEF Machines
      <3>4. /\ u.assignment = a /\ u.latestReadState = NoRead /\ u.lastOpID = s.lastOpID
            /\ u.isCancelled = s.isCancelled /\ ~u.inBackoff
            /\ u.currentBackoffWait = MinRetryDelay /\ u.watchRPCTimeout = timeout
            /\ u.scheduledReadTime = now
        BY <1>1, <3>1 DEF Machines
      <3>5. ~Outstanding(u) /\ Outstanding(s) /\ s.lastOpID > 0
        BY <2>5, <3>4, MachineFields DEF Outstanding, IsLatest, MachineInv, ReadsLatest
      <3>6. WithinDelay(now)
        BY <1>1, ConfigType DEF WithinDelay
      <3>7. Due(u, now)
        BY <1>1, <2>4, <3>3, <3>4, <3>5, <3>6, ConfigType DEF Due, ReadsLatest, Prompt, Bounded
      <3>8. QED
        BY <1>2, <2>2, <3>4, <3>5, <3>7 DEF Learns, Busy, u
    <2>6. CASE ~IsLatest(s, opID)
      <3> DEFINE known == IF IsNew(s, r) THEN remote ELSE s.remoteKnown
                 time == IF IsNew(s, r) THEN timeout ELSE s.watchRPCTimeout
      <3>1. u = [s EXCEPT !.assignment = a, !.redirect = r.redirect, !.remoteKnown = known,
                          !.watchRPCTimeout = time]
        BY <1>1, <1>4, <2>6 DEF OnReadSuccess, NoteRemote, Incorporate, Machines
      <3>2. known \in [address : MaybeAddress, generation : Generations]
        BY <1>1, <2>3 DEF Machines
      <3>3. time \in Durations /\ WithinTimeout(time)
        BY <1>1, <2>4, MachineFields DEF MachineInv
      <3> HIDE DEF u, a, known, time
      <3>4. u \in Machines
        BY <1>1, <2>1, <2>2, <3>1, <3>2, <3>3 DEF Machines
      <3>5. /\ u.assignment = a /\ u.latestReadState = s.latestReadState
            /\ u.lastOpID = s.lastOpID /\ u.isCancelled = s.isCancelled
            /\ SameRetry(s, u) /\ u.watchRPCTimeout = time
        BY <1>1, <3>1 DEF Machines, SameRetry
      <3>6. Due(u, now)
        BY <3>3, <3>4, <3>5 DEF MachineInv, Due, ReadsLatest, Prompt, Bounded, Busy,
           Outstanding, SameRetry
      <3>7. QED
        BY <1>2, <2>2, <3>5, <3>6 DEF Learns, u
    <2>7. QED
      BY <2>5, <2>6
  <1>5. QED
    BY <1>3, <1>4

\* Any jittered delay of a machine is a delay its retry may get.
LEMMA DelayFacts ==
  ASSUME NEW s \in Machines, NEW d \in JitteredDelays(s), NEW u,
         Outstanding(u) => u.currentBackoffWait = s.currentBackoffWait
  PROVE  DelayFor(u, d)
  BY MachineFields DEF JitteredDelays, DelayFor

\* OnAdvance keeps the invariant and the lifecycle.
LEMMA OnAdvanceFacts ==
  ASSUME NEW s, MachineInv(s), NEW now \in Instants, NEW t \in OnAdvance(s, now)
  PROVE  MachineInv(t) /\ (t = s \/ Follows(s, t))
  <1>1. CASE s.isCancelled
    BY <1>1 DEF OnAdvance
  <1>2. CASE ~s.isCancelled
    <2>1. PICK d \in JitteredDelays(s) : t = OnAdvanceInternal(s, now, d)
      BY <1>2 DEF OnAdvance
    <2>2. Due(s, now) /\ DelayFor(s, d)
      BY <2>1, DelayFacts DEF MachineInv, Due, Bounded
    <2>3. /\ MachineInv(t)
          /\ t.assignment = s.assignment /\ t.isCancelled = s.isCancelled
          /\ \/ IssuesDue(s, t) \/ IssuesAtOnce(s, t) \/ BacksOff(s, t)
             \/ t = s /\ Busy(s)
      BY <2>1, <2>2, AdvanceFacts
    <2>4. QED
      BY <1>2, <2>3 DEF Follows, Learns
  <1>3. QED
    BY <1>1, <1>2

\* An answer keeps the invariant and the lifecycle, be it late or repeated.
LEMMA OnSuccessFacts ==
  ASSUME NEW s, MachineInv(s), NEW now \in Instants,
         NEW address \in Address \cup {NoAddress}, NEW opID \in 1..s.lastOpID,
         NEW r \in Responses \cup {NoResponse}, NEW t \in OnSuccessEvent(s, now, address, opID, r)
  PROVE  MachineInv(t) /\ (t = s \/ Follows(s, t))
  <1>1. CASE s.isCancelled
    BY <1>1 DEF OnSuccessEvent
  <1>2. CASE ~s.isCancelled /\ Panics(r)
    BY <1>2, InterruptedFacts DEF OnSuccessEvent, Panics
  <1>3. CASE ~s.isCancelled /\ ~Panics(r)
    <2> DEFINE u == OnReadSuccess(s, now, address, opID, r)
    <2>1. PICK d \in JitteredDelays(s) : t = OnAdvanceInternal(u, now, d)
      BY <1>3 DEF OnSuccessEvent
    <2>2. /\ Due(u, now)
          /\ u.lastOpID = s.lastOpID /\ u.isCancelled = s.isCancelled
          /\ Learns(s, u)
          /\ \/ /\ Outstanding(s) /\ ~Outstanding(u) /\ ~Busy(u)
                /\ u.currentBackoffWait = MinRetryDelay
             \/ u.latestReadState = s.latestReadState /\ SameRetry(s, u)
      BY SuccessFacts
    <2> HIDE DEF u
    <2>3. DelayFor(u, d)
      BY <2>1, <2>2, DelayFacts DEF SameRetry, MachineInv
    <2>4. /\ MachineInv(t)
          /\ t.assignment = u.assignment /\ t.isCancelled = u.isCancelled
          /\ \/ IssuesDue(u, t) \/ IssuesAtOnce(u, t) \/ BacksOff(u, t)
             \/ t = u /\ Busy(u)
      BY <2>1, <2>2, <2>3, AdvanceFacts
    <2>5. CASE Outstanding(s) /\ ~Outstanding(u) /\ ~Busy(u)
                 /\ u.currentBackoffWait = MinRetryDelay
      <3>1. IssuesAnswered(s, t)
        BY <2>2, <2>4, <2>5
           DEF IssuesAnswered, IssuesDue, IssuesAtOnce, Issues, BacksOff
      <3>2. QED
        BY <1>3, <2>2, <2>4, <3>1 DEF Follows, Learns
    <2>6. CASE u.latestReadState = s.latestReadState /\ SameRetry(s, u)
      <3>1. (Outstanding(u) <=> Outstanding(s)) /\ DoubledWait(u) = DoubledWait(s)
        BY <2>6 DEF Outstanding, SameRetry, DoubledWait
      <3>2. \/ IssuesDue(s, t) \/ IssuesAtOnce(s, t) \/ BacksOff(s, t)
            \/ t = u
        BY <2>2, <2>4, <2>6, <3>1
           DEF IssuesDue, IssuesAtOnce, Issues, BacksOff, SameRetry
      <3>3. QED
        BY <1>3, <2>2, <2>4, <2>6, <3>1, <3>2 DEF Follows, Learns
    <2>7. QED
      BY <2>2, <2>5, <2>6
  <1>4. QED
    BY <1>1, <1>2, <1>3

\* A failure keeps the invariant and the lifecycle.
LEMMA OnFailureFacts ==
  ASSUME NEW s, MachineInv(s), NEW now \in Instants, NEW opID \in Nat,
         NEW t \in OnFailureEvent(s, now, opID)
  PROVE  MachineInv(t) /\ (t = s \/ Follows(s, t))
  <1>1. CASE s.isCancelled
    BY <1>1 DEF OnFailureEvent
  <1>2. CASE ~s.isCancelled
    <2>1. PICK d \in JitteredDelays(s) :
            t = OnAdvanceInternal(OnReadFailure(s, now, opID, d), now, d)
      BY <1>2 DEF OnFailureEvent
    <2> DEFINE u == OnReadFailure(s, now, opID, d)
    <2>2. /\ Due(u, now)
          /\ u.lastOpID = s.lastOpID /\ u.isCancelled = s.isCancelled
          /\ u.assignment = s.assignment
          /\ \/ u = s
             \/ /\ Outstanding(s) /\ ~Outstanding(u) /\ u.inBackoff
                /\ u.currentBackoffWait = DoubledWait(s)
                /\ now >= u.scheduledReadTime => s.currentBackoffWait \div 2 = 0
      <3>1. CASE IsLatest(s, opID)
        <4>1. u = SetupRetry(s, now, d)
          BY <3>1 DEF OnReadFailure
        <4>2. s \in Machines /\ Bounded(s) /\ Outstanding(s)
          BY <3>1 DEF MachineInv, Bounded, IsLatest
        <4>3. /\ u \in Machines /\ ~Outstanding(u) /\ u.inBackoff
              /\ u.lastOpID = s.lastOpID /\ u.assignment = s.assignment
              /\ u.isCancelled = s.isCancelled
              /\ WithinDelay(u.scheduledReadTime) /\ Bounded(u)
              /\ u.currentBackoffWait = DoubledWait(s)
              /\ now >= u.scheduledReadTime => s.currentBackoffWait \div 2 = 0
          BY <2>1, <4>1, <4>2, SetupRetryFacts
        <4>4. QED
          BY <4>2, <4>3 DEF Due, Busy, ReadsLatest, Prompt
      <3>2. CASE ~IsLatest(s, opID)
        <4>1. u = s
          BY <3>2 DEF OnReadFailure
        <4>2. QED
          BY <4>1 DEF Due, MachineInv, Bounded
      <3>3. QED
        BY <3>1, <3>2
    <2> HIDE DEF u
    <2>3. DelayFor(u, d)
      BY <2>1, <2>2, DelayFacts DEF MachineInv
    <2>4. /\ MachineInv(t)
          /\ t.assignment = u.assignment /\ t.isCancelled = u.isCancelled
          /\ \/ IssuesDue(u, t) /\ now >= u.scheduledReadTime
             \/ IssuesAtOnce(u, t) \/ BacksOff(u, t)
             \/ t = u /\ Busy(u)
      BY <2>1, <2>2, <2>3, AdvanceFacts DEF u
    <2>5. CASE u = s
      BY <1>2, <2>4, <2>5 DEF Follows, Learns, SameRetry
    <2>6. CASE /\ Outstanding(s) /\ ~Outstanding(u) /\ u.inBackoff
               /\ u.currentBackoffWait = DoubledWait(s)
               /\ now >= u.scheduledReadTime => s.currentBackoffWait \div 2 = 0
      <3>1. IssuesAtOnce(s, t) \/ BacksOff(s, t)
        BY <2>2, <2>4, <2>6 DEF IssuesDue, IssuesAtOnce, Issues, BacksOff
      <3>2. QED
        BY <1>2, <2>2, <2>4, <3>1 DEF Follows, Learns
    <2>7. QED
      BY <2>2, <2>5, <2>6
  <1>3. QED
    BY <1>1, <1>2

\* The passage of time keeps the invariant; the read and the wait stay.
LEMMA AgedFacts ==
  ASSUME NEW s, MachineInv(s)
  PROVE  LET t == Aged(s) IN
         /\ MachineInv(t)
         /\ Outstanding(t) <=> Outstanding(s)
         /\ t.lastOpID = s.lastOpID /\ t.assignment = s.assignment
         /\ t.isCancelled = s.isCancelled /\ t.inBackoff = s.inBackoff
         /\ t.currentBackoffWait = s.currentBackoffWait
  <1> DEFINE t == Aged(s)
             read == AgedRead(s)
  <1>1. /\ s \in Machines /\ s.scheduledReadTime \in Int /\ s.lastOpID \in Nat
        /\ s.latestReadState \in [opID : Nat, deadline : Int]
    BY MachineFields DEF MachineInv
  <1>2. \A i \in Int : Earlier(i) \in Int /\ (Earlier(i) <= i \/ Earlier(i) <= 0)
    BY KeptFacts
  <1>3. read \in [opID : Nat, deadline : Int] /\ read.opID = s.latestReadState.opID
    BY <1>1, <1>2 DEF AgedRead
  <1>4. t = [s EXCEPT !.scheduledReadTime = Earlier(s.scheduledReadTime),
                      !.latestReadState = read]
    BY <1>1 DEF Aged, Machines
  <1>5. Outstanding(s) => read.deadline = Earlier(s.latestReadState.deadline)
    BY <1>1 DEF AgedRead
  <1>6. s.latestReadState.opID = 0 => ~Outstanding(s)
    BY <1>1 DEF MachineInv, ReadsLatest
  <1>7. read # NoRead <=> Outstanding(s)
    BY <1>3, <1>6 DEF NoRead, Outstanding, AgedRead
  <1> HIDE DEF read
  <1>8. t \in Machines
    BY <1>1, <1>2, <1>3, <1>4 DEF Machines
  <1>9. /\ t.latestReadState = read /\ t.scheduledReadTime = Earlier(s.scheduledReadTime)
        /\ t.lastOpID = s.lastOpID /\ t.assignment = s.assignment
        /\ t.isCancelled = s.isCancelled /\ t.inBackoff = s.inBackoff
        /\ t.currentBackoffWait = s.currentBackoffWait /\ t.watchRPCTimeout = s.watchRPCTimeout
    BY <1>1, <1>4 DEF Machines
  <1>10. Outstanding(t) <=> Outstanding(s)
    BY <1>7, <1>9 DEF Outstanding
  <1>11. Prompt(t)
    <2>1. CASE Outstanding(s)
      <3>1. \A i \in Int : WithinTimeout(i) => WithinTimeout(Earlier(i))
        <4>1. \A r \in Responses : r.suggestedTimeout * Millisecond \in Int
          BY ResponsesAssumption, DurationAssumption DEF Response, Durations
        <4>2. WatchRPCTimeout \in Nat
          BY ConfigType
        <4>3. QED
          BY <1>2, <4>1, <4>2 DEF WithinTimeout
      <3>2. QED
        BY <1>1, <1>5, <1>9, <1>10, <2>1, <3>1 DEF Prompt, MachineInv
    <2>2. CASE ~Outstanding(s)
      <3>1. WithinDelay(Earlier(s.scheduledReadTime))
        BY <1>1, <1>2, <2>2, ConfigType DEF WithinDelay, MachineInv, Prompt
      <3>2. QED
        BY <1>9, <1>10, <2>2, <3>1 DEF Prompt
    <2>3. QED
      BY <2>1, <2>2
  <1>12. QED
    BY <1>3, <1>8, <1>9, <1>10, <1>11 DEF MachineInv, ReadsLatest, Busy
-----------------------------------------------------------------------------
\* What a step of the machine does to it.
Stepped(s, t) ==
  \/ t = s
  \/ Follows(s, t)
  \/ t = Aged(s)
  \/ ~s.isCancelled /\ t = OnCancelEvent(s)

\* Cancelling keeps the invariant.
LEMMA CancelFacts ==
  ASSUME NEW s, MachineInv(s)
  PROVE  LET t == OnCancelEvent(s) IN
         /\ MachineInv(t)
         /\ t.isCancelled
         /\ t.lastOpID = s.lastOpID /\ t.assignment = s.assignment
         /\ t.latestReadState = s.latestReadState
         /\ SameRetry(s, t)
  <1> DEFINE t == OnCancelEvent(s)
  <1>1. t \in Machines
    BY DEF OnCancelEvent, MachineInv, Machines
  <1>2. /\ t.isCancelled
        /\ t.lastOpID = s.lastOpID /\ t.assignment = s.assignment
        /\ t.latestReadState = s.latestReadState
        /\ SameRetry(s, t) /\ t.watchRPCTimeout = s.watchRPCTimeout
    BY DEF OnCancelEvent, MachineInv, Machines, SameRetry
  <1> HIDE DEF t
  <1>3. MachineInv(t)
    BY <1>1, <1>2 DEF MachineInv, ReadsLatest, Busy, Prompt, Outstanding, SameRetry
  <1>4. QED
    BY <1>2, <1>3 DEF t

\* Every action keeps the invariant and is one of the four kinds of steps.
LEMMA StepFacts ==
  ASSUME MachineInv(sm), SMNext
  PROVE  MachineInv(sm)' /\ Stepped(sm, sm')
  <1>1. CASE Advance
    BY <1>1, OnAdvanceFacts DEF Advance, Stepped
  <1>2. CASE ReadSuccess
    BY <1>2, OnSuccessFacts DEF ReadSuccess, Stepped
  <1>3. CASE ReadFailure
    <2>1. PICK now \in Instants, opID \in 1..sm.lastOpID : sm' \in OnFailureEvent(sm, now, opID)
      BY <1>3 DEF ReadFailure
    <2>2. opID \in Nat
      BY MachineFields DEF MachineInv
    <2>3. QED
      BY <2>1, <2>2, OnFailureFacts DEF Stepped
  <1>4. CASE Cancel
    BY <1>4, CancelFacts DEF Cancel, Stepped
  <1>5. CASE Tick
    BY <1>5, AgedFacts DEF Tick, Stepped
  <1>6. QED
    BY <1>1, <1>2, <1>3, <1>4, <1>5 DEF SMNext

\* The inductive invariant: types, the read that is tracked, the next step, its
\* time, and the waits and timeouts the next one is computed from.
THEOREM MachineInvariance == SMSpec => []MachineInv(sm)
  <1>1. SMInit => MachineInv(sm)
    BY NewMachineInv DEF SMInit
  <1>2. MachineInv(sm) /\ [SMNext]_sm => MachineInv(sm)'
    <2> SUFFICES ASSUME MachineInv(sm), [SMNext]_sm PROVE MachineInv(sm)'
      OBVIOUS
    <2>1. CASE SMNext
      BY <2>1, StepFacts
    <2>2. CASE UNCHANGED sm
      BY <2>2
    <2>3. QED
      BY <2>1, <2>2
  <1>3. QED
    BY <1>1, <1>2, PTL DEF SMSpec

\* The fields of the machine keep their types, whatever the configuration and the
\* suggestions: a delay is positive, and a timeout a Duration, of either sign.
THEOREM MachineTypeCorrect == SMSpec => []SMTypeOK
  <1>1. MachineInv(sm) => SMTypeOK
    BY DEF MachineInv, SMTypeOK
  <1>2. QED
    BY <1>1, MachineInvariance, PTL

\* The read that is tracked is the newest request (state_machine.go:228, 257).
THEOREM MachineLatestIsLast == SMSpec => []LatestIsLast
  <1>1. MachineInv(sm) => LatestIsLast
    BY DEF MachineInv, LatestIsLast
  <1>2. QED
    BY <1>1, MachineInvariance, PTL

\* No event leaves the machine without a next step, due within the longest timeout
\* or 1.5 times the longest delay.
THEOREM MachineWakesUpInTime == SMSpec => []WakesUpInTime
  <1>1. MachineInv(sm) => WakesUpInTime
    BY DEF MachineInv, WakesUpInTime
  <1>2. QED
    BY <1>1, MachineInvariance, PTL

\* Events of requests that were given up leave a waiting retry alone.
THEOREM MachineKeepsRetry == SMSpec => LateEventsKeepRetry
  <1> DEFINE A == ~Outstanding(sm) /\ ~Outstanding(sm') =>
                    /\ sm'.inBackoff = sm.inBackoff
                    /\ sm'.currentBackoffWait = sm.currentBackoffWait
                    /\ sm'.scheduledReadTime
                         \in {sm.scheduledReadTime, Aged(sm).scheduledReadTime}
  <1>1. MachineInv(sm) /\ [SMNext]_sm => [A]_sm
    <2> SUFFICES ASSUME MachineInv(sm), SMNext, ~Outstanding(sm), ~Outstanding(sm') PROVE A
      OBVIOUS
    <2>1. Stepped(sm, sm')
      BY StepFacts
    <2>2. CASE sm' = sm
      BY <2>2
    <2>3. CASE Follows(sm, sm')
      BY <2>3 DEF Follows, SameRetry, Issues, IssuesDue, IssuesAnswered, IssuesAtOnce, BacksOff
    <2>4. CASE sm' = Aged(sm)
      BY <2>4, AgedFacts
    <2>5. CASE sm' = OnCancelEvent(sm)
      BY <2>5, CancelFacts DEF SameRetry
    <2>6. QED
      BY <2>1, <2>2, <2>3, <2>4, <2>5 DEF Stepped
  <1>2. QED
    BY <1>1, MachineInvariance, PTL DEF SMSpec, LateEventsKeepRetry

\* Every behaviour of the machine is a session: one current request at a time, each
\* replaced only once it was answered or failed (state_machine.go:242, 287), a delay
\* that doubles until then, and nothing after the cancellation.
THEOREM MachineRefinesSession == SMSpec => MachineFollowsLifecycle
  <1>1. SMInit => Session!Init
    BY DEF SMInit, NewMachine, NoRead, Outstanding, phaseBar, Session!Init
  <1>2. MachineInv(sm) /\ [SMNext]_sm => [Session!Next]_Session!vars
    <2> SUFFICES ASSUME MachineInv(sm), [SMNext]_sm PROVE [Session!Next]_Session!vars
      OBVIOUS
    <2>1. CASE sm' = sm
      BY <2>1 DEF Outstanding, Session!vars, phaseBar
    <2>2. CASE Follows(sm, sm')
      <3>1. Session!MayLearn
        BY <2>2 DEF Follows, Learns, Newer, Compare, IncarnationCompare, Session!MayLearn,
           Session!LearnNewer, Session!Newer, Session!Compare, Session!IncarnationCompare
      <3>2. /\ ~sm.isCancelled /\ ~sm'.isCancelled /\ ReadsLatest(sm) /\ Busy(sm)
            /\ Busy(sm') /\ sm.lastOpID \in Nat
        BY <2>2, StepFacts, MachineFields DEF Follows, MachineInv
      <3>3. DoubledWait(sm) = Session!Doubled
        BY DEF DoubledWait, Session!Doubled
      <3>4. ASSUME Issues(sm, sm') PROVE Session!Issue
        BY <3>2, <3>4 DEF Issues, Session!Issue, phaseBar
      <3>5. Outstanding(sm) => phaseBar = "RequestInFlight"
        BY <3>2 DEF phaseBar
      <3>6. ASSUME IssuesDue(sm, sm') PROVE Session!Begin \/ Session!Retry
        <4>1. CASE sm.lastOpID > 0
          <5>1. phaseBar = "ErrorBackoff"
            BY <3>2, <3>6, <4>1 DEF phaseBar, IssuesDue, Busy
          <5>2. QED
            BY <3>1, <3>4, <3>6, <5>1 DEF IssuesDue, Session!Retry
        <4>2. CASE ~(sm.lastOpID > 0)
          <5>1. sm'.assignment = sm.assignment
            BY <2>2, <4>2 DEF Follows, Learns
          <5>2. CASE sm.inBackoff
            <6>1. phaseBar = "ErrorBackoff"
              BY <3>2, <3>6, <5>2 DEF phaseBar, IssuesDue
            <6>2. QED
              BY <3>1, <3>4, <3>6, <6>1 DEF IssuesDue, Session!Retry
          <5>3. CASE ~sm.inBackoff
            <6>1. phaseBar = "Idle"
              BY <3>2, <3>6, <5>3 DEF phaseBar, IssuesDue
            <6>2. QED
              BY <3>4, <3>6, <5>1, <6>1 DEF IssuesDue, Session!Begin
          <5>4. QED
            BY <5>2, <5>3
        <4>3. QED
          BY <4>1, <4>2
      <3>7. ASSUME IssuesAnswered(sm, sm') PROVE Session!Answered
        BY <3>1, <3>4, <3>5, <3>7 DEF IssuesAnswered, Session!Answered
      <3>8. ASSUME IssuesAtOnce(sm, sm') PROVE Session!FailAndRetry
        BY <3>1, <3>3, <3>4, <3>5, <3>8 DEF IssuesAtOnce, Session!FailAndRetry
      <3>9. ASSUME BacksOff(sm, sm') PROVE Session!Fail
        BY <3>1, <3>2, <3>3, <3>5, <3>9 DEF BacksOff, Session!Fail, phaseBar
      <3>10. ASSUME sm'.lastOpID = sm.lastOpID, Outstanding(sm') <=> Outstanding(sm),
                    SameRetry(sm, sm')
             PROVE  Session!LateAnswer \/ UNCHANGED Session!vars
        <4>1. phaseBar' = phaseBar
          BY <3>2, <3>10 DEF phaseBar, SameRetry
        <4>2. CASE sm'.assignment = sm.assignment
          BY <3>10, <4>1, <4>2 DEF SameRetry, Session!vars
        <4>3. CASE sm'.assignment # sm.assignment
          <5>1. sm.lastOpID > 0
            BY <2>2, <4>3 DEF Follows, Learns
          <5>2. phaseBar \in {"RequestInFlight", "ErrorBackoff"}
            BY <3>2, <5>1 DEF phaseBar, Busy
          <5>3. Session!LearnNewer
            BY <3>1, <4>3 DEF Session!MayLearn
          <5>4. QED
            BY <3>10, <4>1, <5>2, <5>3 DEF SameRetry, Session!LateAnswer
        <4>4. QED
          BY <4>2, <4>3
      <3>11. QED
        BY <2>2, <3>6, <3>7, <3>8, <3>9, <3>10 DEF Follows, Session!Next
    <2>3. CASE sm' = Aged(sm)
      BY <2>3, AgedFacts DEF Session!vars, phaseBar
    <2>4. CASE ~sm.isCancelled /\ sm' = OnCancelEvent(sm)
      BY <2>4, CancelFacts DEF Session!Next, Session!Cancel, SameRetry, phaseBar
    <2>5. QED
      BY <2>1, <2>2, <2>3, <2>4, StepFacts DEF Stepped
  <1>3. QED
    BY <1>1, <1>2, MachineInvariance, PTL DEF SMSpec, MachineFollowsLifecycle, Session!Spec
=============================================================================
