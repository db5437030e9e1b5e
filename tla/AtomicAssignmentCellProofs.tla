--------------------- MODULE AtomicAssignmentCellProofs ---------------------
(***************************************************************************)
(* The safety of AtomicAssignmentCell for any number of concurrent calls,  *)
(* any assignments and any listeners.  CellInv is inductive: the check     *)
(* made on the load carries over to the swap (CheckedBeforeSwap), so the   *)
(* pointer only moves forward and past decisions stand; the read lock      *)
(* keeps the list still while a call walks it (LockInv, NotifyInv).        *)
(***************************************************************************)
EXTENDS AtomicAssignmentCell, TLAPS

\* The generation of an assignment is a generation.
LEMMA GenOfType ==
  ASSUME NEW a \in Assignment
  PROVE  GenOf[a] \in Generations
  BY GenOfAssumption

\* Generations are ordered by Compare, as far as the cell needs it.
LEMMA CompareOrders ==
  ASSUME NEW g \in Generations, NEW h \in Generations, NEW k \in Generations
  PROVE  /\ Compare(g, g) = 0
         /\ Compare(g, h) \in {-1, 0, 1}
         /\ Compare(g, h) >= 0 /\ Compare(h, k) >= 0 => Compare(g, k) >= 0
  <1>1. Compare(g, g) = 0 /\ Compare(g, h) \in {-1, 0, 1}
    BY DEF Compare, IncarnationCompare, Generations
  <1>2. ASSUME Compare(g, h) >= 0, Compare(h, k) >= 0 PROVE Compare(g, k) >= 0
    BY <1>2 DEF Compare, IncarnationCompare, Generations
  <1>3. QED
    BY <1>1, <1>2

\* "Not older" is reflexive.
LEMMA NotOlderReflexive ==
  ASSUME NEW a \in MaybeAssignment
  PROVE  NotOlder(a, a)
  <1>1. CASE a = NoAssignment
    BY <1>1 DEF NotOlder
  <1>2. CASE a \in Assignment
    <2>1. Compare(GenOf[a], GenOf[a]) = 0
      BY <1>2, GenOfType, CompareOrders
    <2>2. QED
      BY <1>2, <2>1, NilAssumption DEF NotOlder
  <1>3. QED
    BY <1>1, <1>2 DEF MaybeAssignment

\* "Not older" composes.
LEMMA NotOlderTransitive ==
  ASSUME NEW a \in MaybeAssignment, NEW b \in MaybeAssignment, NEW c \in MaybeAssignment,
         NotOlder(a, b), NotOlder(b, c)
  PROVE  NotOlder(a, c)
  <1>1. CASE c = NoAssignment
    BY <1>1 DEF NotOlder
  <1>2. CASE c # NoAssignment
    <2>1. a \in Assignment /\ b \in Assignment /\ c \in Assignment
      BY <1>2 DEF NotOlder, MaybeAssignment
    <2>2. Compare(GenOf[a], GenOf[b]) >= 0 /\ Compare(GenOf[b], GenOf[c]) >= 0
      BY <1>2, <2>1, NilAssumption DEF NotOlder
    <2>3. Compare(GenOf[a], GenOf[c]) >= 0
      BY <2>1, <2>2, GenOfType, CompareOrders
    <2>4. QED
      BY <2>1, <2>3, NilAssumption DEF NotOlder
  <1>3. QED
    BY <1>1, <1>2

\* What Set does not reject is not older, and the other way around.
LEMMA RejectsIsOlder ==
  ASSUME NEW cur \in MaybeAssignment, NEW a \in Assignment
  PROVE  Rejects(cur, a) <=> ~NotOlder(a, cur)
  <1>1. CASE cur = NoAssignment
    BY <1>1 DEF Rejects, NotOlder
  <1>2. CASE cur \in Assignment
    <2>1. Compare(GenOf[a], GenOf[cur]) \in {-1, 0, 1}
      BY <1>2, GenOfType, CompareOrders
    <2>2. QED
      BY <1>2, <2>1, NilAssumption DEF Rejects, NotOlder
  <1>3. QED
    BY <1>1, <1>2 DEF MaybeAssignment

\* What a pointer rejects, every later pointer rejects.
LEMMA RejectsForever ==
  ASSUME NEW cur \in MaybeAssignment, NEW new \in MaybeAssignment, NEW a \in Assignment,
         Rejects(cur, a), NotOlder(new, cur)
  PROVE  Rejects(new, a)
  <1>1. ~NotOlder(a, new)
    BY RejectsIsOlder, NotOlderTransitive DEF MaybeAssignment
  <1>2. QED
    BY <1>1, RejectsIsOlder

-----------------------------------------------------------------------------
\* The types hold initially and are kept by every step.
LEMMA CellTypeInit == Init => TypeOK
  BY DEF Init, TypeOK, PCs, MaybeAssignment

LEMMA CellTypeStep ==
  ASSUME TypeOK, [Next]_vars
  PROVE  TypeOK'
  <1> USE DEF TypeOK, PCs, Goto, lockVars, setVars, history
  <1>1. ASSUME NEW c \in Calls, Invoke(c)
        PROVE  TypeOK'
    BY <1>1 DEF Invoke
  <1>2. ASSUME NEW c \in Calls, SetStep(c)
        PROVE  TypeOK'
    <2>1. CASE RejectNil(c)
      BY <2>1 DEF RejectNil
    <2>2. CASE Load(c)
      BY <2>2 DEF Load
    <2>3. CASE SwapSucceeds(c)
      BY <2>3 DEF SwapSucceeds, Range
    <2>4. CASE SwapFails(c)
      BY <2>4 DEF SwapFails
    <2>5. CASE ReadLock(c)
      BY <2>5 DEF ReadLock
    <2>6. CASE CallListener(c)
      <3>1. listeners[pos[c]] \in Listeners
        BY <2>6 DEF CallListener
      <3>2. told' \in [Calls -> Seq(Listeners)]
        BY <2>6, <3>1 DEF CallListener
      <3>3. QED
        BY <2>6, <3>1, <3>2 DEF CallListener
    <2>7. CASE ReadUnlock(c)
      BY <2>7 DEF ReadUnlock
    <2>8. QED
      BY <1>2, <2>1, <2>2, <2>3, <2>4, <2>5, <2>6, <2>7 DEF SetStep
  <1>3. ASSUME NEW l \in Listeners, AddListenerStep(l)
        PROVE  TypeOK'
    <2>1. CASE RequestLock(l)
      BY <2>1 DEF RequestLock
    <2>2. CASE AppendListener(l)
      BY <2>2 DEF AppendListener
    <2>3. QED
      BY <1>3, <2>1, <2>2 DEF AddListenerStep
  <1>4. CASE UNCHANGED vars
    BY <1>4 DEF vars
  <1>5. QED
    BY <1>1, <1>2, <1>3, <1>4 DEF Next, Terminated

-----------------------------------------------------------------------------
\* The pointer only moves forward: the swap compares with what was checked.
LEMMA PtrStep ==
  ASSUME TypeOK, CheckedBeforeSwap, [Next]_vars
  PROVE  NotOlder(ptr', ptr)
  <1>1. ptr \in MaybeAssignment
    BY DEF TypeOK
  <1>2. CASE ptr' = ptr
    BY <1>1, <1>2, NotOlderReflexive
  <1>3. ASSUME NEW c \in Calls, SwapSucceeds(c)
        PROVE  NotOlder(ptr', ptr)
    <2>1. arg[c] \in Assignment /\ ptr' = arg[c] /\ ~Rejects(ptr, arg[c])
      BY <1>3 DEF SwapSucceeds, CheckedBeforeSwap, TypeOK, MaybeAssignment
    <2>2. QED
      BY <1>1, <2>1, RejectsIsOlder
  <1>4. QED
    BY <1>2, <1>3 DEF Next, SetStep, AddListenerStep, Terminated, vars, lockVars, setVars,
       history, Invoke, RejectNil, Load, SwapFails, ReadLock, CallListener, ReadUnlock,
       RequestLock, AppendListener

\* The check made on the load still holds when the swap is tried.
LEMMA CheckedStep ==
  ASSUME TypeOK, CheckedBeforeSwap, [Next]_vars
  PROVE  CheckedBeforeSwap'
  <1> SUFFICES ASSUME NEW d \in Calls, pc'[d] = "cas"
               PROVE  arg'[d] # NoAssignment /\ ~Rejects(old'[d], arg'[d])
    BY DEF CheckedBeforeSwap
  <1>1. CASE pc'[d] = pc[d] /\ arg'[d] = arg[d] /\ old'[d] = old[d]
    BY <1>1 DEF CheckedBeforeSwap
  <1>2. ASSUME NEW c \in Calls, Load(c)
        PROVE  \/ pc'[d] = pc[d] /\ arg'[d] = arg[d] /\ old'[d] = old[d]
               \/ arg'[d] # NoAssignment /\ ~Rejects(old'[d], arg'[d])
    BY <1>2 DEF Load, Goto, TypeOK
  <1>3. ASSUME NEW c \in Calls,
               \/ Invoke(c) \/ RejectNil(c) \/ SwapSucceeds(c) \/ SwapFails(c)
               \/ ReadLock(c) \/ CallListener(c) \/ ReadUnlock(c)
        PROVE  pc'[d] = pc[d] /\ arg'[d] = arg[d] /\ old'[d] = old[d]
    BY <1>3 DEF Invoke, RejectNil, SwapSucceeds, SwapFails, ReadLock, CallListener,
       ReadUnlock, Goto, TypeOK
  <1>4. CASE UNCHANGED setVars
    BY <1>4, <1>1 DEF setVars
  <1>5. QED
    BY <1>1, <1>2, <1>3, <1>4 DEF Next, SetStep, AddListenerStep, RequestLock,
       AppendListener, Terminated, vars

\* A step of one call leaves the local variables of every other call alone.
LEMMA OthersStay ==
  ASSUME TypeOK, NEW c \in Calls, NEW d \in Calls, c # d, Invoke(c) \/ SetStep(c)
  PROVE  pc'[d] = pc[d] /\ arg'[d] = arg[d]
  <1>1. CASE Invoke(c)
    BY <1>1 DEF Invoke, Goto, TypeOK
  <1>2. CASE RejectNil(c)
    BY <1>2 DEF RejectNil, Goto, TypeOK
  <1>3. CASE Load(c)
    BY <1>3 DEF Load, Goto, TypeOK
  <1>4. CASE SwapSucceeds(c)
    BY <1>4 DEF SwapSucceeds, Goto, TypeOK
  <1>5. CASE SwapFails(c)
    BY <1>5 DEF SwapFails, Goto, TypeOK
  <1>6. CASE ReadLock(c)
    BY <1>6 DEF ReadLock, Goto, TypeOK
  <1>7. CASE CallListener(c)
    BY <1>7 DEF CallListener
  <1>8. CASE ReadUnlock(c)
    BY <1>8 DEF ReadUnlock, Goto, TypeOK
  <1>9. QED
    BY <1>1, <1>2, <1>3, <1>4, <1>5, <1>6, <1>7, <1>8 DEF SetStep

\* Only its own steps move a call.
LEMMA OwnStep ==
  ASSUME TypeOK, [Next]_vars, NEW d \in Calls
  PROVE  (pc'[d] = pc[d] /\ arg'[d] = arg[d]) \/ Invoke(d) \/ SetStep(d)
  <1>1. CASE \E c \in Calls : Invoke(c) \/ SetStep(c)
    <2>1. PICK c \in Calls : Invoke(c) \/ SetStep(c)
      BY <1>1
    <2>2. QED
      BY <2>1, OthersStay
  <1>2. CASE UNCHANGED setVars
    BY <1>2 DEF setVars
  <1>3. ASSUME NEW l \in Listeners, AddListenerStep(l)
        PROVE  UNCHANGED setVars
    BY <1>3 DEF AddListenerStep, RequestLock, AppendListener
  <1>4. Terminated \/ UNCHANGED vars => UNCHANGED setVars
    BY DEF Terminated, vars
  <1>5. QED
    BY <1>1, <1>2, <1>3, <1>4 DEF Next

\* Where a call goes from where it is; its argument is set once.
LEMMA CallPath ==
  ASSUME TypeOK, NEW d \in Calls, Invoke(d) \/ SetStep(d)
  PROVE  /\ pc'[d] # "idle"
         /\ pc[d] # "idle" => arg'[d] = arg[d]
         /\ pc[d] \notin {"accepted", "rejected"}
         /\ pc[d] \in {"rlock", "notify"} => pc'[d] # "rejected"
         /\ pc[d] \in {"idle", "load", "cas"} =>
              pc'[d] \in {"load", "cas"} \/ RejectNil(d) \/ Load(d) \/ SwapSucceeds(d)
  <1>1. CASE Invoke(d)
    BY <1>1 DEF Invoke, Goto, TypeOK
  <1>2. CASE RejectNil(d)
    BY <1>2 DEF RejectNil, Goto, TypeOK
  <1>3. CASE Load(d)
    BY <1>3 DEF Load, Goto, TypeOK
  <1>4. CASE SwapSucceeds(d)
    BY <1>4 DEF SwapSucceeds, Goto, TypeOK
  <1>5. CASE SwapFails(d)
    BY <1>5 DEF SwapFails, Goto, TypeOK
  <1>6. CASE ReadLock(d)
    BY <1>6 DEF ReadLock, Goto, TypeOK
  <1>7. CASE CallListener(d)
    BY <1>7 DEF CallListener
  <1>8. CASE ReadUnlock(d)
    BY <1>8 DEF ReadUnlock, Goto, TypeOK
  <1>9. QED
    BY <1>1, <1>2, <1>3, <1>4, <1>5, <1>6, <1>7, <1>8 DEF SetStep

\* A step leaves the argument of a call that has begun alone.
LEMMA ArgStep ==
  ASSUME TypeOK, [Next]_vars, NEW d \in Calls, pc[d] # "idle"
  PROVE  arg'[d] = arg[d] /\ pc'[d] # "idle"
  BY OwnStep, CallPath

\* What each call decided stays justified.
LEMMA DecisionsStep ==
  ASSUME TypeOK, TypeOK', CheckedBeforeSwap, DecisionsInv, [Next]_vars
  PROVE  DecisionsInv'
  <1> SUFFICES ASSUME NEW d \in Calls
               PROVE  /\ Swapped(d)' => NotOlder(ptr', arg'[d]) /\ arg'[d] # NoAssignment
                      /\ pc'[d] = "rejected" /\ arg'[d] # NoAssignment => Rejects(ptr', arg'[d])
    BY DEF DecisionsInv, DecisionsStand, Swapped
  <1>1. NotOlder(ptr', ptr)
    BY PtrStep
  <1>2. ptr \in MaybeAssignment /\ ptr' \in MaybeAssignment /\ arg[d] \in MaybeAssignment
    BY DEF TypeOK
  <1>3. CASE Swapped(d)
    <2>1. NotOlder(ptr, arg[d]) /\ arg[d] # NoAssignment /\ arg'[d] = arg[d]
      BY <1>3, ArgStep DEF DecisionsInv, DecisionsStand, Swapped
    <2>2. NotOlder(ptr', arg'[d])
      BY <1>1, <1>2, <2>1, NotOlderTransitive
    <2>3. pc'[d] # "rejected"
      BY <1>3, OwnStep, CallPath DEF Swapped
    <2>4. QED
      BY <2>1, <2>2, <2>3
  <1>4. CASE pc[d] = "rejected"
    <2>1. pc'[d] = "rejected" /\ arg'[d] = arg[d]
      BY <1>4, OwnStep, CallPath
    <2>2. arg[d] # NoAssignment => Rejects(ptr, arg[d])
      BY <1>4 DEF DecisionsInv, DecisionsStand
    <2>3. arg[d] # NoAssignment => Rejects(ptr', arg[d])
      BY <1>1, <1>2, <2>2, RejectsForever DEF MaybeAssignment
    <2>4. QED
      BY <2>1, <2>3 DEF Swapped
  <1>5. CASE pc[d] \in {"idle", "load", "cas"}
    <2>1. CASE pc'[d] \in {"idle", "load", "cas"}
      BY <2>1 DEF Swapped
    <2>2. CASE RejectNil(d)
      BY <2>2 DEF RejectNil, Goto, TypeOK, Swapped
    <2>3. CASE Load(d)
      BY <2>3 DEF Load, Goto, TypeOK, Swapped
    <2>4. CASE SwapSucceeds(d)
      <3>1. ptr' = arg'[d] /\ arg'[d] # NoAssignment /\ pc'[d] = "rlock"
        BY <2>4 DEF SwapSucceeds, Goto, TypeOK, CheckedBeforeSwap
      <3>2. QED
        BY <1>2, <3>1, NotOlderReflexive
    <2>5. \/ pc'[d] \in {"idle", "load", "cas"} \/ RejectNil(d) \/ Load(d) \/ SwapSucceeds(d)
      BY <1>5, OwnStep, CallPath
    <2>6. QED
      BY <2>1, <2>2, <2>3, <2>4, <2>5
  <1>6. QED
    BY <1>3, <1>4, <1>5 DEF TypeOK, PCs, Swapped

-----------------------------------------------------------------------------
\* An append keeps what is in a list, and puts the new element behind it.
LEMMA AppendFacts ==
  ASSUME NEW S, NEW s \in Seq(S), NEW e \in S
  PROVE  /\ Append(s, e) \in Seq(S)
         /\ Len(Append(s, e)) = Len(s) + 1
         /\ \A i \in 1..Len(s) : Append(s, e)[i] = s[i]
         /\ Append(s, e)[Len(s) + 1] = e
         /\ Range(s) \subseteq Range(Append(s, e))
  BY DEF Range

\* The lock's state and the callers' state move together.
LEMMA LockStep ==
  ASSUME TypeOK, LockInv, [Next]_vars
  PROVE  LockInv'
  <1> USE DEF LockInv
  <1>1. ASSUME NEW c \in Calls, Invoke(c)
        PROVE  LockInv'
    BY <1>1 DEF Invoke, Goto, TypeOK, lockVars
  <1>2. ASSUME NEW c \in Calls, RejectNil(c) \/ Load(c) \/ SwapSucceeds(c) \/ SwapFails(c)
        PROVE  LockInv'
    BY <1>2 DEF RejectNil, Load, SwapSucceeds, SwapFails, Goto, TypeOK, lockVars
  <1>3. ASSUME NEW c \in Calls, ReadLock(c)
        PROVE  LockInv'
    BY <1>3 DEF ReadLock, Goto, TypeOK
  <1>4. ASSUME NEW c \in Calls, CallListener(c)
        PROVE  LockInv'
    BY <1>4 DEF CallListener, TypeOK, lockVars
  <1>5. ASSUME NEW c \in Calls, ReadUnlock(c)
        PROVE  LockInv'
    BY <1>5 DEF ReadUnlock, Goto, TypeOK
  <1>6. ASSUME NEW l \in Listeners, RequestLock(l)
        PROVE  LockInv'
    <2>1. \A m \in Listeners : adding[m] # "waiting"
      BY <1>6, NoListenerAssumption DEF RequestLock
    <2>2. \A m \in Listeners : adding'[m] = "waiting" => writer' = m
      BY <1>6, <2>1 DEF RequestLock, TypeOK
    <2>3. \A i \in 1..Len(listeners') : adding'[listeners'[i]] = "done"
      BY <1>6 DEF RequestLock, TypeOK
    <2>4. QED
      BY <1>6, <2>2, <2>3 DEF RequestLock, setVars
  <1>7. ASSUME NEW l \in Listeners, AppendListener(l)
        PROVE  LockInv'
    <2>1. /\ listeners' = Append(listeners, l) /\ adding[l] = "waiting" /\ adding'[l] = "done"
          /\ \A m \in Listeners : m # l => adding'[m] = adding[m]
          /\ UNCHANGED <<readers, pc>>
      BY <1>7 DEF AppendListener, TypeOK, setVars
    <2>2. /\ Len(listeners') = Len(listeners) + 1 /\ listeners'[Len(listeners) + 1] = l
          /\ \A i \in 1..Len(listeners) : listeners'[i] = listeners[i]
      BY <2>1, AppendFacts DEF TypeOK
    <2>3. Len(listeners) \in Nat /\ \A i \in 1..Len(listeners) : listeners[i] \in Listeners
      BY DEF TypeOK
    <2>4. \A i \in 1..Len(listeners) : listeners[i] # l
      BY <2>1
    <2>5. \A m \in Listeners : adding'[m] = "waiting" => writer' = m
      BY <2>1
    <2>6. \A i \in 1..Len(listeners') : adding'[listeners'[i]] = "done"
      BY <2>1, <2>2, <2>3
    <2>7. \A i, j \in 1..Len(listeners') : listeners'[i] = listeners'[j] => i = j
      BY <2>2, <2>3, <2>4
    <2>8. QED
      BY <2>1, <2>5, <2>6, <2>7
  <1>8. CASE UNCHANGED vars
    BY <1>8 DEF vars, lockVars, setVars
  <1>9. QED
    BY <1>1, <1>2, <1>3, <1>4, <1>5, <1>6, <1>7, <1>8 DEF Next, SetStep, AddListenerStep,
       Terminated

\* The list of listeners changes only by an append, while no call walks it.
LEMMA ListenersStep ==
  ASSUME TypeOK, LockInv, [Next]_vars
  PROVE  /\ Range(listeners) \subseteq Range(listeners')
         /\ listeners' # listeners => \A c \in Calls : pc[c] # "notify" /\ UNCHANGED pc
  <1>1. CASE UNCHANGED listeners
    BY <1>1
  <1>2. ASSUME NEW l \in Listeners, AppendListener(l)
        PROVE  /\ Range(listeners) \subseteq Range(listeners')
               /\ \A c \in Calls : pc[c] # "notify" /\ UNCHANGED pc
    BY <1>2, AppendFacts DEF AppendListener, LockInv, TypeOK, setVars
  <1>3. QED
    BY <1>1, <1>2 DEF Next, SetStep, AddListenerStep, Terminated, vars, lockVars,
       Invoke, RejectNil, Load, SwapSucceeds, SwapFails, ReadLock, CallListener,
       ReadUnlock, RequestLock

\* The conjunct of NotifyInv for one call.
NotifyInvOf(d) ==
  /\ pc[d] \in {"rlock", "notify"} => due[d] \subseteq Range(listeners)
  /\ pc[d] \in {"idle", "load", "cas", "rlock"} => told[d] = << >>
  /\ pc[d] = "notify" =>
       /\ pos[d] \in 1..(Len(listeners) + 1)
       /\ Len(told[d]) = pos[d] - 1
       /\ \A i \in 1..Len(told[d]) : told[d][i] = listeners[i]

\* Under the read lock a call walks a list that stands still.
LEMMA NotifyStep ==
  ASSUME TypeOK, LockInv, NotifyInv, [Next]_vars
  PROVE  NotifyInv'
  <1> SUFFICES ASSUME NEW d \in Calls
               PROVE  NotifyInvOf(d)'
    BY DEF NotifyInv, NotifyInvOf
  <1> USE DEF NotifyInvOf
  <1>1. NotifyInvOf(d)
    BY DEF NotifyInv
  <1>2. ASSUME pc'[d] = pc[d], pos'[d] = pos[d], told'[d] = told[d], due'[d] = due[d]
        PROVE  NotifyInvOf(d)'
    BY <1>1, <1>2, ListenersStep
  <1>3. ASSUME NEW c \in Calls, c # d, Invoke(c) \/ SetStep(c)
        PROVE  pc'[d] = pc[d] /\ pos'[d] = pos[d] /\ told'[d] = told[d] /\ due'[d] = due[d]
    BY <1>3 DEF SetStep, Invoke, RejectNil, Load, SwapSucceeds, SwapFails, ReadLock,
       CallListener, ReadUnlock, Goto, TypeOK, history
  <1>4. CASE Invoke(d)
    BY <1>1, <1>4 DEF Invoke, Goto, TypeOK, history, lockVars
  <1>5. CASE RejectNil(d) \/ Load(d) \/ SwapFails(d)
    BY <1>1, <1>5 DEF RejectNil, Load, SwapFails, Goto, TypeOK, history, lockVars
  <1>6. CASE SwapSucceeds(d)
    BY <1>1, <1>6 DEF SwapSucceeds, Goto, TypeOK, lockVars
  <1>7. CASE ReadLock(d)
    <2>1. /\ pc'[d] = "notify" /\ pos'[d] = 1 /\ told'[d] = << >> /\ due'[d] = due[d]
          /\ listeners' = listeners /\ due[d] \subseteq Range(listeners)
      BY <1>1, <1>7 DEF ReadLock, Goto, TypeOK, history
    <2>2. Len(listeners) \in Nat
      BY DEF TypeOK
    <2>3. QED
      BY <2>1, <2>2
  <1>8. CASE CallListener(d)
    <2>1. /\ pc[d] = "notify" /\ pc'[d] = "notify" /\ due'[d] = due[d]
          /\ listeners' = listeners /\ pos[d] <= Len(listeners) /\ pos'[d] = pos[d] + 1
          /\ told'[d] = Append(told[d], listeners[pos[d]])
      BY <1>8 DEF CallListener, TypeOK, lockVars
    <2>2. told[d] \in Seq(Listeners) /\ listeners[pos[d]] \in Listeners /\ Len(listeners) \in Nat
      BY <2>1 DEF TypeOK
    <2>3. /\ Len(told'[d]) = Len(told[d]) + 1
          /\ \A i \in 1..Len(told[d]) : told'[d][i] = told[d][i]
          /\ told'[d][Len(told[d]) + 1] = listeners[pos[d]]
      BY <2>1, <2>2, AppendFacts
    <2>4. Len(told[d]) \in Nat
      BY <2>2
    <2>5. QED
      BY <1>1, <2>1, <2>2, <2>3, <2>4
  <1>9. CASE ReadUnlock(d)
    BY <1>9 DEF ReadUnlock, Goto, TypeOK
  <1>10. ASSUME NEW l \in Listeners, AddListenerStep(l)
         PROVE  pc'[d] = pc[d] /\ pos'[d] = pos[d] /\ told'[d] = told[d] /\ due'[d] = due[d]
    BY <1>10 DEF AddListenerStep, RequestLock, AppendListener, setVars, history
  <1>11. CASE UNCHANGED vars
    BY <1>11, <1>2 DEF vars, setVars, history
  <1>12. QED
    BY <1>2, <1>3, <1>4, <1>5, <1>6, <1>7, <1>8, <1>9, <1>10, <1>11 DEF Next, SetStep,
       Terminated

\* The list has been walked to its end when the call returns.
LEMMA ToldOnceStep ==
  ASSUME TypeOK, LockInv, NotifyInv, EveryListenerToldOnce, [Next]_vars
  PROVE  EveryListenerToldOnce'
  <1> SUFFICES ASSUME NEW d \in Calls, pc'[d] = "accepted", NEW l \in due'[d]
               PROVE  \E i \in 1..Len(told'[d]) :
                        /\ told'[d][i] = l
                        /\ \A j \in 1..Len(told'[d]) : told'[d][j] = l => j = i
    BY DEF EveryListenerToldOnce
  <1>1. CASE pc[d] = "accepted"
    <2>1. told'[d] = told[d] /\ due'[d] = due[d]
      BY <1>1 DEF Next, SetStep, AddListenerStep, Terminated, vars, lockVars, setVars,
         history, Invoke, RejectNil, Load, SwapSucceeds, SwapFails, ReadLock, CallListener,
         ReadUnlock, RequestLock, AppendListener, Goto, TypeOK
    <2>2. QED
      BY <1>1, <2>1 DEF EveryListenerToldOnce
  <1>2. CASE ReadUnlock(d)
    <2>1. /\ pc[d] = "notify" /\ pos[d] > Len(listeners) /\ told'[d] = told[d]
          /\ due'[d] = due[d]
      BY <1>2 DEF ReadUnlock, history
    <2>2. Len(listeners) \in Nat /\ pos[d] \in Nat /\ Len(told[d]) = Len(listeners)
      BY <2>1 DEF TypeOK, NotifyInv
    <2>3. \A i \in 1..Len(listeners) : told[d][i] = listeners[i]
      BY <2>1, <2>2 DEF NotifyInv
    <2>4. PICK i \in 1..Len(listeners) : listeners[i] = l
      BY <2>1 DEF NotifyInv, Range, TypeOK
    <2>5. \A j \in 1..Len(listeners) : listeners[j] = l => j = i
      BY <2>4 DEF LockInv
    <2>6. QED
      BY <2>1, <2>2, <2>3, <2>4, <2>5
  <1>3. pc[d] = "accepted" \/ ReadUnlock(d)
    BY DEF Next, SetStep, AddListenerStep, Terminated, vars, lockVars, setVars,
       history, Invoke, RejectNil, Load, SwapSucceeds, SwapFails, ReadLock, CallListener,
       ReadUnlock, RequestLock, AppendListener, Goto, TypeOK
  <1>4. QED
    BY <1>1, <1>2, <1>3

-----------------------------------------------------------------------------
\* CellInv is an inductive invariant of the cell.
THEOREM CellInvariance == Spec => []CellInv
  <1>1. Init => CellInv
    <2> SUFFICES ASSUME Init
                 PROVE  CellInv
      OBVIOUS
    <2>1. TypeOK
      BY CellTypeInit
    <2>2. CheckedBeforeSwap /\ DecisionsInv /\ EveryListenerToldOnce
      BY DEF Init, CheckedBeforeSwap, DecisionsInv, DecisionsStand, Swapped,
         EveryListenerToldOnce
    <2>3. LockInv
      BY DEF Init, LockInv
    <2>4. NotifyInv
      BY DEF Init, NotifyInv
    <2>5. QED
      BY <2>1, <2>2, <2>3, <2>4 DEF CellInv
  <1>2. CellInv /\ [Next]_vars => CellInv'
    BY CellTypeStep, CheckedStep, DecisionsStep, LockStep, NotifyStep, ToldOnceStep DEF CellInv
  <1>3. QED
    BY <1>1, <1>2, PTL DEF Spec

\* The variables of the cell keep their types.
THEOREM CellTypeCorrect == Spec => []TypeOK
  <1>1. CellInv => TypeOK
    BY DEF CellInv
  <1>2. QED
    BY <1>1, CellInvariance, PTL

\* However the calls of Set interleave, what each of them decided stands: the cell
\* never holds anything older than an accepted assignment, and a rejected one is
\* older than what the cell holds from then on.
THEOREM CellDecisionsStand == Spec => []DecisionsStand
  <1>1. CellInv => DecisionsStand
    BY DEF CellInv, DecisionsInv
  <1>2. QED
    BY <1>1, CellInvariance, PTL

\* A call of Set that returns true has called every listener that was registered
\* at its swap, and each exactly once.
THEOREM CellListenersToldOnce == Spec => []EveryListenerToldOnce
  <1>1. CellInv => EveryListenerToldOnce
    BY DEF CellInv
  <1>2. QED
    BY <1>1, CellInvariance, PTL

\* The pointer readers load never goes back to an older generation.
THEOREM CellMonotone == Spec => PtrNeverGoesBack
  <1>1. CellInv /\ [Next]_vars => [NotOlder(ptr', ptr)]_vars
    BY PtrStep DEF CellInv
  <1>2. QED
    BY <1>1, CellInvariance, PTL DEF Spec, PtrNeverGoesBack

-----------------------------------------------------------------------------
\* What the register accepts is what Set does not reject.
LEMMA AcceptableIsNotRejected ==
  ASSUME NEW a \in MaybeAssignment
  PROVE  Register!Acceptable(a) <=> a # NoAssignment /\ ~Rejects(ptr, a)
  BY DEF Register!Acceptable, Rejects, Register!Less, Compare, IncarnationCompare,
     Register!Compare, Register!IncarnationCompare

\* The cell implements the atomic register: a call that returns true takes effect
\* at its compare-and-swap, one that returns false at the load that made it give
\* up, whatever the other calls and the listeners do.
THEOREM CellImplementsRegister == Spec => CellIsARegister
  <1>1. Init => Register!Init
    BY DEF Init, Register!Init, phaseBar, Swapped, Register!MaybeAssignment, MaybeAssignment
  <1>2. ASSUME CellInv, [Next]_vars
        PROVE  [Register!Next]_(Register!vars)
    <2> USE DEF TypeOK, Goto
    <2>0. TypeOK /\ CheckedBeforeSwap
      BY <1>2 DEF CellInv
    <2>1. ASSUME NEW c \in Calls, Invoke(c)
          PROVE  Register!Invoke(c)
      <3>1. phaseBar[c] = "idle" /\ phaseBar' = [phaseBar EXCEPT ![c] = "open"]
        BY <2>0, <2>1 DEF Invoke, phaseBar, Swapped
      <3>2. QED
        BY <2>1, <3>1 DEF Invoke, Register!Invoke, Register!MaybeAssignment, MaybeAssignment
    <2>2. ASSUME NEW c \in Calls, RejectNil(c) \/ (Load(c) /\ Rejects(ptr, arg[c]))
          PROVE  Register!Reject(c)
      <3>1. phaseBar[c] = "open" /\ phaseBar' = [phaseBar EXCEPT ![c] = "rejected"]
        BY <2>0, <2>2 DEF RejectNil, Load, phaseBar, Swapped
      <3>2. ~Register!Acceptable(arg[c])
        BY <2>0, <2>2, AcceptableIsNotRejected DEF RejectNil, Load
      <3>3. QED
        BY <2>2, <3>1, <3>2 DEF RejectNil, Load, Register!Reject
    <2>3. ASSUME NEW c \in Calls, SwapSucceeds(c)
          PROVE  Register!Accept(c)
      <3>1. phaseBar[c] = "open" /\ phaseBar' = [phaseBar EXCEPT ![c] = "accepted"]
        BY <2>0, <2>3 DEF SwapSucceeds, phaseBar, Swapped
      <3>2. Register!Acceptable(arg[c])
        <4>1. arg[c] \in MaybeAssignment /\ arg[c] # NoAssignment /\ ~Rejects(ptr, arg[c])
          BY <2>0, <2>3 DEF SwapSucceeds, CheckedBeforeSwap
        <4>2. QED
          BY <4>1, AcceptableIsNotRejected
      <3>3. QED
        BY <2>3, <3>1, <3>2 DEF SwapSucceeds, Register!Accept
    <2>4. ASSUME NEW c \in Calls,
                 \/ Load(c) /\ ~Rejects(ptr, arg[c])
                 \/ SwapFails(c) \/ ReadLock(c) \/ CallListener(c) \/ ReadUnlock(c)
          PROVE  UNCHANGED <<ptr, phaseBar, arg>>
      BY <2>0, <2>4 DEF Load, SwapFails, ReadLock, CallListener, ReadUnlock, phaseBar, Swapped
    <2>5. ASSUME NEW l \in Listeners, AddListenerStep(l)
          PROVE  UNCHANGED <<ptr, phaseBar, arg>>
      BY <2>5 DEF AddListenerStep, RequestLock, AppendListener, setVars, phaseBar, Swapped
    <2>6. CASE UNCHANGED vars
      BY <2>6 DEF vars, setVars, Register!vars, phaseBar, Swapped
    <2>7. QED
      BY <1>2, <2>1, <2>2, <2>3, <2>4, <2>5, <2>6 DEF Next, SetStep, Terminated,
         Register!Next, Register!vars
  <1>3. QED
    BY <1>1, <1>2, CellInvariance, PTL DEF Spec, CellIsARegister, Register!Spec
=============================================================================
