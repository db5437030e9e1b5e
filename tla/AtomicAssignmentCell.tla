------------------------ MODULE AtomicAssignmentCell ------------------------
(***************************************************************************)
(* pkg/common/atomic_assignment.go: an atomic pointer with a compare-and-  *)
(* swap Set, and a list of listeners guarded by an RWMutex.  Each call of  *)
(* Set and each call of AddListener is a process that runs once; one step  *)
(* is one atomic operation on shared state (a load, a CAS, a lock          *)
(* operation, the call of one listener).                                   *)
(***************************************************************************)
EXTENDS Assignments, Sequences, Functions

CONSTANTS
  Calls,       \* the calls of Set
  Listeners,   \* the callbacks, each passed to one call of AddListener
  NoListener

ASSUME NoListenerAssumption == NoListener \notin Listeners

VARIABLES
  ptr,         \* AtomicAssignmentCell.ptr
  listeners,   \* AtomicAssignmentCell.listeners
  readers,     \* the calls of Set that hold mu.RLock
  writer,      \* the AddListener that waits for, or is in, mu.Lock
  pc,          \* the next step of each call of Set
  arg,         \* its newAssignment
  old,         \* its last load of ptr
  pos,         \* the listener it calls next
  adding,      \* the progress of each AddListener
  due,         \* history: the listeners registered when the call's CAS succeeded
  told,        \* history: the listeners the call has invoked, in order
  lastHeard    \* history: the assignment each listener was last called with

setVars == <<pc, arg, old, pos>>
lockVars == <<listeners, readers, writer, adding>>
history == <<due, told, lastHeard>>
vars == <<ptr, lockVars, setVars, history>>

PCs == {"idle", "load", "cas", "rlock", "notify", "accepted", "rejected"}

Init ==
  /\ ptr \in MaybeAssignment
  /\ listeners = << >>
  /\ readers = {}
  /\ writer = NoListener
  /\ pc = [c \in Calls |-> "idle"]
  /\ arg = [c \in Calls |-> NoAssignment]
  /\ old = [c \in Calls |-> NoAssignment]
  /\ pos = [c \in Calls |-> 1]
  /\ adding = [l \in Listeners |-> "idle"]
  /\ due = [c \in Calls |-> {}]
  /\ told = [c \in Calls |-> << >>]
  /\ lastHeard = [l \in Listeners |-> NoAssignment]

Goto(c, label) == pc' = [pc EXCEPT ![c] = label]

-----------------------------------------------------------------------------
(* Set *)

\* Set is called, with nil or with an assignment.
Invoke(c) ==
  /\ pc[c] = "idle"
  /\ Goto(c, "load")
  /\ \E a \in MaybeAssignment : arg' = [arg EXCEPT ![c] = a]
  /\ UNCHANGED <<ptr, lockVars, old, pos, history>>

\* The nil check before the loop.
RejectNil(c) ==
  /\ pc[c] = "load"
  /\ arg[c] = NoAssignment
  /\ Goto(c, "rejected")
  /\ UNCHANGED <<ptr, lockVars, arg, old, pos, history>>

\* The head of the loop: the load and the monotonicity check on what it read.
Load(c) ==
  /\ pc[c] = "load"
  /\ arg[c] # NoAssignment
  /\ old' = [old EXCEPT ![c] = ptr]
  /\ Goto(c, IF Rejects(ptr, arg[c]) THEN "rejected" ELSE "cas")
  /\ UNCHANGED <<ptr, lockVars, arg, pos, history>>

\* Mutant: an unconditional store in place of the compare-and-swap.
BlindStore(c) ==
  /\ pc[c] = "cas"
  /\ ptr' = arg[c]
  /\ Goto(c, "rlock")
  /\ due' = [due EXCEPT ![c] = Range(listeners)]
  /\ UNCHANGED <<lockVars, arg, old, pos, told, lastHeard>>

\* The pointer is still the one that was checked: it is swapped.
SwapSucceeds(c) ==
  /\ pc[c] = "cas"
  /\ ptr = old[c]
  /\ ptr' = arg[c]
  /\ Goto(c, "rlock")
  /\ due' = [due EXCEPT ![c] = Range(listeners)]
  /\ UNCHANGED <<lockVars, arg, old, pos, told, lastHeard>>

\* Another Set came in between: once more around the loop.
SwapFails(c) ==
  /\ pc[c] = "cas"
  /\ ptr # old[c]
  /\ Goto(c, "load")
  /\ UNCHANGED <<ptr, lockVars, arg, old, pos, history>>

\* Mutant: the range loop starts one too early.
ReadLockFromZero(c) ==
  /\ pc[c] = "rlock"
  /\ writer = NoListener
  /\ readers' = readers \cup {c}
  /\ pos' = [pos EXCEPT ![c] = 0]
  /\ Goto(c, "notify")
  /\ UNCHANGED <<ptr, listeners, writer, adding, arg, old, history>>

\* notifyListeners: mu.RLock, which a waiting writer holds up.
ReadLock(c) ==
  /\ pc[c] = "rlock"
  /\ writer = NoListener
  /\ readers' = readers \cup {c}
  /\ pos' = [pos EXCEPT ![c] = 1]
  /\ Goto(c, "notify")
  /\ UNCHANGED <<ptr, listeners, writer, adding, arg, old, history>>

\* One callback of the range loop.  Listeners return, and use no cell.
CallListener(c) ==
  /\ pc[c] = "notify"
  /\ pos[c] <= Len(listeners)
  /\ told' = [told EXCEPT ![c] = Append(@, listeners[pos[c]])]
  /\ lastHeard' = [lastHeard EXCEPT ![listeners[pos[c]]] = arg[c]]
  /\ pos' = [pos EXCEPT ![c] = @ + 1]
  /\ UNCHANGED <<ptr, lockVars, pc, arg, old, due>>

\* Mutant: the loop ends before the last listener.
UnlockEarly(c) ==
  /\ pc[c] = "notify"
  /\ pos[c] >= Len(listeners)
  /\ readers' = readers \ {c}
  /\ Goto(c, "accepted")
  /\ UNCHANGED <<ptr, listeners, writer, adding, arg, old, pos, history>>

\* Mutant: the deferred RUnlock is forgotten.
NoUnlock(c) ==
  /\ pc[c] = "notify"
  /\ pos[c] > Len(listeners)
  /\ Goto(c, "accepted")
  /\ UNCHANGED <<ptr, lockVars, arg, old, pos, history>>

\* The loop is over: mu.RUnlock, and Set returns true.
ReadUnlock(c) ==
  /\ pc[c] = "notify"
  /\ pos[c] > Len(listeners)
  /\ readers' = readers \ {c}
  /\ Goto(c, "accepted")
  /\ UNCHANGED <<ptr, listeners, writer, adding, arg, old, pos, history>>

SetStep(c) ==
  \/ RejectNil(c) \/ Load(c)
  \/ SwapSucceeds(c) \/ SwapFails(c)
  \/ ReadLock(c) \/ CallListener(c) \/ ReadUnlock(c)

-----------------------------------------------------------------------------
(* AddListener *)

\* mu.Lock announces the writer, one at a time, and stops new readers.
RequestLock(l) ==
  /\ adding[l] = "idle"
  /\ writer = NoListener
  /\ writer' = l
  /\ adding' = [adding EXCEPT ![l] = "waiting"]
  /\ UNCHANGED <<ptr, listeners, readers, setVars, history>>

\* The readers are gone: the lock is held, the append done, the lock released.
AppendListener(l) ==
  /\ adding[l] = "waiting"
  /\ readers = {}
  /\ listeners' = Append(listeners, l)
  /\ writer' = NoListener
  /\ adding' = [adding EXCEPT ![l] = "done"]
  /\ UNCHANGED <<ptr, readers, setVars, history>>

AddListenerStep(l) == RequestLock(l) \/ AppendListener(l)

-----------------------------------------------------------------------------
\* Every call has returned.
Terminated ==
  /\ \A c \in Calls : pc[c] \in {"accepted", "rejected"}
  /\ \A l \in Listeners : adding[l] = "done"
  /\ UNCHANGED vars

Next ==
  \/ \E c \in Calls : Invoke(c) \/ SetStep(c)
  \/ \E l \in Listeners : AddListenerStep(l)
  \/ Terminated

Spec == Init /\ [][Next]_vars

\* Go keeps every runnable goroutine running, and a call that has begun runs.
Fairness ==
  /\ \A c \in Calls : WF_vars(SetStep(c))
  /\ \A l \in Listeners : WF_vars(AppendListener(l))

FairSpec == Spec /\ Fairness

-----------------------------------------------------------------------------
TypeOK ==
  /\ ptr \in MaybeAssignment
  /\ listeners \in Seq(Listeners)
  /\ readers \in SUBSET Calls
  /\ writer \in Listeners \cup {NoListener}
  /\ pc \in [Calls -> PCs]
  /\ arg \in [Calls -> MaybeAssignment]
  /\ old \in [Calls -> MaybeAssignment]
  /\ pos \in [Calls -> Nat \ {0}]
  /\ adding \in [Listeners -> {"idle", "waiting", "done"}]
  /\ due \in [Calls -> SUBSET Listeners]
  /\ told \in [Calls -> Seq(Listeners)]
  /\ lastHeard \in [Listeners -> MaybeAssignment]

\* The call has swapped the pointer.
Swapped(c) == pc[c] \in {"rlock", "notify", "accepted"}

\* What a call of Set decided stays justified however the calls interleave: an
\* accepted assignment is never newer than the one the cell holds from then on,
\* and a rejected one is forever older than it.
DecisionsStand ==
  \A c \in Calls :
    /\ Swapped(c) => NotOlder(ptr, arg[c])
    /\ pc[c] = "rejected" /\ arg[c] # NoAssignment => Rejects(ptr, arg[c])

\* Readers of the cell never see it go back: Get is a plain load of ptr, so this
\* is the rollback protection the routing path relies on.
PtrNeverGoesBack == [][NotOlder(ptr', ptr)]_vars

\* A call of Set that returned true has called, exactly once, every listener that
\* was registered when its swap took effect, whatever AddListener was doing.
EveryListenerToldOnce ==
  \A c \in Calls : pc[c] = "accepted" =>
    \A l \in due[c] :
      \E i \in 1..Len(told[c]) :
        /\ told[c][i] = l
        /\ \A j \in 1..Len(told[c]) : told[c][j] = l => j = i

\* The doc comment of Set: true is returned for a newer generation or the first
\* initialisation (an equal generation is accepted as well).
OnlyNewerIsAccepted == [][ptr' # ptr => Newer(ptr', ptr)]_vars

\* The package README's monotonicity, as a listener sees it: what it is called
\* with is never older than what it was called with before.
ListenersHearInOrder ==
  [][\A l \in Listeners : NotOlder(lastHeard'[l], lastHeard[l])]_vars

\* The compare-and-swap loop and the read lock end, and readers do not starve the
\* writer: every call of Set and every call of AddListener returns.
CallsReturn ==
  /\ \A c \in Calls : pc[c] = "load" ~> pc[c] \in {"accepted", "rejected"}
  /\ \A l \in Listeners : adding[l] = "waiting" ~> adding[l] = "done"

-----------------------------------------------------------------------------
\* The register the calls implement: a call takes effect at its swap, or at the
\* load that makes it give up.
phaseBar ==
  [c \in Calls |->
     IF pc[c] \in {"load", "cas"} THEN "open" ELSE IF Swapped(c) THEN "accepted" ELSE pc[c]]

Register == INSTANCE AssignmentRegister WITH val <- ptr, phase <- phaseBar

\* Every behaviour of the cell is one of the atomic register.
CellIsARegister == Register!Spec

-----------------------------------------------------------------------------
(* The inductive invariant behind the safety properties. *)

\* A call is about to swap only what it checked against the load it will compare.
CheckedBeforeSwap ==
  \A c \in Calls : pc[c] = "cas" =>
    arg[c] # NoAssignment /\ ~Rejects(old[c], arg[c])

\* The past of each call explains what is held now.
DecisionsInv ==
  /\ DecisionsStand
  /\ \A c \in Calls : Swapped(c) => arg[c] # NoAssignment

\* The lock's state is the callers' state, and the list holds exactly the
\* listeners whose AddListener has returned, each once.
LockInv ==
  /\ \A c \in Calls : c \in readers <=> pc[c] = "notify"
  /\ \A l \in Listeners : adding[l] = "waiting" => writer = l
  /\ \A i \in 1..Len(listeners) : adding[listeners[i]] = "done"
  /\ \A i, j \in 1..Len(listeners) : listeners[i] = listeners[j] => i = j

\* Under the read lock a call has told a prefix of the list.
NotifyInv ==
  \A c \in Calls :
    /\ pc[c] \in {"rlock", "notify"} => due[c] \subseteq Range(listeners)
    /\ pc[c] \in {"idle", "load", "cas", "rlock"} => told[c] = << >>
    /\ pc[c] = "notify" =>
         /\ pos[c] \in 1..(Len(listeners) + 1)
         /\ Len(told[c]) = pos[c] - 1
         /\ \A i \in 1..Len(told[c]) : told[c][i] = listeners[i]

CellInv ==
  /\ TypeOK
  /\ CheckedBeforeSwap
  /\ DecisionsInv
  /\ LockInv
  /\ NotifyInv
  /\ EveryListenerToldOnce
=============================================================================
