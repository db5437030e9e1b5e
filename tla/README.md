# Verification of the godicer client

godicer is a Go port of the Dicer sharding client. A client process asks an
assigner, by long polling, which server pods own which ranges of keys, keeps the
last answer in memory and routes keys with it. This directory holds TLA+
specifications of its core, TLC configurations that check them on small
instances, and TLAPS proofs that hold for every instance.

## 1. Inventory

| component | source | state | operations | interacts with |
|---|---|---|---|---|
| Generation | `pkg/common/generation.go` | immutable (incarnation, number) | Compare, Less, Equal, IsEmpty, NewIncarnation | everything that orders assignments |
| Assignment | `pkg/common/assignment.go` | immutable: generation, slice map, resources | NewAssignment (validates), look-ups by key and by resource | built by ProtoConverter, held by the cell |
| AtomicAssignmentCell | `pkg/common/atomic_assignment.go` | atomic pointer; listener list under an RWMutex | Get, Set (CAS loop, then notify), AddListener | written by SliceLookup, read by ResourceRouter |
| AssignmentSyncStateMachine | `pkg/client/state_machine.go` | outstanding read, redirect, remote generation, backoff, schedule, assignment | OnEvent (success, failure, cancel), OnAdvance | passive; called by SliceLookup under `sl.mu`, returns actions |
| SliceLookup | `pkg/client/slice_lookup.go` | context, wait group, ready channel, cell, machine | Start, Stop, ticker loop, one goroutine per Watch request | machine, cell, gRPC |
| ResourceRouter | `pkg/client/router.go` | round-robin counter | RouteAll, Route, RouteTwoLevel, RouteWithRetry | cell, SliceMap |
| SliceLookupCache | `pkg/client/lookup_cache.go` | a mutex; map from target and address to SliceLookup | GetOrCreate, Size, Close | SliceLookup |
| Clerk | `pkg/client/clerk.go` | a SliceLookup, its own or a shared one | constructors, routing, Close | cache, SliceLookup, router |
| SliceKey, Slice | `pkg/friend/slice.go` | immutable | Compare, Contains, Intersection | SliceMap |
| SliceMap | `pkg/friend/slicemap.go` | ordered list of slices that partitions the keys | validation, LookUp, IntersectSlices, CoalesceSlices, CreateFromOrderedDisjointEntries | Assignment, router |
| Squid, SubsliceAnnotation | `pkg/friend/squid.go`, `pkg/common/subslice_annotation.go` | immutable | constructors, formatting | Assignment |
| ProtoConverter | `pkg/common/proto_converter.go` | none | assignment to and from the wire, resource index pool | state machine |
| wire messages | `pkg/proto` | generated | | |

How the parts work together: the ticker loop calls `OnAdvance` every 20 ms under
`sl.mu`; the machine answers with at most two actions (use an assignment, send a
request); they are carried out after the unlock. A request runs in a goroutine of
its own, with a deadline, and brings its outcome back as an event, again under
`sl.mu`, again followed by actions outside the lock. Readers never take a lock:
they load the cell's pointer.

What is hard in this code:

- *concurrency*: any number of request goroutines and the loop contend for
  `sl.mu` and then race with each other to carry out their actions; `Set` is a
  CAS loop whose notifications run under another lock;
- *time*: deadlines, jittered exponential backoff, and clock readings taken
  before the lock is acquired, so the machine sees time go backwards;
- *failure*: dials fail, requests time out, answers arrive after the machine has
  given up on them, or make its conversions panic, which ends the process;
- *shutdown*: `Stop` cancels a context and waits for the loop, while requests are
  still on their way; the cache waits for loops while it holds its mutex;
- *sharing*: routers read a cell that moves on between two lines, share one
  counter, and Clerks share a lookup that each of them may stop.

What makes each part correct: generations are totally ordered; the cell never
goes back and each decision of `Set` stays justified; each listener registered at
a swap is told once; the machine tracks only its newest request, always has a
next step, and takes it in bounded time, whatever a server suggests; no decision of the machine is lost or
reordered on its way to the cell; `Stop` ends, leaves the machine inert and
drains the requests; a running lookup never stops asking; a validated slice map
finds every key in exactly one entry; intersection, coalescing and gap filling
preserve the mapping; a call of the router answers from one assignment that was
current during it, retries contact nobody twice; Clerks share a lookup exactly by
target and address, at most one shared lookup runs its loop for a target and a
server, Close of the cache stops the loops of what it held; an assignment comes
back from the wire as it was, and
what is decoded agrees with itself.
`PROJECT.json` lists the hazards line by line with the properties that cover them.

## 2. Modules

| module | models | extends |
|---|---|---|
| `Generation` | comparison of versions | |
| `Assignments` | assignments as identities with a generation; the two freshness checks of the code | `Generation` |
| `AssignmentRegister` | **abstract**: an atomic register that refuses older assignments | `Assignments` |
| `AtomicAssignmentCell` | the cell, one atomic operation per step | `Assignments` |
| `WatchSession` | **abstract**: one current request, replaced when it was answered or has failed, and the delay between; the phases of the client README's diagram, whose arrow for a deadline the code does not follow (section 5) | `Assignments` |
| `AssignmentSyncStateMachine` | the passive machine, driven by any driver and any network | `Assignments` |
| `SliceLookup` | the driver with its goroutines; it calls the handlers of the machine's module | `AssignmentSyncStateMachine` |
| `LookupService` | **abstract**: what a lookup promises to router, Clerks and cache | `Assignments` |
| `ResourceRouter` | the router as concurrent goroutines use it, over any behaviour of `LookupService` | `Assignments`, instance of `LookupService` |
| `SliceLookupCache` | Clerks and the cache: shared and owned lookups, their ends | |
| `SliceAssignments` | validation and queries of an Assignment | `Slices`, instance of `Generation` |
| `ProtoConverter` | an Assignment to a message and back, with signs, indices, errors and panics | `SliceAssignments` |
| `Slices` | high keys, slices and complete lists of them over any ordered set of keys | |
| `SliceKey` | keys as byte strings, compared by prefix, length and bytes | |
| `SliceMap` | the loops over lists of slices, one call per behaviour | `Slices` |
| `ByteKeys` | the two together: SliceMaps over the keys of the code | `SliceMap`, `SliceKey` |
| `MC*` | instances for TLC | |
| `*Proofs` | theorems and proofs | the module in the name, `TLAPS` |

### The cell

`ptr`, `listeners` and the lock (`readers`, `writer`) are the fields of the Go
struct; every call of `Set` and of `AddListener` is a process that runs once. The
labels in `pc` are the points between two atomic operations: the load, the CAS,
`RLock`, one callback after the other, `RUnlock`. A waiting writer stops new
readers, as Go's RWMutex does. `due`, `told` and `lastHeard` are history
variables: who was registered at the swap, who was called, and with what.
Assignments are told apart by identity, as `CompareAndSwap` tells pointers apart,
so two of the same generation may exist. A listener is taken to return and not to
call back into the cell (it runs under the read lock).

### The state machine

`sm` is the Go struct as a record. A handler is an operator from the machine
before the call to the set of machines after it; the set is the jitter's choice.
The order inside a handler is the code's: `OnReadSuccess` takes in assignment and
redirect, then the remote generation, then ends the read; `OnAdvanceInternal`
first gives up a read past its deadline, then issues a request. The actions a call
emits are read off the machine before and after it (`Actions`), since each kind is
emitted at most once and only when the field it is about changes.

Instants are relative to the present: a deadline three units away is 3, and `Tick`
takes one off every instant. This keeps the state space finite without a horizon
on time. Handlers are given a clock reading between `-MaxLag` and 0, because the
driver reads the clock before it waits for the lock. An instant older than
`-MaxLag` lies before every reading any handler may still bring, so instants stop
there.

A response is a record of what the handlers look at; the redirect's token and the
bytes of an assignment are left out. A known assignment that does not convert is a
response with a nil assignment and a generation of its own, as in the code. A suggested
timeout is an int64 of milliseconds and becomes a Duration by a product that wraps
(`FromMillis`), so a timeout may be negative; a unit of time is that of a Duration,
`DurationLimit` of them in each direction.

A conversion may panic: that of the assignment, before the redirect is taken, or that of
a generation, after. `panics` says which, and `Interrupted` is where the handler is
left. `ProtoConverter` says for which messages it happens.

### The lookup

One step is one critical section of `sl.mu`, one action carried out, or the end of
a wait. `loop` and `reqs[op]` are the goroutines: where each is, the clock reading
it holds and the actions it has still to carry out. `cell.Set` is a single step,
which the proof that the cell is an atomic register justifies. `handleAction` on
an assignment is two steps, the publication and the close of the ready channel.
A tick is received with a reading that may have waited in the ticker's channel. `Stop` may be called any number
of times, before or after `Start`, concurrently. The gRPC client is external: a
dial gives a client or fails, a Watch returns a response or an error at some time.
If the machine panics on a response (`ResponsePanics`), the goroutine does not recover
and the process ends: every action needs the process `Alive`, and `ProcessEnded` stands
for what is left.

### The slice map

The package is sequential and its values immutable, so a behaviour is one call:
`call` holds the function and its arguments, `i`, `j`, `current` and `cursor` are
the local variables of its loop, `result` is the slice being built, and each step is
an iteration. `sort.Search` is external, but its loop is modelled, since the proof of
the search is about its bounds. Validation loops too; it changes nothing, and is
the predicate `Complete` of `Slices`, which `SliceAssignments` uses as well. What an entry carries besides its slice is a `Value`;
the caller's equality of `CoalesceSlices` is equality of values, and a `GapEntry`
is an entry's own record or `Gap`. A panic is an outcome.

`Slices` and `SliceMap` leave the keys open: `KeyCompare` is a parameter with
`KeyOrderAssumption`, a total order with a least key. `SliceKey` is what the code
puts there, and a theorem has the assumption follow from the bytes
(`KeysAreOrdered`). `ByteKeys` joins the two, for what a search finds in terms of bytes.

### The router

`ResourceRouter` composes with the lookup through `LookupService`: the variables
`status`, `cell` and `ready` move by any step of that specification, which
`SliceLookup` implements. A call is a record with the point it has reached: called,
loaded (it has taken its `snapshot`, the only load of the cell), returned. The
counter is advanced and read by one atomic addition and wraps at `Modulus`. What an
assignment gives for a key is a parameter, `ResourcesOf`, since the slice map is a
matter of its own; FNV-1a is the parameter `HashOf`. `RouteWithRetry` gets its list
from the application, which keeps it in `sessions`: a replica that failed is added
to it and the call repeated. `window`, `waited`, `row`, `routed` and `attempts`
are history variables: what the cell held during the call, whom WaitReady has let go,
the last calls that used the counter one after the other for the same replicas, with
how often each was given out, how many calls have used the counter at all, and how
many replicas a session has contacted. Squids
are equal when their three fields are; the code compares their texts, which say
the same.

### Clerks and the cache

In `SliceLookupCache` each Clerk is made by a goroutine of its own, with the cache
or without. A lookup has the life of `LookupService`, by the name of the Clerk it
was made for; what it publishes does not matter here. `GetOrCreate` is one critical
section, hence one step. `Close` is several, since it waits in `Stop` for one loop
after the other with the mutex in its hand (`mu`). Targets and addresses are
sequences of characters, because the key joins them with a separator: an address
has none, a target may. `epoch` and `present` are history variables: how many
Closes had returned when a Clerk got its lookup, and what a Close found when it
was called.

### Assignments and the wire

`SliceAssignments` translates each constructor into the predicate that it reports no
error, and each query into an operator. `prevHigh` of the validation loop is kept
as it is, the upper end of the annotation before, with or without a key.

A behaviour of `ProtoConverter` encodes an Assignment and decodes the message, or
decodes one from another encoder, a slice per step. The order in which the map of
annotations is iterated is a choice in each step. Integers have their width:
`ToInt64` and `ToUint64` wrap at `Words`, bytes of a UUID are taken apart by the
arithmetic of signed shifts. The text of a UUID is canonical, a variant that
parses to the same bytes, or one that does not parse. The checks of a message are
listed in the order of the code, each with what it ends in; the first that does not
pass decides between an error and a panic. `Those` and `Added` are the
loops by which the code groups a list and makes it one without repetitions. A load is one of the five kinds that the
check tells apart; `TransferP.Id` is a constant, and left out.

## 3. Runs

| run | question | bounds |
|---|---|---|
| `cell` | Do three racing writers and a registration keep the cell an atomic register, the notifications complete, and does every call return? | 3 Sets, 1 listener, 3 assignments of which 2 have equal generations and one a higher number in an older incarnation |
| `machine_safety` | Does the machine keep to the lifecycle of `WatchSession`, with a next step in bounded time, whatever arrives in whatever order? | 4 requests, 2 servers, 8 shapes of answers, among them a suggestion that overflows and two that panic, delays up to 3, clock readings 1 unit old |
| `lookup_safety` | Is anything the machine decides lost or reordered into a rollback? Does the driver only do to the machine what the machine's own module allows (`SMSpec`), and is it the service its users expect (`LookupIsAService`)? | 3 requests, 4 answers, one with a suggestion that overflows and one that panics, 2 calls of Stop, readings 1 old |
| `lookup_liveness` | While the process lives, does Stop return, do requests end, does the lookup keep asking and publish what it accepted? | 2 requests, 3 answers, one of which panics, 1 call of Stop |
| `lookup_fallback`, `lookup_lagging_server` | findings 1 and 2 | 2 or 3 requests |
| `router` | Does a call answer from one current assignment, does a session of retries contact each incarnation once, are calls of Route in a row shared evenly, does ready stay true? | 2 goroutines, 2 assignments, 2 keys, slices of 1, 2 and 3 replicas, a restarted pod, 4 calls of Route, a counter that wraps at 4 |
| `lookup_cache` | Who shares a lookup, can a key have two running ones, what has Close ended when it returns, and does everyone get the mutex? | 4 Clerks, 3 of them cached and 2 of one key, 2 calls of Close |
| `lookup_cache_stopped` | finding 3 | 3 Clerks, 1 call of Close |
| `wire_converter` | Is decoding the inverse of encoding, and is what is decoded from any message consistent? | 1 or 2 slices, lists of 1 to 3 resources, 5 lists of annotations; a right message changed in one place, in every way the decoder checks; 3-bit words, UUIDs of 6 bits |
| `wire_annotations` | finding 4 | as above |
| `slice_map_calls` | Does each call give the result its inputs call for on every key? | 8 keys of up to 3 bytes with 2 values, a prefix of 2 bytes; all 54 maps over 4 boundaries and 2 values, all pairs of them, all lists of up to 3 of the 10 slices |

Why the bounds are enough to be interesting. Three calls of `Set` are the least at
which one call's retry meets a swap that came after the swap that made it retry.
Three requests are the least at which the late answer of a request that was given
up meets a successor that has itself been given up: one request answers late, one
is outstanding, one is new. Two assignments give every order of arrival; the
machine takes only strictly newer ones. Longer runs made by hand, `lookup_safety`
with four requests and `lookup_liveness` with three, hold as well.

Two calls of the router with two assignments give every order of a call's load and
choice around a change of the cell. Both keys change the number of their replicas,
and the restarted pod has the address of an incarnation that was tried. Four calls
of Route wrap the counter: two replicas divide its modulus and three do not, so
both sides of the condition of `EvenSpread` occur, and rows for two and for three
replicas come one after the other. In the cache two Clerks agree on the key and the third differs
only in where the target ends; two calls of Close are the least at which one finds the
other's work half done. The converter's numbers reach the sign bit and the
guardrail, and its Squids include one pod in two notations, two pods on one address
and one without a UUID.

For the slice map the keys are few but awkward: the empty key, keys that differ only in
trailing zeros (which the padding of the prefix hides), keys longer than the
prefix that differ after it, and keys on, below and above every boundary. Maps
of up to four entries have a first, a last and two inner ones, and equal values
in every arrangement. The lists include gaps at either end and between, overlaps,
wrong orders and entries behind an infinite one. `FoundByBytes` states the result of
a search in terms of the order of the bytes, so it is about the comparison as
well. A call stops when it has returned, so deadlock is not checked there, and
neither is it for a conversion.

In `SliceLookup` time stops for a machine that has issued `MaxOps` requests, since
a further request would leave the bound. In the liveness run the delays and timeouts
exceed `MaxLag`, so nothing falls due after that; only the answer to the last request,
which would issue another one, is never delivered. In `lookup_safety` the last request
may still be given up, if its timeout has overflowed, and its retry is cut off. `MaxOpID` in the machine's own
run simply cuts the behaviours off. Calls, listeners and calls of Stop are
symmetric where a run uses symmetry, and no run with symmetry checks liveness.

### Fairness

- A call of `Set` or `AddListener` that has begun runs on (weak fairness of its
  steps): Go's scheduler is preemptive and runs every runnable goroutine.
  `AddListener`'s step is enabled when no reader holds the lock, and stays so
  because a waiting writer keeps new readers out.
- The loop's steps and each request's steps are weakly fair. For a Watch this is
  the deadline its context carries (`slice_lookup.go:194`): it returns at the
  latest then.
- `LoopExits` is strongly fair: a Go `select` with several ready cases picks one
  at random, so the cancelled context is not passed over for ever.
- A goroutine in `GetOrCreate`, or in a `Close` of Clerk or cache, runs on, and gets
  the mutex when it is free (weak fairness of `GetsExisting`, `Creates`, `Closed`
  and of the steps of the cache's Close; the calls are finitely many). A cancelled
  loop ends, which is `StopCompletes` of the lookup. Nobody has to call anything.
- All of this holds while the process lives: `StopCompletes`, `KeepsTrying` and
  `AssignmentIsPublished` say what must happen unless a panic has ended it, and the
  liveness of the cache is that of a process in which no lookup panics.
- Time passes (strong fairness, since the bound on the age of a clock reading
  disables it now and then). Nothing is assumed about the server: it may answer
  nothing of use, and need not answer at all.

## 4. Proofs

The proofs assume only the named assumptions of the modules: `GenOf` maps
assignments to generations, none of them empty (`NewAssignment` refuses it); nil
values are none of the real ones; delays are 64-bit integers, those for retries below
half the range of a Duration, 146 years, so that doubling and jitter do not overflow,
and the default delays positive; a millisecond is a positive number of units; responses
are well-formed records, of any suggested timeout, and may panic; `MaxLag` is a natural
number; a slice
assignment has resources (`NewSliceWithResources` refuses none); no watch address has
a separator in it; the calls of the cache's Close are finitely many; the maps given to
the loops are complete and the lists lists of entries; a byte has a largest value; the
Assignments to encode passed the constructors, with numbers that fit a word and
incarnations below the guardrail of `NewIncarnation`, itself a word; the marker of an
annotation without a transfer is no Squid; and messages have fields of their types, each
of which may be absent as the wire allows. None bounds the number
of calls, listeners, assignments, requests, servers, goroutines, replicas, Clerks, keys,
entries, messages, slices or annotations.

**`AtomicAssignmentCellProofs`**: `CellInv` is inductive. The properties
themselves are not (`DecisionsStand` and `PtrNeverGoesBack` are theorems that no
run checks any more, since `CellIsARegister` says the same). That the pointer never goes back needs
`CheckedBeforeSwap` (whoever is about to swap has checked the very value it will
compare), and that a registered listener is told exactly once needs the state of the
lock (`LockInv`: whoever notifies holds it, so the list stands still; the list
has no duplicates) and the loop's own invariant (`NotifyInv`: what has been told is
a prefix of the list). `CellImplementsRegister` then maps a successful CAS to
Accept, the load that refuses to Reject, and every other step to a stutter.

**`AssignmentSyncStateMachineProofs`** begins with the order of generations: `Compare`
is a total order and agrees with equality (`GenerationTotalOrder`), on which everything
about monotonicity rests. `MachineInv` adds to the checked
properties what the next deadline will be computed from: the current wait is
within the configured ones, and the timeout is at most the configured one or one that a
server suggested. At most, for a product that wraps comes out below itself
(`FromMillisFacts`); so neither a deadline that lies in the past nor a timeout of either
sign takes the next step away. A handler passes through a machine that does *not* satisfy it, for after a
successful read nothing is outstanding and no backoff is set; `Due` describes that
machine (its next read is due at once), and `AdvanceFacts` shows that
`onAdvanceInternal` always leads back. `Follows` says how the two ends of a handler
relate, and carries both the action property and the refinement of `WatchSession`. There
a step from a read to the next one has to be an answer to the current read, or its
failure with a delay whose jitter may be nothing: that no late event replaces the
current request is what the refinement says beyond the invariants. A panic leaves a
machine that differs in its redirect at most (`InterruptedFacts`).

**`SliceLookupProofs`**: `LookupInv` says what each goroutine may be holding: only
assignments the machine has or has replaced by newer ones (`Known`), the close of
the ready channel only once the cell is set, and only requests issued after its
own (`HeldAfter`). `Known` and `HeldAfter` grow with every step, which is why the
order in which goroutines carry out their actions does not matter to the cell. With the
invariant each step of the driver, a panic included, is a step of `SMSpec` or leaves the
machine alone (`DriverStep`), so the theorems about the machine hold inside the driver;
`StepFacts` of the machine's proofs gives the facts the driver's invariant needs in
return. `SpawnedFacts` shows that a goroutine never overwrites itself or an older
request with the one it spawns. `LookupImplementsService` is the refinement that
the router and the cache build on: `statusBar` is the life of the lookup as its
users see it, and each step of the driver is one of the service or a stutter. It
needs from the invariant that what a goroutine still holds is not older than the
cell, or will be refused, and that the ready channel is closed after a publication.

That nothing gets lost on the way is a second invariant, `CarrierInv`: a cell that is
behind the machine has a publication on its way, and a read the machine waits for is in
somebody's hand or runs, unless the process has ended (`CellFollowsMachine`,
`ReadHasCarrier`). By themselves
these are not inductive: if two goroutines held the same request, the second to send
it would overwrite the first one's, actions and all. `UnsentInv` excludes that: a
request still to be sent is in one place only, and has not begun.

**`ResourceRouterProofs`**: `RouterInv` adds to the properties what a call knows
between its load and its return: the cell is in the call's `window`, and so is the
snapshot it took (`CallInv`). A step of the lookup extends every open window by the
new cell, which keeps both. For retries the set of tried replicas counts those the
session has contacted and the replica in hand is not among them (`SessionInv`);
the choice excludes them by value, so it does not matter that the assignment has
changed. `ReadyInv` uses the one thing the service promises: with the signal there
is an assignment, and the cell only moves forward. That the replicas take turns is a
statement about differences of history, which no step of one call preserves alone.
`SpreadInv` says where every replica of the present row stands: it has been given out
once more than the others if one meets it on the way from the replica the row began with
to the last one (`Met`). The next addition goes on to the next replica, and from the last
to the first (`NextInTurn`); so it does when the counter wraps, if the number of
replicas divides the modulus. A call for other replicas begins a row of its own.

**`SliceLookupCacheProofs`**: `CacheInv` ties the cache to the lives of lookups.
Entries are lookups made for their key (`EntriesInv`) and each running one is found
under its key (`LiveAreCached`), so two whose loops run have different keys. A Clerk that has got its
lookup since the last Close holds the cached one (`ClerkInv`), and a Close that is
under way has ended all it has left behind (`CloserInv`), so that emptying the map
loses nobody. `KeyDetermines` shows that the key is injective: the separator that ends
the target is the last one in the text (`JoinIsUnique`).

**`SliceMapProofs`**: for every totally ordered set of keys, every map and every list.
In a search the entry before the lower bound does not end after the key, and the
entry at the upper bound does. When the two meet, the order of the entries leaves
only the entry there to hold the key (`OnlyAtBound`), and in a complete map it does
hold it (`LookUpHits`). That a complete map is ordered, and so a legal argument of the
search, is a statement about all pairs made from one about neighbours
(`CompleteIsOrdered`, by a least counterexample). An
intersection keeps a `Frontier`: both current slices begin at or before the point the
result has reached, one of them exactly there, and both end after it, so the two
always meet (`MeetFacts`) and the next pair starts where this one ended.

Coalescing keeps an entry in hand. `CoalesceInv` says that what has been returned and
that entry cover the list up to where the loop stands, with the values of the list
and no two equal neighbours, so the entry in hand may be extended or returned.
Filling keeps a cursor, the end of the last entry read. Its loop looks at neither
overlaps nor order and leaves them to the validation at its end, so `FillInv` says
that the entries made adjoin one another just as long as those read are in order
and disjoint; while they are, the keys below the cursor that no entry owns are the gaps'.

**`SliceKeyProofs`**: `Compare` gives what comparing byte by byte does
(`CompareIsLexicographic`), although it compares padded prefixes as numbers and falls
back on lengths. Two numbers are ordered as the first bytes that differ are
(`PrefixOrder`); of two keys with the same padded prefix one is shorter, and if it ends
within the prefix the other goes on with zeros (`ShorterIsLess`). So keys are totally ordered
(`KeysAreOrdered`), which is the assumption everything about slices rests on, and the
entry a search finds holds the key in the order of the bytes (`SearchFindsByBytes`).
These are statements by induction over the bytes; the proofs take the least
number of bytes for which one fails (`WFMin`), since the induction rules are out of
reach of the provers here.

**`ProtoConverterProofs`**: the loops of the converter and of the queries are recursive
functions, so that the provers can look into them: `LoopExists` says once that a loop is
a function of its iterations, `Stepwise` that what each iteration keeps holds at the
end. From these follow what the helpers make of lists (`ThoseFacts`, `AddedFacts`,
`FlattenFacts`). `AssignmentsAgree` is about no behaviour but about every Assignment
that the constructors accept: in a complete list a key is in one entry only
(`OneEntry`), so the slices of a resource contain a key once or never; annotations
checked against their neighbour only are in order altogether (`NeighboursOrder`), if
none but the last is infinite. `SquidsSurvive` takes a UUID through the two signed
integers and back: a number with digits appended gives its digits back whatever it
began with, a sign included (`DigitsFound`). `ConverterInv` then says that the messages
encoded are well-formed and that what the decoder has made passed the constructors, for
which the checks of a message have to exclude everything that is not well-formed, an
index before the first entry as well as one behind the last (`SliceChecksFacts`).

That an Assignment survives (`RoundTrip`, `AssignmentsSurvive`) needs to say what every intermediate
message is, which is `RoundTripInv`: each slice encoded so far is `SliceAssignmentToProto`
of its slice, in *some* order of its annotations' map, with the indices of the
*present* pool. It stays so because the pool grows at its end and has no resource twice, so an
index once given is kept (`IndexKept`, `EncodesKept`). The encoder writes the annotations
of a resource in one run (`AnnotatedGrouped`), so to select those of one resource, as the
decoder does, is to cut that run out (`RunSelected`). The converted parts
are the originals up to `Canonical` (`GenerationTrips`, `SliceTrips`, `AnnotationTrips`),
the checks of the message pass (`SliceChecksPass`), and so do those of the constructors
(`CanonicalAccepted`). It is there, and in the pool the decoder builds, that the
Squids mentioned have to differ in more than the text of their UUIDs.

Left to TLC: everything under fairness (`CallsReturn`, `StopCompletes`, `KeepsTrying`,
`AssignmentIsPublished`, `CacheCallsReturn`), which is out of this prover's reach.

## 5. Findings

Each is a run whose property states what the repository says and which TLC
refutes; `PROJECT.json` quotes the lines.

1. A redirect comes back during a backoff with the late answer of a request that
   was given up, so the retry does not fall back to the default address.
2. The recovery of a lagging server never happens at the default address: a nil
   redirect is compared with a pointer to the address. It works only while a
   redirect is in force.
3. A lookup that one Clerk's `Close` has stopped stays in the cache. `Size` counts it
   as active, and the next `GetOrCreate` returns it though it says a started one.
4. `NewSliceAssignment` compares an annotation with the end of the one before only if
   that end is finite. After an annotation up to infinity, others may overlap it or
   begin before the slice, which the README of `pkg/common` excludes.

Five more are stated in the modules, refuted by a run of one's own, and left
out of the runs here:

- `OnlyNewerIsAccepted` (`AtomicAssignmentCell`): `Set` accepts another assignment of
  the *same* generation, though its comment and the package README say newer only.
- `ListenersHearInOrder` (`AtomicAssignmentCell`): a listener can be called with an
  older assignment after a newer one, and be left with it.
- `StopStopsEverything` (`SliceLookup`): `Stop`, and with it `Close`, returns while
  request goroutines are still running; they do end later (`StopCompletes`).
- `DeadlineIsHedged` (`AssignmentSyncStateMachine`): the README of `pkg/client` has a
  deadline trigger a hedge retry (line 97), and its diagram go from RequestInFlight to
  RequestInFlight (line 177). The code gives the read up and backs off, like after any
  failure, with no request in flight until the delay is over. `WatchSession` follows the
  code.
- `TimeoutIsAsSuggested` (`AssignmentSyncStateMachine`): the same line 97 has RPCs tracked
  against the "server suggested timeout", but milliseconds become a Duration by an
  unchecked product. Above some 9.2e12 ms it wraps, and MaxInt64 ms become
  -1 ms: each later Watch has expired when it starts, until another suggestion comes,
  which takes an answer to a request.

To see one, put it in place of the properties of `Cell.cfg`, `LookupLiveness.cfg` or
`StateMachineSafety.cfg`.

No text excludes that an answer of the server panics: an incarnation above the guardrail
(`proto_converter.go:25`) or a negative index (`:196`, `:208`, `:219`) ends the client's
process, and `sl.mu` is held at that point, so that recovering further up would
leave it locked.

Other disagreements are of words. The flowchart in the README of `pkg/friend`
answers 0 for two keys of at most 8 bytes with the same prefix, while `Compare`
goes on to their lengths, as it must to tell `a` from `a` with a zero byte
behind it. The README of `pkg/client` (line 136) has the counter distribute requests
evenly over the replicas of a slice. It does so for calls in a row (`EvenSpread`), not
when slices are asked in turn: two slices of two replicas then get one of
theirs each. The comment of `SliceLookupCache` has lookups keyed by
target and configuration; of the configuration only the watch address counts, and
later callers get the first one's delays.

Two things to know that contradict no text: the first retry waits for
`MinRetryDelay` even if `MaxRetryDelay` is configured smaller (hence the two bounds
in `WakesUpInTime`), and a listener that calls `AddListener` on its own cell
blocks for ever.

## 6. What is left out

Every component with behaviour of its own has a module. Left out, on purpose: the gRPC
library and connections (external, represented by failing and returning calls), generated
message code (the converter's records stand for its fields), formatting and text
constructors, `Squid.Compare` and `ContainsSlice`, which nothing calls.

Every invariant and every action property of the passing runs is the statement of a
theorem; only the liveness properties rest on the bounds of their runs.
