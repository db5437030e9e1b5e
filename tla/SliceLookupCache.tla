-------------------------- MODULE SliceLookupCache --------------------------
(***************************************************************************)
(* pkg/client/lookup_cache.go and the life of Clerks (pkg/client/clerk.go):*)
(* goroutines make Clerks, with or without the shared cache, and close     *)
(* them, while others close the cache.  Close holds the cache's mutex      *)
(* until the loop of every cached lookup has ended.  A lookup has the life *)
(* that LookupService gives it, and is named after the Clerk it was made   *)
(* for.                                                                    *)
(***************************************************************************)
EXTENDS Sequences, FiniteSets, Integers

CONSTANTS
  Clerks,       \* the Clerks that are made, each by a goroutine of its own
  Cached,       \* those made with the cache; the others with none, or nil
  TargetOf,     \* the target of each, as a sequence of characters
  AddressOf,    \* its cfg.DefaultWatchAddress
  Closers,      \* the calls of SliceLookupCache.Close
  Separator,    \* the "|" of the cache key
  Nobody        \* no goroutine, no lookup

ASSUME CachedAssumption == Cached \subseteq Clerks

ASSUME ClosersAssumption == IsFiniteSet(Closers)

ASSUME NamesAssumption == Nobody \notin Clerks \cup Closers

ASSUME TargetAssumption == \A c \in Clerks : TargetOf[c] \in Seq(STRING)

\* host:port has no separator in it.
ASSUME AddressAssumption ==
  \A c \in Clerks :
    /\ AddressOf[c] \in Seq(STRING)
    /\ \A i \in DOMAIN AddressOf[c] : AddressOf[c][i] # Separator

ASSUME SeparatorAssumption == Separator \in STRING

VARIABLES
  mu,        \* the Close that holds SliceLookupCache.mu across steps
  cache,     \* SliceLookupCache.cache
  status,    \* the life of each lookup: new, running, cancelled, exited
  clerks,    \* how far each Clerk is, and its lookup
  closers,   \* how far each call of Close is, and the lookups it has left
  present    \* history: the lookups cached when each call of Close began

vars == <<mu, cache, status, clerks, closers, present>>

EmptyCache == [key \in {} |-> Nobody]

CacheInit ==
  /\ mu = Nobody
  /\ cache = EmptyCache
  /\ status = [l \in Clerks |-> "new"]
  /\ clerks = [c \in Clerks |-> [pc |-> "none", lookup |-> Nobody, epoch |-> 0]]
  /\ closers = [k \in Closers |-> [pc |-> "idle", todo |-> {}, waiting |-> Nobody]]
  /\ present = [k \in Closers |-> {}]

-----------------------------------------------------------------------------
\* Mutant: nothing between the two parts.
CacheKeyJoined(c) == TargetOf[c] \o AddressOf[c]

\* fmt.Sprintf("%s|%s", target, cfg.DefaultWatchAddress)
CacheKey(c) == TargetOf[c] \o <<Separator>> \o AddressOf[c]

\* Mutant: Stop waits for a loop it has not cancelled.
CancelledNot(l) == status

\* The lookups after Stop of one of them cancels its context, if it is not.
Cancelled(l) == [status EXCEPT ![l] = IF @ = "running" THEN "cancelled" ELSE @]

\* NewSliceLookup and Start, for the Clerk c.
Started(c) == [status EXCEPT ![c] = "running"]

\* History: the calls of Close that have returned.
Closes == Cardinality({k \in Closers : closers[k].pc = "returned"})

\* The Clerk c is returned with the lookup l.
Opened(c, l) ==
  [clerks EXCEPT ![c] = [pc |-> "open", lookup |-> l, epoch |-> Closes]]

\* NewClerk, and NewClerkWithCache without a cache.
NewClerk(c) ==
  /\ c \notin Cached
  /\ clerks[c].pc = "none"
  /\ status' = Started(c)
  /\ clerks' = Opened(c, c)
  /\ UNCHANGED <<mu, cache, closers, present>>

\* NewClerkWithCache calls GetOrCreate.
NewClerkWithCache(c) ==
  /\ c \in Cached
  /\ clerks[c].pc = "none"
  /\ clerks' = [clerks EXCEPT ![c].pc = "creating"]
  /\ UNCHANGED <<mu, cache, status, closers, present>>

\* GetOrCreate finds a lookup ...
GetsExisting(c) ==
  /\ clerks[c].pc = "creating"
  /\ mu = Nobody
  /\ CacheKey(c) \in DOMAIN cache
  /\ clerks' = Opened(c, cache[CacheKey(c)])
  /\ UNCHANGED <<mu, cache, status, closers, present>>

\* ... or makes, starts and caches one, in the same critical section.
Creates(c) ==
  /\ clerks[c].pc = "creating"
  /\ mu = Nobody
  /\ CacheKey(c) \notin DOMAIN cache
  /\ status' = Started(c)
  /\ cache' = [key \in DOMAIN cache \cup {CacheKey(c)} |->
                 IF key = CacheKey(c) THEN c ELSE cache[key]]
  /\ clerks' = Opened(c, c)
  /\ UNCHANGED <<mu, closers, present>>

\* Clerk.Close stops the lookup, whoever shares it; the cache is not told.
Close(c) ==
  /\ clerks[c].pc = "open"
  /\ status' = Cancelled(clerks[c].lookup)
  /\ clerks' = [clerks EXCEPT ![c].pc = "closing"]
  /\ UNCHANGED <<mu, cache, closers, present>>

\* The Stop that it called returns.
Closed(c) ==
  /\ clerks[c].pc = "closing"
  /\ status[clerks[c].lookup] = "exited"
  /\ clerks' = [clerks EXCEPT ![c].pc = "closed"]
  /\ UNCHANGED <<mu, cache, status, closers, present>>

\* The loop of a lookup ends once its context is cancelled.
LoopEnds(l) ==
  /\ status[l] = "cancelled"
  /\ status' = [status EXCEPT ![l] = "exited"]
  /\ UNCHANGED <<mu, cache, clerks, closers, present>>

-----------------------------------------------------------------------------
(* SliceLookupCache.Close *)

Lookups == {cache[key] : key \in DOMAIN cache}

CloseCalled(k) ==
  /\ closers[k].pc = "idle"
  /\ closers' = [closers EXCEPT ![k].pc = "locking"]
  /\ present' = [present EXCEPT ![k] = Lookups]
  /\ UNCHANGED <<mu, cache, status, clerks>>

\* Mutant: the cache is taken away under the lock, the lookups stopped without it.
CloseTakes(k) ==
  /\ closers[k].pc = "locking"
  /\ mu = Nobody
  /\ cache' = EmptyCache
  /\ closers' = [closers EXCEPT ![k].pc = "stopping", ![k].todo = Lookups]
  /\ UNCHANGED <<mu, status, clerks, present>>

CloseLocks(k) ==
  /\ closers[k].pc = "locking"
  /\ mu = Nobody
  /\ mu' = k
  /\ closers' = [closers EXCEPT ![k].pc = "stopping", ![k].todo = Lookups]
  /\ UNCHANGED <<cache, status, clerks, present>>

\* lookup.Stop of the next one, in the order of the map's iteration.
StopsNext(k) ==
  /\ closers[k].pc = "stopping"
  /\ closers[k].waiting = Nobody
  /\ \E l \in closers[k].todo :
       /\ status' = Cancelled(l)
       /\ closers' = [closers EXCEPT ![k].waiting = l]
  /\ UNCHANGED <<mu, cache, clerks, present>>

\* Mutant: Stop does not wait.
StoppedAtOnce(k) ==
  /\ closers[k].waiting # Nobody
  /\ closers' = [closers EXCEPT ![k].todo = @ \ {closers[k].waiting}, ![k].waiting = Nobody]
  /\ UNCHANGED <<mu, cache, status, clerks, present>>

\* That Stop returns.
Stopped(k) ==
  /\ closers[k].waiting # Nobody
  /\ status[closers[k].waiting] = "exited"
  /\ closers' = [closers EXCEPT ![k].todo = @ \ {closers[k].waiting}, ![k].waiting = Nobody]
  /\ UNCHANGED <<mu, cache, status, clerks, present>>

\* Mutant: the cache is not cleared.
CloseKeeps(k) ==
  /\ closers[k].pc = "stopping"
  /\ closers[k].todo = {}
  /\ mu' = Nobody
  /\ closers' = [closers EXCEPT ![k].pc = "returned"]
  /\ UNCHANGED <<cache, status, clerks, present>>

CloseReturns(k) ==
  /\ closers[k].pc = "stopping"
  /\ closers[k].todo = {}
  /\ cache' = EmptyCache
  /\ mu' = Nobody
  /\ closers' = [closers EXCEPT ![k].pc = "returned"]
  /\ UNCHANGED <<status, clerks, present>>

ClerkStep(c) ==
  NewClerk(c) \/ NewClerkWithCache(c) \/ GetsExisting(c) \/ Creates(c) \/ Close(c) \/ Closed(c)

CloserStep(k) ==
  CloseCalled(k) \/ CloseLocks(k) \/ StopsNext(k) \/ Stopped(k) \/ CloseReturns(k)

\* Every Clerk and the cache have been closed.
Terminated ==
  /\ \A c \in Clerks : clerks[c].pc = "closed"
  /\ \A k \in Closers : closers[k].pc = "returned"
  /\ UNCHANGED vars

CacheNext ==
  \/ \E c \in Clerks : ClerkStep(c) \/ LoopEnds(c)
  \/ \E k \in Closers : CloserStep(k)
  \/ Terminated

CacheSpec == CacheInit /\ [][CacheNext]_vars

\* A goroutine that has entered a call runs on, a free mutex is handed to one of
\* those that wait for it, and a cancelled loop ends (StopCompletes of
\* SliceLookup).  Nobody has to make or to close anything.
CacheFairness ==
  /\ \A c \in Clerks :
       WF_vars(GetsExisting(c) \/ Creates(c) \/ Closed(c)) /\ WF_vars(LoopEnds(c))
  /\ \A k \in Closers :
       WF_vars(CloseLocks(k) \/ StopsNext(k) \/ Stopped(k) \/ CloseReturns(k))

FairCacheSpec == CacheSpec /\ CacheFairness

-----------------------------------------------------------------------------
HasLookup(c) == clerks[c].lookup # Nobody

CacheTypeOK ==
  /\ mu \in Closers \cup {Nobody}
  /\ DOMAIN cache \subseteq {CacheKey(c) : c \in Cached}
  /\ \A key \in DOMAIN cache : cache[key] \in Clerks
  /\ status \in [Clerks -> {"new", "running", "cancelled", "exited"}]
  /\ clerks \in [Clerks -> [pc : {"none", "creating", "open", "closing", "closed"},
                            lookup : Clerks \cup {Nobody}, epoch : Nat]]
  /\ closers \in [Closers -> [pc : {"idle", "locking", "stopping", "returned"},
                              todo : SUBSET Clerks, waiting : Clerks \cup {Nobody}]]
  /\ present \in [Closers -> SUBSET Clerks]
  /\ \A c \in Clerks : HasLookup(c) <=> clerks[c].pc \notin {"none", "creating"}
  /\ \A k \in Closers : mu = k <=> closers[k].pc = "stopping"

SameKey(c, d) == TargetOf[c] = TargetOf[d] /\ AddressOf[c] = AddressOf[d]

\* Clerks share a lookup only when target and watch address agree, and when these
\* do, they share it unless the cache was closed in between.
SharedByKey ==
  \A c, d \in Cached :
    HasLookup(c) /\ HasLookup(d) =>
      /\ clerks[c].lookup = clerks[d].lookup => SameKey(c, d)
      /\ SameKey(c, d) /\ clerks[c].epoch = clerks[d].epoch =>
           clerks[c].lookup = clerks[d].lookup

\* Of the lookups the cache made for a target and a server at most one has a running
\* loop: it is replaced only when its loop has ended.  This is about the loops; requests
\* that the replaced lookup has under way, and their Watch, may end only later, beside
\* the new loop, as Stop does not wait for them (SliceLookup, StopCompletes).
OneLoopPerKey ==
  \A l, m \in Cached :
    SameKey(l, m) /\ l # m =>
      status[l] \in {"new", "exited"} \/ status[m] \in {"new", "exited"}

\* Once Close has returned, the loop of every lookup that was cached when it was
\* called has ended and nobody is given that lookup any more, though another Close
\* may have been the one to stop it.
CloseStopsAll ==
  \A k \in Closers :
    closers[k].pc = "returned" => \A l \in present[k] : status[l] = "exited" /\ l \notin Lookups

\* GetOrCreate, Clerk.Close and the cache's Close return, although Close waits for
\* loops while it holds the mutex: their calls are finite in number, so in the end
\* nobody is in one.
CacheCallsReturn ==
  <>[](/\ \A c \in Clerks : clerks[c].pc \notin {"creating", "closing"}
       /\ \A k \in Closers : closers[k].pc \notin {"locking", "stopping"})

\* Size: "the number of active cached SliceLookup instances".
Size == Cardinality(DOMAIN cache)
SizeCountsActive ==
  mu = Nobody => Size = Cardinality({key \in DOMAIN cache : status[cache[key]] = "running"})

-----------------------------------------------------------------------------
(* The inductive invariant behind the safety properties. *)

Live(l) == status[l] \in {"running", "cancelled"}

\* The lookup a key is cached with is one that was made for the key, and started.
EntriesInv ==
  \A key \in DOMAIN cache :
    cache[key] \in Cached /\ CacheKey(cache[key]) = key /\ status[cache[key]] # "new"

\* A lookup whose loop runs is found under its key.
LiveAreCached ==
  \A l \in Cached : Live(l) => CacheKey(l) \in DOMAIN cache /\ cache[CacheKey(l)] = l

\* A Clerk without a lookup has not started one; one that has got it since the last
\* Close has the lookup that is cached.
ClerkInv(c) ==
  /\ clerks[c].pc \in {"none", "creating"} => status[c] = "new"
  /\ clerks[c].pc = "creating" => c \in Cached
  /\ clerks[c].epoch <= Closes
  /\ c \in Cached /\ HasLookup(c) =>
       /\ clerks[c].lookup \in Cached /\ SameKey(c, clerks[c].lookup)
       /\ clerks[c].epoch = Closes =>
            CacheKey(c) \in DOMAIN cache /\ cache[CacheKey(c)] = clerks[c].lookup

\* What a Close has dealt with has ended; what it found is still cached, or has
\* ended, and once it has returned both ended and gone.
CloserInv(k) ==
  /\ closers[k].pc = "stopping" =>
       \A l \in Lookups : l \in closers[k].todo \/ status[l] = "exited"
  /\ closers[k].waiting # Nobody => mu = k /\ closers[k].waiting \in closers[k].todo
  /\ \A l \in present[k] : l \in Lookups \/ status[l] = "exited"
  /\ closers[k].pc = "returned" => \A l \in present[k] : l \notin Lookups
  /\ present[k] \subseteq Clerks /\ \A l \in present[k] : status[l] # "new"

CacheInv ==
  /\ CacheTypeOK
  /\ EntriesInv
  /\ LiveAreCached
  /\ \A c \in Clerks : ClerkInv(c)
  /\ SharedByKey
  /\ \A k \in Closers : CloserInv(k)
=============================================================================
