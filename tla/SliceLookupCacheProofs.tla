----------------------- MODULE SliceLookupCacheProofs -----------------------
(***************************************************************************)
(* Proofs about SliceLookupCache: who shares a lookup, that no key has two *)
(* running ones, and what a Close leaves, for any number of Clerks and of  *)
(* calls of Close.                                                         *)
(***************************************************************************)
EXTENDS SliceLookupCache, FiniteSetTheorems, SequenceTheorems, TLAPS

\* What is where when two sequences are joined by x.
LEMMA JoinFacts ==
  ASSUME NEW S, NEW x \in S, NEW t \in Seq(S), NEW a \in Seq(S), NEW j, j = t \o <<x>> \o a
  PROVE  /\ j \in Seq(S) /\ Len(j) = Len(t) + 1 + Len(a)
         /\ \A i \in 1..Len(t) : j[i] = t[i]
         /\ j[Len(t) + 1] = x
         /\ \A i \in 1..Len(a) : j[Len(t) + 1 + i] = a[i]
  <1> DEFINE front == t \o <<x>>
  <1>1. <<x>> \in Seq(S) /\ Len(<<x>>) = 1 /\ <<x>>[1] = x
    OBVIOUS
  <1>2. /\ front \in Seq(S) /\ Len(front) = Len(t) + 1
        /\ \A i \in 1..(Len(t) + 1) : front[i] = IF i <= Len(t) THEN t[i] ELSE <<x>>[i - Len(t)]
    BY <1>1, ConcatProperties
  <1>3. /\ j \in Seq(S) /\ Len(j) = Len(front) + Len(a)
        /\ \A i \in 1..(Len(front) + Len(a)) :
             j[i] = IF i <= Len(front) THEN front[i] ELSE a[i - Len(front)]
    <2> HIDE DEF front
    <2>1. j = front \o a
      BY DEF front
    <2>2. QED
      BY <1>2, <2>1, ConcatProperties
  <1>4. Len(t) \in Nat /\ Len(a) \in Nat
    OBVIOUS
  <1> HIDE DEF front
  <1>5. \A i \in 1..Len(t) : j[i] = t[i]
    BY <1>2, <1>3, <1>4
  <1>6. j[Len(t) + 1] = x
    BY <1>1, <1>2, <1>3, <1>4
  <1>7. \A i \in 1..Len(a) : j[Len(t) + 1 + i] = a[i]
    BY <1>2, <1>3, <1>4
  <1>8. QED
    BY <1>2, <1>3, <1>5, <1>6, <1>7

Lacks(a, x) == \A i \in 1..Len(a) : a[i] # x

\* If x is not in the second parts, the first part is not the shorter one of two.
LEMMA CutIsNotEarlier ==
  ASSUME NEW S, NEW x \in S, NEW t \in Seq(S), NEW a \in Seq(S), NEW u \in Seq(S), NEW b \in Seq(S),
         Lacks(a, x), t \o <<x>> \o a = u \o <<x>> \o b
  PROVE  Len(t) >= Len(u)
  <1>1. PICK j : j = t \o <<x>> \o a
    OBVIOUS
  <1>0. j = u \o <<x>> \o b
    BY <1>1
  <1>2. /\ Len(j) = Len(t) + 1 + Len(a)
        /\ \A i \in 1..Len(a) : j[Len(t) + 1 + i] = a[i]
    BY <1>1, JoinFacts
  <1>3. Len(j) = Len(u) + 1 + Len(b) /\ j[Len(u) + 1] = x
    BY <1>0, JoinFacts
  <1>4. Len(t) \in Nat /\ Len(a) \in Nat /\ Len(u) \in Nat /\ Len(b) \in Nat
    OBVIOUS
  <1>5. ASSUME Len(t) < Len(u) PROVE FALSE
    <2> DEFINE i == Len(u) - Len(t)
    <2>1. Len(t) + 1 + Len(a) = Len(u) + 1 + Len(b)
      BY <1>2, <1>3
    <2>2. i \in 1..Len(a) /\ Len(t) + 1 + i = Len(u) + 1
      BY <1>4, <1>5, <2>1
    <2> HIDE DEF i
    <2>3. j[Len(u) + 1] = a[i]
      BY <1>2, <2>2
    <2>4. QED
      BY <1>3, <2>2, <2>3 DEF Lacks
  <1>6. QED
    BY <1>4, <1>5

\* So both parts of the join can be read off it.
LEMMA JoinIsUnique ==
  ASSUME NEW S, NEW x \in S, NEW t \in Seq(S), NEW a \in Seq(S), NEW u \in Seq(S), NEW b \in Seq(S),
         Lacks(a, x), Lacks(b, x),
         t \o <<x>> \o a = u \o <<x>> \o b
  PROVE  t = u /\ a = b
  <1>1. PICK j : j = t \o <<x>> \o a
    OBVIOUS
  <1>2. j = u \o <<x>> \o b
    BY <1>1
  <1>3. Len(t) \in Nat /\ Len(a) \in Nat /\ Len(u) \in Nat /\ Len(b) \in Nat
    OBVIOUS
  <1>4. Len(t) >= Len(u)
    BY CutIsNotEarlier
  <1>5. Len(u) >= Len(t)
    BY CutIsNotEarlier
  <1>6. Len(t) = Len(u)
    BY <1>3, <1>4, <1>5
  <1>7. /\ Len(j) = Len(t) + 1 + Len(a) /\ \A i \in 1..Len(t) : j[i] = t[i]
        /\ \A i \in 1..Len(a) : j[Len(t) + 1 + i] = a[i]
    BY <1>1, JoinFacts
  <1>8. /\ Len(j) = Len(u) + 1 + Len(b) /\ \A i \in 1..Len(u) : j[i] = u[i]
        /\ \A i \in 1..Len(b) : j[Len(u) + 1 + i] = b[i]
    BY <1>2, JoinFacts
  <1>9. Len(a) = Len(b)
    BY <1>3, <1>6, <1>7, <1>8
  <1>10. t = u
    <2>1. \A i \in 1..Len(t) : t[i] = u[i]
      BY <1>6, <1>7, <1>8
    <2>2. QED
      BY <1>6, <2>1, SeqEqual
  <1>11. a = b
    <2>1. \A i \in 1..Len(a) : a[i] = b[i]
      BY <1>6, <1>7, <1>8, <1>9
    <2>2. QED
      BY <1>9, <2>1, SeqEqual
  <1>12. QED
    BY <1>10, <1>11

\* The cache key tells where the target ends: no address has a separator.
LEMMA KeyDetermines ==
  ASSUME NEW c \in Clerks, NEW d \in Clerks, CacheKey(c) = CacheKey(d)
  PROVE  SameKey(c, d)
  <1>1. PICK S : S = STRING
    OBVIOUS
  <1>2. ASSUME NEW e \in Clerks
        PROVE  /\ TargetOf[e] \in Seq(S) /\ AddressOf[e] \in Seq(S)
               /\ \A i \in 1..Len(AddressOf[e]) : AddressOf[e][i] # Separator
    <2>1. TargetOf[e] \in Seq(S) /\ AddressOf[e] \in Seq(S)
      BY <1>1, TargetAssumption, AddressAssumption
    <2>2. DOMAIN AddressOf[e] = 1..Len(AddressOf[e])
      BY <2>1
    <2>3. QED
      BY <2>1, <2>2, AddressAssumption
  <1>3. Separator \in S
    BY <1>1, SeparatorAssumption
  <1>4. TargetOf[c] \o <<Separator>> \o AddressOf[c] = TargetOf[d] \o <<Separator>> \o AddressOf[d]
    BY DEF CacheKey
  <1>5. TargetOf[c] = TargetOf[d] /\ AddressOf[c] = AddressOf[d]
    <2>1. PICK x \in S : x = Separator
      BY <1>3
    <2>2. PICK t \in Seq(S), a \in Seq(S) : t = TargetOf[c] /\ a = AddressOf[c]
      BY <1>2
    <2>3. PICK u \in Seq(S), b \in Seq(S) : u = TargetOf[d] /\ b = AddressOf[d]
      BY <1>2
    <2>4. Lacks(a, x) /\ Lacks(b, x)
      BY <1>2, <2>1, <2>2, <2>3 DEF Lacks
    <2>5. t \o <<x>> \o a = u \o <<x>> \o b
      BY <1>4, <2>1, <2>2, <2>3
    <2>6. t = u /\ a = b
      BY <2>4, <2>5, JoinIsUnique
    <2>7. QED
      BY <2>2, <2>3, <2>6
  <1>6. QED
    BY <1>5 DEF SameKey

LEMMA SameKeySameEntry ==
  ASSUME NEW c \in Clerks, NEW d \in Clerks, SameKey(c, d)
  PROVE  CacheKey(c) = CacheKey(d)
  BY DEF SameKey, CacheKey

-----------------------------------------------------------------------------
(* How many calls of Close have returned *)

LEMMA ClosesType == IsFiniteSet({k \in Closers : closers[k].pc = "returned"}) /\ Closes \in Nat
  <1>1. IsFiniteSet({k \in Closers : closers[k].pc = "returned"})
    BY ClosersAssumption, FS_Subset
  <1>2. QED
    BY <1>1, FS_CardinalityType DEF Closes

LEMMA ClosesSame ==
  ASSUME \A k \in Closers : closers'[k].pc = "returned" <=> closers[k].pc = "returned"
  PROVE  Closes' = Closes
  <1>1. {k \in Closers : closers'[k].pc = "returned"} = {k \in Closers : closers[k].pc = "returned"}
    OBVIOUS
  <1>2. QED
    BY <1>1 DEF Closes

LEMMA ClosesGrows ==
  ASSUME NEW k \in Closers, closers[k].pc # "returned", closers'[k].pc = "returned",
         \A j \in Closers \ {k} : closers'[j].pc = closers[j].pc
  PROVE  Closes' = Closes + 1
  <1> DEFINE R == {j \in Closers : closers[j].pc = "returned"}
  <1>1. {j \in Closers : closers'[j].pc = "returned"} = R \cup {k}
    OBVIOUS
  <1>2. k \notin R /\ IsFiniteSet(R)
    BY ClosesType
  <1>3. Cardinality(R \cup {k}) = Cardinality(R) + 1
    BY <1>2, FS_AddElement
  <1>4. QED
    BY <1>1, <1>3 DEF Closes

-----------------------------------------------------------------------------
LEMMA CacheInvInit == CacheInit => CacheInv
  <1> SUFFICES ASSUME CacheInit PROVE CacheInv
    OBVIOUS
  <1>1. Nobody \notin Closers /\ Nobody \notin Clerks
    BY NamesAssumption
  <1>2. CacheTypeOK
    BY <1>1 DEF CacheInit, EmptyCache, CacheTypeOK, HasLookup
  <1>3. EntriesInv /\ LiveAreCached
    BY CachedAssumption DEF CacheInit, EmptyCache, EntriesInv, LiveAreCached, Live
  <1>4. ASSUME NEW c \in Clerks PROVE ClerkInv(c)
    BY ClosesType DEF CacheInit, ClerkInv, HasLookup
  <1>5. SharedByKey
    BY CachedAssumption DEF CacheInit, SharedByKey, HasLookup
  <1>6. ASSUME NEW k \in Closers PROVE CloserInv(k)
    BY DEF CacheInit, CloserInv
  <1>7. QED
    BY <1>2, <1>3, <1>4, <1>5, <1>6 DEF CacheInv

-----------------------------------------------------------------------------
(* Steps that change no entry: a loop is cancelled or ends, a call moves on. *)

\* The lives of the lookups go on, if at all; those outside the cache may begin.
StatusMoves ==
  /\ status' \in [Clerks -> {"new", "running", "cancelled", "exited"}]
  /\ \A l \in Clerks :
       \/ status'[l] = status[l]
       \/ Live(l) /\ status'[l] \in {"cancelled", "exited"}
       \/ l \notin Cached /\ status[l] = "new"

\* Stop cancels what runs.
LEMMA CancelledMoves ==
  ASSUME CacheTypeOK, NEW l \in Clerks, status' = Cancelled(l)
  PROVE  StatusMoves
  BY DEF CacheTypeOK, Cancelled, StatusMoves, Live

LEMMA EntriesKeep ==
  ASSUME CacheInv, StatusMoves, cache' = cache
  PROVE  EntriesInv' /\ LiveAreCached'
  <1>1. EntriesInv'
    BY CachedAssumption DEF CacheInv, EntriesInv, StatusMoves, Live
  <1>2. LiveAreCached'
    BY CachedAssumption DEF CacheInv, LiveAreCached, StatusMoves, Live
  <1>3. QED
    BY <1>1, <1>2

\* A Clerk that has no lookup has not started one.
LEMMA ClerksKeep ==
  ASSUME CacheInv, StatusMoves, cache' = cache, Closes' = Closes, NEW c \in Clerks,
         clerks'[c].lookup = clerks[c].lookup, clerks'[c].epoch = clerks[c].epoch,
         HasLookup(c)' <=> HasLookup(c),
         clerks'[c].pc \in {"none", "creating"} =>
           clerks[c].pc \in {"none", "creating"} /\ status'[c] = status[c],
         clerks'[c].pc = "creating" => c \in Cached
  PROVE  ClerkInv(c)'
  <1>1. clerks'[c].pc \in {"none", "creating"} => status'[c] = "new"
    BY DEF CacheInv, ClerkInv, StatusMoves, Live
  <1>2. SameKey(c, clerks[c].lookup)' <=> SameKey(c, clerks[c].lookup)
    BY DEF SameKey
  <1>3. CacheKey(c)' = CacheKey(c)
    BY DEF CacheKey
  <1>4. QED
    BY <1>1, <1>2, <1>3 DEF CacheInv, ClerkInv

LEMMA SharedKeeps ==
  ASSUME CacheInv,
         \A c \in Clerks : /\ clerks'[c].lookup = clerks[c].lookup
                           /\ clerks'[c].epoch = clerks[c].epoch
  PROVE  SharedByKey'
  BY CachedAssumption DEF CacheInv, SharedByKey, HasLookup, SameKey

LEMMA ClosersKeep ==
  ASSUME CacheInv, StatusMoves, cache' = cache, NEW k \in Closers,
         closers'[k] = closers[k], present'[k] = present[k],
         mu' = mu \/ closers[k].waiting = Nobody
  PROVE  CloserInv(k)'
  <1>1. Lookups' = Lookups
    BY DEF Lookups
  <1>2. Lookups \subseteq Clerks
    BY DEF CacheInv, CacheTypeOK, Lookups
  <1>3. QED
    BY <1>1, <1>2 DEF CacheInv, CloserInv, StatusMoves, Live

\* A call of a Clerk moves on, or a loop does, and nothing else happens.
LEMMA MovesKeep ==
  ASSUME CacheInv, CacheTypeOK', StatusMoves,
         UNCHANGED <<mu, cache, closers, present>>,
         \A c \in Clerks :
           /\ clerks'[c].lookup = clerks[c].lookup /\ clerks'[c].epoch = clerks[c].epoch
           /\ clerks'[c].pc \in {"none", "creating"} =>
                clerks[c].pc \in {"none", "creating"} /\ status'[c] = status[c]
           /\ clerks'[c].pc = "creating" => c \in Cached
  PROVE  CacheInv'
  <1>1. EntriesInv' /\ LiveAreCached'
    BY EntriesKeep
  <1>2. Closes' = Closes
    BY DEF Closes
  <1>3. ASSUME NEW c \in Clerks PROVE ClerkInv(c)'
    BY <1>2, <1>3, ClerksKeep DEF HasLookup
  <1>4. SharedByKey'
    BY SharedKeeps
  <1>5. ASSUME NEW k \in Closers PROVE CloserInv(k)'
    BY <1>5, ClosersKeep
  <1>6. QED
    BY <1>1, <1>3, <1>4, <1>5 DEF CacheInv

\* The Clerks after one of them is opened.
LEMMA OpenedFacts ==
  ASSUME CacheTypeOK, NEW c \in Clerks, NEW l \in Clerks, clerks' = Opened(c, l)
  PROVE  /\ clerks'[c] = [pc |-> "open", lookup |-> l, epoch |-> Closes]
         /\ \A d \in Clerks \ {c} : clerks'[d] = clerks[d]
         /\ clerks' \in [Clerks -> [pc : {"none", "creating", "open", "closing", "closed"},
                                    lookup : Clerks \cup {Nobody}, epoch : Nat]]
         /\ \A d \in Clerks : HasLookup(d)' <=> clerks'[d].pc \notin {"none", "creating"}
  BY ClosesType, NamesAssumption DEF CacheTypeOK, Opened, HasLookup

\* The Clerks after one of them moves on in a call.
LEMMA ClerkMoved ==
  ASSUME CacheTypeOK, NEW c \in Clerks, NEW pc \in {"creating", "closing", "closed"},
         clerks' = [clerks EXCEPT ![c].pc = pc],
         pc = "creating" <=> clerks[c].pc = "none", clerks[c].pc # "creating"
  PROVE  /\ clerks'[c].pc = pc /\ \A d \in Clerks \ {c} : clerks'[d].pc = clerks[d].pc
         /\ \A d \in Clerks : clerks'[d].lookup = clerks[d].lookup
                              /\ clerks'[d].epoch = clerks[d].epoch
         /\ clerks' \in [Clerks -> [pc : {"none", "creating", "open", "closing", "closed"},
                                    lookup : Clerks \cup {Nobody}, epoch : Nat]]
         /\ \A d \in Clerks : HasLookup(d)' <=> clerks'[d].pc \notin {"none", "creating"}
  BY DEF CacheTypeOK, HasLookup

LEMMA MovesStep ==
  ASSUME CacheInv, NEW c \in Clerks,
         NewClerkWithCache(c) \/ Close(c) \/ Closed(c) \/ LoopEnds(c)
  PROVE  CacheInv'
  <1>1. CacheTypeOK
    BY DEF CacheInv
  <1>2. CASE NewClerkWithCache(c)
    <2>1. /\ c \in Cached /\ clerks[c].pc = "none"
          /\ clerks' = [clerks EXCEPT ![c].pc = "creating"]
          /\ UNCHANGED <<mu, cache, status, closers, present>>
      BY <1>2 DEF NewClerkWithCache
    <2>2. StatusMoves
      BY <1>1, <2>1 DEF StatusMoves, CacheTypeOK
    <2>3. CacheTypeOK'
      BY <1>1, <2>1, ClerkMoved DEF CacheTypeOK, HasLookup, CacheKey
    <2>4. ASSUME NEW d \in Clerks
          PROVE /\ clerks'[d].lookup = clerks[d].lookup /\ clerks'[d].epoch = clerks[d].epoch
                /\ clerks'[d].pc \in {"none", "creating"} => clerks[d].pc \in {"none", "creating"}
                /\ clerks'[d].pc = "creating" => d \in Cached
      BY <1>1, <2>1, ClerkMoved DEF CacheInv, ClerkInv
    <2>5. QED
      BY <2>1, <2>2, <2>3, <2>4, MovesKeep
  <1>3. CASE Close(c)
    <2>1. /\ clerks[c].pc = "open"
          /\ clerks' = [clerks EXCEPT ![c].pc = "closing"]
          /\ status' = Cancelled(clerks[c].lookup)
          /\ UNCHANGED <<mu, cache, closers, present>>
      BY <1>3 DEF Close
    <2>2. clerks[c].lookup \in Clerks
      BY <1>1, <2>1 DEF CacheTypeOK, HasLookup
    <2>3. StatusMoves
      BY <1>1, <2>1, <2>2, CancelledMoves
    <2>4. CacheTypeOK'
      <3>1. mu' = mu /\ cache' = cache /\ closers' = closers /\ present' = present
        BY <2>1
      <3>2. status' \in [Clerks -> {"new", "running", "cancelled", "exited"}]
        BY <2>3 DEF StatusMoves
      <3>3. /\ clerks' \in [Clerks -> [pc : {"none", "creating", "open", "closing", "closed"},
                                       lookup : Clerks \cup {Nobody}, epoch : Nat]]
            /\ \A d \in Clerks : HasLookup(d)' <=> clerks'[d].pc \notin {"none", "creating"}
        BY <1>1, <2>1, ClerkMoved
      <3>4. QED
        BY <1>1, <3>1, <3>2, <3>3 DEF CacheTypeOK, CacheKey
    <2>5. ASSUME NEW d \in Clerks
          PROVE /\ clerks'[d].lookup = clerks[d].lookup /\ clerks'[d].epoch = clerks[d].epoch
                /\ clerks'[d].pc \in {"none", "creating"} =>
                     clerks[d].pc \in {"none", "creating"} /\ status'[d] = status[d]
                /\ clerks'[d].pc = "creating" => d \in Cached
      <3>1. /\ clerks'[d].lookup = clerks[d].lookup /\ clerks'[d].epoch = clerks[d].epoch
            /\ clerks'[d].pc = clerks[d].pc \/ clerks'[d].pc = "closing"
        BY <1>1, <2>1, ClerkMoved
      <3>2. clerks[d].pc \in {"none", "creating"} => status[d] = "new"
        BY DEF CacheInv, ClerkInv
      <3>3. status[d] = "new" => status'[d] = status[d]
        BY <1>1, <2>1, <2>2 DEF Cancelled, CacheTypeOK
      <3>4. QED
        BY <3>1, <3>2, <3>3 DEF CacheInv, ClerkInv
    <2>6. QED
      BY <2>1, <2>3, <2>4, <2>5, MovesKeep
  <1>4. CASE Closed(c)
    <2>1. /\ clerks[c].pc = "closing"
          /\ clerks' = [clerks EXCEPT ![c].pc = "closed"]
          /\ UNCHANGED <<mu, cache, status, closers, present>>
      BY <1>4 DEF Closed
    <2>2. StatusMoves
      BY <1>1, <2>1 DEF StatusMoves, CacheTypeOK
    <2>3. CacheTypeOK'
      BY <1>1, <2>1, ClerkMoved DEF CacheTypeOK, HasLookup, CacheKey
    <2>4. ASSUME NEW d \in Clerks
          PROVE /\ clerks'[d].lookup = clerks[d].lookup /\ clerks'[d].epoch = clerks[d].epoch
                /\ clerks'[d].pc \in {"none", "creating"} => clerks[d].pc \in {"none", "creating"}
                /\ clerks'[d].pc = "creating" => d \in Cached
      BY <1>1, <2>1, ClerkMoved DEF CacheInv, ClerkInv
    <2>5. QED
      BY <2>1, <2>2, <2>3, <2>4, MovesKeep
  <1>5. CASE LoopEnds(c)
    <2>1. /\ status[c] = "cancelled" /\ status' = [status EXCEPT ![c] = "exited"]
          /\ UNCHANGED <<mu, cache, clerks, closers, present>>
      BY <1>5 DEF LoopEnds
    <2>2. StatusMoves
      BY <1>1, <2>1 DEF StatusMoves, CacheTypeOK, Live
    <2>3. CacheTypeOK'
      BY <1>1, <2>1, <2>2 DEF CacheTypeOK, HasLookup, CacheKey, StatusMoves
    <2>4. ASSUME NEW d \in Clerks
          PROVE /\ clerks[d].pc \in {"none", "creating"} => status'[d] = status[d]
                /\ clerks[d].pc = "creating" => d \in Cached
      BY <1>1, <2>1 DEF CacheInv, ClerkInv, CacheTypeOK
    <2>5. QED
      BY <2>1, <2>2, <2>3, <2>4, MovesKeep
  <1>6. QED
    BY <1>2, <1>3, <1>4, <1>5

-----------------------------------------------------------------------------
(* A Clerk gets a lookup. *)

\* Of its own, which the cache never sees.
LEMMA NewClerkStep == ASSUME CacheInv, NEW c \in Clerks, NewClerk(c) PROVE CacheInv'
  <1>1. /\ c \notin Cached /\ clerks[c].pc = "none" /\ status' = [status EXCEPT ![c] = "running"]
        /\ clerks' = Opened(c, c) /\ UNCHANGED <<mu, cache, closers, present>>
    BY DEF NewClerk, Started
  <1>2. CacheTypeOK /\ status[c] = "new"
    BY <1>1 DEF CacheInv, ClerkInv
  <1>3. /\ clerks'[c] = [pc |-> "open", lookup |-> c, epoch |-> Closes]
        /\ \A d \in Clerks \ {c} : clerks'[d] = clerks[d]
        /\ clerks' \in [Clerks -> [pc : {"none", "creating", "open", "closing", "closed"},
                                   lookup : Clerks \cup {Nobody}, epoch : Nat]]
        /\ \A d \in Clerks : HasLookup(d)' <=> clerks'[d].pc \notin {"none", "creating"}
    BY <1>1, <1>2, OpenedFacts
  <1>4. StatusMoves
    BY <1>1, <1>2 DEF StatusMoves, CacheTypeOK
  <1>5. CacheTypeOK'
    BY <1>1, <1>2, <1>3, <1>4 DEF CacheTypeOK, CacheKey, StatusMoves
  <1>6. EntriesInv' /\ LiveAreCached'
    BY <1>1, <1>4, EntriesKeep
  <1>7. Closes' = Closes /\ Closes \in Nat
    BY <1>1, ClosesType DEF Closes
  <1>8. ASSUME NEW d \in Clerks PROVE ClerkInv(d)'
    <2>1. CASE d = c
      BY <1>1, <1>3, <1>7, <2>1 DEF ClerkInv
    <2>2. CASE d # c
      <3>1. clerks'[d] = clerks[d] /\ status'[d] = status[d]
        BY <1>1, <1>2, <1>3, <2>2 DEF CacheTypeOK
      <3>2. QED
        BY <1>1, <1>4, <1>7, <3>1, ClerksKeep DEF CacheInv, ClerkInv, HasLookup
    <2>3. QED
      BY <2>1, <2>2
  <1>9. SharedByKey'
    <2>1. \A d \in Cached : clerks'[d] = clerks[d]
      BY <1>1, <1>3, CachedAssumption
    <2>2. QED
      BY <2>1 DEF CacheInv, SharedByKey, HasLookup, SameKey
  <1>10. ASSUME NEW k \in Closers PROVE CloserInv(k)'
    BY <1>1, <1>4, ClosersKeep
  <1>11. QED
    BY <1>5, <1>6, <1>8, <1>9, <1>10 DEF CacheInv

\* The Clerk c gets, in the cache's critical section, the lookup l that is then
\* cached with its key; no other Clerk's entry changes.
LEMMA SharedOpens ==
  ASSUME CacheInv, NEW c \in Cached, NEW l \in Cached, clerks' = Opened(c, l),
         Closes' = Closes, SameKey(c, l),
         clerks[c].pc = "creating",
         CacheKey(c) \in DOMAIN cache', cache'[CacheKey(c)] = l,
         \A key \in DOMAIN cache : key \in DOMAIN cache' /\ cache'[key] = cache[key],
         \A d \in Clerks \ {c} : status'[d] = status[d]
  PROVE  (\A d \in Clerks : ClerkInv(d)') /\ SharedByKey'
  <1>1. CacheTypeOK /\ c \in Clerks /\ l \in Clerks /\ Closes \in Nat
    BY CachedAssumption, ClosesType DEF CacheInv
  <1>2. /\ clerks'[c] = [pc |-> "open", lookup |-> l, epoch |-> Closes]
        /\ \A d \in Clerks \ {c} : clerks'[d] = clerks[d]
        /\ \A d \in Clerks : HasLookup(d)' <=> clerks'[d].pc \notin {"none", "creating"}
    BY <1>1, OpenedFacts
  <1>3. \A d, e \in Clerks : (SameKey(d, e)' <=> SameKey(d, e)) /\ CacheKey(d)' = CacheKey(d)
    BY DEF SameKey, CacheKey
  <1>4. ASSUME NEW d \in Clerks PROVE ClerkInv(d)'
    <2>1. CASE d = c
      BY <1>1, <1>2, <1>3, <2>1 DEF ClerkInv
    <2>2. CASE d # c
      BY <1>1, <1>2, <1>3, <2>2 DEF CacheInv, ClerkInv, HasLookup
    <2>3. QED
      BY <2>1, <2>2
  <1>5. ASSUME NEW d \in Cached, d # c, HasLookup(d)
        PROVE  /\ clerks[d].lookup = l => SameKey(c, d)
               /\ SameKey(c, d) /\ clerks[d].epoch = Closes => clerks[d].lookup = l
    <2>1. d \in Clerks
      BY CachedAssumption
    <2>2. /\ SameKey(d, clerks[d].lookup)
          /\ clerks[d].epoch = Closes =>
               CacheKey(d) \in DOMAIN cache /\ cache[CacheKey(d)] = clerks[d].lookup
      BY <1>5, <2>1 DEF CacheInv, ClerkInv
    <2>3. clerks[d].lookup = l => SameKey(c, d)
      BY <2>2 DEF SameKey
    <2>4. SameKey(c, d) /\ clerks[d].epoch = Closes => clerks[d].lookup = l
      BY <1>1, <2>1, <2>2, SameKeySameEntry
    <2>5. QED
      BY <2>3, <2>4
  <1>6. SharedByKey'
    <2> SUFFICES ASSUME NEW d \in Cached, NEW e \in Cached, HasLookup(d)', HasLookup(e)'
                 PROVE  /\ clerks'[d].lookup = clerks'[e].lookup => SameKey(d, e)
                        /\ SameKey(d, e) /\ clerks'[d].epoch = clerks'[e].epoch =>
                             clerks'[d].lookup = clerks'[e].lookup
      BY DEF SharedByKey, SameKey
    <2>1. d \in Clerks /\ e \in Clerks
      BY CachedAssumption
    <2>2. CASE d = c /\ e = c
      BY <2>2 DEF SameKey
    <2>3. CASE d = c /\ e # c
      <3>1. clerks'[e] = clerks[e] /\ HasLookup(e)
        BY <1>2, <2>1, <2>3 DEF HasLookup
      <3>2. QED
        BY <1>2, <1>5, <2>3, <3>1
    <2>4. CASE d # c /\ e = c
      <3>1. clerks'[d] = clerks[d] /\ HasLookup(d)
        BY <1>2, <2>1, <2>4 DEF HasLookup
      <3>2. SameKey(d, c) <=> SameKey(c, d)
        BY DEF SameKey
      <3>3. QED
        BY <1>2, <1>5, <2>4, <3>1, <3>2
    <2>5. CASE d # c /\ e # c
      BY <1>2, <2>1, <2>5 DEF CacheInv, SharedByKey, HasLookup
    <2>6. QED
      BY <2>2, <2>3, <2>4, <2>5
  <1>7. QED
    BY <1>4, <1>6

LEMMA GetsStep == ASSUME CacheInv, NEW c \in Clerks, GetsExisting(c) PROVE CacheInv'
  <1> DEFINE l == cache[CacheKey(c)]
  <1>1. /\ clerks[c].pc = "creating" /\ CacheKey(c) \in DOMAIN cache /\ clerks' = Opened(c, l)
        /\ UNCHANGED <<mu, cache, status, closers, present>>
    BY DEF GetsExisting
  <1>2. CacheTypeOK /\ c \in Cached
    BY <1>1 DEF CacheInv, ClerkInv
  <1>3. l \in Cached /\ l \in Clerks /\ SameKey(c, l)
    BY <1>1, CachedAssumption, KeyDetermines DEF CacheInv, EntriesInv
  <1>4. /\ clerks' \in [Clerks -> [pc : {"none", "creating", "open", "closing", "closed"},
                                   lookup : Clerks \cup {Nobody}, epoch : Nat]]
        /\ \A d \in Clerks : HasLookup(d)' <=> clerks'[d].pc \notin {"none", "creating"}
    BY <1>1, <1>2, <1>3, OpenedFacts
  <1>5. CacheTypeOK'
    BY <1>1, <1>2, <1>4 DEF CacheTypeOK, CacheKey
  <1>6. StatusMoves
    BY <1>1, <1>2 DEF StatusMoves, CacheTypeOK
  <1>7. EntriesInv' /\ LiveAreCached'
    BY <1>1, <1>6, EntriesKeep
  <1>8. Closes' = Closes
    BY <1>1 DEF Closes
  <1>9. (\A d \in Clerks : ClerkInv(d)') /\ SharedByKey'
    BY <1>1, <1>2, <1>3, <1>8, SharedOpens
  <1>10. ASSUME NEW k \in Closers PROVE CloserInv(k)'
    BY <1>1, <1>6, ClosersKeep
  <1>11. QED
    BY <1>5, <1>7, <1>9, <1>10 DEF CacheInv

\* The new lookup is the only running one of its key: others would be cached.
LEMMA CreatesStep == ASSUME CacheInv, NEW c \in Clerks, Creates(c) PROVE CacheInv'
  <1>1. /\ clerks[c].pc = "creating" /\ mu = Nobody /\ CacheKey(c) \notin DOMAIN cache
        /\ status' = [status EXCEPT ![c] = "running"] /\ clerks' = Opened(c, c)
        /\ cache' = [key \in DOMAIN cache \cup {CacheKey(c)} |->
                       IF key = CacheKey(c) THEN c ELSE cache[key]]
        /\ UNCHANGED <<mu, closers, present>>
    BY DEF Creates, Started
  <1>2. CacheTypeOK /\ c \in Cached /\ status[c] = "new"
    BY <1>1 DEF CacheInv, ClerkInv
  <1>3. /\ DOMAIN cache' = DOMAIN cache \cup {CacheKey(c)} /\ cache'[CacheKey(c)] = c
        /\ \A key \in DOMAIN cache : key # CacheKey(c) /\ cache'[key] = cache[key]
    BY <1>1
  <1>4. /\ clerks' \in [Clerks -> [pc : {"none", "creating", "open", "closing", "closed"},
                                   lookup : Clerks \cup {Nobody}, epoch : Nat]]
        /\ \A d \in Clerks : HasLookup(d)' <=> clerks'[d].pc \notin {"none", "creating"}
    BY <1>1, <1>2, OpenedFacts
  <1>5. /\ status' \in [Clerks -> {"new", "running", "cancelled", "exited"}]
        /\ status'[c] = "running" /\ \A d \in Clerks \ {c} : status'[d] = status[d]
    BY <1>1, <1>2 DEF CacheTypeOK
  <1>6. CacheTypeOK'
    <2>1. mu' = mu /\ closers' = closers /\ present' = present
      BY <1>1
    <2>2. DOMAIN cache' \subseteq {CacheKey(d) : d \in Cached}
      BY <1>2, <1>3 DEF CacheTypeOK
    <2>3. {CacheKey(d)' : d \in Cached} = {CacheKey(d) : d \in Cached}
      BY DEF CacheKey
    <2>4. \A key \in DOMAIN cache' : cache'[key] \in Clerks
      BY <1>2, <1>3 DEF CacheTypeOK
    <2>5. QED
      BY <1>2, <1>4, <1>5, <2>1, <2>2, <2>3, <2>4 DEF CacheTypeOK
  <1>7. EntriesInv'
    BY <1>2, <1>3, <1>5, CachedAssumption DEF CacheInv, EntriesInv, CacheKey
  <1>8. LiveAreCached'
    BY <1>2, <1>3, <1>5, CachedAssumption DEF CacheInv, LiveAreCached, Live, CacheKey
  <1>9. Closes' = Closes
    BY <1>1 DEF Closes
  <1>10. (\A d \in Clerks : ClerkInv(d)') /\ SharedByKey'
    <2>1. SameKey(c, c)
      BY DEF SameKey
    <2>2. QED
      BY <1>1, <1>2, <1>3, <1>5, <1>9, <2>1, SharedOpens
  <1>11. ASSUME NEW k \in Closers PROVE CloserInv(k)'
    <2>1. closers[k].pc # "stopping" /\ closers'[k] = closers[k] /\ present'[k] = present[k]
      BY <1>1, <1>2, NamesAssumption DEF CacheTypeOK
    <2>2. Lookups' = Lookups \cup {c}
      BY <1>3 DEF Lookups
    <2>3. c \notin present[k]
      BY <1>2 DEF CacheInv, CloserInv
    <2>4. QED
      BY <1>1, <1>5, <2>1, <2>2, <2>3 DEF CacheInv, CloserInv
  <1>12. QED
    BY <1>6, <1>7, <1>8, <1>10, <1>11 DEF CacheInv
-----------------------------------------------------------------------------
(* SliceLookupCache.Close *)

\* Between its first and its last step, a call of Close leaves the cache and the
\* Clerks alone: what remains is its own part of the invariant.
LEMMA ClosersStepKeeps ==
  ASSUME CacheInv, CacheTypeOK', StatusMoves, NEW k \in Closers, CloserInv(k)',
         cache' = cache, clerks' = clerks,
         \A c \in Clerks : status[c] = "new" => status'[c] = "new",
         \A j \in Closers : closers'[j].pc = "returned" <=> closers[j].pc = "returned",
         \A j \in Closers \ {k} :
           /\ closers'[j] = closers[j] /\ present'[j] = present[j]
           /\ mu' = mu \/ closers[j].waiting = Nobody
  PROVE  CacheInv'
  <1>1. EntriesInv' /\ LiveAreCached'
    BY EntriesKeep
  <1>2. Closes' = Closes
    BY ClosesSame
  <1>3. ASSUME NEW c \in Clerks PROVE ClerkInv(c)'
    <2>1. clerks'[c].pc \in {"none", "creating"} => status'[c] = status[c]
      BY DEF CacheInv, ClerkInv
    <2>2. clerks'[c].pc = "creating" => c \in Cached
      BY DEF CacheInv, ClerkInv
    <2>3. QED
      BY <1>2, <2>1, <2>2, ClerksKeep DEF HasLookup
  <1>4. SharedByKey'
    BY SharedKeeps
  <1>5. ASSUME NEW j \in Closers PROVE CloserInv(j)'
    BY <1>5, ClosersKeep
  <1>6. QED
    BY <1>1, <1>3, <1>4, <1>5 DEF CacheInv

LEMMA CallStep == ASSUME CacheInv, NEW k \in Closers, CloseCalled(k) PROVE CacheInv'
  <1>1. /\ closers[k].pc = "idle" /\ closers' = [closers EXCEPT ![k].pc = "locking"]
        /\ present' = [present EXCEPT ![k] = Lookups] /\ UNCHANGED <<mu, cache, status, clerks>>
    BY DEF CloseCalled
  <1>2. CacheTypeOK
    BY DEF CacheInv
  <1>3. StatusMoves
    BY <1>1, <1>2 DEF StatusMoves, CacheTypeOK
  <1>4. Lookups \subseteq Clerks /\ \A l \in Lookups : status[l] # "new"
    BY DEF CacheInv, CacheTypeOK, EntriesInv, Lookups
  <1>5. /\ closers'[k].pc = "locking" /\ closers'[k].waiting = closers[k].waiting
        /\ present'[k] = Lookups
        /\ \A j \in Closers \ {k} : closers'[j] = closers[j] /\ present'[j] = present[j]
    BY <1>1, <1>2 DEF CacheTypeOK
  <1>6. CacheTypeOK'
    <2>1. /\ closers' \in [Closers -> [pc : {"idle", "locking", "stopping", "returned"},
                                        todo : SUBSET Clerks, waiting : Clerks \cup {Nobody}]]
          /\ present' \in [Closers -> SUBSET Clerks]
      <3>1. /\ closers \in [Closers -> [pc : {"idle", "locking", "stopping", "returned"},
                                        todo : SUBSET Clerks, waiting : Clerks \cup {Nobody}]]
            /\ present \in [Closers -> SUBSET Clerks]
        BY <1>2 DEF CacheTypeOK
      <3>2. PICK L : L = Lookups
        OBVIOUS
      <3>3. L \in SUBSET Clerks /\ present' = [present EXCEPT ![k] = L]
        BY <1>1, <1>4, <3>2
      <3>4. present' \in [Closers -> SUBSET Clerks]
        BY <3>1, <3>3
      <3>5. closers' = [closers EXCEPT ![k].pc = "locking"]
        BY <1>1
      <3>6. QED
        BY <3>1, <3>4, <3>5
    <2>2. \A j \in Closers : mu' = j <=> closers'[j].pc = "stopping"
      BY <1>1, <1>2, <1>5 DEF CacheTypeOK
    <2>3. QED
      BY <1>1, <1>2, <2>1, <2>2 DEF CacheTypeOK, CacheKey, HasLookup
  <1>7. CloserInv(k)'
    <2>1. Lookups' = Lookups
      BY <1>1 DEF Lookups
    <2>2. QED
      BY <1>1, <1>4, <1>5, <2>1 DEF CacheInv, CloserInv
  <1>8. QED
    BY <1>1, <1>3, <1>5, <1>6, <1>7, ClosersStepKeeps

LEMMA LockStep == ASSUME CacheInv, NEW k \in Closers, CloseLocks(k) PROVE CacheInv'
  <1>0. PICK L : L = Lookups
    OBVIOUS
  <1>1. /\ closers[k].pc = "locking" /\ mu = Nobody /\ mu' = k
        /\ closers' = [closers EXCEPT ![k].pc = "stopping", ![k].todo = L]
        /\ UNCHANGED <<cache, status, clerks, present>>
    BY <1>0 DEF CloseLocks
  <1>2. CacheTypeOK
    BY DEF CacheInv
  <1>3. StatusMoves
    BY <1>1, <1>2 DEF StatusMoves, CacheTypeOK
  <1>4. L \subseteq Clerks
    BY <1>0, <1>2 DEF CacheTypeOK, Lookups
  <1>5. /\ closers'[k].pc = "stopping" /\ closers'[k].todo = L
        /\ closers'[k].waiting = closers[k].waiting
        /\ \A j \in Closers \ {k} : closers'[j] = closers[j]
    BY <1>1, <1>2 DEF CacheTypeOK
  <1>6. ASSUME NEW j \in Closers PROVE closers[j].waiting = Nobody /\ closers[j].pc # "stopping"
    BY <1>1, <1>2, NamesAssumption DEF CacheInv, CloserInv, CacheTypeOK
  <1>7. CacheTypeOK'
    <2>1. closers' \in [Closers -> [pc : {"idle", "locking", "stopping", "returned"},
                                     todo : SUBSET Clerks, waiting : Clerks \cup {Nobody}]]
      <3>1. L \in SUBSET Clerks
        BY <1>4
      <3>2. closers \in [Closers -> [pc : {"idle", "locking", "stopping", "returned"},
                                     todo : SUBSET Clerks, waiting : Clerks \cup {Nobody}]]
        BY <1>2 DEF CacheTypeOK
      <3>3. closers' = [closers EXCEPT ![k].pc = "stopping", ![k].todo = L]
        BY <1>1
      <3>4. QED
        BY <3>1, <3>2, <3>3
    <2>2. \A j \in Closers : mu' = j <=> closers'[j].pc = "stopping"
      BY <1>1, <1>5, <1>6
    <2>3. QED
      BY <1>1, <1>2, <2>1, <2>2 DEF CacheTypeOK, CacheKey, HasLookup
  <1>8. CloserInv(k)'
    <2>1. Lookups' = L
      BY <1>0, <1>1 DEF Lookups
    <2>2. QED
      BY <1>0, <1>1, <1>5, <1>6, <2>1 DEF CacheInv, CloserInv
  <1>9. QED
    BY <1>1, <1>3, <1>5, <1>6, <1>7, <1>8, ClosersStepKeeps

LEMMA StopStep == ASSUME CacheInv, NEW k \in Closers, StopsNext(k) PROVE CacheInv'
  <1>1. PICK l \in closers[k].todo :
          /\ closers[k].pc = "stopping" /\ status' = Cancelled(l)
          /\ closers' = [closers EXCEPT ![k].waiting = l]
          /\ UNCHANGED <<mu, cache, clerks, present>>
    BY DEF StopsNext
  <1>2. CacheTypeOK /\ l \in Clerks
    BY DEF CacheInv, CacheTypeOK
  <1>3. StatusMoves
    BY <1>1, <1>2, CancelledMoves
  <1>4. \A c \in Clerks : status[c] = "new" => status'[c] = "new"
    BY <1>1, <1>2 DEF Cancelled, CacheTypeOK
  <1>5. /\ closers'[k].pc = "stopping" /\ closers'[k].todo = closers[k].todo
        /\ \A j \in Closers \ {k} : closers'[j] = closers[j]
    BY <1>1, <1>2 DEF CacheTypeOK
  <1>6. mu = k
    BY <1>1, <1>2 DEF CacheTypeOK
  <1>7. CacheTypeOK'
    <2>1. closers' \in [Closers -> [pc : {"idle", "locking", "stopping", "returned"},
                                     todo : SUBSET Clerks, waiting : Clerks \cup {Nobody}]]
      BY <1>1, <1>2 DEF CacheTypeOK
    <2>2. \A j \in Closers : mu' = j <=> closers'[j].pc = "stopping"
      BY <1>1, <1>2, <1>5 DEF CacheTypeOK
    <2>3. status' \in [Clerks -> {"new", "running", "cancelled", "exited"}]
      BY <1>3 DEF StatusMoves
    <2>4. QED
      BY <1>1, <1>2, <2>1, <2>2, <2>3 DEF CacheTypeOK, CacheKey, HasLookup
  <1>8. CloserInv(k)'
    <2>1. Lookups' = Lookups /\ Lookups \subseteq Clerks
      BY <1>1, <1>2 DEF Lookups, CacheTypeOK
    <2>2. \A c \in Clerks : (status[c] = "exited" => status'[c] = "exited")
                            /\ (status[c] # "new" => status'[c] # "new")
      BY <1>1, <1>2 DEF Cancelled, CacheTypeOK
    <2>3. QED
      BY <1>1, <1>5, <1>6, <2>1, <2>2 DEF CacheInv, CloserInv
  <1>9. QED
    BY <1>1, <1>3, <1>4, <1>5, <1>7, <1>8, ClosersStepKeeps

LEMMA StoppedStep == ASSUME CacheInv, NEW k \in Closers, Stopped(k) PROVE CacheInv'
  <1>1. /\ closers[k].waiting # Nobody /\ status[closers[k].waiting] = "exited"
        /\ closers' = [closers EXCEPT ![k].todo = @ \ {closers[k].waiting}, ![k].waiting = Nobody]
        /\ UNCHANGED <<mu, cache, status, clerks, present>>
    BY DEF Stopped
  <1>2. CacheTypeOK
    BY DEF CacheInv
  <1>3. StatusMoves
    BY <1>1, <1>2 DEF StatusMoves, CacheTypeOK
  <1>4. /\ closers'[k].pc = closers[k].pc /\ closers'[k].waiting = Nobody
        /\ closers'[k].todo = closers[k].todo \ {closers[k].waiting}
        /\ \A j \in Closers \ {k} : closers'[j] = closers[j]
    BY <1>1, <1>2 DEF CacheTypeOK
  <1>5. CacheTypeOK'
    <2>1. closers' \in [Closers -> [pc : {"idle", "locking", "stopping", "returned"},
                                     todo : SUBSET Clerks, waiting : Clerks \cup {Nobody}]]
      BY <1>1, <1>2 DEF CacheTypeOK
    <2>2. \A j \in Closers : mu' = j <=> closers'[j].pc = "stopping"
      BY <1>1, <1>2, <1>4 DEF CacheTypeOK
    <2>3. QED
      BY <1>1, <1>2, <2>1, <2>2 DEF CacheTypeOK, CacheKey, HasLookup
  <1>6. CloserInv(k)'
    <2>1. Lookups' = Lookups
      BY <1>1 DEF Lookups
    <2>2. QED
      BY <1>1, <1>4, <2>1 DEF CacheInv, CloserInv
  <1>7. QED
    BY <1>1, <1>3, <1>4, <1>5, <1>6, ClosersStepKeeps

\* The cache is emptied when every lookup in it has ended, and no Clerk has got a
\* lookup since this return.
LEMMA ReturnStep == ASSUME CacheInv, NEW k \in Closers, CloseReturns(k) PROVE CacheInv'
  <1>1. /\ closers[k].pc = "stopping" /\ closers[k].todo = {} /\ mu' = Nobody
        /\ cache' = EmptyCache /\ closers' = [closers EXCEPT ![k].pc = "returned"]
        /\ UNCHANGED <<status, clerks, present>>
    BY DEF CloseReturns
  <1>2. CacheTypeOK /\ mu = k
    BY <1>1 DEF CacheInv, CacheTypeOK
  <1>3. DOMAIN cache' = {} /\ Lookups' = {}
    BY <1>1 DEF EmptyCache, Lookups
  <1>4. /\ closers'[k].pc = "returned" /\ closers'[k].waiting = closers[k].waiting
        /\ \A j \in Closers \ {k} : closers'[j] = closers[j]
    BY <1>1, <1>2 DEF CacheTypeOK
  <1>5. \A l \in Lookups : status[l] = "exited"
    BY <1>1 DEF CacheInv, CloserInv
  <1>6. closers[k].waiting = Nobody
    BY <1>1 DEF CacheInv, CloserInv
  <1>7. \A j \in Closers \ {k} : closers[j].waiting = Nobody /\ closers[j].pc # "stopping"
    BY <1>2 DEF CacheInv, CloserInv, CacheTypeOK
  <1>8. CacheTypeOK'
    <2>1. closers' \in [Closers -> [pc : {"idle", "locking", "stopping", "returned"},
                                     todo : SUBSET Clerks, waiting : Clerks \cup {Nobody}]]
      BY <1>1, <1>2 DEF CacheTypeOK
    <2>2. \A j \in Closers : mu' = j <=> closers'[j].pc = "stopping"
      BY <1>1, <1>4, <1>7, NamesAssumption
    <2>3. QED
      BY <1>1, <1>2, <1>3, <2>1, <2>2 DEF CacheTypeOK, HasLookup
  <1>9. EntriesInv'
    BY <1>3 DEF EntriesInv
  <1>10. LiveAreCached'
    BY <1>1, <1>5 DEF CacheInv, LiveAreCached, Live, Lookups
  <1>11. Closes' = Closes + 1 /\ Closes \in Nat
    BY <1>1, <1>4, ClosesGrows, ClosesType
  <1>12. ASSUME NEW c \in Clerks PROVE ClerkInv(c)'
    <2>1. clerks'[c].epoch \in Nat /\ clerks'[c].epoch <= Closes
      BY <1>1, <1>2 DEF CacheInv, ClerkInv, CacheTypeOK
    <2>2. clerks'[c].epoch # Closes' /\ clerks'[c].epoch <= Closes'
      BY <1>11, <2>1
    <2>3. clerks' = clerks
      BY <1>1
    <2>4. SameKey(c, clerks[c].lookup)' <=> SameKey(c, clerks[c].lookup)
      BY <2>3 DEF SameKey
    <2>5. clerks'[c].pc \in {"none", "creating"} => status'[c] = "new" /\ clerks[c].pc = clerks'[c].pc
      BY <1>1 DEF CacheInv, ClerkInv
    <2>6. QED
      BY <1>1, <2>2, <2>3, <2>4, <2>5 DEF CacheInv, ClerkInv, HasLookup
  <1>13. SharedByKey'
    BY <1>1, SharedKeeps
  <1>14. ASSUME NEW j \in Closers PROVE CloserInv(j)'
    <2>1. CASE j = k
      BY <1>1, <1>3, <1>4, <1>5, <1>6, <2>1 DEF CacheInv, CloserInv
    <2>2. CASE j # k
      BY <1>1, <1>3, <1>4, <1>5, <1>7, <2>2 DEF CacheInv, CloserInv
    <2>3. QED
      BY <2>1, <2>2
  <1>15. QED
    BY <1>8, <1>9, <1>10, <1>12, <1>13, <1>14 DEF CacheInv
-----------------------------------------------------------------------------
(* The theorems *)

LEMMA CacheStep == CacheInv /\ [CacheNext]_vars => CacheInv'
  <1> SUFFICES ASSUME CacheInv, [CacheNext]_vars PROVE CacheInv'
    OBVIOUS
  <1>1. ASSUME NEW c \in Clerks, ClerkStep(c) \/ LoopEnds(c) PROVE CacheInv'
    BY <1>1, NewClerkStep, MovesStep, GetsStep, CreatesStep DEF ClerkStep
  <1>2. ASSUME NEW k \in Closers, CloserStep(k) PROVE CacheInv'
    BY <1>2, CallStep, LockStep, StopStep, StoppedStep, ReturnStep DEF CloserStep
  <1>3. ASSUME UNCHANGED vars PROVE CacheInv'
    <2>1. CacheTypeOK'
      BY <1>3 DEF vars, CacheInv, CacheTypeOK, CacheKey, HasLookup
    <2>2. StatusMoves
      BY <1>3 DEF vars, CacheInv, CacheTypeOK, StatusMoves
    <2>3. UNCHANGED <<mu, cache, closers, present>> /\ clerks' = clerks /\ status' = status
      BY <1>3 DEF vars
    <2>4. \A c \in Clerks : clerks[c].pc = "creating" => c \in Cached
      BY DEF CacheInv, ClerkInv
    <2>5. QED
      BY <2>1, <2>2, <2>3, <2>4, MovesKeep
  <1>4. QED
    BY <1>1, <1>2, <1>3 DEF CacheNext, Terminated

\* The inductive invariant holds throughout, for any number of Clerks and Closes.
THEOREM CacheInvariance == CacheSpec => []CacheInv
  BY CacheInvInit, CacheStep, PTL DEF CacheSpec

\* The cache's mutex is held by the call of Close that stops lookups
\* (lookup_cache.go:52-63), its keys are those of Clerks that were made with it
\* (lookup_cache.go:23-26), and its entries are lookups.
THEOREM CacheTypeCorrect == CacheSpec => []CacheTypeOK
  <1>1. CacheInv => CacheTypeOK
    BY DEF CacheInv
  <1>2. QED
    BY <1>1, CacheInvariance, PTL

\* GetOrCreate (lookup_cache.go:28-49) gives two Clerks the same lookup only when
\* they ask for the same target and address, and then always, unless a Close came
\* between them.
THEOREM CacheSharesByKey == CacheSpec => []SharedByKey
  <1>1. CacheInv => SharedByKey
    BY DEF CacheInv
  <1>2. QED
    BY <1>1, CacheInvariance, PTL

\* GetOrCreate makes a second lookup of a key only when the loop of the first has
\* ended, as Close clears the map after its Stops and under the same mutex
\* (lookup_cache.go:52-63): the loops for a target and a server run one at a time.
THEOREM CacheOneLoop == CacheSpec => []OneLoopPerKey
  <1>1. ASSUME CacheInv PROVE OneLoopPerKey
    <2> SUFFICES ASSUME NEW l \in Cached, NEW m \in Cached, SameKey(l, m), Live(l), Live(m)
                 PROVE  l = m
      BY <1>1, CachedAssumption DEF OneLoopPerKey, Live, CacheInv, CacheTypeOK
    <2>1. CacheKey(l) = CacheKey(m)
      BY CachedAssumption, SameKeySameEntry
    <2>2. cache[CacheKey(l)] = l /\ cache[CacheKey(m)] = m
      BY <1>1 DEF CacheInv, LiveAreCached
    <2>3. QED
      BY <2>1, <2>2
  <1>2. QED
    BY <1>1, CacheInvariance, PTL

\* When Close of the cache has returned (lookup_cache.go:52-63), the loops of all
\* lookups that were cached when it was called have ended and GetOrCreate returns
\* none of them, also when another Close got in first and stopped them.
THEOREM CacheCloseStopsAll == CacheSpec => []CloseStopsAll
  <1>1. CacheInv => CloseStopsAll
    BY DEF CacheInv, CloserInv, CloseStopsAll
  <1>2. QED
    BY <1>1, CacheInvariance, PTL
=============================================================================
