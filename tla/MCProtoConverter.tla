-------------------------- MODULE MCProtoConverter --------------------------
(***************************************************************************)
(* An instance of ProtoConverter for TLC.  Keys are 0..2, an integer has   *)
(* three bits, so numbers from 4 on are negative on the wire, and a UUID   *)
(* six.  The Assignments to encode are all that the constructors accept of *)
(* one or two slices with the lists below; the messages are one that is    *)
(* right, changed in one place.                                            *)
(***************************************************************************)
EXTENDS ProtoConverter

MCKeyCompare(k, o) == IF k < o THEN -1 ELSE IF k > o THEN 1 ELSE 0

\* A pod, the same pod with its UUID in another notation, a pod on the same
\* address, and one whose UUID is no UUID, before and after a round trip.
SquidOf(address, time, form, bytes) ==
  [resourceAddress |-> address, creationTimeMillis |-> time,
   resourceUUID |-> [form |-> form, bytes |-> bytes]]

p == SquidOf("p", 1, "canonical", <<1, 0, 0, 0, 1, 1>>)
pUrn == [p EXCEPT !.resourceUUID.form = "variant"]
q == SquidOf("p", 1, "canonical", <<0, 1, 1, 1, 0, 0>>)
u == SquidOf("u", 2, "unparsable", <<0, 0, 0, 0, 0, 0>>)

MCSquid == {p, pUrn, q, u, Canonical(u)}

-----------------------------------------------------------------------------
Range(low, high) == [low |-> low, high |-> high]

Ann(low, high, n, from) == [subslice |-> Range(low, high), number |-> n, from |-> from]

Lists ==
  {<<Ann(0, 1, 5, NoTransfer)>>, <<Ann(0, 1, 1, q)>>, <<Ann(1, InfinityKey, 1, u)>>,
   <<Ann(0, 1, 1, NoTransfer), Ann(1, 2, 0, p)>>,
   <<Ann(1, InfinityKey, 1, NoTransfer), Ann(0, 1, 1, NoTransfer)>>}

SliceAssignmentsOf(slices, lists, generations) ==
  {sa \in UNION {[slice : slices, resources : {rs}, generation : generations,
                  annotations : UNION {[D -> Lists] : D \in SUBSET Seqs!ToSet(rs)},
                  load : {"none", "finite"}] : rs \in lists} :
     IsSliceAssignment(sa)}

Gens == {[incarnation |-> 2, number |-> n] : n \in {1, 5}}

Maps ==
  {<<sa>> : sa \in SliceAssignmentsOf({Range(0, InfinityKey)},
                                      {<<p, q>>, <<q, pUrn>>, <<u, p, u>>}, Gens)}
    \cup {<<sa, other>> :
            sa \in SliceAssignmentsOf({Range(0, 1)}, {<<q, p>>, <<p, pUrn>>}, Gens),
            other \in SliceAssignmentsOf({Range(1, InfinityKey)}, {<<u>>, <<q>>}, Gens)}

MCSources ==
  {a \in [generation : Gens, sliceMap : Maps, isFrozen : BOOLEAN,
          mode : {"eventual"}] : IsAssignment(a) /\ (a.isFrozen => Len(a.sliceMap) = 1)}
    \cup {[generation |-> [incarnation |-> 1, number |-> 4], isFrozen |-> FALSE, mode |-> "strict",
           sliceMap |-> <<[slice |-> Range(0, InfinityKey), resources |-> <<p>>, load |-> "none",
                           generation |-> [incarnation |-> 1, number |-> 4],
                           annotations |-> [r \in {} |-> << >>]]>>]}

-----------------------------------------------------------------------------
Signed(incarnation, number) == [incarnation |-> incarnation, number |-> number]

SliceP(low, high) ==
  [lowInclusive |-> low, highExclusive |-> high, isHighInfinity |-> high = Nil]

AnnP(id, low, high, n, transfer) ==
  [resourceId |-> id, subslice |-> SliceP(low, high), generationNumber |-> n,
   stateTransfer |-> transfer]

From(id) == [fromResourceId |-> id]

First ==
  [slice |-> SliceP(0, 1), generation |-> Signed(2, 1), resourceIndices |-> <<0, 1>>,
   subsliceAnnotations |-> <<AnnP(1, 0, 1, 1, From(2))>>, primaryRateLoad |-> "finite"]

Second ==
  [slice |-> SliceP(1, Nil), generation |-> Signed(2, -3), resourceIndices |-> <<1, 0>>,
   subsliceAnnotations |-> <<AnnP(0, 2, Nil, 0, Nil), AnnP(1, 1, Nil, 5, Nil)>>,
   primaryRateLoad |-> "none"]

Right ==
  [generation |-> Signed(2, -3), sliceAssignments |-> <<First, Second>>,
   resources |-> <<SquidToProto(p), SquidToProto(q), SquidToProto(u)>>, isFrozen |-> FALSE]

\* The second slice, changed.
Seconds ==
  {[Second EXCEPT !.slice = s] :
     s \in {Nil, SliceP(1, 1), SliceP(2, Nil), SliceP(0, Nil), SliceP(1, 2),
            [SliceP(1, Nil) EXCEPT !.isHighInfinity = FALSE]}}
    \cup {[Second EXCEPT !.generation = g] :
            g \in {Nil, Signed(-1, 1), Signed(2, -2), Signed(1, 1), Signed(0, 0), Signed(2, 1)}}
    \cup {[Second EXCEPT !.resourceIndices = is] : is \in {<< >>, <<0>>, <<3>>, <<-1>>, <<0, 1, 1>>}}
    \cup {[Second EXCEPT !.primaryRateLoad = l] : l \in Load}
    \cup {[Second EXCEPT !.subsliceAnnotations = list] :
            list \in {<<AnnP(id, 1, Nil, n, transfer)>> :
                        id \in {-1, 0, 1, 2, 3}, n \in {0, -1},
                        transfer \in {Nil} \cup {From(f) : f \in {-1, 0, 2, 3}}}}
    \cup {[Second EXCEPT !.subsliceAnnotations = <<AnnP(0, l, h, 0, Nil), AnnP(0, m, i, 0, Nil)>>] :
            l \in 0..2, m \in 0..2, h \in {1, 2, Nil}, i \in {1, 2, Nil}}

MCMessages ==
  {Nil, Right}
    \cup {[Right EXCEPT !.generation = g] : g \in {Nil, Signed(-1, 1), Signed(2, 1), Signed(1, -1)}}
    \cup {[Right EXCEPT !.resources[2] = squid] : squid \in {Nil, SquidToProto(p)}}
    \cup {[Right EXCEPT !.sliceAssignments = list] : list \in {<< >>, <<First>>, <<Second, First>>}}
    \cup {[Right EXCEPT !.sliceAssignments[2] = second] : second \in Seconds}
=============================================================================
