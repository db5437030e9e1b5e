--------------------------- MODULE ProtoConverter ---------------------------
(***************************************************************************)
(* pkg/common/proto_converter.go: an Assignment becomes a DiffAssignmentP  *)
(* whose slices and annotations refer to a pool of resources by index, and *)
(* a message, from this encoder or not, becomes an Assignment, an error or *)
(* a panic.  A behaviour is one conversion to and back, or one back, a     *)
(* slice per step.                                                         *)
(***************************************************************************)
EXTENDS SliceAssignments

CONSTANTS
  Nil,         \* an absent field, message or Assignment
  MaxByte,     \* the largest value of a byte
  WordBytes,   \* the bytes of an integer and of half a UUID: 8 in the code
  Guardrail,   \* UpperBoundFatFingerGuardrail
  Sources,     \* the Assignments to encode
  Messages     \* the messages of other encoders

ASSUME WordAssumption == MaxByte \in Nat \ {0} /\ WordBytes \in Nat \ {0} /\ Guardrail \in Nat

\* (MaxByte + 1)^n, as a function that a proof can look into.
Power(n) ==
  LET power[m \in 0..n] == IF m = 0 THEN 1 ELSE power[m - 1] * (MaxByte + 1)
  IN  power[n]

\* How many unsigned integers there are.
Words == Power(WordBytes)

\* int64 of a uint64, and back.
ToInt64(n) == IF n >= Words \div 2 THEN n - Words ELSE n
ToUint64(n) == n % Words

-----------------------------------------------------------------------------
(* Generations, slices, UUIDs, Squids *)

GenerationToProto(g) ==
  [incarnation |-> ToInt64(g.incarnation), number |-> ToInt64(g.number)]

\* MustNewIncarnation panics.
GenerationPanics(p) == p # Nil /\ ToUint64(p.incarnation) >= Guardrail

\* Mutant: the number is taken as it is, sign included.
GenerationFromSigned(p) ==
  IF p = Nil THEN Gen!EmptyGeneration
  ELSE [incarnation |-> ToUint64(p.incarnation), number |-> p.number]

GenerationFromProto(p) ==
  IF p = Nil THEN Gen!EmptyGeneration
  ELSE [incarnation |-> ToUint64(p.incarnation), number |-> ToUint64(p.number)]

SliceToProto(s) ==
  [lowInclusive |-> s.low,
   highExclusive |-> IF s.high = InfinityKey THEN Nil ELSE s.high,
   isHighInfinity |-> s.high = InfinityKey]

SliceFromProto(p) ==
  [low  |-> p.lowInclusive,
   high |-> IF p.isHighInfinity \/ p.highExclusive = Nil THEN InfinityKey ELSE p.highExclusive]

SliceFails(p) == p = Nil \/ ~IsSlice(SliceFromProto(p))

\* The text of a UUID is the one that String gives, another one that Parse takes
\* for the same bytes, or none that it takes.
UUIDs == [1..(2 * WordBytes) -> 0..MaxByte]
CanonicalText(u) == [form |-> "canonical", bytes |-> u]
NilUUID == [n \in 1..(2 * WordBytes) |-> 0]
Parse(text) == IF text.form = "unparsable" THEN NilUUID ELSE text.bytes

\* The integer of the bytes from first on.
WordOf(u, first) ==
  LET number[n \in 0..WordBytes] ==
        IF n = 0 THEN 0 ELSE number[n - 1] * (MaxByte + 1) + u[first + n - 1]
  IN  ToInt64(number[WordBytes])

\* The n-th byte of an integer, shifted as a signed one.
ByteOf(word, n) == (word \div Power(WordBytes - n)) % (MaxByte + 1)

\* Mutant: the halves are swapped.
SwappedInt64sToUUID(high, low) ==
  [n \in 1..(2 * WordBytes) |->
     IF n <= WordBytes THEN ByteOf(low, n) ELSE ByteOf(high, n - WordBytes)]

int64sToUUID(high, low) ==
  [n \in 1..(2 * WordBytes) |->
     IF n <= WordBytes THEN ByteOf(high, n) ELSE ByteOf(low, n - WordBytes)]

SquidToProto(sq) ==
  LET u == Parse(sq.resourceUUID) IN
  [resourceAddress |-> sq.resourceAddress, creationTimeMillis |-> sq.creationTimeMillis,
   resourceUuidHigh |-> WordOf(u, 1), resourceUuidLow |-> WordOf(u, WordBytes + 1)]

SquidFromProto(p) ==
  [resourceAddress |-> p.resourceAddress, creationTimeMillis |-> p.creationTimeMillis,
   resourceUUID |-> CanonicalText(int64sToUUID(p.resourceUuidHigh, p.resourceUuidLow))]

\* A Squid after a round trip: with the text that String gives its UUID.
Canonical(sq) == [sq EXCEPT !.resourceUUID = CanonicalText(Parse(@))]

CanonicalSquid == {Canonical(sq) : sq \in Squid}

-----------------------------------------------------------------------------
(* What is converted: everything on the wire but the entries of lists may be absent *)

SquidFields ==
  [resourceAddress : STRING, creationTimeMillis : Int,
   resourceUUID : [form : {"canonical", "variant", "unparsable"}, bytes : UUIDs]]

WireGeneration == [incarnation : Int, number : Int]

WireSlice == [lowInclusive : Key, highExclusive : Key \cup {Nil}, isHighInfinity : BOOLEAN]

WireSquid ==
  {p \in [resourceAddress : STRING, creationTimeMillis : Int,
          resourceUuidHigh : Int, resourceUuidLow : Int] : SquidFromProto(p) \in Squid}

WireAnnotation ==
  [resourceId : Int, subslice : WireSlice \cup {Nil}, generationNumber : Int,
   stateTransfer : [fromResourceId : Int] \cup {Nil}]

WireSliceAssignment ==
  [slice : WireSlice \cup {Nil}, generation : WireGeneration \cup {Nil},
   resourceIndices : Seq(Int), subsliceAnnotations : Seq(WireAnnotation),
   primaryRateLoad : Load]

WireAssignment ==
  [generation : WireGeneration \cup {Nil}, sliceAssignments : Seq(WireSliceAssignment),
   resources : Seq(WireSquid \cup {Nil}), isFrozen : BOOLEAN]

ASSUME SquidAssumption ==
  Squid \subseteq SquidFields /\ CanonicalSquid \subseteq Squid /\ NoTransfer \notin Squid

ASSUME NilAssumption ==
  Nil \notin Key \cup WireSquid \cup WireGeneration \cup WireSlice \cup [fromResourceId : Int]
             \cup WireAssignment \cup Sources

\* NewIncarnation has checked the guardrail, and numbers fit in an integer.
ASSUME SourcesAssumption ==
  /\ \A a \in Sources : IsConstructed(a)
  /\ Guardrail <= Words
  /\ \A a \in Sources :
       \A g \in {a.generation} \cup {a.sliceMap[n].generation : n \in DOMAIN a.sliceMap} :
         g.incarnation < Guardrail /\ g.number < Words

ASSUME MessagesAssumption == Messages \subseteq WireAssignment \cup {Nil}

-----------------------------------------------------------------------------
VARIABLES
  source,     \* the Assignment to encode, or Nil
  pool,       \* the encoder's resources, by index
  message,    \* the DiffAssignmentP, so far or received
  resources,  \* the decoder's resources
  made,       \* the SliceAssignments it has made
  outcome,    \* how far the conversion is, or how it ended
  result      \* the Assignment it ended with

vars == <<source, pool, message, resources, made, outcome, result>>

Ended == outcome \in {"decoded", "error", "panicked"}

Empty(a) ==
  [generation |-> GenerationToProto(a.generation), sliceAssignments |-> << >>,
   resources |-> << >>, isFrozen |-> a.isFrozen]

Init ==
  /\ \/ source \in Sources /\ message = Empty(source) /\ outcome = "encoding"
     \/ source = Nil /\ message \in Messages /\ outcome = "received"
  /\ pool = << >> /\ resources = << >> /\ made = << >> /\ result = Nil

-----------------------------------------------------------------------------
(* AssignmentToProto *)

\* The annotations of a slice in the order of their list, the resources in an order.
Annotated(sa, order) ==
  Seqs!FlattenSeq(
    [n \in DOMAIN order |->
       [m \in DOMAIN sa.annotations[order[n]] |->
          [resource |-> order[n], annotation |-> sa.annotations[order[n]][m]]]])

\* The resources of a slice as getResourceIndex meets them.
Met(sa, order) ==
  sa.resources \o
  Seqs!FlattenSeq(
    [n \in DOMAIN Annotated(sa, order) |->
       LET x == Annotated(sa, order)[n] IN
       IF x.annotation.from = NoTransfer THEN <<x.resource>>
                                         ELSE <<x.resource, x.annotation.from>>])

\* Mutant: each mention of a resource is pooled.
PooledTwice(known, met) == known \o met

\* The pool with those that were not in it.
Pooled(known, met) == Added(known, met)

\* Mutant: the index of the entry after.
IndexAfter(known, sq) == Cardinality({n \in DOMAIN known : sq \notin Seqs!ToSet(SubSeq(known, 1, n))}) + 1

\* Indices count from 0.
Index(known, sq) == Cardinality({n \in DOMAIN known : sq \notin Seqs!ToSet(SubSeq(known, 1, n))})

AnnotationToProto(known, x) ==
  [resourceId |-> Index(known, x.resource), subslice |-> SliceToProto(x.annotation.subslice),
   generationNumber |-> ToInt64(x.annotation.number),
   stateTransfer |-> IF x.annotation.from = NoTransfer THEN Nil
                     ELSE [fromResourceId |-> Index(known, x.annotation.from)]]

SliceAssignmentToProto(known, sa, order) ==
  [slice |-> SliceToProto(sa.slice), generation |-> GenerationToProto(sa.generation),
   resourceIndices |-> [n \in DOMAIN sa.resources |-> Index(known, sa.resources[n])],
   subsliceAnnotations |->
     [n \in DOMAIN Annotated(sa, order) |-> AnnotationToProto(known, Annotated(sa, order)[n])],
   primaryRateLoad |-> sa.load]

\* The next slice; the map of its annotations is iterated in any order.
EncodeSlice ==
  /\ outcome = "encoding"
  /\ Len(message.sliceAssignments) < Len(source.sliceMap)
  /\ LET sa == source.sliceMap[Len(message.sliceAssignments) + 1] IN
       \E order \in Seqs!SetToSeqs(DOMAIN sa.annotations) :
         /\ pool' = Pooled(pool, Met(sa, order))
         /\ message' = [message EXCEPT
              !.sliceAssignments = Append(@, SliceAssignmentToProto(pool', sa, order)),
              !.resources = [n \in DOMAIN pool' |-> SquidToProto(pool'[n])]]
  /\ UNCHANGED <<source, resources, made, outcome, result>>

\* The message is sent, and received whole.
Sent ==
  /\ outcome = "encoding"
  /\ Len(message.sliceAssignments) = Len(source.sliceMap)
  /\ outcome' = "received"
  /\ UNCHANGED <<source, pool, message, resources, made, result>>

-----------------------------------------------------------------------------
(* AssignmentFromProto.  A check either passes, or ends the conversion with an *)
(* error or a panic; the first that does not pass counts.                      *)

Check(fails, how) == IF fails THEN how ELSE "passes"

\* What the first of the checks that does not pass makes of the conversion.
Verdict(checks) ==
  LET n == Seqs!SelectInSeq(checks, LAMBDA c : c # "passes")
  IN  IF n = 0 THEN "passes" ELSE checks[n]

\* An index into the resources: int(idx) >= len(resources) is checked, a negative
\* one panics when it is used.
CheckIndex(idx) ==
  IF idx >= Len(resources) THEN "error" ELSE IF idx < 0 THEN "panicked" ELSE "passes"

ResourceAt(idx) == resources[idx + 1]

\* The generation, then the pool.
DecodeResources ==
  /\ outcome = "received"
  /\ LET verdict ==
           IF message = Nil THEN "error"
           ELSE Verdict(<<Check(GenerationPanics(message.generation), "panicked"),
                          Check(\E n \in DOMAIN message.resources : message.resources[n] = Nil,
                                "error")>>)
     IN  IF verdict = "passes"
           THEN /\ outcome' = "decoding"
                /\ resources' =
                     [n \in DOMAIN message.resources |-> SquidFromProto(message.resources[n])]
           ELSE outcome' = verdict /\ resources' = resources
  /\ UNCHANGED <<source, pool, message, made, result>>

AnnotationChecks(ap) ==
  <<CheckIndex(ap.resourceId), Check(SliceFails(ap.subslice), "error"),
    IF ap.stateTransfer = Nil THEN "passes" ELSE CheckIndex(ap.stateTransfer.fromResourceId)>>

\* What is checked of a SliceAssignmentP before NewSliceAssignment.
SliceChecks(sap) ==
  <<Check(SliceFails(sap.slice), "error"), Check(GenerationPanics(sap.generation), "panicked")>>
    \o [n \in DOMAIN sap.resourceIndices |-> CheckIndex(sap.resourceIndices[n])]
    \o <<Check(sap.resourceIndices = << >>, "error")>>
    \o [n \in DOMAIN sap.subsliceAnnotations |->
          Verdict(AnnotationChecks(sap.subsliceAnnotations[n]))]

AnnotationFromProto(ap) ==
  [subslice |-> SliceFromProto(ap.subslice), number |-> ToUint64(ap.generationNumber),
   from |-> IF ap.stateTransfer = Nil THEN NoTransfer
            ELSE ResourceAt(ap.stateTransfer.fromResourceId)]

\* The annotations by resource, each list in the order of the message.
AnnotationsFromProto(aps) ==
  [r \in {ResourceAt(aps[n].resourceId) : n \in DOMAIN aps} |->
     LET ofR == Those(aps, {ap \in Seqs!ToSet(aps) : ResourceAt(ap.resourceId) = r})
     IN  [n \in DOMAIN ofR |-> AnnotationFromProto(ofR[n])]]

SliceAssignmentFromProto(sap) ==
  [slice |-> SliceFromProto(sap.slice), generation |-> GenerationFromProto(sap.generation),
   resources |-> [n \in DOMAIN sap.resourceIndices |-> ResourceAt(sap.resourceIndices[n])],
   annotations |-> AnnotationsFromProto(sap.subsliceAnnotations),
   load |-> sap.primaryRateLoad]

DecodeSlice ==
  /\ outcome = "decoding"
  /\ Len(made) < Len(message.sliceAssignments)
  /\ LET sap == message.sliceAssignments[Len(made) + 1]
         verdict == Verdict(SliceChecks(sap))
     IN  IF verdict # "passes" THEN outcome' = verdict /\ made' = made
         ELSE IF IsSliceAssignment(SliceAssignmentFromProto(sap))
           THEN outcome' = outcome /\ made' = Append(made, SliceAssignmentFromProto(sap))
           ELSE outcome' = "error" /\ made' = made
  /\ UNCHANGED <<source, pool, message, resources, result>>

\* NewSliceMap and NewAssignment; the mode is not on the wire.
DecodeEnds ==
  /\ outcome = "decoding"
  /\ Len(made) = Len(message.sliceAssignments)
  /\ LET a == [generation |-> GenerationFromProto(message.generation), sliceMap |-> made,
               isFrozen |-> message.isFrozen, mode |-> "eventual"]
     IN  IF IsAssignment(a) THEN outcome' = "decoded" /\ result' = a
                            ELSE outcome' = "error" /\ result' = Nil
  /\ UNCHANGED <<source, pool, message, resources, made>>

Next == EncodeSlice \/ Sent \/ DecodeResources \/ DecodeSlice \/ DecodeEnds

Spec == Init /\ [][Next]_vars

-----------------------------------------------------------------------------
ConverterTypeOK ==
  /\ source \in Sources \cup {Nil}
  /\ pool \in Seq(Squid) /\ Len(pool) = Cardinality(Seqs!ToSet(pool))
  /\ message \in WireAssignment \cup {Nil}
  /\ source # Nil => message.resources = [n \in DOMAIN pool |-> SquidToProto(pool[n])]
  /\ resources \in Seq(CanonicalSquid)
  /\ AreSliceAssignments(made)
  /\ outcome \in {"encoding", "received", "decoding", "decoded", "error", "panicked"}
  /\ IF outcome = "decoded" THEN IsConstructed(result) ELSE result = Nil

\* The Squids an Assignment mentions.
Mentioned(a) ==
  (UNION {LET sa == a.sliceMap[n] IN
          Seqs!ToSet(sa.resources) \cup
          UNION {{sa.annotations[r][m].from : m \in DOMAIN sa.annotations[r]} :
                   r \in DOMAIN sa.annotations} : n \in DOMAIN a.sliceMap}) \ {NoTransfer}

CanonicalList(list) ==
  [m \in DOMAIN list |->
     [list[m] EXCEPT !.from = IF @ = NoTransfer THEN NoTransfer ELSE Canonical(@)]]

CanonicalSlice(sa) ==
  [sa EXCEPT
     !.resources = [n \in DOMAIN @ |-> Canonical(@[n])],
     !.annotations = [r \in {Canonical(q) : q \in DOMAIN @} |->
                        CanonicalList(@[CHOOSE q \in DOMAIN @ : Canonical(q) = r])]]

\* What was encoded is decoded, whatever order the annotations came in, except for
\* the texts of UUIDs and the consistency mode; Squids that differ only in how their
\* UUID is written must not occur together, nor two that have none.
RoundTrip ==
  source # Nil /\ Ended
    /\ (\A p, q \in Mentioned(source) : Canonical(p) = Canonical(q) => p = q)
    => /\ outcome = "decoded"
       /\ result = [source EXCEPT
            !.mode = "eventual",
            !.sliceMap = [n \in DOMAIN @ |-> CanonicalSlice(@[n])]]

\* Whatever the message, an Assignment that comes out of it agrees with itself on
\* who owns what, and its annotations with its slices and generations, except for
\* annotations that follow one without an end.
DecodedIsConsistent ==
  outcome = "decoded" =>
    /\ OwnershipAgrees(result)
    /\ AnnotationsAreOwned(result)
    /\ \A n \in DOMAIN result.sliceMap : BoundedAnnotationsFit(result.sliceMap[n])

\* "All annotated subslices must fit strictly inside the parent slice" and "for any
\* given resource, subslice annotations must be mutually disjoint and ordered
\* ascending", of every Assignment that is constructed.
AnnotationsFit ==
  outcome = "decoded" =>
    \A n \in DOMAIN result.sliceMap :
      LET sa == result.sliceMap[n] IN \A r \in DOMAIN sa.annotations : Fits(sa, sa.annotations[r])
=============================================================================
