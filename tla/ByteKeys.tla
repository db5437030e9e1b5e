------------------------------ MODULE ByteKeys ------------------------------
(***************************************************************************)
(* SliceMaps over the keys that pkg/friend/slice.go has: SliceMap knows of *)
(* them that they are ordered, SliceKey what they are made of.             *)
(***************************************************************************)
EXTENDS SliceMap, SliceKey

\* The keys are byte strings, the least has none, and Compare compares them.
ASSUME ByteKeysAssumption ==
  /\ Key \subseteq Seq(0..MaxByte)
  /\ MinSliceKey = << >>
  /\ \A k \in Key, o \in Key : KeyCompare(k, o) = Compare(k, o)

\* The entry that is found holds the key in the order of its bytes, whatever the
\* comparison makes of prefixes and lengths.
FoundByBytes ==
  Searching /\ result # << >> =>
    LET s == result[1].slice
    IN  /\ ~LexicographicallyLess(call.key, s.low)
        /\ s.high = InfinityKey \/ LexicographicallyLess(call.key, s.high)
=============================================================================
