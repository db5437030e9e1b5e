------------------------------ MODULE SliceKey ------------------------------
(***************************************************************************)
(* pkg/friend/slice.go: routing keys as byte strings, ordered by a number  *)
(* made of the first bytes and, when that ties, by length or bytes.  The   *)
(* code has PrefixLength 8 and MaxByte 255; uint64 holds that exactly.     *)
(***************************************************************************)
EXTENDS Integers, Sequences

CONSTANTS
  MaxByte,        \* the largest value of a byte
  PrefixLength    \* how many bytes bytesPrefix holds

ASSUME ByteAssumption == MaxByte \in Nat

ASSUME PrefixLengthAssumption == PrefixLength \in Nat

\* The n-th byte, of a key padded with zeros.
ByteAt(k, n) == IF n <= Len(k) THEN k[n] ELSE 0

\* Mutant: the first byte counts least.
littleEndian(k) ==
  LET number[n \in 0..PrefixLength] ==
        IF n = 0 THEN 0 ELSE number[n - 1] * (MaxByte + 1) + ByteAt(k, PrefixLength + 1 - n)
  IN  number[PrefixLength]

\* NewSliceKey's big-endian number.
bytesPrefix(k) ==
  LET number[n \in 0..PrefixLength] ==
        IF n = 0 THEN 0 ELSE number[n - 1] * (MaxByte + 1) + ByteAt(k, n)
  IN  number[PrefixLength]

\* One key is a proper prefix of the other, or smaller at the first difference.
LexicographicallyLess(k, o) ==
  \E n \in 0..Len(k) :
    /\ n <= Len(o)
    /\ \A m \in 1..n : k[m] = o[m]
    /\ n < Len(o)
    /\ n = Len(k) \/ k[n + 1] < o[n + 1]

\* bytes.Compare
CompareBytes(k, o) ==
  IF LexicographicallyLess(k, o) THEN -1 ELSE IF LexicographicallyLess(o, k) THEN 1 ELSE 0

CompareNumbers(m, n) == IF m < n THEN -1 ELSE IF m > n THEN 1 ELSE 0

Compare(k, o) ==
  IF bytesPrefix(k) # bytesPrefix(o) THEN CompareNumbers(bytesPrefix(k), bytesPrefix(o))
  ELSE IF Len(k) <= PrefixLength \/ Len(o) <= PrefixLength THEN CompareNumbers(Len(k), Len(o))
  ELSE CompareBytes(k, o)
=============================================================================
