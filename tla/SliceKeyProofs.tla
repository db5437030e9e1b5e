---------------------------- MODULE SliceKeyProofs ----------------------------
(***************************************************************************)
(* SliceKey.Compare of pkg/friend/slice.go is bytes.Compare, for keys of   *)
(* every length and prefixes of any number of bytes.  So keys are totally  *)
(* ordered, as SliceMap assumes, and a search finds by the bytes.          *)
(***************************************************************************)
EXTENDS ByteKeys, SliceMapProofs

Byte == 0..MaxByte

Text == Seq(Byte)

Base == MaxByte + 1

\* A byte of a key, padded or not.
LEMMA ByteFacts ==
  ASSUME NEW k \in Text
  PROVE  /\ Len(k) \in Nat
         /\ \A n \in 1..Len(k) : k[n] \in Byte /\ ByteAt(k, n) = k[n]
         /\ \A n \in Nat \ {0} : ByteAt(k, n) \in Byte
         /\ \A n \in Nat \ {0} : ByteAt(k, n) # 0 => n \in 1..Len(k)
  <1>1. Len(k) \in Nat /\ \A n \in 1..Len(k) : k[n] \in Byte
    BY ElementOfSeq, LenProperties DEF Text
  <1>2. 0 \in Byte
    BY ByteAssumption DEF Byte
  <1>3. \A n \in 1..Len(k) : ByteAt(k, n) = k[n]
    BY <1>1 DEF ByteAt
  <1>4. \A n \in Nat \ {0} : ByteAt(k, n) \in Byte
    BY <1>1, <1>2 DEF ByteAt
  <1>5. \A n \in Nat \ {0} : ByteAt(k, n) # 0 => n \in 1..Len(k)
    BY <1>1 DEF ByteAt
  <1>6. QED
    BY <1>1, <1>3, <1>4, <1>5

-----------------------------------------------------------------------------
(* The number made of the first bytes *)

\* f[n] is the number of the first n bytes.
Numbers(k, f, m) ==
  f = [n \in 0..m |-> IF n = 0 THEN 0 ELSE f[n - 1] * (MaxByte + 1) + ByteAt(k, n)]

\* There are such numbers, however many bytes count.
LEMMA NumbersExist ==
  ASSUME NEW k, NEW m \in Nat
  PROVE  \E f : Numbers(k, f, m)
  <1> DEFINE T == {l \in Nat : ~\E f : Numbers(k, f, l)}
  <1>1. SUFFICES ASSUME T # {} PROVE FALSE
    OBVIOUS
  <1>2. T \subseteq Nat
    OBVIOUS
  <1>3. PICK l \in T : \A o \in T : ~(<<o, l>> \in OpToRel(<, Nat))
    BY <1>1, <1>2, WFMin, NatLessThanWellFounded
  <1>4. l \in Nat /\ ~\E f : Numbers(k, f, l)
    BY <1>3
  <1>5. \A o \in Nat : o < l => \E f : Numbers(k, f, o)
    BY <1>3 DEF OpToRel
  <1>6. CASE l = 0
    <2>1. PICK f : f = [n \in 0..l |-> 0]
      OBVIOUS
    <2>2. \A n \in 0..l : n = 0
      BY <1>6
    <2>3. Numbers(k, f, l)
      BY <2>1, <2>2 DEF Numbers
    <2>4. QED
      BY <1>4, <2>3
  <1>7. CASE l # 0
    <2>1. l - 1 \in Nat /\ l - 1 < l
      BY <1>4, <1>7
    <2>2. PICK f : Numbers(k, f, l - 1)
      BY <1>5, <2>1
    <2>3. PICK g : g = [n \in 0..l |-> IF n = l THEN f[l - 1] * (MaxByte + 1) + ByteAt(k, l)
                                               ELSE f[n]]
      OBVIOUS
    <2>4. \A n \in 0..(l - 1) : g[n] = f[n]
      BY <1>4, <2>3
    <2>5. ASSUME NEW n \in 0..l
          PROVE  g[n] = IF n = 0 THEN 0 ELSE g[n - 1] * (MaxByte + 1) + ByteAt(k, n)
      <3>1. CASE n = l
        <4>1. l - 1 \in 0..(l - 1) /\ l \in 0..l
          BY <1>4, <2>1
        <4>2. g[l - 1] = f[l - 1]
          BY <2>4, <4>1
        <4>3. g[l] = f[l - 1] * (MaxByte + 1) + ByteAt(k, l)
          BY <2>3, <4>1
        <4>4. QED
          BY <1>7, <3>1, <4>2, <4>3
      <3>2. CASE n # l
        <4>1. n \in 0..(l - 1)
          BY <1>4, <3>2
        <4>2. f[n] = IF n = 0 THEN 0 ELSE f[n - 1] * (MaxByte + 1) + ByteAt(k, n)
          BY <2>2, <4>1 DEF Numbers
        <4>3. g[n] = f[n]
          BY <2>4, <4>1
        <4>4. CASE n = 0
          BY <4>2, <4>3, <4>4
        <4>5. CASE n # 0
          <5>1. n - 1 \in 0..(l - 1)
            BY <4>1, <4>5
          <5>2. QED
            BY <2>4, <4>2, <4>3, <4>5, <5>1
        <4>6. QED
          BY <4>4, <4>5
      <3>3. QED
        BY <3>1, <3>2
    <2>6. Numbers(k, g, l)
      BY <2>3, <2>5 DEF Numbers
    <2>7. QED
      BY <1>4, <2>6
  <1>8. QED
    BY <1>6, <1>7

\* The prefix is the last of them, and they are natural numbers.
LEMMA PrefixFacts ==
  ASSUME NEW k \in Text
  PROVE  \E f : /\ bytesPrefix(k) = f[PrefixLength]
                /\ f[0] = 0
                /\ \A n \in 0..PrefixLength : f[n] \in Nat
                /\ \A n \in 1..PrefixLength : f[n] = f[n - 1] * Base + ByteAt(k, n)
  <1>1. PICK f : f = CHOOSE g : Numbers(k, g, PrefixLength)
    OBVIOUS
  <1>2. Numbers(k, f, PrefixLength)
    BY <1>1, NumbersExist, PrefixLengthAssumption
  <1>3. bytesPrefix(k) = f[PrefixLength]
    BY <1>1 DEF bytesPrefix, Numbers
  <1>4. f[0] = 0 /\ \A n \in 1..PrefixLength : f[n] = f[n - 1] * Base + ByteAt(k, n)
    <2>1. \A n \in 0..PrefixLength :
            f[n] = IF n = 0 THEN 0 ELSE f[n - 1] * (MaxByte + 1) + ByteAt(k, n)
      BY <1>2 DEF Numbers
    <2>2. 0 \in 0..PrefixLength /\ \A n \in 1..PrefixLength : n \in 0..PrefixLength /\ n # 0
      BY PrefixLengthAssumption
    <2>3. QED
      BY <2>1, <2>2 DEF Base
  <1>5. \A n \in 0..PrefixLength : f[n] \in Nat
    <2> DEFINE T == {n \in 0..PrefixLength : f[n] \notin Nat}
    <2>1. SUFFICES ASSUME T # {} PROVE FALSE
      OBVIOUS
    <2>2. T \subseteq Nat
      BY PrefixLengthAssumption
    <2>3. PICK n \in T : \A o \in T : ~(<<o, n>> \in OpToRel(<, Nat))
      BY <2>1, <2>2, WFMin, NatLessThanWellFounded
    <2>4. n \in 0..PrefixLength /\ f[n] \notin Nat
      BY <2>3
    <2>5. \A o \in 0..PrefixLength : o < n => f[o] \in Nat
      BY <2>2, <2>3 DEF OpToRel
    <2>6. n \in 1..PrefixLength
      BY <1>4, <2>4
    <2>7. n - 1 \in 0..PrefixLength /\ n - 1 < n
      BY <2>6, PrefixLengthAssumption
    <2>8. f[n - 1] \in Nat
      BY <2>5, <2>7
    <2>9. ByteAt(k, n) \in Nat /\ Base \in Nat
      BY <2>6, ByteFacts, ByteAssumption DEF Byte, Base
    <2>10. f[n - 1] * Base \in Nat
      BY <2>8, <2>9
    <2>11. QED
      BY <1>4, <2>4, <2>6, <2>9, <2>10
  <1>6. QED
    BY <1>3, <1>4, <1>5

\* Numbers with one more digit.
LEMMA Digits ==
  ASSUME NEW a \in Nat, NEW b \in Nat, NEW c \in Byte, NEW d \in Byte
  PROVE  /\ a * Base + c = b * Base + d <=> a = b /\ c = d
         /\ a * Base + c < b * Base + d <=> a < b \/ (a = b /\ c < d)
  <1>1. /\ Base \in Nat \ {0} /\ c \in 0..(Base - 1) /\ d \in 0..(Base - 1)
        /\ a * Base \in Nat /\ b * Base \in Nat
    BY ByteAssumption DEF Base, Byte
  <1>2. ASSUME NEW x \in Nat, NEW y \in Nat, x < y PROVE x * Base + Base <= y * Base
    <2>1. y - x - 1 \in Nat
      BY <1>2
    <2>2. (y - x - 1) * Base \in Nat
      BY <1>1, <2>1
    <2>3. (y - x - 1) * Base = y * Base - x * Base - Base
      BY <1>1
    <2>4. x * Base \in Nat /\ y * Base \in Nat
      BY <1>1
    <2>5. QED
      BY <1>1, <2>2, <2>3, <2>4
  <1>3. CASE a < b
    BY <1>1, <1>2, <1>3
  <1>4. CASE b < a
    BY <1>1, <1>2, <1>4
  <1>5. CASE a = b
    BY <1>1, <1>5
  <1>6. QED
    BY <1>3, <1>4, <1>5

\* Of two keys, padded: the first n bytes agree; or the first that differs is less.
Agree(k, o, n) == \A m \in 1..n : ByteAt(k, m) = ByteAt(o, m)
Smaller(k, o, n) == \E m \in 1..n : Agree(k, o, m - 1) /\ ByteAt(k, m) < ByteAt(o, m)

\* One more byte.
LEMMA OneMore ==
  ASSUME NEW k \in Text, NEW o \in Text, NEW n \in Nat \ {0}
  PROVE  /\ Agree(k, o, n) <=> Agree(k, o, n - 1) /\ ByteAt(k, n) = ByteAt(o, n)
         /\ Smaller(k, o, n) <=>
              Smaller(k, o, n - 1) \/ (Agree(k, o, n - 1) /\ ByteAt(k, n) < ByteAt(o, n))
  <1>1. 1..n = 1..(n - 1) \cup {n}
    OBVIOUS
  <1>2. QED
    BY <1>1 DEF Agree, Smaller

\* The numbers of the prefixes are ordered as the first bytes that differ.
LEMMA PrefixOrder ==
  ASSUME NEW k \in Text, NEW o \in Text
  PROVE  /\ bytesPrefix(k) \in Nat /\ bytesPrefix(o) \in Nat
         /\ bytesPrefix(k) = bytesPrefix(o) <=> Agree(k, o, PrefixLength)
         /\ bytesPrefix(k) < bytesPrefix(o) <=> Smaller(k, o, PrefixLength)
  <1>1. PICK f : /\ bytesPrefix(k) = f[PrefixLength]
                 /\ f[0] = 0
                 /\ \A n \in 0..PrefixLength : f[n] \in Nat
                 /\ \A n \in 1..PrefixLength : f[n] = f[n - 1] * Base + ByteAt(k, n)
    BY PrefixFacts
  <1>2. PICK g : /\ bytesPrefix(o) = g[PrefixLength]
                 /\ g[0] = 0
                 /\ \A n \in 0..PrefixLength : g[n] \in Nat
                 /\ \A n \in 1..PrefixLength : g[n] = g[n - 1] * Base + ByteAt(o, n)
    BY PrefixFacts
  <1> DEFINE Right(n) == /\ f[n] = g[n] <=> Agree(k, o, n)
                         /\ f[n] < g[n] <=> Smaller(k, o, n)
  <1>3. Right(0)
    <2>1. 1..0 = {}
      OBVIOUS
    <2>2. Agree(k, o, 0) /\ ~Smaller(k, o, 0)
      BY <2>1 DEF Agree, Smaller
    <2>3. QED
      BY <1>1, <1>2, <2>2
  <1>4. ASSUME NEW n \in 1..PrefixLength, Right(n - 1) PROVE Right(n)
    <2>1. n \in Nat \ {0} /\ n - 1 \in 0..PrefixLength
      BY PrefixLengthAssumption
    <2>2. PICK a \in Nat, b \in Nat : a = f[n - 1] /\ b = g[n - 1]
      BY <1>1, <1>2, <2>1
    <2>3. PICK c \in Byte, d \in Byte : c = ByteAt(k, n) /\ d = ByteAt(o, n)
      BY <2>1, ByteFacts
    <2>4. f[n] = a * Base + c /\ g[n] = b * Base + d
      BY <1>1, <1>2, <2>2, <2>3
    <2>5. /\ f[n] = g[n] <=> a = b /\ c = d
          /\ f[n] < g[n] <=> a < b \/ (a = b /\ c < d)
      BY <2>4, Digits
    <2>6. /\ a = b <=> Agree(k, o, n - 1)
          /\ a < b <=> Smaller(k, o, n - 1)
      BY <1>4, <2>2
    <2>7. /\ Agree(k, o, n) <=> Agree(k, o, n - 1) /\ c = d
          /\ Smaller(k, o, n) <=> Smaller(k, o, n - 1) \/ (Agree(k, o, n - 1) /\ c < d)
      BY <2>1, <2>3, OneMore
    <2>8. QED
      BY <2>5, <2>6, <2>7
  <1>5. \A n \in 0..PrefixLength : Right(n)
    <2> HIDE DEF Right
    <2> DEFINE T == {n \in 0..PrefixLength : ~Right(n)}
    <2>1. SUFFICES ASSUME T # {} PROVE FALSE
      OBVIOUS
    <2>2. T \subseteq Nat
      BY PrefixLengthAssumption
    <2>3. PICK n \in T : \A m \in T : ~(<<m, n>> \in OpToRel(<, Nat))
      BY <2>1, <2>2, WFMin, NatLessThanWellFounded
    <2>4. n \in 0..PrefixLength /\ ~Right(n)
      BY <2>3
    <2>5. \A m \in 0..PrefixLength : m < n => Right(m)
      BY <2>2, <2>3 DEF OpToRel
    <2>6. n # 0
      BY <1>3, <2>4
    <2>7. n \in 1..PrefixLength /\ n - 1 \in 0..PrefixLength /\ n - 1 < n
      BY <2>4, <2>6, PrefixLengthAssumption
    <2>8. QED
      BY <1>4, <2>4, <2>5, <2>7
  <1>6. PrefixLength \in 0..PrefixLength
    BY PrefixLengthAssumption
  <1>7. QED
    BY <1>1, <1>2, <1>5, <1>6

-----------------------------------------------------------------------------
(* The order of the bytes *)

\* The place where k turns out to be less than o.
LessAt(k, o, n) ==
  /\ n \in 0..Len(k) /\ n \in 0..Len(o) /\ n < Len(o)
  /\ \A m \in 1..n : k[m] = o[m]
  /\ n = Len(k) \/ k[n + 1] < o[n + 1]

\* One key is less than another if there is such a place.
LEMMA LessSomewhere ==
  ASSUME NEW k \in Text, NEW o \in Text
  PROVE  LexicographicallyLess(k, o) <=> \E n \in Nat : LessAt(k, o, n)
  <1>1. Len(k) \in Nat /\ Len(o) \in Nat
    BY ByteFacts
  <1>2. ASSUME LexicographicallyLess(k, o) PROVE \E n \in Nat : LessAt(k, o, n)
    <2>1. PICK n \in 0..Len(k) :
            /\ n <= Len(o)
            /\ \A m \in 1..n : k[m] = o[m]
            /\ n < Len(o)
            /\ n = Len(k) \/ k[n + 1] < o[n + 1]
      BY <1>2 DEF LexicographicallyLess
    <2>2. n \in Nat /\ n \in 0..Len(o)
      BY <1>1, <2>1
    <2>3. QED
      BY <2>1, <2>2 DEF LessAt
  <1>3. ASSUME NEW n \in Nat, LessAt(k, o, n) PROVE LexicographicallyLess(k, o)
    <2>1. n \in 0..Len(k) /\ n <= Len(o)
      BY <1>1, <1>3 DEF LessAt
    <2>2. QED
      BY <1>3, <2>1 DEF LexicographicallyLess, LessAt
  <1>4. QED
    BY <1>2, <1>3

\* A key is not less than one that is less than it, nor than itself.
LEMMA LessIsAsymmetric ==
  ASSUME NEW k \in Text, NEW o \in Text, LexicographicallyLess(k, o)
  PROVE  ~LexicographicallyLess(o, k)
  <1>1. PICK n \in Nat : LessAt(k, o, n)
    BY LessSomewhere
  <1>2. SUFFICES ASSUME NEW m \in Nat, LessAt(o, k, m) PROVE FALSE
    BY LessSomewhere
  <1>3. /\ Len(k) \in Nat /\ Len(o) \in Nat
        /\ \A l \in 1..Len(k) : k[l] \in Nat
        /\ \A l \in 1..Len(o) : o[l] \in Nat
    BY ByteFacts, ByteAssumption DEF Byte
  <1>4. n < Len(o) /\ n <= Len(k) /\ m < Len(k) /\ m <= Len(o)
    BY <1>1, <1>2, <1>3 DEF LessAt
  <1>5. CASE n < m
    <2>1. n + 1 \in 1..m /\ n # Len(k)
      BY <1>3, <1>4, <1>5
    <2>2. o[n + 1] = k[n + 1] /\ k[n + 1] < o[n + 1]
      BY <1>1, <1>2, <2>1 DEF LessAt
    <2>3. n + 1 \in 1..Len(k) /\ n + 1 \in 1..Len(o)
      BY <1>3, <1>4, <1>5
    <2>4. QED
      BY <1>3, <2>2, <2>3
  <1>6. CASE m < n
    <2>1. m + 1 \in 1..n /\ m # Len(o)
      BY <1>3, <1>4, <1>6
    <2>2. o[m + 1] = k[m + 1] /\ o[m + 1] < k[m + 1]
      BY <1>1, <1>2, <2>1 DEF LessAt
    <2>3. m + 1 \in 1..Len(k) /\ m + 1 \in 1..Len(o)
      BY <1>3, <1>4, <1>6
    <2>4. QED
      BY <1>3, <2>2, <2>3
  <1>7. CASE n = m
    <2>1. n # Len(k) /\ m # Len(o)
      BY <1>4, <1>7
    <2>2. k[n + 1] < o[n + 1] /\ o[n + 1] < k[n + 1]
      BY <1>1, <1>2, <1>7, <2>1 DEF LessAt
    <2>3. n + 1 \in 1..Len(k) /\ n + 1 \in 1..Len(o)
      BY <1>3, <1>4, <1>7
    <2>4. QED
      BY <1>3, <2>2, <2>3
  <1>8. QED
    BY <1>5, <1>6, <1>7

\* Two keys that differ are ordered, by the first byte that differs or by length.
LEMMA LessIsTotal ==
  ASSUME NEW k \in Text, NEW o \in Text, ~LexicographicallyLess(k, o), ~LexicographicallyLess(o, k)
  PROVE  k = o
  <1>1. /\ Len(k) \in Nat /\ Len(o) \in Nat
        /\ \A l \in 1..Len(k) : k[l] \in Nat
        /\ \A l \in 1..Len(o) : o[l] \in Nat
    BY ByteFacts, ByteAssumption DEF Byte
  <1>2. \A n \in Nat : ~LessAt(k, o, n) /\ ~LessAt(o, k, n)
    BY LessSomewhere
  <1> DEFINE T == {n \in Nat : n + 1 \in 1..Len(k) /\ n + 1 \in 1..Len(o) /\ k[n + 1] # o[n + 1]}
  <1>3. T = {}
    <2>1. SUFFICES ASSUME T # {} PROVE FALSE
      OBVIOUS
    <2>2. T \subseteq Nat
      OBVIOUS
    <2>3. PICK n \in T : \A m \in T : ~(<<m, n>> \in OpToRel(<, Nat))
      BY <2>1, <2>2, WFMin, NatLessThanWellFounded
    <2>4. n \in Nat /\ n + 1 \in 1..Len(k) /\ n + 1 \in 1..Len(o) /\ k[n + 1] # o[n + 1]
      BY <2>3
    <2>5. \A m \in T : ~(m < n)
      BY <2>2, <2>3 DEF OpToRel
    <2>6. ASSUME NEW l \in 1..n PROVE k[l] = o[l]
      <3>1. l - 1 \in Nat /\ l - 1 < n /\ (l - 1) + 1 = l
        BY <2>4
      <3>2. l \in 1..Len(k) /\ l \in 1..Len(o)
        BY <1>1, <2>4
      <3>3. l - 1 \notin T
        BY <2>5, <3>1
      <3>4. QED
        BY <3>1, <3>2, <3>3
    <2>7. k[n + 1] < o[n + 1] \/ o[n + 1] < k[n + 1]
      BY <1>1, <2>4
    <2>8. n \in 0..Len(k) /\ n \in 0..Len(o) /\ n < Len(o) /\ n < Len(k)
      BY <1>1, <2>4
    <2>9. LessAt(k, o, n) \/ LessAt(o, k, n)
      BY <2>6, <2>7, <2>8 DEF LessAt
    <2>10. QED
      BY <1>2, <2>4, <2>9
  <1>4. \A l \in 1..Len(k) : l \in 1..Len(o) => k[l] = o[l]
    <2>1. TAKE l \in 1..Len(k)
    <2>2. l - 1 \in Nat /\ (l - 1) + 1 = l
      OBVIOUS
    <2>3. l - 1 \notin T
      BY <1>3
    <2>4. QED
      BY <2>2, <2>3
  <1>5. Len(k) = Len(o)
    <2>1. ~(Len(k) < Len(o))
      <3>1. ASSUME Len(k) < Len(o) PROVE FALSE
        <4>1. Len(k) \in 0..Len(k) /\ Len(k) \in 0..Len(o)
          BY <1>1, <3>1
        <4>2. \A m \in 1..Len(k) : k[m] = o[m]
          BY <1>1, <1>4, <3>1
        <4>3. LessAt(k, o, Len(k))
          BY <3>1, <4>1, <4>2 DEF LessAt
        <4>4. QED
          BY <1>1, <1>2, <4>3
      <3>2. QED
        BY <3>1
    <2>2. ~(Len(o) < Len(k))
      <3>1. ASSUME Len(o) < Len(k) PROVE FALSE
        <4>1. Len(o) \in 0..Len(k) /\ Len(o) \in 0..Len(o)
          BY <1>1, <3>1
        <4>2. \A m \in 1..Len(o) : o[m] = k[m]
          BY <1>1, <1>4, <3>1
        <4>3. LessAt(o, k, Len(o))
          BY <3>1, <4>1, <4>2 DEF LessAt
        <4>4. QED
          BY <1>1, <1>2, <4>3
      <3>2. QED
        BY <3>1
    <2>3. QED
      BY <1>1, <2>1, <2>2
  <1>6. \A l \in 1..Len(k) : k[l] = o[l]
    BY <1>4, <1>5
  <1>7. QED
    BY <1>5, <1>6, SeqEqual DEF Text

\* Of three keys the first place that differs is the first of the two.
LEMMA LessIsTransitive ==
  ASSUME NEW k \in Text, NEW o \in Text, NEW p \in Text,
         LexicographicallyLess(k, o), LexicographicallyLess(o, p)
  PROVE  LexicographicallyLess(k, p)
  <1>1. PICK n \in Nat : LessAt(k, o, n)
    BY LessSomewhere
  <1>2. PICK m \in Nat : LessAt(o, p, m)
    BY LessSomewhere
  <1>3. /\ Len(k) \in Nat /\ Len(o) \in Nat /\ Len(p) \in Nat
        /\ \A l \in 1..Len(k) : k[l] \in Nat
        /\ \A l \in 1..Len(o) : o[l] \in Nat
        /\ \A l \in 1..Len(p) : p[l] \in Nat
    <2>1. Byte \subseteq Nat
      BY ByteAssumption DEF Byte
    <2>2. ASSUME NEW t \in Text PROVE Len(t) \in Nat /\ \A l \in 1..Len(t) : t[l] \in Nat
      BY <2>1, ByteFacts
    <2>3. QED
      BY <2>2
  <1>4. n < Len(o) /\ n <= Len(k) /\ m < Len(p) /\ m <= Len(o)
    BY <1>1, <1>2, <1>3 DEF LessAt
  <1>5. /\ \A l \in 1..n : k[l] = o[l]
        /\ \A l \in 1..m : o[l] = p[l]
        /\ n = Len(k) \/ k[n + 1] < o[n + 1]
        /\ m = Len(o) \/ o[m + 1] < p[m + 1]
    BY <1>1, <1>2 DEF LessAt
  <1>6. CASE n < m
    <2>1. n \in 0..Len(k) /\ n \in 0..Len(p) /\ n < Len(p)
      BY <1>3, <1>4, <1>6
    <2>2. \A l \in 1..n : k[l] = p[l]
      <3>1. \A l \in 1..n : l \in 1..m
        BY <1>6
      <3>2. QED
        BY <1>5, <3>1
    <2>3. n = Len(k) \/ k[n + 1] < p[n + 1]
      <3>1. n + 1 \in 1..m
        BY <1>6
      <3>2. QED
        BY <1>5, <3>1
    <2>4. QED
      BY <2>1, <2>2, <2>3, LessSomewhere DEF LessAt
  <1>7. CASE n >= m
    <2>1. m \in 0..Len(k) /\ m \in 0..Len(p) /\ m < Len(p) /\ m # Len(o)
      BY <1>3, <1>4, <1>7
    <2>2. \A l \in 1..m : k[l] = p[l]
      <3>1. \A l \in 1..m : l \in 1..n
        BY <1>7
      <3>2. QED
        BY <1>5, <3>1
    <2>3. m = Len(k) \/ k[m + 1] < p[m + 1]
      <3>1. o[m + 1] < p[m + 1]
        BY <1>5, <2>1
      <3>2. CASE n = m
        <4>1. CASE n = Len(k)
          BY <3>2, <4>1
        <4>2. CASE n # Len(k)
          <5>1. k[m + 1] < o[m + 1]
            BY <1>5, <3>2, <4>2
          <5>2. m + 1 \in 1..Len(k) /\ m + 1 \in 1..Len(o) /\ m + 1 \in 1..Len(p)
            BY <1>3, <1>4, <3>2, <4>2
          <5>3. QED
            BY <1>3, <3>1, <5>1, <5>2
        <4>3. QED
          BY <4>1, <4>2
      <3>3. CASE n # m
        <4>1. m + 1 \in 1..n
          BY <1>7, <3>3
        <4>2. QED
          BY <1>5, <3>1, <4>1
      <3>4. QED
        BY <3>2, <3>3
    <2>4. QED
      BY <2>1, <2>2, <2>3, LessSomewhere DEF LessAt
  <1>8. QED
    BY <1>6, <1>7

-----------------------------------------------------------------------------
(* Compare *)

\* Where the padded prefixes differ first, the keys do, or the one ends that has no
\* byte there.
LEMMA SmallerIsLess ==
  ASSUME NEW k \in Text, NEW o \in Text, Smaller(k, o, PrefixLength)
  PROVE  LexicographicallyLess(k, o)
  <1>1. PICK m \in 1..PrefixLength : Agree(k, o, m - 1) /\ ByteAt(k, m) < ByteAt(o, m)
    BY DEF Smaller
  <1>2. /\ m \in Nat \ {0} /\ Len(k) \in Nat /\ Len(o) \in Nat
        /\ ByteAt(k, m) \in Nat /\ ByteAt(o, m) \in Nat
    BY PrefixLengthAssumption, ByteFacts, ByteAssumption DEF Byte
  <1>3. m \in 1..Len(o) /\ ByteAt(o, m) = o[m]
    <2>1. ByteAt(o, m) # 0
      BY <1>1, <1>2
    <2>2. QED
      BY <1>2, <2>1, ByteFacts
  <1>4. ASSUME NEW l \in 1..(m - 1), l \in 1..Len(k) PROVE k[l] = o[l]
    <2>1. ByteAt(k, l) = ByteAt(o, l) /\ l \in 1..Len(o)
      BY <1>1, <1>2, <1>3 DEF Agree
    <2>2. QED
      BY <1>4, <2>1, ByteFacts
  <1>5. CASE m \in 1..Len(k)
    <2>1. m - 1 \in Nat /\ m - 1 \in 0..Len(k) /\ m - 1 \in 0..Len(o) /\ m - 1 < Len(o)
            /\ (m - 1) + 1 = m
      BY <1>2, <1>3, <1>5
    <2>2. \A l \in 1..(m - 1) : k[l] = o[l]
      BY <1>2, <1>4, <1>5
    <2>3. k[m] < o[m]
      BY <1>1, <1>3, <1>5, ByteFacts
    <2>4. LessAt(k, o, m - 1)
      BY <2>1, <2>2, <2>3 DEF LessAt
    <2>5. QED
      BY <2>1, <2>4, LessSomewhere
  <1>6. CASE m \notin 1..Len(k)
    <2>1. Len(k) \in 0..Len(k) /\ Len(k) \in 0..Len(o) /\ Len(k) < Len(o)
            /\ Len(k) <= m - 1
      BY <1>2, <1>3, <1>6
    <2>2. \A l \in 1..Len(k) : k[l] = o[l]
      BY <1>2, <1>4, <2>1
    <2>3. LessAt(k, o, Len(k))
      BY <2>1, <2>2 DEF LessAt
    <2>4. QED
      BY <1>2, <2>3, LessSomewhere
  <1>7. QED
    BY <1>5, <1>6

\* Of two keys with the same padded prefix, one no longer than the prefix, the
\* shorter is a prefix of the other.
LEMMA ShorterIsLess ==
  ASSUME NEW k \in Text, NEW o \in Text, Agree(k, o, PrefixLength), Len(k) <= PrefixLength,
         Len(k) < Len(o)
  PROVE  LexicographicallyLess(k, o)
  <1>1. Len(k) \in Nat /\ Len(o) \in Nat /\ Len(k) \in 0..Len(k) /\ Len(k) \in 0..Len(o)
    BY ByteFacts
  <1>2. ASSUME NEW l \in 1..Len(k) PROVE k[l] = o[l]
    <2>1. l \in 1..PrefixLength /\ l \in 1..Len(o)
      BY <1>1, PrefixLengthAssumption
    <2>2. ByteAt(k, l) = ByteAt(o, l)
      BY <2>1 DEF Agree
    <2>3. QED
      BY <2>1, <2>2, ByteFacts
  <1>3. LessAt(k, o, Len(k))
    BY <1>1, <1>2 DEF LessAt
  <1>4. QED
    BY <1>1, <1>3, LessSomewhere

\* Of the same length, they are the same.
LEMMA SameLengthIsNotLess ==
  ASSUME NEW k \in Text, NEW o \in Text, Agree(k, o, PrefixLength), Len(k) <= PrefixLength,
         Len(k) = Len(o)
  PROVE  ~LexicographicallyLess(k, o)
  <1>1. SUFFICES ASSUME NEW n \in Nat, LessAt(k, o, n) PROVE FALSE
    BY LessSomewhere
  <1>2. Len(k) \in Nat /\ n + 1 \in 1..Len(k) /\ n + 1 \in 1..Len(o) /\ n # Len(k)
    BY <1>1, ByteFacts DEF LessAt
  <1>3. k[n + 1] < o[n + 1]
    BY <1>1, <1>2 DEF LessAt
  <1>4. n + 1 \in 1..PrefixLength
    BY <1>2, PrefixLengthAssumption
  <1>5. ByteAt(k, n + 1) = ByteAt(o, n + 1)
    BY <1>4 DEF Agree
  <1>6. k[n + 1] = o[n + 1] /\ k[n + 1] \in Nat
    BY <1>2, <1>5, ByteFacts, ByteAssumption DEF Byte
  <1>7. QED
    BY <1>3, <1>6

\* Agreement is mutual.
LEMMA AgreeIsSymmetric ==
  ASSUME NEW k, NEW o, NEW n, Agree(k, o, n) PROVE Agree(o, k, n)
  BY DEF Agree

\* The shortcuts of SliceKey.Compare are right (slice.go:60-88): comparing the
\* numbers of the padded prefixes, and lengths if they tie, gives what comparing
\* all bytes does, for keys of every length and bytes of every value, zero included.
THEOREM CompareIsLexicographic ==
  \A k \in Seq(0..MaxByte), o \in Seq(0..MaxByte) : Compare(k, o) = CompareBytes(k, o)
  <1>1. SUFFICES ASSUME NEW k \in Text, NEW o \in Text PROVE Compare(k, o) = CompareBytes(k, o)
    BY DEF Text, Byte
  <1>2. /\ bytesPrefix(k) \in Nat /\ bytesPrefix(o) \in Nat
        /\ bytesPrefix(k) = bytesPrefix(o) <=> Agree(k, o, PrefixLength)
        /\ bytesPrefix(k) < bytesPrefix(o) <=> Smaller(k, o, PrefixLength)
        /\ bytesPrefix(o) < bytesPrefix(k) <=> Smaller(o, k, PrefixLength)
    BY PrefixOrder
  <1>3. Len(k) \in Nat /\ Len(o) \in Nat /\ PrefixLength \in Nat
    BY ByteFacts, PrefixLengthAssumption
  <1>4. CASE bytesPrefix(k) < bytesPrefix(o)
    <2>1. LexicographicallyLess(k, o)
      BY <1>2, <1>4, SmallerIsLess
    <2>2. Compare(k, o) = -1
      BY <1>2, <1>4 DEF Compare, CompareNumbers
    <2>3. QED
      BY <2>1, <2>2 DEF CompareBytes
  <1>5. CASE bytesPrefix(o) < bytesPrefix(k)
    <2>1. LexicographicallyLess(o, k) /\ ~LexicographicallyLess(k, o)
      BY <1>2, <1>5, SmallerIsLess, LessIsAsymmetric
    <2>2. Compare(k, o) = 1
      BY <1>2, <1>5 DEF Compare, CompareNumbers
    <2>3. QED
      BY <2>1, <2>2 DEF CompareBytes
  <1>6. CASE bytesPrefix(k) = bytesPrefix(o)
    <2>1. Agree(k, o, PrefixLength) /\ Agree(o, k, PrefixLength)
      BY <1>2, <1>6, AgreeIsSymmetric
    <2>2. CASE Len(k) > PrefixLength /\ Len(o) > PrefixLength
      BY <1>3, <1>6, <2>2 DEF Compare
    <2>3. CASE ~(Len(k) > PrefixLength /\ Len(o) > PrefixLength)
      <3>1. Compare(k, o) = CompareNumbers(Len(k), Len(o))
        BY <1>3, <1>6, <2>3 DEF Compare
      <3>2. CASE Len(k) < Len(o)
        <4>1. Len(k) <= PrefixLength
          BY <1>3, <2>3, <3>2
        <4>2. LexicographicallyLess(k, o)
          BY <2>1, <3>2, <4>1, ShorterIsLess
        <4>3. QED
          BY <3>1, <3>2, <4>2 DEF CompareNumbers, CompareBytes
      <3>3. CASE Len(o) < Len(k)
        <4>1. Len(o) <= PrefixLength
          BY <1>3, <2>3, <3>3
        <4>2. LexicographicallyLess(o, k) /\ ~LexicographicallyLess(k, o)
          BY <2>1, <3>3, <4>1, ShorterIsLess, LessIsAsymmetric
        <4>3. CompareNumbers(Len(k), Len(o)) = 1
          BY <1>3, <3>3 DEF CompareNumbers
        <4>4. QED
          BY <3>1, <4>2, <4>3 DEF CompareBytes
      <3>4. CASE Len(k) = Len(o)
        <4>1. Len(k) <= PrefixLength /\ Len(o) <= PrefixLength
          BY <1>3, <2>3, <3>4
        <4>2. ~LexicographicallyLess(k, o) /\ ~LexicographicallyLess(o, k)
          BY <2>1, <3>4, <4>1, SameLengthIsNotLess
        <4>3. CompareNumbers(Len(k), Len(o)) = 0
          BY <1>3, <3>4 DEF CompareNumbers
        <4>4. QED
          BY <3>1, <4>2, <4>3 DEF CompareBytes
      <3>5. QED
        BY <1>3, <3>2, <3>3, <3>4
    <2>4. QED
      BY <2>2, <2>3
  <1>7. QED
    BY <1>2, <1>4, <1>5, <1>6

\* The keys of slice.go are what Slices and SliceMap take keys to be
\* (KeyOrderAssumption): totally ordered by Compare, the empty key the least.
THEOREM KeysAreOrdered ==
  /\ \A k \in Seq(0..MaxByte), o \in Seq(0..MaxByte) :
       /\ Compare(k, o) \in {-1, 0, 1}
       /\ Compare(k, o) = 0 <=> k = o
       /\ Compare(k, o) = -Compare(o, k)
  /\ \A k \in Seq(0..MaxByte), o \in Seq(0..MaxByte), p \in Seq(0..MaxByte) :
       Compare(k, o) <= 0 /\ Compare(o, p) <= 0 => Compare(k, p) <= 0
  /\ \A k \in Seq(0..MaxByte) : Compare(<< >>, k) <= 0
  <1>1. ASSUME NEW k \in Text, NEW o \in Text
        PROVE  /\ Compare(k, o) \in {-1, 0, 1}
               /\ Compare(k, o) = 0 <=> k = o
               /\ Compare(k, o) = -Compare(o, k)
    <2>1. Compare(k, o) = CompareBytes(k, o) /\ Compare(o, k) = CompareBytes(o, k)
      BY CompareIsLexicographic DEF Text, Byte
    <2>2. LexicographicallyLess(k, o) => ~LexicographicallyLess(o, k)
      BY LessIsAsymmetric
    <2>3. ~LexicographicallyLess(k, o) /\ ~LexicographicallyLess(o, k) => k = o
      BY LessIsTotal
    <2>4. k = o => ~LexicographicallyLess(k, o)
      BY <2>2
    <2>5. QED
      BY <2>1, <2>2, <2>3, <2>4 DEF CompareBytes
  <1>2. ASSUME NEW k \in Text, NEW o \in Text, NEW p \in Text,
               Compare(k, o) <= 0, Compare(o, p) <= 0
        PROVE  Compare(k, p) <= 0
    <2>1. ASSUME NEW x \in Text, NEW y \in Text
          PROVE  Compare(x, y) <= 0 <=> LexicographicallyLess(x, y) \/ x = y
      <3>1. Compare(x, y) = CompareBytes(x, y) /\ (Compare(x, y) = 0 <=> x = y)
        BY <1>1, CompareIsLexicographic DEF Text, Byte
      <3>2. QED
        BY <3>1 DEF CompareBytes
    <2>2. LexicographicallyLess(k, o) \/ k = o
      BY <1>2, <2>1
    <2>3. LexicographicallyLess(o, p) \/ o = p
      BY <1>2, <2>1
    <2>4. LexicographicallyLess(k, p) \/ k = p
      BY <2>2, <2>3, LessIsTransitive
    <2>5. QED
      BY <2>1, <2>4
  <1>3. ASSUME NEW k \in Text PROVE Compare(<< >>, k) <= 0
    <2>1. << >> \in Text /\ Len(<< >>) = 0
      BY DEF Text
    <2>2. ~LexicographicallyLess(k, << >>)
      BY <2>1 DEF LexicographicallyLess
    <2>3. Compare(k, << >>) = CompareBytes(k, << >>)
      BY <2>1, CompareIsLexicographic DEF Text, Byte
    <2>4. Compare(k, << >>) \in {-1, 0, 1} /\ Compare(<< >>, k) = -Compare(k, << >>)
      BY <1>1, <2>1
    <2>5. LexicographicallyLess(<< >>, k) \/ << >> = k
      BY <2>1, <2>2, LessIsTotal
    <2>6. Compare(<< >>, k) = CompareBytes(<< >>, k)
      BY <2>1, CompareIsLexicographic DEF Text, Byte
    <2>7. CASE LexicographicallyLess(<< >>, k)
      BY <2>6, <2>7 DEF CompareBytes
    <2>8. CASE << >> = k
      BY <1>1, <2>1, <2>8
    <2>9. QED
      BY <2>5, <2>7, <2>8
  <1>4. QED
    BY <1>1, <1>2, <1>3 DEF Text, Byte

-----------------------------------------------------------------------------
\* Whatever the lengths of keys and bounds, the entry that a search finds begins at
\* or before the key and ends after it, byte by byte (slicemap.go:63-93 on top of
\* slice.go:60-88).
THEOREM SearchFindsByBytes == Spec => []FoundByBytes
  <1>1. ASSUME SliceMapInv PROVE FoundByBytes
    <2>1. SUFFICES ASSUME Searching, result # << >> PROVE FoundByBytes
      BY DEF FoundByBytes
    <2>2. /\ Contains(result[1].slice, call.key) /\ result[1].slice \in Slice /\ call.key \in Key
      <3>1. call \in Calls /\ SearchIsExact /\ SearchInv
        BY <1>1 DEF SliceMapInv, SliceMapTypeOK
      <3>2. outcome # "running"
        BY <2>1, <3>1 DEF SearchInv
      <3>3. Contains(result[1].slice, call.key) /\ call.key \in Key
        BY <2>1, <3>1, <3>2, SearchCall DEF SearchIsExact
      <3>4. result[1] \in Entry
        <4>1. PICK n \in 1..Len(left) : result[1] = left[n]
          BY <2>1, <3>1, <3>2 DEF SearchIsExact
        <4>2. QED
          BY <2>1, <3>1, <4>1, SearchCall, EntryFacts
      <3>5. QED
        BY <3>3, <3>4 DEF Entry
    <2> DEFINE s == result[1].slice
    <2>3. s.low \in Key /\ s.high \in HighKey
      BY <2>2, SliceBounds
    <2>4. ASSUME NEW k \in Key, NEW o \in Key PROVE KeyCompare(k, o) = CompareBytes(k, o)
      BY CompareIsLexicographic, ByteKeysAssumption
    <2>5. ~LexicographicallyLess(call.key, s.low)
      <3>1. CompareBytes(call.key, s.low) >= 0
        BY <2>2, <2>3, <2>4 DEF Contains
      <3>2. QED
        BY <3>1 DEF CompareBytes
    <2>6. s.high = InfinityKey \/ LexicographicallyLess(call.key, s.high)
      <3>1. SUFFICES ASSUME s.high # InfinityKey PROVE LexicographicallyLess(call.key, s.high)
        OBVIOUS
      <3>2. s.high \in Key
        BY <2>3, <3>1 DEF HighKey
      <3>3. CompareBytes(s.high, call.key) > 0
        BY <2>2, <2>4, <3>1, <3>2 DEF Contains, CompareWithKey
      <3>4. QED
        BY <3>3 DEF CompareBytes
    <2>7. QED
      BY <2>5, <2>6 DEF FoundByBytes
  <1>2. QED
    BY <1>1, SliceMapInvariance, PTL
=============================================================================
