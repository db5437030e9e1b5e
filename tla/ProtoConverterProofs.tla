------------------------- MODULE ProtoConverterProofs -------------------------
(***************************************************************************)
(* What the constructors of pkg/common/assignment.go guarantee, for every  *)
(* Assignment, the types of its conversion to and from the wire, and that  *)
(* it survives both.  The loops are recursive functions; LoopExists says   *)
(* that they are functions, Stepwise that what every iteration keeps holds *)
(* at the end.                                                             *)
(***************************************************************************)
EXTENDS ProtoConverter, FiniteSetTheorems, SequenceTheorems, WellFoundedInduction, TLAPS

-----------------------------------------------------------------------------
(* Loops *)

\* What holds before a loop and is kept by its iterations holds throughout: A is the
\* set of iterations after which it does.
LEMMA Stepwise ==
  ASSUME NEW m \in Nat, NEW A, 0 \in A, \A n \in 1..m : n - 1 \in A => n \in A
  PROVE  \A n \in 0..m : n \in A
  <1> DEFINE T == {n \in 0..m : n \notin A}
  <1>1. SUFFICES ASSUME T # {} PROVE FALSE
    OBVIOUS
  <1>2. T \subseteq Nat
    OBVIOUS
  <1>3. PICK n \in T : \A o \in T : ~(<<o, n>> \in OpToRel(<, Nat))
    BY <1>1, <1>2, WFMin, NatLessThanWellFounded
  <1>4. n \in 0..m /\ n \notin A
    BY <1>3
  <1>5. n \in 1..m /\ n - 1 \in 0..m /\ n - 1 \in Nat /\ n - 1 < n /\ n \in Nat
    BY <1>4
  <1>6. n - 1 \in A
    BY <1>3, <1>5 DEF OpToRel
  <1>7. QED
    BY <1>4, <1>5, <1>6

\* A loop of m iterations on a variable with values in S, b first; G[n] is the n-th.
IsLoop(m, S, b, G) == m \in Nat /\ b \in S /\ \A n \in 1..m : G[n] \in [S -> S]

\* f[n] is the variable's value after n iterations.
Iterates(f, m, S, b, G) ==
  /\ f \in [0..m -> S]
  /\ f[0] = b /\ \A n \in 1..m : f[n] = G[n][f[n - 1]]

\* There are such values.
LEMMA LoopExists ==
  ASSUME NEW m, NEW S, NEW b, NEW G, IsLoop(m, S, b, G)
  PROVE  \E f : Iterates(f, m, S, b, G)
  <1> DEFINE Upto(l, f) == f[0] = b /\ \A n \in 1..l : f[n] = G[n][f[n - 1]]
             A == {l \in 0..m : \E f \in [0..l -> S] : Upto(l, f)}
  <1>0. m \in Nat /\ b \in S /\ \A n \in 1..m : G[n] \in [S -> S]
    BY DEF IsLoop
  <1>1. 0 \in A
    <2>1. PICK f : f = [n \in 0..0 |-> b]
      OBVIOUS
    <2>2. f \in [0..0 -> S] /\ Upto(0, f)
      BY <1>0, <2>1
    <2>3. QED
      BY <1>0, <2>2
  <1>2. ASSUME NEW l \in 1..m, l - 1 \in A PROVE l \in A
    <2>1. PICK f \in [0..(l - 1) -> S] : Upto(l - 1, f)
      BY <1>0, <1>2
    <2>2. PICK g : g = [n \in 0..l |-> IF n = l THEN G[l][f[l - 1]] ELSE f[n]]
      OBVIOUS
    <2>3. \A n \in 0..(l - 1) : n \in 0..l /\ n # l /\ g[n] = f[n] /\ f[n] \in S
      BY <1>0, <2>1, <2>2
    <2>4. g[l] = G[l][f[l - 1]] /\ G[l][f[l - 1]] \in S
      <3>1. l \in 0..l /\ l - 1 \in 0..(l - 1)
        BY <1>0
      <3>2. QED
        BY <1>0, <2>2, <2>3, <3>1
    <2>5. g \in [0..l -> S]
      <3>1. \A n \in 0..l : n = l \/ n \in 0..(l - 1)
        BY <1>0
      <3>2. \A n \in 0..l : g[n] \in S
        BY <2>3, <2>4, <3>1
      <3>3. QED
        BY <2>2, <3>2
    <2>6. Upto(l, g)
      <3>1. g[0] = b
        BY <1>0, <2>1, <2>3
      <3>2. ASSUME NEW n \in 1..l PROVE g[n] = G[n][g[n - 1]]
        <4>1. n - 1 \in 0..(l - 1)
          BY <1>0
        <4>2. CASE n = l
          BY <2>3, <2>4, <4>1, <4>2
        <4>3. CASE n # l
          <5>1. n \in 1..(l - 1) /\ n \in 0..(l - 1)
            BY <1>0, <4>3
          <5>2. QED
            BY <2>1, <2>3, <4>1, <5>1
        <4>4. QED
          BY <4>2, <4>3
      <3>3. QED
        BY <3>1, <3>2
    <2>7. QED
      BY <2>5, <2>6
  <1>3. \A l \in 0..m : l \in A
    <2> HIDE DEF A
    <2>1. QED
      BY <1>0, <1>1, <1>2, Stepwise
  <1>4. m \in A
    BY <1>0, <1>3
  <1>5. QED
    BY <1>4 DEF Iterates

-----------------------------------------------------------------------------
(* Lists *)

LEMMA ListFacts ==
  ASSUME NEW T, NEW s \in Seq(T)
  PROVE  /\ Len(s) \in Nat /\ DOMAIN s = 1..Len(s) /\ s \in [1..Len(s) -> T]
         /\ \A n \in 1..Len(s) : s[n] \in T
         /\ Seqs!ToSet(s) = {s[n] : n \in 1..Len(s)}
         /\ Seqs!ToSet(s) \subseteq T
  <1>1. Len(s) \in Nat /\ DOMAIN s = 1..Len(s) /\ s \in [1..Len(s) -> T]
    BY LenProperties
  <1>2. \A n \in 1..Len(s) : s[n] \in T
    BY ElementOfSeq
  <1>3. QED
    BY <1>1, <1>2 DEF Seqs!ToSet

\* No element occurs twice.
Distinct(s) == \A n, m \in 1..Len(s) : s[n] = s[m] => n = m

\* That is, there are as many elements as places.
LEMMA DistinctCounts ==
  ASSUME NEW T, NEW s \in Seq(T)
  PROVE  /\ IsFiniteSet(Seqs!ToSet(s)) /\ Cardinality(Seqs!ToSet(s)) \in Nat
         /\ Distinct(s) <=> Len(s) = Cardinality(Seqs!ToSet(s))
  <1> DEFINE I == 1..Len(s)
             R == Seqs!ToSet(s)
  <1>1. Len(s) \in Nat /\ R = {s[n] : n \in I} /\ s \in [I -> R]
    BY ListFacts
  <1>2. s \in Surjection(I, R)
    BY <1>1 DEF Surjection
  <1>3. IsFiniteSet(I) /\ Cardinality(I) = Len(s)
    <2>1. Len(s) \in Int /\ 1 \in Int
      BY <1>1
    <2>2. IsFiniteSet(1..Len(s)) /\ Cardinality(1..Len(s)) = IF 1 > Len(s) THEN 0 ELSE Len(s) - 1 + 1
      BY <2>1, FS_Interval
    <2>3. QED
      BY <1>1, <2>2
  <1>4. IsFiniteSet(R) /\ (Cardinality(R) = Cardinality(I) <=> s \in Injection(I, R))
    BY <1>2, <1>3, FS_Surjection
  <1>5. s \in Injection(I, R) <=> Distinct(s)
    BY <1>1 DEF Injection, Distinct, IsInjective
  <1>6. Cardinality(R) \in Nat
    BY <1>4, FS_CardinalityType
  <1>7. QED
    BY <1>3, <1>4, <1>5, <1>6

\* The list that Those makes, after each iteration.
ThoseLoop(f, list, S) ==
  f = [n \in 0..Len(list) |->
         IF n = 0 THEN << >>
         ELSE IF list[n] \in S THEN Append(f[n - 1], list[n]) ELSE f[n - 1]]

LEMMA ThoseLoopExists ==
  ASSUME NEW T, NEW list \in Seq(T), NEW S
  PROVE  \E f : ThoseLoop(f, list, S) /\ Those(list, S) = f[Len(list)]
  <1> DEFINE m == Len(list)
             Step(n, x) == IF list[n] \in S THEN Append(x, list[n]) ELSE x
             G == [n \in 1..m |-> [x \in Seq(T) |-> Step(n, x)]]
  <1>1. m \in Nat /\ \A n \in 1..m : list[n] \in T
    BY ListFacts
  <1>2. IsLoop(m, Seq(T), << >>, G)
    <2>1. \A n \in 1..m, x \in Seq(T) : Step(n, x) \in Seq(T)
      BY <1>1, AppendProperties
    <2>2. QED
      BY <1>1, <2>1, EmptySeq DEF IsLoop
  <1>3. \A n \in 1..m, x \in Seq(T) : G[n][x] = Step(n, x)
    OBVIOUS
  <1> HIDE DEF G, m
  <1>4. PICK f : Iterates(f, m, Seq(T), << >>, G)
    BY <1>2, LoopExists
  <1>5. /\ f \in [0..m -> Seq(T)]
        /\ f[0] = << >> /\ \A n \in 1..m : f[n] = G[n][f[n - 1]]
    BY <1>4 DEF Iterates
  <1>6. \A n \in 1..m : f[n] = Step(n, f[n - 1])
    <2>1. \A n \in 1..m : n - 1 \in 0..m
      BY <1>1
    <2>2. QED
      BY <1>3, <1>5, <2>1
  <1>7. \A n \in 0..m : f[n] = IF n = 0 THEN << >> ELSE Step(n, f[n - 1])
    <2>1. \A n \in 0..m : n = 0 \/ n \in 1..m
      BY <1>1
    <2>2. QED
      BY <1>5, <1>6, <2>1
  <1>8. ThoseLoop(f, list, S)
    BY <1>5, <1>7 DEF ThoseLoop, m
  <1>9. PICK g : g = CHOOSE h : ThoseLoop(h, list, S)
    OBVIOUS
  <1>10. ThoseLoop(g, list, S)
    BY <1>8, <1>9
  <1>11. Those(list, S) = g[Len(list)]
    BY <1>9 DEF Those, ThoseLoop
  <1>12. QED
    BY <1>10, <1>11

\* x has those of the first n elements of the list that are in S, in their order: pos
\* says where they are.
Selects(pos, x, list, S, n) ==
  /\ pos \in [1..Len(x) -> 1..n]
  /\ \A m \in 1..Len(x) : x[m] = list[pos[m]]
  /\ \A m, o \in 1..Len(x) : m < o => pos[m] < pos[o]
  /\ \A i \in 1..n : list[i] \in S <=> \E m \in 1..Len(x) : pos[m] = i

\* One element more, selected or not.
LEMMA SelectsMore ==
  ASSUME NEW T, NEW list \in Seq(T), NEW S, NEW n \in 1..Len(list),
         NEW x \in Seq(T), NEW pos, Selects(pos, x, list, S, n - 1)
  PROVE  /\ list[n] \notin S => \E p : Selects(p, x, list, S, n)
         /\ list[n] \in S => \E p : Selects(p, Append(x, list[n]), list, S, n)
  <1>1. Len(x) \in Nat /\ n \in Nat /\ list[n] \in T /\ Len(list) \in Nat
    BY ListFacts
  <1>2. /\ pos \in [1..Len(x) -> 1..(n - 1)]
        /\ \A m \in 1..Len(x) : x[m] = list[pos[m]]
        /\ \A m, o \in 1..Len(x) : m < o => pos[m] < pos[o]
        /\ \A i \in 1..(n - 1) : list[i] \in S <=> \E m \in 1..Len(x) : pos[m] = i
    BY DEF Selects
  <1>3. \A m \in 1..Len(x) : pos[m] \in 1..(n - 1) /\ pos[m] \in 1..n /\ pos[m] # n
    BY <1>1, <1>2
  <1>4. \A i \in 1..n : i \in 1..(n - 1) \/ i = n
    BY <1>1
  <1>5. ASSUME list[n] \notin S PROVE \E p : Selects(p, x, list, S, n)
    <2>1. pos \in [1..Len(x) -> 1..n]
      BY <1>2, <1>3
    <2>2. \A i \in 1..n : list[i] \in S <=> \E m \in 1..Len(x) : pos[m] = i
      BY <1>2, <1>3, <1>4, <1>5
    <2>3. QED
      BY <1>2, <2>1, <2>2 DEF Selects
  <1>6. ASSUME list[n] \in S PROVE \E p : Selects(p, Append(x, list[n]), list, S, n)
    <2> DEFINE y == Append(x, list[n])
    <2>1. /\ Len(y) = Len(x) + 1 /\ y[Len(x) + 1] = list[n]
          /\ \A m \in 1..Len(x) : y[m] = x[m]
      BY <1>1, AppendProperties
    <2> HIDE DEF y
    <2>2. PICK p : p = [m \in 1..Len(y) |-> IF m = Len(x) + 1 THEN n ELSE pos[m]]
      OBVIOUS
    <2>3. \A m \in 1..Len(y) : m \in 1..Len(x) \/ m = Len(x) + 1
      BY <1>1, <2>1
    <2>4. /\ Len(x) + 1 \in 1..Len(y) /\ p[Len(x) + 1] = n
          /\ \A m \in 1..Len(x) : m \in 1..Len(y) /\ m # Len(x) + 1 /\ p[m] = pos[m]
      BY <1>1, <2>1, <2>2
    <2>5. p \in [1..Len(y) -> 1..n]
      <3>1. n \in 1..n
        BY <1>1
      <3>2. \A m \in 1..Len(y) : p[m] \in 1..n
        BY <1>3, <2>3, <2>4, <3>1
      <3>3. QED
        BY <2>2, <3>2
    <2>6. \A m \in 1..Len(y) : y[m] = list[p[m]]
      BY <1>2, <2>1, <2>3, <2>4
    <2>7. ASSUME NEW m \in 1..Len(y), NEW o \in 1..Len(y), m < o PROVE p[m] < p[o]
      <3>1. m \in 1..Len(x)
        BY <1>1, <2>1, <2>7
      <3>2. CASE o \in 1..Len(x)
        BY <1>2, <2>4, <2>7, <3>1, <3>2
      <3>3. CASE o = Len(x) + 1
        <4>1. p[m] \in 1..(n - 1) /\ p[o] = n
          BY <1>3, <2>4, <3>1, <3>3
        <4>2. QED
          BY <1>1, <4>1
      <3>4. QED
        BY <2>3, <3>2, <3>3
    <2>8. ASSUME NEW i \in 1..n PROVE list[i] \in S <=> \E m \in 1..Len(y) : p[m] = i
      <3>1. CASE i = n
        BY <1>6, <2>4, <3>1
      <3>2. CASE i # n
        <4>1. i \in 1..(n - 1)
          BY <1>4, <3>2
        <4>2. list[i] \in S <=> \E m \in 1..Len(x) : pos[m] = i
          BY <1>2, <4>1
        <4>3. (\E m \in 1..Len(x) : pos[m] = i) <=> (\E m \in 1..Len(y) : p[m] = i)
          BY <2>3, <2>4, <3>2
        <4>4. QED
          BY <4>2, <4>3
      <3>3. QED
        BY <3>1, <3>2
    <2>9. Selects(p, y, list, S, n)
      BY <2>5, <2>6, <2>7, <2>8 DEF Selects
    <2>10. QED
      BY <2>9 DEF y
  <1>7. QED
    BY <1>5, <1>6

LEMMA ThoseFacts ==
  ASSUME NEW T, NEW list \in Seq(T), NEW S
  PROVE  /\ Those(list, S) \in Seq(T)
         /\ \E pos : Selects(pos, Those(list, S), list, S, Len(list))
  <1> DEFINE m == Len(list)
  <1>1. m \in Nat /\ \A n \in 1..m : list[n] \in T
    BY ListFacts
  <1>2. PICK f : ThoseLoop(f, list, S) /\ Those(list, S) = f[m]
    BY ThoseLoopExists
  <1>3. \A n \in 0..m : f[n] = IF n = 0 THEN << >>
                               ELSE IF list[n] \in S THEN Append(f[n - 1], list[n]) ELSE f[n - 1]
    BY <1>2 DEF ThoseLoop
  <1> DEFINE A == {n \in 0..m : f[n] \in Seq(T) /\ \E pos : Selects(pos, f[n], list, S, n)}
  <1>4. 0 \in A
    <2>1. f[0] = << >>
      BY <1>1, <1>3
    <2>2. << >> \in Seq(T) /\ Len(<< >>) = 0
      BY EmptySeq
    <2>3. PICK pos : pos = [i \in 1..0 |-> i]
      OBVIOUS
    <2>4. \A i : i \notin 1..0
      OBVIOUS
    <2>5. pos \in [1..0 -> 1..0]
      BY <2>3
    <2>6. Selects(pos, << >>, list, S, 0)
      BY <2>2, <2>4, <2>5 DEF Selects
    <2>7. f[0] \in Seq(T) /\ \E p : Selects(p, f[0], list, S, 0)
      BY <2>1, <2>2, <2>6
    <2>8. 0 \in 0..m
      BY <1>1
    <2>9. QED
      BY <2>7, <2>8
  <1>5. ASSUME NEW n \in 1..m, n - 1 \in A PROVE n \in A
    <2>1. f[n - 1] \in Seq(T) /\ \E pos : Selects(pos, f[n - 1], list, S, n - 1)
      BY <1>5
    <2>2. n \in 0..m /\ n # 0
      BY <1>1
    <2>3. f[n] = IF list[n] \in S THEN Append(f[n - 1], list[n]) ELSE f[n - 1]
      BY <1>3, <2>2
    <2>4. /\ list[n] \notin S => \E p : Selects(p, f[n - 1], list, S, n)
          /\ list[n] \in S => \E p : Selects(p, Append(f[n - 1], list[n]), list, S, n)
      BY <2>1, SelectsMore
    <2>5. f[n] \in Seq(T)
      BY <1>1, <2>1, <2>3, AppendProperties
    <2>6. QED
      BY <2>2, <2>3, <2>4, <2>5
  <1>6. m \in 0..m
    BY <1>1
  <1>7. m \in A
    <2> HIDE DEF A, m
    <2>1. \A n \in 0..m : n \in A
      BY <1>1, <1>4, <1>5, Stepwise
    <2>2. QED
      BY <1>6, <2>1
  <1>8. QED
    BY <1>2, <1>7

\* One element more at the end.
LEMMA AppendFacts ==
  ASSUME NEW T, NEW s \in Seq(T), NEW e \in T
  PROVE  /\ Append(s, e) \in Seq(T) /\ Len(Append(s, e)) = Len(s) + 1
         /\ Append(s, e)[Len(s) + 1] = e
         /\ \A n \in 1..Len(s) : Append(s, e)[n] = s[n]
         /\ Seqs!ToSet(Append(s, e)) = Seqs!ToSet(s) \cup {e}
         /\ Distinct(s) /\ e \notin Seqs!ToSet(s) => Distinct(Append(s, e))
  <1> DEFINE t == Append(s, e)
  <1>1. /\ t \in Seq(T) /\ Len(t) = Len(s) + 1 /\ t[Len(s) + 1] = e
        /\ \A n \in 1..Len(s) : t[n] = s[n]
    BY AppendProperties
  <1>2. Len(s) \in Nat /\ Seqs!ToSet(s) = {s[n] : n \in 1..Len(s)}
    BY ListFacts
  <1> HIDE DEF t
  <1>3. Seqs!ToSet(t) = {t[n] : n \in 1..Len(t)}
    BY <1>1, ListFacts
  <1>4. \A n \in 1..Len(t) : n \in 1..Len(s) \/ n = Len(s) + 1
    BY <1>1, <1>2
  <1>5. Len(s) + 1 \in 1..Len(t) /\ \A n \in 1..Len(s) : n \in 1..Len(t)
    BY <1>1, <1>2
  <1>6. Seqs!ToSet(t) = Seqs!ToSet(s) \cup {e}
    BY <1>1, <1>2, <1>3, <1>4, <1>5
  <1>7. ASSUME Distinct(s), e \notin Seqs!ToSet(s) PROVE Distinct(t)
    <2>1. \A n \in 1..Len(s) : t[n] # e
      BY <1>1, <1>2, <1>7
    <2>2. \A n, m \in 1..Len(s) : t[n] = t[m] => n = m
      BY <1>1, <1>7 DEF Distinct
    <2>3. \A n, m \in 1..Len(t) : t[n] = t[m] => n = m
      BY <1>1, <1>4, <2>1, <2>2
    <2>4. QED
      BY <2>3 DEF Distinct
  <1>8. QED
    BY <1>1, <1>6, <1>7 DEF t

\* The list that Added makes, after each iteration.
AddedLoop(f, seen, list) ==
  f = [n \in 0..Len(list) |->
         IF n = 0 THEN seen
         ELSE IF list[n] \in Seqs!ToSet(f[n - 1]) THEN f[n - 1] ELSE Append(f[n - 1], list[n])]

LEMMA AddedLoopExists ==
  ASSUME NEW T, NEW seen \in Seq(T), NEW list \in Seq(T)
  PROVE  \E f : AddedLoop(f, seen, list) /\ Added(seen, list) = f[Len(list)]
  <1> DEFINE m == Len(list)
             Step(n, x) == IF list[n] \in Seqs!ToSet(x) THEN x ELSE Append(x, list[n])
             G == [n \in 1..m |-> [x \in Seq(T) |-> Step(n, x)]]
  <1>1. m \in Nat /\ \A n \in 1..m : list[n] \in T
    BY ListFacts
  <1>2. IsLoop(m, Seq(T), seen, G)
    <2>1. \A n \in 1..m, x \in Seq(T) : Step(n, x) \in Seq(T)
      BY <1>1, AppendProperties
    <2> HIDE DEF Step
    <2>2. QED
      BY <1>1, <2>1 DEF IsLoop
  <1>3. \A n \in 1..m, x \in Seq(T) : G[n][x] = Step(n, x)
    <2> HIDE DEF Step
    <2>1. QED
      OBVIOUS
  <1> HIDE DEF G, m
  <1>4. PICK f : Iterates(f, m, Seq(T), seen, G)
    BY <1>2, LoopExists
  <1>5. /\ f \in [0..m -> Seq(T)]
        /\ f[0] = seen /\ \A n \in 1..m : f[n] = G[n][f[n - 1]]
    BY <1>4 DEF Iterates
  <1>6. \A n \in 1..m : f[n] = Step(n, f[n - 1])
    <2>1. \A n \in 1..m : n - 1 \in 0..m
      BY <1>1
    <2> HIDE DEF Step
    <2>2. QED
      BY <1>3, <1>5, <2>1
  <1>7. \A n \in 0..m : f[n] = IF n = 0 THEN seen ELSE Step(n, f[n - 1])
    <2>1. \A n \in 0..m : n = 0 \/ n \in 1..m
      BY <1>1
    <2> HIDE DEF Step
    <2>2. QED
      BY <1>5, <1>6, <2>1
  <1>8. AddedLoop(f, seen, list)
    BY <1>5, <1>7 DEF AddedLoop, m
  <1>9. PICK g : g = CHOOSE h : AddedLoop(h, seen, list)
    OBVIOUS
  <1>10. AddedLoop(g, seen, list)
    BY <1>8, <1>9
  <1>11. Added(seen, list) = g[Len(list)]
    BY <1>9 DEF Added, AddedLoop
  <1>12. QED
    BY <1>10, <1>11

\* x continues the list seen by those of the first n elements of another that it lacks.
Continues(x, seen, list, n) ==
  /\ Seqs!ToSet(x) = Seqs!ToSet(seen) \cup {list[i] : i \in 1..n}
  /\ Distinct(seen) => Distinct(x)
  /\ Len(seen) <= Len(x) /\ \A m \in 1..Len(seen) : x[m] = seen[m]

LEMMA AddedFacts ==
  ASSUME NEW T, NEW seen \in Seq(T), NEW list \in Seq(T)
  PROVE  /\ Added(seen, list) \in Seq(T)
         /\ Continues(Added(seen, list), seen, list, Len(list))
  <1> DEFINE m == Len(list)
  <1>1. m \in Nat /\ Len(seen) \in Nat /\ \A n \in 1..m : list[n] \in T
    BY ListFacts
  <1>2. PICK f : AddedLoop(f, seen, list) /\ Added(seen, list) = f[m]
    BY AddedLoopExists
  <1>3. \A n \in 0..m : f[n] = IF n = 0 THEN seen
                               ELSE IF list[n] \in Seqs!ToSet(f[n - 1]) THEN f[n - 1]
                               ELSE Append(f[n - 1], list[n])
    BY <1>2 DEF AddedLoop
  <1> DEFINE A == {n \in 0..m : f[n] \in Seq(T) /\ Continues(f[n], seen, list, n)}
  <1>4. 0 \in A
    <2>1. f[0] = seen
      BY <1>1, <1>3
    <2>2. {list[i] : i \in 1..0} = {}
      OBVIOUS
    <2>3. Continues(seen, seen, list, 0)
      BY <1>1, <2>2 DEF Continues
    <2>4. QED
      BY <1>1, <2>1, <2>3
  <1>5. ASSUME NEW n \in 1..m, n - 1 \in A PROVE n \in A
    <2>1. PICK x : x = f[n - 1]
      OBVIOUS
    <2>2. x \in Seq(T) /\ Continues(x, seen, list, n - 1)
      BY <1>5, <2>1
    <2>3. n \in 0..m /\ n # 0 /\ list[n] \in T
      BY <1>1
    <2>4. f[n] = IF list[n] \in Seqs!ToSet(x) THEN x ELSE Append(x, list[n])
      BY <1>3, <2>1, <2>3
    <2>5. {list[i] : i \in 1..n} = {list[i] : i \in 1..(n - 1)} \cup {list[n]}
      <3>1. \A i : i \in 1..n <=> i \in 1..(n - 1) \/ i = n
        BY <1>1
      <3>2. QED
        BY <3>1
    <2>6. Len(x) \in Nat
      BY <2>2, ListFacts
    <2>7. CASE list[n] \in Seqs!ToSet(x)
      <3>1. Continues(x, seen, list, n)
        BY <2>2, <2>5, <2>7 DEF Continues
      <3>2. QED
        BY <2>2, <2>3, <2>4, <2>7, <3>1
    <2>8. CASE list[n] \notin Seqs!ToSet(x)
      <3>1. PICK y : y = Append(x, list[n])
        OBVIOUS
      <3>2. /\ y \in Seq(T) /\ Len(y) = Len(x) + 1
            /\ \A i \in 1..Len(x) : y[i] = x[i]
            /\ Seqs!ToSet(y) = Seqs!ToSet(x) \cup {list[n]}
            /\ Distinct(x) => Distinct(y)
        BY <2>2, <2>3, <2>8, <3>1, AppendFacts
      <3>3. Len(seen) <= Len(y) /\ \A i \in 1..Len(seen) : y[i] = seen[i]
        <4>1. Len(seen) <= Len(x) /\ \A i \in 1..Len(seen) : x[i] = seen[i]
          BY <2>2 DEF Continues
        <4>2. \A i \in 1..Len(seen) : i \in 1..Len(x)
          BY <1>1, <2>6, <4>1
        <4>3. QED
          BY <1>1, <2>6, <3>2, <4>1, <4>2
      <3>4. Seqs!ToSet(y) = Seqs!ToSet(seen) \cup {list[i] : i \in 1..n}
        BY <2>2, <2>5, <3>2 DEF Continues
      <3>5. Continues(y, seen, list, n)
        BY <2>2, <3>2, <3>3, <3>4 DEF Continues
      <3>6. f[n] = y
        BY <2>4, <2>8, <3>1
      <3>7. QED
        BY <2>3, <3>2, <3>5, <3>6
    <2>9. QED
      BY <2>7, <2>8
  <1>6. m \in 0..m
    BY <1>1
  <1>7. m \in A
    <2> HIDE DEF A, m
    <2>1. \A n \in 0..m : n \in A
      BY <1>1, <1>4, <1>5, Stepwise
    <2>2. QED
      BY <1>6, <2>1
  <1>8. QED
    BY <1>2, <1>7

-----------------------------------------------------------------------------
(* Slices in order *)

LEMMA SliceFacts ==
  ASSUME NEW s \in Slice
  PROVE  /\ s.low \in Key /\ s.high \in HighKey
         /\ s.high # InfinityKey => s.high \in Key /\ KeyCompare(s.low, s.high) <= 0
  <1>1. s.low \in Key /\ s.high \in HighKey /\ CompareWithKey(s.high, s.low) > 0
    BY DEF Slice, IsSlice
  <1>2. ASSUME s.high # InfinityKey PROVE s.high \in Key /\ KeyCompare(s.low, s.high) <= 0
    <2>1. s.high \in Key /\ KeyCompare(s.high, s.low) > 0
      BY <1>1, <1>2 DEF HighKey, CompareWithKey
    <2>2. KeyCompare(s.high, s.low) = -KeyCompare(s.low, s.high)
          /\ KeyCompare(s.low, s.high) \in {-1, 0, 1}
      BY <1>1, <2>1, KeyOrderAssumption
    <2>3. QED
      BY <2>1, <2>2
  <1>3. QED
    BY <1>1, <1>2

\* If each slice of a list ends before the next one begins, it ends before all that
\* come after it.
LEMMA NeighboursOrder ==
  ASSUME NEW l \in Nat, NEW ss, \A n \in 1..l : ss[n] \in Slice,
         \A n \in 1..(l - 1) : CompareWithKey(ss[n].high, ss[n + 1].low) <= 0
  PROVE  \A n, m \in 1..l : n < m => CompareWithKey(ss[n].high, ss[m].low) <= 0
  <1>1. SUFFICES ASSUME NEW n \in 1..l PROVE \A m \in 1..l : n < m => CompareWithKey(ss[n].high, ss[m].low) <= 0
    OBVIOUS
  <1> DEFINE Before(m) == CompareWithKey(ss[n].high, ss[m].low) <= 0
             A == {d \in 0..(l - n) : d = 0 \/ Before(n + d)}
  <1>2. n \in Nat /\ l - n \in Nat
    OBVIOUS
  <1>3. 0 \in A
    BY <1>2
  <1>4. ASSUME NEW d \in 1..(l - n), d - 1 \in A PROVE d \in A
    <2>1. PICK m : m = n + d
      OBVIOUS
    <2>2. m \in 1..l /\ m - 1 \in 1..(l - 1) /\ m - 1 \in 1..l /\ (m - 1) + 1 = m
      BY <1>2, <2>1
    <2>3. CompareWithKey(ss[m - 1].high, ss[m].low) <= 0
      BY <2>2
    <2>4. CASE d = 1
      BY <1>2, <2>1, <2>3, <2>4
    <2>5. CASE d # 1
      <3>1. d - 1 # 0 /\ n + (d - 1) = m - 1
        BY <1>2, <2>1, <2>5
      <3>2. Before(m - 1)
        <4> HIDE DEF Before
        <4>1. QED
          BY <1>4, <3>1
      <3>3. PICK r \in Slice, s \in Slice, t \in Slice : r = ss[n] /\ s = ss[m - 1] /\ t = ss[m]
        BY <2>2
      <3>4. CompareWithKey(r.high, s.low) <= 0 /\ CompareWithKey(s.high, t.low) <= 0
        BY <2>3, <3>2, <3>3
      <3>5. r.high # InfinityKey /\ s.high # InfinityKey
        BY <3>4 DEF CompareWithKey
      <3>6. /\ r.high \in Key /\ s.low \in Key /\ s.high \in Key /\ t.low \in Key
            /\ KeyCompare(r.high, s.low) <= 0 /\ KeyCompare(s.low, s.high) <= 0
            /\ KeyCompare(s.high, t.low) <= 0
        BY <3>4, <3>5, SliceFacts DEF CompareWithKey
      <3>7. KeyCompare(r.high, s.high) <= 0
        BY <3>6, KeyOrderAssumption
      <3>8. KeyCompare(r.high, t.low) <= 0
        BY <3>6, <3>7, KeyOrderAssumption
      <3>9. Before(m)
        BY <3>3, <3>5, <3>8 DEF CompareWithKey
      <3>10. QED
        BY <2>1, <3>9
    <2>6. QED
      BY <2>4, <2>5
  <1>5. \A d \in 0..(l - n) : d \in A
    <2> HIDE DEF A
    <2>1. QED
      BY <1>2, <1>3, <1>4, Stepwise
  <1>6. ASSUME NEW m \in 1..l, n < m PROVE Before(m)
    <2>1. m - n \in 0..(l - n) /\ m - n # 0 /\ n + (m - n) = m
      BY <1>2, <1>6
    <2>2. Before(n + (m - n))
      <3> HIDE DEF Before
      <3>1. QED
        BY <1>5, <2>1
    <2>3. QED
      BY <2>1, <2>2
  <1>7. QED
    BY <1>6

\* A list of entries with slices.
Entries(list) ==
  list \in Seq(Seqs!ToSet(list)) /\ \A n \in 1..Len(list) : list[n].slice \in Slice

\* In a complete list each key is in one entry, and in one only.
LEMMA OneEntry ==
  ASSUME NEW list, Entries(list), Complete(list), NEW k \in Key
  PROVE  \E n \in 1..Len(list) :
           /\ Contains(list[n].slice, k)
           /\ \A m \in 1..Len(list) : Contains(list[m].slice, k) => m = n
  <1> DEFINE l == Len(list)
  <1>1. l \in Nat /\ \A n \in 1..l : list[n].slice \in Slice
    BY ListFacts DEF Entries
  <1>2. \A n \in 1..l : list[n].slice.low \in Key /\ list[n].slice.high \in HighKey
    BY <1>1, SliceFacts
  <1>3. \A n \in 1..(l - 1) :
          /\ list[n].slice.high # InfinityKey
          /\ KeyCompare(list[n].slice.high, list[n + 1].slice.low) = 0
    BY DEF Complete, Meets
  <1>4. \A m, n \in 1..l : Contains(list[n].slice, k) /\ Contains(list[m].slice, k) => ~(n < m)
    <2>1. SUFFICES ASSUME NEW m \in 1..l, NEW n \in 1..l, n < m,
                          Contains(list[n].slice, k), Contains(list[m].slice, k)
                   PROVE  FALSE
      OBVIOUS
    <2>2. PICK ss : ss = [p \in 1..l |-> list[p].slice]
      OBVIOUS
    <2>3. \A p \in 1..l : ss[p] = list[p].slice /\ ss[p] \in Slice
      BY <1>1, <2>2
    <2>4. ASSUME NEW p \in 1..(l - 1) PROVE CompareWithKey(ss[p].high, ss[p + 1].low) <= 0
      <3>1. p \in 1..l /\ p + 1 \in 1..l
        BY <1>1
      <3>2. PICK s, t : s = list[p].slice /\ t = list[p + 1].slice
        OBVIOUS
      <3>3. s.high # InfinityKey /\ KeyCompare(s.high, t.low) = 0
        BY <1>3, <3>2
      <3>4. CompareWithKey(s.high, t.low) <= 0
        BY <3>3 DEF CompareWithKey
      <3>5. ss[p] = s /\ ss[p + 1] = t
        BY <2>3, <3>1, <3>2
      <3>6. QED
        BY <3>4, <3>5
    <2>5. CompareWithKey(ss[n].high, ss[m].low) <= 0
      BY <1>1, <2>1, <2>3, <2>4, NeighboursOrder
    <2>6. PICK s \in Slice, t \in Slice : s = ss[n] /\ t = ss[m]
      BY <2>3
    <2>7. /\ CompareWithKey(s.high, t.low) <= 0 /\ CompareWithKey(s.high, k) > 0
          /\ KeyCompare(k, t.low) >= 0
      BY <2>1, <2>3, <2>5, <2>6 DEF Contains
    <2>8. s.high # InfinityKey
      BY <2>7 DEF CompareWithKey
    <2>9. /\ s.high \in Key /\ t.low \in Key
          /\ KeyCompare(s.high, t.low) <= 0 /\ KeyCompare(s.high, k) > 0
      BY <2>7, <2>8, SliceFacts DEF CompareWithKey
    <2>10. KeyCompare(t.low, k) <= 0
      <3>1. KeyCompare(t.low, k) = -KeyCompare(k, t.low) /\ KeyCompare(k, t.low) \in {-1, 0, 1}
        BY <2>9, KeyOrderAssumption
      <3>2. QED
        BY <2>7, <3>1
    <2>11. KeyCompare(s.high, k) <= 0
      BY <2>9, <2>10, KeyOrderAssumption
    <2>12. KeyCompare(s.high, k) \in {-1, 0, 1}
      BY <2>9, KeyOrderAssumption
    <2>13. QED
      BY <2>9, <2>11, <2>12
  <1>5. \E n \in 1..l : Contains(list[n].slice, k)
    <2>1. SUFFICES ASSUME \A n \in 1..l : ~Contains(list[n].slice, k) PROVE FALSE
      OBVIOUS
    <2> DEFINE Ends(n) == CompareWithKey(list[n].slice.high, k) > 0
               A == {n \in 0..l : n = 0 \/ ~Ends(n)}
    <2>2. 0 \in A
      BY <1>1
    <2>3. ASSUME NEW n \in 1..l, n - 1 \in A PROVE n \in A
      <3>1. KeyCompare(k, list[n].slice.low) >= 0
        <4>1. CASE n = 1
          <5>1. list[1].slice.low = MinSliceKey
            BY DEF Complete
          <5>2. KeyCompare(MinSliceKey, k) <= 0 /\ KeyCompare(MinSliceKey, k) \in {-1, 0, 1}
                /\ KeyCompare(k, MinSliceKey) = -KeyCompare(MinSliceKey, k)
            BY KeyOrderAssumption, KeyAssumption
          <5>3. QED
            BY <4>1, <5>1, <5>2
        <4>2. CASE n # 1
          <5>1. n - 1 \in 1..(l - 1) /\ n - 1 \in 1..l /\ (n - 1) + 1 = n
            BY <1>1, <4>2
          <5>2. PICK s \in Slice, t \in Slice : s = list[n - 1].slice /\ t = list[n].slice
            BY <1>1, <5>1
          <5>3. ~(CompareWithKey(s.high, k) > 0)
            BY <2>3, <5>1, <5>2
          <5>4. s.high # InfinityKey /\ KeyCompare(s.high, t.low) = 0
            BY <1>3, <5>1, <5>2
          <5>5. s.high \in Key /\ t.low \in Key /\ ~(KeyCompare(s.high, k) > 0)
            BY <5>3, <5>4, SliceFacts DEF CompareWithKey
          <5>6. s.high = t.low
            BY <5>4, <5>5, KeyOrderAssumption
          <5>7. KeyCompare(k, s.high) = -KeyCompare(s.high, k) /\ KeyCompare(s.high, k) \in {-1, 0, 1}
            BY <5>5, KeyOrderAssumption
          <5>8. KeyCompare(k, s.high) >= 0
            BY <5>5, <5>7
          <5>9. QED
            BY <5>2, <5>6, <5>8
        <4>3. QED
          BY <4>1, <4>2
      <3>2. ~Ends(n)
        BY <2>1, <3>1 DEF Contains
      <3>3. n \in 0..l
        BY <1>1
      <3>4. QED
        BY <3>2, <3>3
    <2>4. l \in 0..l
      BY <1>1
    <2>5. l \in A
      <3> HIDE DEF A, l
      <3>1. \A n \in 0..l : n \in A
        BY <1>1, <2>2, <2>3, Stepwise
      <3>2. QED
        BY <2>4, <3>1
    <2>6. l # 0 /\ Ends(l)
      <3>1. list[l].slice.high = InfinityKey
        BY DEF Complete
      <3>2. Ends(l)
        BY <3>1 DEF CompareWithKey
      <3>3. l # 0
        <4>1. list \in Seq(Seqs!ToSet(list)) /\ list # << >>
          BY DEF Entries, Complete
        <4>2. QED
          BY <4>1, EmptySeq
      <3>4. QED
        BY <3>2, <3>3
    <2>7. QED
      BY <2>5, <2>6
  <1>6. QED
    BY <1>1, <1>4, <1>5

-----------------------------------------------------------------------------
(* Assignments *)

LEMMA SliceAssignmentFacts ==
  ASSUME NEW list, AreSliceAssignments(list)
  PROVE  /\ list \in Seq(Seqs!ToSet(list)) /\ Len(list) \in Nat /\ DOMAIN list = 1..Len(list)
         /\ Seqs!ToSet(list) = {list[n] : n \in 1..Len(list)}
         /\ Entries(list)
         /\ \A n \in 1..Len(list) : IsSliceRecord(list[n]) /\ IsSliceAssignment(list[n])
         /\ \A n \in 1..Len(list) : list[n].resources \in Seq(Squid)
  <1>1. /\ list \in Seq(Seqs!ToSet(list))
        /\ \A n \in DOMAIN list : IsSliceRecord(list[n]) /\ IsSliceAssignment(list[n])
    BY DEF AreSliceAssignments
  <1>2. /\ Len(list) \in Nat /\ DOMAIN list = 1..Len(list)
        /\ Seqs!ToSet(list) = {list[n] : n \in 1..Len(list)}
    BY <1>1, ListFacts
  <1>3. \A n \in 1..Len(list) : list[n].slice \in Slice /\ list[n].resources \in Seq(Squid)
    BY <1>1, <1>2 DEF IsSliceRecord
  <1>4. QED
    BY <1>1, <1>2, <1>3 DEF Entries

\* The list that Resources makes, after each slice.
ResourcesLoop(f, list) ==
  f = [n \in 0..Len(list) |-> IF n = 0 THEN << >> ELSE Added(f[n - 1], list[n].resources)]

LEMMA ResourcesLoopExists ==
  ASSUME NEW a, AreSliceAssignments(a.sliceMap)
  PROVE  \E f : ResourcesLoop(f, a.sliceMap) /\ Resources(a) = f[Len(a.sliceMap)]
  <1> DEFINE list == a.sliceMap
             m == Len(list)
             T == Squid
             Step(n, x) == Added(x, list[n].resources)
             G == [n \in 1..m |-> [x \in Seq(T) |-> Step(n, x)]]
  <1>1. m \in Nat /\ \A n \in 1..m : list[n].resources \in Seq(T)
    BY SliceAssignmentFacts
  <1>2. IsLoop(m, Seq(T), << >>, G)
    <2>1. \A n \in 1..m, x \in Seq(T) : Step(n, x) \in Seq(T)
      <3>1. SUFFICES ASSUME NEW n \in 1..m, NEW x \in Seq(T) PROVE Step(n, x) \in Seq(T)
        OBVIOUS
      <3>2. PICK y \in Seq(T) : y = list[n].resources
        BY <1>1
      <3>3. Added(x, y) \in Seq(T)
        BY AddedFacts
      <3>4. QED
        BY <3>2, <3>3
    <2> HIDE DEF Step, T, m
    <2>2. << >> \in Seq(T)
      BY EmptySeq
    <2>3. QED
      BY <1>1, <2>1, <2>2 DEF IsLoop
  <1>3. \A n \in 1..m, x \in Seq(T) : G[n][x] = Step(n, x)
    <2> HIDE DEF Step, m
    <2>1. QED
      OBVIOUS
  <1> HIDE DEF G, m, T
  <1>4. PICK f : Iterates(f, m, Seq(T), << >>, G)
    BY <1>2, LoopExists
  <1>5. /\ f \in [0..m -> Seq(T)]
        /\ f[0] = << >> /\ \A n \in 1..m : f[n] = G[n][f[n - 1]]
    BY <1>4 DEF Iterates
  <1>6. \A n \in 1..m : f[n] = Step(n, f[n - 1])
    <2>1. \A n \in 1..m : n - 1 \in 0..m
      BY <1>1
    <2> HIDE DEF Step
    <2>2. QED
      BY <1>3, <1>5, <2>1
  <1>7. \A n \in 0..m : f[n] = IF n = 0 THEN << >> ELSE Step(n, f[n - 1])
    <2>1. \A n \in 0..m : n = 0 \/ n \in 1..m
      BY <1>1
    <2> HIDE DEF Step
    <2>2. QED
      BY <1>5, <1>6, <2>1
  <1>8. ResourcesLoop(f, list)
    BY <1>5, <1>7 DEF ResourcesLoop, m
  <1>9. PICK g : g = CHOOSE h : ResourcesLoop(h, list)
    OBVIOUS
  <1>10. ResourcesLoop(g, list)
    BY <1>8, <1>9
  <1>11. Resources(a) = g[Len(list)]
    BY <1>9 DEF Resources, ResourcesLoop
  <1>12. QED
    BY <1>10, <1>11

\* Resources lists those of the slices, each once.
LEMMA ResourcesFacts ==
  ASSUME NEW a, AreSliceAssignments(a.sliceMap)
  PROVE  /\ Resources(a) \in Seq(Squid) /\ Distinct(Resources(a))
         /\ \A r : r \in Seqs!ToSet(Resources(a)) <=> \E n \in 1..Len(a.sliceMap) : Owns(a.sliceMap[n], r)
  <1> DEFINE list == a.sliceMap
             m == Len(list)
  <1>1. m \in Nat /\ \A n \in 1..m : list[n].resources \in Seq(Squid)
    BY SliceAssignmentFacts
  <1>2. PICK f : ResourcesLoop(f, list) /\ Resources(a) = f[m]
    BY ResourcesLoopExists
  <1>3. \A n \in 0..m : f[n] = IF n = 0 THEN << >> ELSE Added(f[n - 1], list[n].resources)
    BY <1>2 DEF ResourcesLoop
  <1> DEFINE Upto(n, x) ==
               \A r : r \in Seqs!ToSet(x) <=> \E i \in 1..n : Owns(list[i], r)
             A == {n \in 0..m : f[n] \in Seq(Squid) /\ Distinct(f[n]) /\ Upto(n, f[n])}
  <1>4. 0 \in A
    <2>1. f[0] = << >> /\ 0 \in 0..m
      BY <1>1, <1>3
    <2>2. << >> \in Seq(Squid) /\ Len(<< >>) = 0
      BY EmptySeq
    <2>3. \A i : i \notin 1..0
      OBVIOUS
    <2>4. Seqs!ToSet(<< >>) = {}
      <3>1. Seqs!ToSet(<< >>) = {<< >>[i] : i \in 1..Len(<< >>)}
        BY <2>2, ListFacts
      <3>2. 1..Len(<< >>) = {}
        BY <2>2, <2>3
      <3>3. QED
        BY <3>1, <3>2
    <2>5. Distinct(<< >>) /\ Upto(0, << >>)
      BY <2>2, <2>3, <2>4 DEF Distinct
    <2>6. QED
      BY <2>1, <2>2, <2>5
  <1>5. ASSUME NEW n \in 1..m, n - 1 \in A PROVE n \in A
    <2>1. PICK x \in Seq(Squid) : x = f[n - 1] /\ Distinct(x) /\ Upto(n - 1, x)
      BY <1>5
    <2>2. PICK y \in Seq(Squid) : y = list[n].resources
      BY <1>1
    <2>3. n \in 0..m /\ f[n] = Added(x, y)
      BY <1>1, <1>3, <2>1, <2>2
    <2>4. PICK z : z = Added(x, y)
      OBVIOUS
    <2>5. z \in Seq(Squid) /\ Distinct(z) /\ Seqs!ToSet(z) = Seqs!ToSet(x) \cup {y[i] : i \in 1..Len(y)}
      BY <2>1, <2>4, AddedFacts DEF Continues
    <2>6. \A r : Owns(list[n], r) <=> r \in {y[i] : i \in 1..Len(y)}
      BY <2>2, ListFacts DEF Owns
    <2>7. \A i : i \in 1..n <=> i \in 1..(n - 1) \/ i = n
      BY <1>1
    <2>8. Upto(n, z)
      BY <2>1, <2>5, <2>6, <2>7
    <2>9. QED
      BY <2>3, <2>4, <2>5, <2>8
  <1>6. m \in 0..m
    BY <1>1
  <1>7. m \in A
    <2> HIDE DEF A, m
    <2>1. \A n \in 0..m : n \in A
      BY <1>1, <1>4, <1>5, Stepwise
    <2>2. QED
      BY <1>6, <2>1
  <1>8. QED
    BY <1>2, <1>7

\* The slices of a resource are those of the entries that it owns: pos says which.
LEMMA SlicesOfResource ==
  ASSUME NEW a, AreSliceAssignments(a.sliceMap), NEW r
  PROVE  /\ Len(GetAssignedSlices(a, r)) \in Nat
         /\ DOMAIN GetAssignedSlices(a, r) = 1..Len(GetAssignedSlices(a, r))
         /\ GetAssignedSlices(a, r) # << >> <=> Len(GetAssignedSlices(a, r)) # 0
         /\ \E pos :
              /\ pos \in [DOMAIN GetAssignedSlices(a, r) -> 1..Len(a.sliceMap)]
              /\ \A m \in DOMAIN GetAssignedSlices(a, r) :
                   GetAssignedSlices(a, r)[m] = a.sliceMap[pos[m]].slice
              /\ \A m, o \in DOMAIN GetAssignedSlices(a, r) : pos[m] = pos[o] => m = o
              /\ \A i \in 1..Len(a.sliceMap) :
                   Owns(a.sliceMap[i], r) <=> \E m \in DOMAIN GetAssignedSlices(a, r) : pos[m] = i
  <1> DEFINE list == a.sliceMap
             T == Seqs!ToSet(list)
             S == {sa \in T : Owns(sa, r)}
             owned == GetAssignedSliceAssignments(a, r)
             slices == GetAssignedSlices(a, r)
  <1>1. /\ list \in Seq(T) /\ Len(list) \in Nat
        /\ T = {list[n] : n \in 1..Len(list)}
    BY SliceAssignmentFacts
  <1>2. owned = Those(list, S)
    BY DEF GetAssignedSliceAssignments
  <1>3. owned \in Seq(T) /\ \E pos : Selects(pos, owned, list, S, Len(list))
    BY <1>1, <1>2, ThoseFacts
  <1>4. Len(owned) \in Nat /\ DOMAIN owned = 1..Len(owned)
    BY <1>3, ListFacts
  <1>5. slices = [n \in 1..Len(owned) |-> owned[n].slice]
    BY <1>4 DEF GetAssignedSlices
  <1>6. slices \in Seq({owned[n].slice : n \in 1..Len(owned)})
    BY <1>4, <1>5
  <1>7. /\ Len(slices) = Len(owned) /\ DOMAIN slices = 1..Len(slices)
        /\ slices # << >> <=> Len(slices) # 0
    <2>1. DOMAIN slices = 1..Len(slices) /\ Len(slices) \in Nat
      BY <1>6, LenProperties
    <2>2. DOMAIN slices = 1..Len(owned)
      BY <1>5
    <2>3. Len(slices) = Len(owned)
      <3>1. PICK x \in Nat, y \in Nat : x = Len(slices) /\ y = Len(owned)
        BY <1>4, <2>1
      <3>2. 1..x = 1..y
        BY <2>1, <2>2, <3>1
      <3>3. (x # 0 => x \in 1..y) /\ (y # 0 => y \in 1..x)
        BY <3>2
      <3>4. x = y
        BY <3>3
      <3>5. QED
        BY <3>1, <3>4
    <2>4. slices # << >> <=> Len(slices) # 0
      BY <1>6, EmptySeq
    <2>5. QED
      BY <2>1, <2>3, <2>4
  <1>8. PICK pos : Selects(pos, owned, list, S, Len(list))
    BY <1>3
  <1> HIDE DEF owned, slices
  <1>9. /\ pos \in [1..Len(owned) -> 1..Len(list)]
        /\ \A m \in 1..Len(owned) : owned[m] = list[pos[m]]
        /\ \A m, o \in 1..Len(owned) : m < o => pos[m] < pos[o]
        /\ \A i \in 1..Len(list) : list[i] \in S <=> \E m \in 1..Len(owned) : pos[m] = i
    BY <1>8 DEF Selects
  <1>10. \A m \in 1..Len(owned) : slices[m] = list[pos[m]].slice
    BY <1>5, <1>9
  <1>11. ASSUME NEW m \in 1..Len(owned), NEW o \in 1..Len(owned), pos[m] = pos[o] PROVE m = o
    <2>1. pos[m] \in Nat /\ pos[o] \in Nat
      BY <1>9
    <2>2. ~(m < o) /\ ~(o < m)
      BY <1>9, <1>11, <2>1
    <2>3. QED
      BY <1>4, <2>2
  <1>12. \A i \in 1..Len(list) : list[i] \in S <=> Owns(list[i], r)
    BY <1>1
  <1>13. /\ pos \in [DOMAIN slices -> 1..Len(list)]
         /\ \A m \in DOMAIN slices : slices[m] = list[pos[m]].slice
         /\ \A m, o \in DOMAIN slices : pos[m] = pos[o] => m = o
         /\ \A i \in 1..Len(list) : Owns(list[i], r) <=> \E m \in DOMAIN slices : pos[m] = i
    <2>1. DOMAIN slices = 1..Len(owned)
      BY <1>7
    <2>2. \A m, o \in 1..Len(owned) : pos[m] = pos[o] => m = o
      BY <1>11
    <2>3. \A i \in 1..Len(list) : Owns(list[i], r) <=> \E m \in 1..Len(owned) : pos[m] = i
      BY <1>9, <1>12
    <2>4. QED
      BY <1>9, <1>10, <2>1, <2>2, <2>3
  <1>14. QED
    BY <1>4, <1>7, <1>13 DEF slices

\* Those of the slices of a resource that have a key are one, if it owns the key, and
\* none if it does not.
LEMMA KeysOfResource ==
  ASSUME NEW a, AreSliceAssignments(a.sliceMap), Complete(a.sliceMap), NEW r, NEW k \in Key
  PROVE  LET slices == GetAssignedSlices(a, r) IN
         Cardinality({n \in DOMAIN slices : Contains(slices[n], k)})
           = IF IsAssignedKey(a, k, r) THEN 1 ELSE 0
  <1> DEFINE list == a.sliceMap
             slices == GetAssignedSlices(a, r)
             found == {n \in DOMAIN slices : Contains(slices[n], k)}
  <1>1. /\ Len(list) \in Nat /\ Seqs!ToSet(list) = {list[n] : n \in 1..Len(list)}
        /\ Entries(list)
    BY SliceAssignmentFacts
  <1>2. PICK n \in 1..Len(list) :
          /\ Contains(list[n].slice, k)
          /\ \A m \in 1..Len(list) : Contains(list[m].slice, k) => m = n
    BY <1>1, OneEntry
  <1>3. LookUp(a, k) = list[n]
    <2>1. \A sa \in Seqs!ToSet(list) : Contains(sa.slice, k) => sa = list[n]
      BY <1>1, <1>2
    <2>2. list[n] \in Seqs!ToSet(list)
      BY <1>1
    <2>3. QED
      BY <1>2, <2>1, <2>2 DEF LookUp
  <1>4. IsAssignedKey(a, k, r) <=> Owns(list[n], r)
    BY <1>3 DEF IsAssignedKey
  <1>5. PICK pos :
          /\ pos \in [DOMAIN slices -> 1..Len(list)]
          /\ \A m \in DOMAIN slices : slices[m] = list[pos[m]].slice
          /\ \A m, o \in DOMAIN slices : pos[m] = pos[o] => m = o
          /\ \A i \in 1..Len(list) : Owns(list[i], r) <=> \E m \in DOMAIN slices : pos[m] = i
    BY SlicesOfResource
  <1> HIDE DEF slices
  <1>6. \A m \in DOMAIN slices : Contains(slices[m], k) <=> pos[m] = n
    BY <1>2, <1>5
  <1>7. CASE Owns(list[n], r)
    <2>1. PICK m \in DOMAIN slices : pos[m] = n
      BY <1>2, <1>5, <1>7
    <2>2. found = {m}
      BY <1>5, <1>6, <2>1
    <2>3. Cardinality(found) = 1
      BY <2>2, FS_Singleton
    <2>4. QED
      BY <1>4, <1>7, <2>3 DEF slices
  <1>8. CASE ~Owns(list[n], r)
    <2>1. found = {}
      BY <1>2, <1>5, <1>6, <1>8
    <2>2. Cardinality(found) = 0
      BY <2>1, FS_EmptySet
    <2>3. QED
      BY <1>4, <1>8, <2>2 DEF slices
  <1>9. QED
    BY <1>7, <1>8

\* The annotations of a slice for a resource, in the list of those of the slice.
LEMMA AnnotationFacts ==
  ASSUME NEW sa, IsSliceRecord(sa), IsSliceAssignment(sa), NEW r \in DOMAIN sa.annotations
  PROVE  LET list == sa.annotations[r] IN
         /\ list \in Seq(Annotation) /\ Len(list) \in Nat \ {0} /\ DOMAIN list = 1..Len(list)
         /\ \A n \in 1..Len(list) : list[n] \in Annotation /\ list[n].subslice \in Slice
         /\ Accepts(sa, r) /\ Owns(sa, r)
  <1> DEFINE list == sa.annotations[r]
  <1>1. list \in Seq(Annotation)
    BY DEF IsSliceRecord
  <1>2. Accepts(sa, r) /\ Owns(sa, r)
    BY DEF IsSliceAssignment, Owns
  <1>3. list # << >>
    BY <1>2 DEF Accepts
  <1> HIDE DEF list
  <1>4. Len(list) \in Nat /\ DOMAIN list = 1..Len(list) /\ \A n \in 1..Len(list) : list[n] \in Annotation
    BY <1>1, ListFacts
  <1>5. Len(list) # 0
    BY <1>1, <1>3, EmptySeq
  <1>6. \A n \in 1..Len(list) : list[n].subslice \in Slice
    BY <1>4 DEF Annotation
  <1>7. QED
    BY <1>1, <1>2, <1>4, <1>5, <1>6 DEF list

\* Annotations that end before the last one lie in the slice one after the other.
LEMMA BoundedListFits ==
  ASSUME NEW sa, IsSliceRecord(sa), IsSliceAssignment(sa), NEW r \in DOMAIN sa.annotations,
         \A n \in 1..(Len(sa.annotations[r]) - 1) : sa.annotations[r][n].subslice.high # InfinityKey
  PROVE  Fits(sa, sa.annotations[r])
  <1> DEFINE list == sa.annotations[r]
             l == Len(list)
  <1>1. /\ l \in Nat /\ 1 \in 1..l /\ l \in 1..l /\ DOMAIN list = 1..l
        /\ \A n \in 1..l : list[n].subslice \in Slice
    BY AnnotationFacts
  <1>2. /\ \A n \in 1..l : Follows(list[n], PrevHigh(sa, list, n))
        /\ CompareWithHigh(list[l].subslice.high, sa.slice.high) <= 0
    BY AnnotationFacts DEF Accepts
  <1>3. sa.slice \in Slice
    BY DEF IsSliceRecord
  <1>4. \A n \in 1..(l - 1) : list[n].subslice.high # InfinityKey
    OBVIOUS
  <1> HIDE DEF list, l
  <1>5. PICK ss : ss = [n \in 1..l |-> list[n].subslice]
    OBVIOUS
  <1>6. \A n \in 1..l : ss[n] = list[n].subslice /\ ss[n] \in Slice
    BY <1>1, <1>5
  <1>7. ASSUME NEW n \in 1..(l - 1) PROVE CompareWithKey(ss[n].high, ss[n + 1].low) <= 0
    <2>1. n \in 1..l /\ n + 1 \in 1..l /\ n + 1 # 1 /\ (n + 1) - 1 = n
      BY <1>1
    <2>2. PICK s \in Slice, t \in Slice : s = ss[n] /\ t = ss[n + 1]
      BY <1>6, <2>1
    <2>3. s = list[n].subslice /\ t = list[n + 1].subslice
      BY <1>6, <2>1, <2>2
    <2>4. s.high # InfinityKey
      BY <1>4, <2>3
    <2>5. PrevHigh(sa, list, n + 1) = s.high
      BY <2>1, <2>3 DEF PrevHigh
    <2>6. KeyCompare(t.low, s.high) >= 0
      <3>1. Follows(list[n + 1], s.high)
        BY <1>2, <2>1, <2>5
      <3>2. QED
        BY <2>3, <2>4, <3>1 DEF Follows
    <2>7. s.high \in Key /\ t.low \in Key
      BY <2>4, SliceFacts
    <2>8. KeyCompare(s.high, t.low) = -KeyCompare(t.low, s.high)
          /\ KeyCompare(t.low, s.high) \in {-1, 0, 1}
      BY <2>7, KeyOrderAssumption
    <2>9. QED
      BY <2>2, <2>4, <2>6, <2>8 DEF CompareWithKey
  <1>8. \A n, m \in 1..l : n < m => CompareWithKey(ss[n].high, ss[m].low) <= 0
    <2>1. (\A n \in 1..l : ss[n] \in Slice)
          /\ \A n \in 1..(l - 1) : CompareWithKey(ss[n].high, ss[n + 1].low) <= 0
      BY <1>6, <1>7
    <2>2. QED
      BY <1>1, <2>1, NeighboursOrder
  <1>9. \A n, m \in 1..l :
          n < m => CompareWithKey(list[n].subslice.high, list[m].subslice.low) <= 0
    BY <1>6, <1>8
  <1>10. sa.slice.low \in Key /\ sa.slice.high \in HighKey /\ sa.slice.low # InfinityKey
    BY <1>3, SliceFacts, KeyAssumption
  <1>11. ASSUME NEW n \in 1..l PROVE KeyCompare(list[n].subslice.low, sa.slice.low) >= 0
    <2>1. PICK s \in Slice, t \in Slice : s = list[1].subslice /\ t = list[n].subslice
      BY <1>1
    <2>2. s.low \in Key /\ t.low \in Key
      BY SliceFacts
    <2>3. KeyCompare(s.low, sa.slice.low) >= 0
      <3>1. Follows(list[1], PrevHigh(sa, list, 1)) /\ PrevHigh(sa, list, 1) = sa.slice.low
        BY <1>1, <1>2 DEF PrevHigh
      <3>2. QED
        BY <1>10, <2>1, <3>1 DEF Follows
    <2>4. CASE n = 1
      BY <2>1, <2>3, <2>4
    <2>5. CASE n # 1
      <3>1. 1 < n
        BY <1>1, <2>5
      <3>2. CompareWithKey(s.high, t.low) <= 0
        BY <1>1, <1>9, <2>1, <3>1
      <3>3. s.high # InfinityKey
        BY <3>2 DEF CompareWithKey
      <3>4. s.high \in Key /\ KeyCompare(s.low, s.high) <= 0 /\ KeyCompare(s.high, t.low) <= 0
        BY <3>2, <3>3, SliceFacts DEF CompareWithKey
      <3>5. KeyCompare(s.low, t.low) <= 0
        BY <2>2, <3>4, KeyOrderAssumption
      <3>6. PICK x \in Key : x = sa.slice.low
        BY <1>10
      <3>7. KeyCompare(x, s.low) = -KeyCompare(s.low, x) /\ KeyCompare(s.low, x) \in {-1, 0, 1}
        BY <2>2, KeyOrderAssumption
      <3>8. KeyCompare(x, s.low) <= 0
        BY <2>3, <3>6, <3>7
      <3>9. KeyCompare(x, t.low) <= 0
        BY <2>2, <3>5, <3>8, KeyOrderAssumption
      <3>10. KeyCompare(t.low, x) = -KeyCompare(x, t.low) /\ KeyCompare(x, t.low) \in {-1, 0, 1}
        BY <2>2, KeyOrderAssumption
      <3>11. QED
        BY <2>1, <3>6, <3>9, <3>10
    <2>6. QED
      BY <2>4, <2>5
  <1>12. ASSUME NEW n \in 1..l PROVE CompareWithHigh(list[n].subslice.high, sa.slice.high) <= 0
    <2>1. CASE n = l
      BY <1>2, <2>1
    <2>2. CASE n # l
      <3>1. n < l /\ n \in 1..(l - 1)
        BY <1>1, <2>2
      <3>2. PICK s \in Slice, t \in Slice : s = list[n].subslice /\ t = list[l].subslice
        BY <1>1
      <3>3. s.high # InfinityKey /\ s.high \in Key
        BY <1>4, <3>1, <3>2, SliceFacts
      <3>4. PICK h \in HighKey : h = sa.slice.high
        BY <1>10
      <3>5. CompareWithHigh(t.high, h) <= 0
        BY <1>2, <3>2, <3>4
      <3>6. CASE h = InfinityKey
        BY <3>2, <3>3, <3>4, <3>6 DEF CompareWithHigh
      <3>7. CASE h # InfinityKey
        <4>1. h \in Key /\ t.high # InfinityKey /\ KeyCompare(t.high, h) <= 0
          BY <3>5, <3>7 DEF CompareWithHigh, HighKey
        <4>2. CompareWithKey(s.high, t.low) <= 0
          BY <1>1, <1>9, <3>1, <3>2
        <4>3. KeyCompare(s.high, t.low) <= 0
          BY <3>3, <4>2 DEF CompareWithKey
        <4>4. t.low \in Key /\ t.high \in Key /\ KeyCompare(t.low, t.high) <= 0
          BY <4>1, SliceFacts
        <4>5. KeyCompare(s.high, t.high) <= 0
          BY <3>3, <4>3, <4>4, KeyOrderAssumption
        <4>6. KeyCompare(s.high, h) <= 0
          BY <3>3, <4>1, <4>4, <4>5, KeyOrderAssumption
        <4>7. QED
          BY <3>2, <3>3, <3>4, <3>7, <4>6 DEF CompareWithHigh
      <3>8. QED
        BY <3>6, <3>7
    <2>3. QED
      BY <2>1, <2>2
  <1>13. Fits(sa, list)
    BY <1>1, <1>9, <1>11, <1>12 DEF Fits
  <1>14. QED
    BY <1>13 DEF list

\* What the constructors check is what their users rely on: of every Assignment that
\* NewAssignment returns, the slices of the resources, the owners of the keys and the
\* list of resources say the same, annotations are owned and no younger than their
\* slices, and they lie in them if only the last has no end.
THEOREM AssignmentsAgree ==
  ASSUME NEW a, IsConstructed(a)
  PROVE  /\ OwnershipAgrees(a)
         /\ AnnotationsAreOwned(a)
         /\ \A n \in DOMAIN a.sliceMap : BoundedAnnotationsFit(a.sliceMap[n])
  <1> DEFINE list == a.sliceMap
  <1>1. AreSliceAssignments(list) /\ IsAssignment(a) /\ a.generation \in Gen!Generations
    BY DEF IsConstructed
  <1>2. /\ DOMAIN list = 1..Len(list)
        /\ \A n \in 1..Len(list) : IsSliceRecord(list[n]) /\ IsSliceAssignment(list[n])
    BY <1>1, SliceAssignmentFacts
  <1>3. Complete(list)
    BY <1>1 DEF IsAssignment
  <1>4. OwnershipAgrees(a)
    <2>1. /\ Resources(a) \in Seq(Squid) /\ Distinct(Resources(a))
          /\ \A r : r \in Seqs!ToSet(Resources(a)) <=> \E n \in 1..Len(list) : Owns(list[n], r)
      BY <1>1, ResourcesFacts
    <2>2. Len(Resources(a)) = Cardinality(Seqs!ToSet(Resources(a)))
      BY <2>1, DistinctCounts
    <2>3. ASSUME NEW r \in Squid
          PROVE  r \in Seqs!ToSet(Resources(a)) <=> GetAssignedSlices(a, r) # << >>
      <3> DEFINE slices == GetAssignedSlices(a, r)
      <3>1. /\ Len(slices) \in Nat /\ DOMAIN slices = 1..Len(slices)
            /\ slices # << >> <=> Len(slices) # 0
        BY <1>1, SlicesOfResource
      <3>2. PICK pos :
              /\ pos \in [DOMAIN slices -> 1..Len(list)]
              /\ \A i \in 1..Len(list) : Owns(list[i], r) <=> \E m \in DOMAIN slices : pos[m] = i
        BY <1>1, SlicesOfResource
      <3> HIDE DEF slices
      <3>3. (\E n \in 1..Len(list) : Owns(list[n], r)) <=> DOMAIN slices # {}
        BY <3>2
      <3>4. DOMAIN slices # {} <=> Len(slices) # 0
        BY <3>1
      <3>5. r \in Seqs!ToSet(Resources(a)) <=> slices # << >>
        BY <2>1, <3>1, <3>3, <3>4
      <3>6. QED
        BY <3>5 DEF slices
    <2>4. ASSUME NEW r \in Squid, NEW k \in Key
          PROVE  Cardinality({n \in DOMAIN GetAssignedSlices(a, r) :
                                Contains(GetAssignedSlices(a, r)[n], k)})
                   = IF IsAssignedKey(a, k, r) THEN 1 ELSE 0
      BY <1>1, <1>3, KeysOfResource
    <2>5. QED
      BY <2>2, <2>3, <2>4 DEF OwnershipAgrees
  <1>5. AnnotationsAreOwned(a)
    <2>1. SUFFICES ASSUME NEW n \in 1..Len(list)
                   PROVE  /\ list[n].generation.incarnation = a.generation.incarnation
                          /\ list[n].generation.number <= a.generation.number
                          /\ \A r \in DOMAIN list[n].annotations :
                               /\ Owns(list[n], r)
                               /\ \A m \in DOMAIN list[n].annotations[r] :
                                    /\ list[n].annotations[r][m].number <= a.generation.number
                                    /\ list[n].annotations[r][m].from # r
      BY <1>2 DEF AnnotationsAreOwned
    <2>2. PICK sa : sa = list[n] /\ IsSliceRecord(sa) /\ IsSliceAssignment(sa)
      BY <1>2
    <2>3. sa.generation \in Gen!Generations
      BY <2>2 DEF IsSliceRecord
    <2>4. sa.generation.incarnation = a.generation.incarnation
          /\ Gen!Compare(sa.generation, a.generation) <= 0
      BY <1>1, <1>2, <2>2 DEF IsAssignment, CheckAssignmentGeneration
    <2>5. /\ sa.generation.number \in Nat /\ a.generation.number \in Nat
          /\ sa.generation.number <= a.generation.number
      BY <1>1, <2>3, <2>4 DEF Gen!Compare, Gen!Generations
    <2>6. ASSUME NEW r \in DOMAIN sa.annotations
          PROVE  /\ Owns(sa, r)
                 /\ \A m \in DOMAIN sa.annotations[r] :
                      /\ sa.annotations[r][m].number <= a.generation.number
                      /\ sa.annotations[r][m].from # r
      <3>1. /\ Accepts(sa, r) /\ Owns(sa, r)
            /\ DOMAIN sa.annotations[r] = 1..Len(sa.annotations[r])
            /\ \A m \in 1..Len(sa.annotations[r]) : sa.annotations[r][m] \in Annotation
        BY <2>2, AnnotationFacts
      <3>2. ASSUME NEW m \in DOMAIN sa.annotations[r]
            PROVE  /\ sa.annotations[r][m].number <= a.generation.number
                   /\ sa.annotations[r][m].from # r
        <4>1. sa.annotations[r][m].number <= sa.generation.number
              /\ sa.annotations[r][m].from # r
          BY <3>1 DEF Accepts
        <4>2. sa.annotations[r][m].number \in Nat
          BY <3>1 DEF Annotation
        <4>3. QED
          BY <2>5, <4>1, <4>2
      <3>3. QED
        BY <3>1, <3>2
    <2>7. QED
      BY <2>2, <2>4, <2>5, <2>6
  <1>6. ASSUME NEW n \in DOMAIN list PROVE BoundedAnnotationsFit(list[n])
    <2>1. IsSliceRecord(list[n]) /\ IsSliceAssignment(list[n])
      BY <1>2
    <2>2. QED
      BY <2>1, BoundedListFits DEF BoundedAnnotationsFit
  <1>7. QED
    BY <1>4, <1>5, <1>6

-----------------------------------------------------------------------------
(* Digits *)

Base == MaxByte + 1

LEMMA Times ==
  ASSUME NEW x \in Int, NEW b \in Nat, x >= 1
  PROVE  x * b >= b
  OBVIOUS

\* Quotient and remainder are the only ones.
LEMMA Division ==
  ASSUME NEW b \in Nat \ {0}, NEW q \in Int, NEW r \in 0..(b - 1)
  PROVE  ((q * b + r) \div b = q) /\ ((q * b + r) % b = r)
  <1>1. PICK a \in Int : a = q * b + r
    OBVIOUS
  <1>2. PICK p \in Int, s \in 0..(b - 1) : p = (a \div b) /\ s = (a % b) /\ a = p * b + s
    OBVIOUS
  <1>3. (q - p) * b = s - r /\ (p - q) * b = r - s
    BY <1>1, <1>2
  <1>4. s - r < b /\ r - s < b /\ s - r \in Int
    OBVIOUS
  <1>5. ~(q - p >= 1)
    <2>1. SUFFICES ASSUME q - p >= 1 PROVE FALSE
      OBVIOUS
    <2>2. (q - p) * b >= b
      BY <2>1, Times
    <2>3. QED
      BY <1>3, <1>4, <2>2
  <1>6. ~(p - q >= 1)
    <2>1. SUFFICES ASSUME p - q >= 1 PROVE FALSE
      OBVIOUS
    <2>2. (p - q) * b >= b
      BY <2>1, Times
    <2>3. QED
      BY <1>3, <1>4, <2>2
  <1>7. q = p
    BY <1>5, <1>6
  <1>8. r = s
    BY <1>1, <1>2, <1>7
  <1>9. QED
    BY <1>1, <1>2, <1>7, <1>8

\* The powers up to the n-th.
PowerLoop(f, n) == f = [m \in 0..n |-> IF m = 0 THEN 1 ELSE f[m - 1] * (MaxByte + 1)]

LEMMA PowerLoopExists ==
  ASSUME NEW n \in Nat
  PROVE  \E f : PowerLoop(f, n) /\ Power(n) = f[n]
  <1> DEFINE G == [m \in 1..n |-> [x \in Nat |-> x * Base]]
  <1>1. IsLoop(n, Nat, 1, G)
    <2>1. \A x \in Nat : x * Base \in Nat
      BY WordAssumption DEF Base
    <2>2. QED
      BY <2>1 DEF IsLoop
  <1>2. \A m \in 1..n, x \in Nat : G[m][x] = x * Base
    OBVIOUS
  <1> HIDE DEF G
  <1>3. PICK f : Iterates(f, n, Nat, 1, G)
    BY <1>1, LoopExists
  <1>4. f \in [0..n -> Nat] /\ f[0] = 1 /\ \A m \in 1..n : f[m] = G[m][f[m - 1]]
    BY <1>3 DEF Iterates
  <1>5. \A m \in 0..n : f[m] = IF m = 0 THEN 1 ELSE f[m - 1] * Base
    <2>1. \A m \in 0..n : m = 0 \/ m \in 1..n
      OBVIOUS
    <2>2. \A m \in 1..n : m - 1 \in 0..n
      OBVIOUS
    <2>3. \A m \in 1..n : f[m - 1] \in Nat
      BY <1>4, <2>2
    <2>4. QED
      BY <1>2, <1>4, <2>1, <2>3
  <1>6. PowerLoop(f, n)
    BY <1>4, <1>5 DEF PowerLoop, Base
  <1>7. PICK g : g = CHOOSE h : PowerLoop(h, n)
    OBVIOUS
  <1>8. PowerLoop(g, n)
    BY <1>6, <1>7
  <1>9. Power(n) = g[n]
    BY <1>7 DEF Power, PowerLoop
  <1>10. QED
    BY <1>8, <1>9

\* Each power is the one before, times the base.
LEMMA Powers ==
  /\ Power(0) = 1
  /\ \A n \in Nat : Power(n) \in Nat \ {0} /\ Power(n + 1) = Power(n) * Base
  <1>1. Base \in Nat \ {0}
    BY WordAssumption DEF Base
  <1>2. Power(0) = 1
    BY PowerLoopExists DEF PowerLoop
  <1>3. ASSUME NEW n \in Nat PROVE Power(n) \in Nat \ {0} /\ Power(n + 1) = Power(n) * Base
    <2>1. PICK f : PowerLoop(f, n) /\ Power(n) = f[n]
      BY PowerLoopExists
    <2>2. PICK g : PowerLoop(g, n + 1) /\ Power(n + 1) = g[n + 1]
      BY PowerLoopExists
    <2>3. \A m \in 0..n : f[m] = IF m = 0 THEN 1 ELSE f[m - 1] * Base
      BY <2>1 DEF PowerLoop, Base
    <2>4. \A m \in 0..(n + 1) : g[m] = IF m = 0 THEN 1 ELSE g[m - 1] * Base
      BY <2>2 DEF PowerLoop, Base
    <2> DEFINE A == {m \in 0..n : f[m] = g[m] /\ f[m] \in Nat \ {0}}
    <2>5. 0 \in A
      BY <2>3, <2>4
    <2>6. ASSUME NEW m \in 1..n, m - 1 \in A PROVE m \in A
      <3>1. m \in 0..n /\ m \in 0..(n + 1) /\ m # 0
        OBVIOUS
      <3>2. f[m] = f[m - 1] * Base /\ g[m] = g[m - 1] * Base
        BY <2>3, <2>4, <3>1
      <3>3. \A x \in Nat \ {0} : x * Base \in Nat \ {0}
        BY <1>1
      <3>4. f[m - 1] = g[m - 1] /\ f[m - 1] \in Nat \ {0}
        BY <2>6
      <3>5. f[m] = g[m] /\ f[m] \in Nat \ {0}
        BY <3>2, <3>3, <3>4
      <3>6. QED
        BY <3>1, <3>5
    <2>7. n \in A
      <3> HIDE DEF A
      <3>1. \A m \in 0..n : m \in A
        BY <2>5, <2>6, Stepwise
      <3>2. QED
        BY <3>1
    <2>8. f[n] = g[n] /\ f[n] \in Nat \ {0}
      BY <2>7
    <2>9. g[n + 1] = g[n] * Base
      <3>1. n + 1 \in 0..(n + 1) /\ n + 1 # 0 /\ (n + 1) - 1 = n
        OBVIOUS
      <3>2. QED
        BY <2>4, <3>1
    <2>10. QED
      BY <2>1, <2>2, <2>8, <2>9
  <1>4. QED
    BY <1>2, <1>3

\* h[n] is a number, of any sign, with the digits up to d[n] appended.
Digits(h, d) ==
  /\ h \in [0..WordBytes -> Int] /\ d \in [1..WordBytes -> 0..MaxByte]
  /\ \A n \in 1..WordBytes : h[n] = h[n - 1] * Base + d[n]

\* Its digits are found again by shifting.
LEMMA DigitsFound ==
  ASSUME NEW h, NEW d, Digits(h, d), NEW n \in 1..WordBytes
  PROVE  ByteOf(h[WordBytes], n) = d[n]
  <1> DEFINE W == WordBytes
  <1>1. W \in Nat /\ Base \in Nat \ {0} /\ n \in Nat /\ MaxByte \in Nat /\ Base = MaxByte + 1
    BY WordAssumption DEF Base
  <1>2. /\ \A m \in 0..W : h[m] \in Int
        /\ \A m \in 1..W : d[m] \in 0..MaxByte /\ h[m] = h[m - 1] * Base + d[m]
    BY DEF Digits
  <1> DEFINE Splits(m, low) == low < Power(m) /\ h[W] = h[W - m] * Power(m) + low
             A == {m \in 0..W : \E low \in Nat : Splits(m, low)}
  <1>3. 0 \in A
    <2>1. h[W] \in Int
      BY <1>1, <1>2
    <2>2. W - 0 = W /\ 0 \in 0..W
      BY <1>1
    <2>3. Splits(0, 0)
      BY <2>1, <2>2, Powers
    <2>4. QED
      BY <2>2, <2>3
  <1>4. ASSUME NEW m \in 1..W, m - 1 \in A PROVE m \in A
    <2>1. PICK low \in Nat : Splits(m - 1, low)
      BY <1>4
    <2>2. PICK o : o = W - m
      OBVIOUS
    <2>3. /\ o \in 0..W /\ o + 1 \in 1..W /\ (o + 1) - 1 = o /\ W - (m - 1) = o + 1
          /\ m - 1 \in Nat /\ (m - 1) + 1 = m /\ m \in 0..W
      BY <1>1, <2>2
    <2>4. PICK P \in Nat \ {0} : P = Power(m - 1) /\ Power(m) = P * Base
      BY <2>3, Powers
    <2>5. PICK x \in Int, y \in 0..MaxByte : x = h[o] /\ y = d[o + 1] /\ h[o + 1] = x * Base + y
      BY <1>2, <2>3
    <2>6. low < P /\ h[W] = (x * Base + y) * P + low
      BY <2>1, <2>3, <2>4, <2>5
    <2>7. (x * Base + y) * P + low = x * (P * Base) + (y * P + low)
      BY <1>1
    <2>8. y * P + low \in Nat /\ y * P + low < P * Base
      <3>1. y * P \in Nat /\ y * P + P <= P * Base
        <4>1. Base - y \in Int /\ Base - y >= 1
          BY <1>1
        <4>2. (Base - y) * P >= P
          BY <4>1, Times
        <4>3. (Base - y) * P = P * Base - y * P
          BY <1>1
        <4>4. y * P \in Nat /\ P * Base \in Nat
          BY <1>1
        <4>5. QED
          BY <4>2, <4>3, <4>4
      <3>2. QED
        BY <1>1, <2>6, <3>1
    <2>9. Splits(m, y * P + low)
      BY <2>2, <2>4, <2>5, <2>6, <2>7, <2>8
    <2>10. QED
      BY <2>3, <2>8, <2>9
  <1>5. \A m \in 0..W : m \in A
    <2> HIDE DEF A
    <2>1. QED
      BY <1>1, <1>3, <1>4, Stepwise
  <1>6. W - n \in 0..W /\ W - n \in Nat /\ W - (W - n) = n /\ n \in 0..W /\ n - 1 \in 0..W
    BY <1>1
  <1>7. PICK low \in Nat : Splits(W - n, low)
    BY <1>5, <1>6
  <1>8. PICK P \in Nat \ {0} : P = Power(W - n)
    BY <1>6, Powers
  <1>9. PICK q \in Int : q = h[n]
    BY <1>2, <1>6
  <1>10. h[W] = q * P + low /\ low \in 0..(P - 1)
    BY <1>6, <1>7, <1>8, <1>9
  <1>11. (h[W] \div P) = q
    BY <1>10, Division
  <1>12. PICK x \in Int, y \in 0..(Base - 1) : x = h[n - 1] /\ y = d[n] /\ q = x * Base + y
    <2>1. h[n - 1] \in Int /\ d[n] \in 0..MaxByte /\ h[n] = h[n - 1] * Base + d[n]
      BY <1>2, <1>6
    <2>2. 0..MaxByte = 0..(Base - 1)
      BY <1>1
    <2>3. QED
      BY <1>9, <2>1, <2>2
  <1>13. (q % Base) = y
    BY <1>1, <1>12, Division
  <1>14. QED
    BY <1>8, <1>11, <1>12, <1>13 DEF ByteOf, Base

\* The number of which WordOf makes an integer, after each byte.
WordLoop(f, u, first) ==
  f = [n \in 0..WordBytes |->
         IF n = 0 THEN 0 ELSE f[n - 1] * (MaxByte + 1) + u[first + n - 1]]

LEMMA WordFacts ==
  ASSUME NEW u \in UUIDs, NEW first \in {1, WordBytes + 1}
  PROVE  LET d == [n \in 1..WordBytes |-> u[first + n - 1]] IN
         \E f : f \in [0..WordBytes -> Nat] /\ Digits(f, d) /\ WordOf(u, first) = ToInt64(f[WordBytes])
                /\ f[0] = 0
  <1> DEFINE W == WordBytes
             d == [n \in 1..W |-> u[first + n - 1]]
             Step(n, x) == x * Base + d[n]
             G == [n \in 1..W |-> [x \in Nat |-> Step(n, x)]]
  <1>1. W \in Nat /\ Base \in Nat \ {0} /\ MaxByte \in Nat
    BY WordAssumption DEF Base
  <1>2. d \in [1..W -> 0..MaxByte]
    <2>1. \A n \in 1..W : first + n - 1 \in 1..(2 * W)
      BY <1>1
    <2>2. \A n \in 1..W : u[first + n - 1] \in 0..MaxByte
      BY <2>1 DEF UUIDs
    <2>3. QED
      BY <2>2
  <1> HIDE DEF d
  <1>3. IsLoop(W, Nat, 0, G)
    <2>1. \A n \in 1..W, x \in Nat : Step(n, x) \in Nat
      <3>1. SUFFICES ASSUME NEW n \in 1..W, NEW x \in Nat PROVE Step(n, x) \in Nat
        OBVIOUS
      <3>2. d[n] \in Nat
        BY <1>1, <1>2
      <3>3. x * Base \in Nat
        BY <1>1
      <3>4. QED
        BY <3>2, <3>3
    <2> HIDE DEF Step
    <2>2. QED
      BY <1>1, <2>1 DEF IsLoop
  <1>4. \A n \in 1..W, x \in Nat : G[n][x] = Step(n, x)
    OBVIOUS
  <1> HIDE DEF G
  <1>5. PICK f : Iterates(f, W, Nat, 0, G)
    BY <1>3, LoopExists
  <1>6. f \in [0..W -> Nat] /\ f[0] = 0 /\ \A n \in 1..W : f[n] = G[n][f[n - 1]]
    BY <1>5 DEF Iterates
  <1>7. \A n \in 1..W : f[n] = Step(n, f[n - 1])
    <2>1. \A n \in 1..W : n - 1 \in 0..W
      BY <1>1
    <2> HIDE DEF Step
    <2>2. QED
      BY <1>4, <1>6, <2>1
  <1>8. \A n \in 0..W : f[n] = IF n = 0 THEN 0 ELSE f[n - 1] * (MaxByte + 1) + u[first + n - 1]
    <2>1. \A n \in 0..W : n = 0 \/ n \in 1..W
      BY <1>1
    <2>2. \A n \in 1..W : d[n] = u[first + n - 1]
      BY DEF d
    <2>3. \A n \in 1..W : n # 0 /\ f[n] = f[n - 1] * Base + d[n]
      BY <1>1, <1>7
    <2> HIDE DEF W
    <2>4. QED
      BY <1>6, <2>1, <2>2, <2>3 DEF Base
  <1>9. WordLoop(f, u, first)
    BY <1>6, <1>8 DEF WordLoop
  <1>10. PICK g : g = CHOOSE h : WordLoop(h, u, first)
    OBVIOUS
  <1>11. WordOf(u, first) = ToInt64(g[W])
    BY <1>10 DEF WordOf, WordLoop
  <1>12. WordLoop(g, u, first)
    BY <1>9, <1>10
  <1>13. g = f
    <2>1. DOMAIN g = 0..W /\ \A n \in 0..W : g[n] = IF n = 0 THEN 0 ELSE g[n - 1] * (MaxByte + 1) + u[first + n - 1]
      BY <1>12 DEF WordLoop
    <2> DEFINE A == {n \in 0..W : g[n] = f[n]}
    <2>2. 0 \in A
      BY <1>1, <1>8, <2>1
    <2>3. ASSUME NEW n \in 1..W, n - 1 \in A PROVE n \in A
      <3>1. n \in 0..W /\ n # 0
        BY <1>1
      <3>2. g[n - 1] = f[n - 1]
        BY <2>3
      <3>3. QED
        BY <1>8, <2>1, <3>1, <3>2
    <2>4. \A n \in 0..W : n \in A
      <3> HIDE DEF A
      <3>1. QED
        BY <1>1, <2>2, <2>3, Stepwise
    <2>5. \A n \in 0..W : g[n] = f[n]
      BY <2>4
    <2>6. g = [n \in 0..W |-> g[n]] /\ f = [n \in 0..W |-> f[n]]
      BY <1>6, <1>12 DEF WordLoop
    <2>7. QED
      BY <2>5, <2>6
  <1>14. Digits(f, d)
    <2>1. f \in [0..W -> Int]
      BY <1>6
    <2>2. QED
      BY <1>2, <1>7, <2>1 DEF Digits
  <1>15. QED
    BY <1>6, <1>11, <1>13, <1>14 DEF d

\* The bytes of half a UUID are found in its integer, whatever its sign.
LEMMA WordBytesFound ==
  ASSUME NEW u \in UUIDs, NEW first \in {1, WordBytes + 1}
  PROVE  /\ WordOf(u, first) \in Int
         /\ \A n \in 1..WordBytes : ByteOf(WordOf(u, first), n) = u[first + n - 1]
  <1> DEFINE W == WordBytes
             d == [n \in 1..W |-> u[first + n - 1]]
  <1>1. W \in Nat /\ Base \in Nat \ {0}
    BY WordAssumption DEF Base
  <1>2. PICK f : /\ f \in [0..W -> Nat] /\ Digits(f, d) /\ WordOf(u, first) = ToInt64(f[W])
    BY WordFacts
  <1> HIDE DEF d
  <1>3. f[W] \in Nat /\ Power(W) \in Nat \ {0}
    BY <1>1, <1>2, Powers
  <1>4. WordOf(u, first) = f[W] \/ WordOf(u, first) = f[W] - Power(W)
    BY <1>2 DEF ToInt64, Words
  <1>5. PICK h : h = [n \in 0..W |-> f[n] - Power(n)]
    OBVIOUS
  <1>6. Digits(h, d)
    <2>1. \A n \in 0..W : n \in Nat /\ f[n] \in Nat /\ Power(n) \in Nat /\ h[n] = f[n] - Power(n)
      <3>1. \A n \in 0..W : n \in Nat
        BY <1>1
      <3>2. \A n \in 0..W : f[n] \in Nat
        BY <1>2
      <3>3. \A n \in 0..W : Power(n) \in Nat
        BY <3>1, Powers
      <3>4. \A n \in 0..W : h[n] = f[n] - Power(n)
        BY <1>5
      <3>5. QED
        BY <3>1, <3>2, <3>3, <3>4
    <2>2. h \in [0..W -> Int]
      BY <1>5, <2>1
    <2>3. ASSUME NEW n \in 1..W PROVE h[n] = h[n - 1] * Base + d[n]
      <3>1. n \in 0..W /\ n - 1 \in 0..W /\ (n - 1) + 1 = n /\ n - 1 \in Nat
        BY <1>1
      <3>2. PICK x \in Nat, P \in Nat, y \in Nat :
              x = f[n - 1] /\ P = Power(n - 1) /\ y = d[n]
        <4>1. d[n] \in 0..MaxByte
          BY <1>2 DEF Digits
        <4>2. QED
          BY <2>1, <3>1, <4>1
      <3>3. f[n] = x * Base + y
        BY <1>2, <3>2 DEF Digits
      <3>4. Power(n) = P * Base
        BY <3>1, <3>2, Powers
      <3>5. h[n] = (x * Base + y) - P * Base /\ h[n - 1] = x - P
        BY <2>1, <3>1, <3>2, <3>3, <3>4
      <3>6. (x * Base + y) - P * Base = (x - P) * Base + y
        BY <1>1
      <3>7. QED
        BY <3>2, <3>5, <3>6
    <2>4. QED
      BY <1>2, <2>2, <2>3 DEF Digits
  <1>7. h[W] = f[W] - Power(W)
    BY <1>1, <1>5
  <1>8. ASSUME NEW n \in 1..W PROVE ByteOf(WordOf(u, first), n) = d[n]
    <2>1. ByteOf(f[W], n) = d[n] /\ ByteOf(h[W], n) = d[n]
      BY <1>2, <1>6, DigitsFound
    <2>2. QED
      BY <1>4, <1>7, <2>1
  <1>9. \A n \in 1..W : d[n] = u[first + n - 1]
    BY DEF d
  <1>10. QED
    BY <1>3, <1>4, <1>8, <1>9

\* A Squid survives the conversion: its UUID is the one that its text was parsed to,
\* through two signed integers and back, and only the text may differ.
THEOREM SquidsSurvive ==
  ASSUME NEW sq \in Squid
  PROVE  /\ SquidFromProto(SquidToProto(sq)) = Canonical(sq)
         /\ Canonical(sq) \in CanonicalSquid /\ Canonical(sq) \in Squid
         /\ SquidToProto(sq) \in WireSquid
  <1> DEFINE u == Parse(sq.resourceUUID)
             W == WordBytes
             p == SquidToProto(sq)
  <1>1. W \in Nat /\ MaxByte \in Nat
    BY WordAssumption
  <1>2. sq \in SquidFields
    BY SquidAssumption
  <1>3. u \in UUIDs
    <2>1. sq.resourceUUID \in [form : {"canonical", "variant", "unparsable"}, bytes : UUIDs]
      BY <1>2 DEF SquidFields
    <2>2. NilUUID \in UUIDs
      BY <1>1 DEF NilUUID, UUIDs
    <2>3. QED
      BY <2>1, <2>2 DEF Parse
  <1>4. PICK high \in Int, low \in Int : high = WordOf(u, 1) /\ low = WordOf(u, W + 1)
    BY <1>3, WordBytesFound
  <1>5. int64sToUUID(high, low) = u
    <2>1. \A n \in 1..W : ByteOf(high, n) = u[n]
      <3>1. \A n \in 1..W : ByteOf(high, n) = u[1 + n - 1]
        BY <1>3, <1>4, WordBytesFound
      <3>2. \A n \in 1..W : 1 + n - 1 = n
        BY <1>1
      <3>3. QED
        BY <3>1, <3>2
    <2>2. \A n \in 1..W : ByteOf(low, n) = u[W + n]
      <3>1. \A n \in 1..W : ByteOf(low, n) = u[(W + 1) + n - 1]
        BY <1>3, <1>4, WordBytesFound
      <3>2. \A n \in 1..W : (W + 1) + n - 1 = W + n
        BY <1>1
      <3>3. QED
        BY <3>1, <3>2
    <2> HIDE DEF u
    <2>3. ASSUME NEW n \in 1..(2 * W)
          PROVE  (IF n <= W THEN ByteOf(high, n) ELSE ByteOf(low, n - W)) = u[n]
      <3>1. CASE n <= W
        BY <1>1, <2>1, <3>1
      <3>2. CASE ~(n <= W)
        <4>1. n - W \in 1..W /\ W + (n - W) = n
          BY <1>1, <3>2
        <4>2. QED
          BY <2>2, <3>2, <4>1
      <3>3. QED
        BY <3>1, <3>2
    <2>4. u = [n \in 1..(2 * W) |-> u[n]]
      BY <1>3 DEF UUIDs
    <2>5. QED
      BY <2>3, <2>4 DEF int64sToUUID
  <1>6. /\ p = [resourceAddress |-> sq.resourceAddress, creationTimeMillis |-> sq.creationTimeMillis,
                resourceUuidHigh |-> high, resourceUuidLow |-> low]
        /\ sq.resourceAddress \in STRING /\ sq.creationTimeMillis \in Int
    BY <1>2, <1>4 DEF SquidToProto, SquidFields
  <1> HIDE DEF u, p
  <1>7. SquidFromProto(p) = [resourceAddress |-> sq.resourceAddress,
                             creationTimeMillis |-> sq.creationTimeMillis,
                             resourceUUID |-> CanonicalText(u)]
    BY <1>5, <1>6 DEF SquidFromProto
  <1>8. Canonical(sq) = [resourceAddress |-> sq.resourceAddress,
                         creationTimeMillis |-> sq.creationTimeMillis,
                         resourceUUID |-> CanonicalText(u)]
    BY <1>2 DEF Canonical, SquidFields, u
  <1>9. SquidFromProto(p) = Canonical(sq)
    BY <1>7, <1>8
  <1>10. Canonical(sq) \in CanonicalSquid /\ Canonical(sq) \in Squid
    BY SquidAssumption DEF CanonicalSquid
  <1>11. p \in WireSquid
    <2>1. p \in [resourceAddress : STRING, creationTimeMillis : Int,
                 resourceUuidHigh : Int, resourceUuidLow : Int]
      BY <1>6
    <2>2. QED
      BY <1>9, <1>10, <2>1 DEF WireSquid
  <1>12. QED
    BY <1>9, <1>10, <1>11 DEF p

-----------------------------------------------------------------------------
(* Checks *)

Outcomes == {"passes", "error", "panicked"}

\* The verdict is that all checks pass, or that of one which does not.
LEMMA VerdictFacts ==
  ASSUME NEW checks \in Seq(Outcomes)
  PROVE  /\ Verdict(checks) \in Outcomes
         /\ Verdict(checks) = "passes" <=> \A n \in 1..Len(checks) : checks[n] = "passes"
  <1>1. Len(checks) \in Nat /\ \A n \in 1..Len(checks) : checks[n] \in Outcomes
    BY ListFacts
  <1> DEFINE I == {i \in 1..Len(checks) : checks[i] # "passes"}
  <1>2. PICK n : n = IF I # {} THEN Seqs!Min(I) ELSE 0
    OBVIOUS
  <1>3. Verdict(checks) = IF n = 0 THEN "passes" ELSE checks[n]
    BY <1>2 DEF Verdict, Seqs!SelectInSeq
  <1>4. CASE I = {}
    BY <1>2, <1>3, <1>4 DEF Outcomes
  <1>5. CASE I # {}
    <2>1. I \subseteq Nat
      OBVIOUS
    <2>2. PICK i \in I : \A j \in I : ~(<<j, i>> \in OpToRel(<, Nat))
      BY <1>5, <2>1, WFMin, NatLessThanWellFounded
    <2>3. \A j \in I : i <= j
      <3>1. i \in Nat
        BY <2>1
      <3>2. ASSUME NEW j \in I PROVE i <= j
        <4>1. j \in Nat /\ ~(<<j, i>> \in OpToRel(<, Nat))
          BY <2>1, <2>2
        <4>2. ~(j < i)
          BY <3>1, <4>1 DEF OpToRel
        <4>3. \A x, y \in Nat : ~(y < x) => x <= y
          OBVIOUS
        <4> HIDE DEF I
        <4>4. QED
          BY <3>1, <4>1, <4>2, <4>3
      <3>3. QED
        BY <3>2
    <2>4. n \in I
      <3> HIDE DEF I
      <3>1. QED
        BY <1>2, <1>5, <2>3 DEF Seqs!Min
    <2>5. n # 0 /\ n \in 1..Len(checks) /\ checks[n] # "passes"
      BY <2>4
    <2>6. QED
      BY <1>1, <1>3, <2>5
  <1>6. QED
    BY <1>4, <1>5

\* A single check.
LEMMA CheckFacts ==
  ASSUME NEW fails \in BOOLEAN, NEW how \in {"error", "panicked"}
  PROVE  /\ Check(fails, how) \in Outcomes
         /\ Check(fails, how) = "passes" <=> ~fails
  BY DEF Check, Outcomes

-----------------------------------------------------------------------------
(* Lists of lists *)

\* Two lists in one.
LEMMA ConcatFacts ==
  ASSUME NEW T, NEW x \in Seq(T), NEW y \in Seq(T)
  PROVE  /\ x \o y \in Seq(T) /\ Len(x \o y) = Len(x) + Len(y)
         /\ \A n \in 1..Len(x) : (x \o y)[n] = x[n]
         /\ \A n \in 1..Len(y) : (x \o y)[Len(x) + n] = y[n]
         /\ Seqs!ToSet(x \o y) = Seqs!ToSet(x) \cup Seqs!ToSet(y)
  <1> DEFINE z == x \o y
  <1>1. Len(x) \in Nat /\ Len(y) \in Nat
    BY ListFacts
  <1>2. z \in Seq(T) /\ Len(z) = Len(x) + Len(y)
    BY ConcatProperties
  <1>3. \A n \in 1..Len(x) : z[n] = x[n]
    BY <1>1, ConcatProperties
  <1>4. \A n \in 1..Len(y) : z[Len(x) + n] = y[n]
    <2>1. \A n \in 1..Len(y) : /\ Len(x) + n \in 1..(Len(x) + Len(y))
                               /\ ~(Len(x) + n <= Len(x)) /\ (Len(x) + n) - Len(x) = n
      BY <1>1
    <2>2. QED
      BY <2>1, ConcatProperties
  <1> HIDE DEF z
  <1>5. /\ Seqs!ToSet(x) = {x[n] : n \in 1..Len(x)} /\ Seqs!ToSet(y) = {y[n] : n \in 1..Len(y)}
        /\ Seqs!ToSet(z) = {z[n] : n \in 1..Len(z)}
    BY <1>2, ListFacts
  <1>6. \A n \in 1..Len(z) : n \in 1..Len(x) \/ \E m \in 1..Len(y) : n = Len(x) + m
    <2>1. ASSUME NEW n \in 1..Len(z), n \notin 1..Len(x)
          PROVE  n - Len(x) \in 1..Len(y) /\ n = Len(x) + (n - Len(x))
      BY <1>1, <1>2, <2>1
    <2>2. QED
      BY <2>1
  <1>7. (\A n \in 1..Len(x) : n \in 1..Len(z)) /\ \A n \in 1..Len(y) : Len(x) + n \in 1..Len(z)
    BY <1>1, <1>2
  <1>8. Seqs!ToSet(z) = Seqs!ToSet(x) \cup Seqs!ToSet(y)
    <2>1. ASSUME NEW e \in Seqs!ToSet(z) PROVE e \in Seqs!ToSet(x) \cup Seqs!ToSet(y)
      <3>1. PICK n \in 1..Len(z) : e = z[n]
        BY <1>5, <2>1
      <3>2. CASE n \in 1..Len(x)
        BY <1>3, <1>5, <3>1, <3>2
      <3>3. CASE \E m \in 1..Len(y) : n = Len(x) + m
        BY <1>4, <1>5, <3>1, <3>3
      <3>4. QED
        BY <1>6, <3>2, <3>3
    <2>2. ASSUME NEW e \in Seqs!ToSet(x) PROVE e \in Seqs!ToSet(z)
      BY <1>3, <1>5, <1>7
    <2>3. ASSUME NEW e \in Seqs!ToSet(y) PROVE e \in Seqs!ToSet(z)
      BY <1>4, <1>5, <1>7
    <2>4. QED
      BY <2>1, <2>2, <2>3
  <1>9. QED
    BY <1>2, <1>3, <1>4, <1>8 DEF z

\* The lists up to the n-th in one.
FlattenLoop(f, seqs) ==
  f = [n \in 1..Len(seqs) |-> IF n = 1 THEN seqs[n] ELSE f[n - 1] \o seqs[n]]

LEMMA FlattenLoopExists ==
  ASSUME NEW T, NEW seqs \in Seq(Seq(T)), Len(seqs) # 0
  PROVE  \E f : FlattenLoop(f, seqs) /\ Seqs!FlattenSeq(seqs) = f[Len(seqs)]
  <1> DEFINE m == Len(seqs)
             G == [n \in 1..m |-> [x \in Seq(T) |-> x \o seqs[n]]]
  <1>1. m \in Nat /\ \A n \in 1..m : seqs[n] \in Seq(T)
    BY ListFacts
  <1> HIDE DEF m
  <1>2. \A n \in 1..m, x \in Seq(T) : x \o seqs[n] \in Seq(T)
    BY <1>1, ConcatProperties
  <1>3. IsLoop(m, Seq(T), << >>, G)
    BY <1>1, <1>2, EmptySeq DEF IsLoop
  <1>4. \A n \in 1..m, x \in Seq(T) : G[n][x] = x \o seqs[n]
    OBVIOUS
  <1> HIDE DEF G
  <1>5. PICK f : Iterates(f, m, Seq(T), << >>, G)
    BY <1>3, LoopExists
  <1>6. f \in [0..m -> Seq(T)] /\ f[0] = << >> /\ \A n \in 1..m : f[n] = G[n][f[n - 1]]
    BY <1>5 DEF Iterates
  <1>7. \A n \in 1..m : f[n] = f[n - 1] \o seqs[n]
    <2>1. \A n \in 1..m : n - 1 \in 0..m
      BY <1>1
    <2>2. QED
      BY <1>4, <1>6, <2>1
  <1>8. PICK g : g = [n \in 1..m |-> f[n]]
    OBVIOUS
  <1>9. \A n \in 1..m : g[n] = IF n = 1 THEN seqs[n] ELSE g[n - 1] \o seqs[n]
    <2>1. SUFFICES ASSUME NEW n \in 1..m
                   PROVE  g[n] = IF n = 1 THEN seqs[n] ELSE g[n - 1] \o seqs[n]
      OBVIOUS
    <2>2. g[n] = f[n - 1] \o seqs[n]
      BY <1>7, <1>8
    <2>3. CASE n = 1
      <3>1. << >> \o seqs[n] = seqs[n]
        BY <1>1, ConcatEmptySeq
      <3>2. f[n - 1] = << >>
        BY <1>6, <2>3
      <3>3. g[n] = seqs[n]
        BY <2>2, <3>1, <3>2
      <3>4. QED
        BY <2>3, <3>3
    <2>4. CASE n # 1
      <3>1. n - 1 \in 1..m
        BY <1>1, <2>4
      <3>2. QED
        BY <1>8, <2>2, <2>4, <3>1
    <2>5. QED
      BY <2>3, <2>4
  <1>10. FlattenLoop(g, seqs)
    BY <1>8, <1>9 DEF FlattenLoop, m
  <1>11. PICK h : h = CHOOSE j : FlattenLoop(j, seqs)
    OBVIOUS
  <1>12. FlattenLoop(h, seqs)
    BY <1>10, <1>11
  <1>13. Seqs!FlattenSeq(seqs) = h[Len(seqs)]
    BY <1>11 DEF Seqs!FlattenSeq, FlattenLoop
  <1>14. QED
    BY <1>12, <1>13

\* Lists in one have the elements of each.
LEMMA FlattenFacts ==
  ASSUME NEW T, NEW seqs \in Seq(Seq(T))
  PROVE  /\ Seqs!FlattenSeq(seqs) \in Seq(T)
         /\ Seqs!ToSet(Seqs!FlattenSeq(seqs)) = UNION {Seqs!ToSet(seqs[n]) : n \in 1..Len(seqs)}
  <1> DEFINE m == Len(seqs)
  <1>1. m \in Nat /\ \A n \in 1..m : seqs[n] \in Seq(T)
    BY ListFacts
  <1>2. CASE m = 0
    <2>1. seqs = << >> /\ Seqs!FlattenSeq(seqs) = << >>
      BY <1>2, EmptySeq DEF Seqs!FlattenSeq
    <2>2. << >> \in Seq(T) /\ Len(<< >>) = 0
      BY EmptySeq
    <2>3. Seqs!ToSet(<< >>) = {<< >>[n] : n \in 1..Len(<< >>)}
      BY <2>2, ListFacts
    <2>4. 1..0 = {}
      OBVIOUS
    <2>5. QED
      BY <1>2, <2>1, <2>2, <2>3, <2>4
  <1>3. CASE m # 0
    <2>1. PICK f : FlattenLoop(f, seqs) /\ Seqs!FlattenSeq(seqs) = f[m]
      BY <1>3, FlattenLoopExists
    <2>2. \A n \in 1..m : f[n] = IF n = 1 THEN seqs[n] ELSE f[n - 1] \o seqs[n]
      BY <2>1 DEF FlattenLoop
    <2> DEFINE All(n) == UNION {Seqs!ToSet(seqs[i]) : i \in 1..n}
               A == {n \in 0..m : n = 0 \/ (f[n] \in Seq(T) /\ Seqs!ToSet(f[n]) = All(n))}
    <2>3. 0 \in A
      BY <1>1
    <2>4. ASSUME NEW n \in 1..m, n - 1 \in A PROVE n \in A
      <3>1. PICK y \in Seq(T) : y = seqs[n]
        BY <1>1
      <3>2. \A i : i \in 1..n <=> i \in 1..(n - 1) \/ i = n
        BY <1>1
      <3>3. All(n) = All(n - 1) \cup Seqs!ToSet(y)
        BY <3>1, <3>2
      <3>4. n \in 0..m
        BY <1>1
      <3>5. CASE n = 1
        <4>1. 1..(n - 1) = {}
          BY <3>5
        <4>2. All(n - 1) = {}
          BY <4>1
        <4>3. f[n] = y
          BY <2>2, <3>1, <3>5
        <4> HIDE DEF All
        <4>4. QED
          BY <3>3, <3>4, <4>2, <4>3
      <3>6. CASE n # 1
        <4>1. PICK x \in Seq(T) : x = f[n - 1] /\ Seqs!ToSet(x) = All(n - 1)
          <5>1. n - 1 # 0
            BY <3>6
          <5>2. QED
            BY <2>4, <5>1
        <4>2. f[n] = x \o y
          BY <2>2, <3>1, <3>6, <4>1
        <4>3. x \o y \in Seq(T) /\ Seqs!ToSet(x \o y) = Seqs!ToSet(x) \cup Seqs!ToSet(y)
          BY ConcatFacts
        <4> HIDE DEF All
        <4>4. QED
          BY <3>3, <3>4, <4>1, <4>2, <4>3
      <3>7. QED
        BY <3>5, <3>6
    <2>5. m \in A
      <3> HIDE DEF A, m
      <3>1. \A n \in 0..m : n \in A
        BY <1>1, <2>3, <2>4, Stepwise
      <3>2. QED
        BY <1>1, <3>1
    <2>6. QED
      BY <1>3, <2>1, <2>5
  <1>4. QED
    BY <1>2, <1>3

-----------------------------------------------------------------------------
(* Types on the wire *)

LEMMA IntegerFacts ==
  /\ \A n \in Int : ToUint64(n) \in Nat
  /\ \A n \in Nat : ToInt64(n) \in Int
  <1>1. PICK w \in Nat \ {0} : w = Words
    BY WordAssumption, Powers DEF Words
  <1>2. \A n \in Int : (n % w) \in Nat
    OBVIOUS
  <1>3. QED
    BY <1>1, <1>2 DEF ToUint64, ToInt64

LEMMA GenerationFacts ==
  /\ \A g \in Gen!Generations : GenerationToProto(g) \in WireGeneration
  /\ \A p \in WireGeneration \cup {Nil} : GenerationFromProto(p) \in Gen!Generations
  BY IntegerFacts DEF GenerationToProto, GenerationFromProto, WireGeneration, Gen!Generations,
                      Gen!EmptyGeneration

LEMMA SliceWire ==
  /\ \A s \in Slice : SliceToProto(s) \in WireSlice
  /\ \A p \in WireSlice \cup {Nil} : ~SliceFails(p) => SliceFromProto(p) \in Slice
  <1>1. ASSUME NEW s \in Slice PROVE SliceToProto(s) \in WireSlice
    <2>1. s.low \in Key /\ (s.high # InfinityKey => s.high \in Key)
      BY SliceFacts
    <2>2. QED
      BY <2>1 DEF SliceToProto, WireSlice
  <1>2. ASSUME NEW p \in WireSlice \cup {Nil}, ~SliceFails(p) PROVE SliceFromProto(p) \in Slice
    <2>1. p \in WireSlice /\ IsSlice(SliceFromProto(p))
      BY <1>2 DEF SliceFails
    <2>2. SliceFromProto(p) \in [low : Key, high : HighKey]
      BY <2>1 DEF SliceFromProto, WireSlice, HighKey
    <2>3. QED
      BY <2>1, <2>2 DEF Slice
  <1>3. QED
    BY <1>1, <1>2

LEMMA IndexFacts ==
  ASSUME NEW known \in Seq(Squid), NEW sq
  PROVE  Index(known, sq) \in Nat
  <1>1. Len(known) \in Nat /\ DOMAIN known = 1..Len(known)
    BY ListFacts
  <1>2. IsFiniteSet(1..Len(known))
    BY <1>1, FS_Interval
  <1> DEFINE before == {n \in DOMAIN known : sq \notin Seqs!ToSet(SubSeq(known, 1, n))}
  <1>3. before \subseteq 1..Len(known)
    BY <1>1
  <1>4. Cardinality(before) \in Nat
    <2> HIDE DEF before
    <2>1. IsFiniteSet(before)
      BY <1>2, <1>3, FS_Subset
    <2>2. QED
      BY <2>1, FS_CardinalityType
  <1>5. QED
    BY <1>4 DEF Index

\* What Annotated lists: a resource with one of its annotations.
AnnotatedResource == [resource : Squid, annotation : Annotation]

LEMMA OrderFacts ==
  ASSUME NEW sa, IsSliceRecord(sa), IsSliceAssignment(sa),
         NEW order \in Seqs!SetToSeqs(DOMAIN sa.annotations)
  PROVE  /\ Len(order) \in Nat /\ DOMAIN order = 1..Len(order)
         /\ order \in Seq(DOMAIN sa.annotations)
         /\ Len(order) = Cardinality(DOMAIN sa.annotations)
         /\ IsFiniteSet(DOMAIN sa.annotations)
         /\ Distinct(order)
  <1> DEFINE D == DOMAIN sa.annotations
             c == Cardinality(D)
  <1>1. D \subseteq Seqs!ToSet(sa.resources) /\ sa.resources \in Seq(Squid)
    BY DEF IsSliceRecord, IsSliceAssignment
  <1>2. IsFiniteSet(Seqs!ToSet(sa.resources))
    BY <1>1, DistinctCounts
  <1>3. IsFiniteSet(D)
    BY <1>1, <1>2, FS_Subset
  <1>4. c \in Nat
    BY <1>3, FS_CardinalityType
  <1>5. order \in [1..c -> D] /\ \A i, j \in 1..c : i # j => order[i] # order[j]
    <2>1. order \in Seqs!SetToSeqs(D)
      OBVIOUS
    <2> HIDE DEF D
    <2>2. c = Seqs!Cardinality(D)
      BY DEF Cardinality, Seqs!Cardinality
    <2> HIDE DEF c
    <2>3. QED
      BY <2>1, <2>2 DEF Seqs!SetToSeqs
  <1> HIDE DEF c
  <1>6. order \in Seq(D)
    BY <1>4, <1>5
  <1>7. Len(order) = c
    BY <1>4, <1>5, <1>6, LenProperties
  <1>8. DOMAIN order = 1..Len(order)
    BY <1>5, <1>7
  <1>9. Distinct(order)
    BY <1>5, <1>7 DEF Distinct
  <1>10. QED
    BY <1>3, <1>4, <1>6, <1>7, <1>8, <1>9 DEF c

LEMMA AnnotatedFacts ==
  ASSUME NEW sa, IsSliceRecord(sa), IsSliceAssignment(sa),
         NEW order \in Seqs!SetToSeqs(DOMAIN sa.annotations)
  PROVE  Annotated(sa, order) \in Seq(AnnotatedResource)
  <1> DEFINE D == DOMAIN sa.annotations
             part(n) == [m \in DOMAIN sa.annotations[order[n]] |->
                           [resource |-> order[n], annotation |-> sa.annotations[order[n]][m]]]
             parts == [n \in DOMAIN order |-> part(n)]
  <1>1. Len(order) \in Nat /\ DOMAIN order = 1..Len(order) /\ order \in Seq(D)
    BY OrderFacts
  <1>2. ASSUME NEW n \in 1..Len(order) PROVE part(n) \in Seq(AnnotatedResource)
    <2>1. PICK r \in D : r = order[n]
      BY <1>1, ListFacts
    <2>2. r \in Squid
      BY DEF IsSliceRecord
    <2>3. PICK list : list = sa.annotations[r] /\ Len(list) \in Nat /\ DOMAIN list = 1..Len(list)
                      /\ \A m \in 1..Len(list) : list[m] \in Annotation
      BY AnnotationFacts
    <2>4. part(n) = [m \in 1..Len(list) |-> [resource |-> r, annotation |-> list[m]]]
      BY <2>1, <2>3
    <2>5. \A m \in 1..Len(list) : [resource |-> r, annotation |-> list[m]] \in AnnotatedResource
      BY <2>2, <2>3 DEF AnnotatedResource
    <2> HIDE DEF part
    <2>6. QED
      BY <2>3, <2>4, <2>5
  <1> HIDE DEF part
  <1>3. parts \in Seq(Seq(AnnotatedResource))
    BY <1>1, <1>2
  <1> HIDE DEF parts
  <1>4. Seqs!FlattenSeq(parts) \in Seq(AnnotatedResource)
    BY <1>3, FlattenFacts
  <1>5. QED
    BY <1>4 DEF Annotated, parts, part

LEMMA MetFacts ==
  ASSUME NEW sa, IsSliceRecord(sa), IsSliceAssignment(sa),
         NEW order \in Seqs!SetToSeqs(DOMAIN sa.annotations)
  PROVE  Met(sa, order) \in Seq(Squid)
  <1> DEFINE xs == Annotated(sa, order)
             part(n) == LET x == xs[n] IN
                        IF x.annotation.from = NoTransfer THEN <<x.resource>>
                                                          ELSE <<x.resource, x.annotation.from>>
             parts == [n \in DOMAIN xs |-> part(n)]
  <1>1. xs \in Seq(AnnotatedResource)
    BY AnnotatedFacts
  <1> HIDE DEF xs
  <1>2. Len(xs) \in Nat /\ DOMAIN xs = 1..Len(xs) /\ \A n \in 1..Len(xs) : xs[n] \in AnnotatedResource
    BY <1>1, ListFacts
  <1>3. ASSUME NEW n \in 1..Len(xs) PROVE part(n) \in Seq(Squid)
    <2>1. xs[n].resource \in Squid /\ xs[n].annotation.from \in Squid \cup {NoTransfer}
      BY <1>2 DEF AnnotatedResource, Annotation
    <2>2. \A p, q \in Squid : <<p>> \in Seq(Squid) /\ <<p, q>> \in Seq(Squid)
      OBVIOUS
    <2>3. QED
      BY <2>1, <2>2
  <1> HIDE DEF part
  <1>4. parts \in Seq(Seq(Squid))
    BY <1>2, <1>3
  <1> HIDE DEF parts
  <1>5. Seqs!FlattenSeq(parts) \in Seq(Squid)
    BY <1>4, FlattenFacts
  <1>6. sa.resources \in Seq(Squid)
    BY DEF IsSliceRecord
  <1>7. sa.resources \o Seqs!FlattenSeq(parts) \in Seq(Squid)
    BY <1>5, <1>6, ConcatProperties
  <1>8. QED
    BY <1>7 DEF Met, parts, part, xs

LEMMA EncodedFacts ==
  ASSUME NEW sa, IsSliceRecord(sa), IsSliceAssignment(sa),
         NEW order \in Seqs!SetToSeqs(DOMAIN sa.annotations), NEW known \in Seq(Squid)
  PROVE  SliceAssignmentToProto(known, sa, order) \in WireSliceAssignment
  <1> DEFINE xs == Annotated(sa, order)
             indices == [n \in DOMAIN sa.resources |-> Index(known, sa.resources[n])]
             annotations == [n \in DOMAIN xs |-> AnnotationToProto(known, xs[n])]
  <1>1. sa.slice \in Slice /\ sa.resources \in Seq(Squid) /\ sa.generation \in Gen!Generations
        /\ sa.load \in Load
    BY DEF IsSliceRecord
  <1>2. SliceToProto(sa.slice) \in WireSlice /\ GenerationToProto(sa.generation) \in WireGeneration
    BY <1>1, SliceWire, GenerationFacts
  <1>3. indices \in Seq(Int)
    <2>1. PICK list \in Seq(Squid) : list = sa.resources
      BY <1>1
    <2>2. Len(list) \in Nat /\ DOMAIN list = 1..Len(list)
      BY ListFacts
    <2>3. \A n \in 1..Len(list) : Index(known, list[n]) \in Int
      BY IndexFacts
    <2>4. [n \in 1..Len(list) |-> Index(known, list[n])] \in Seq(Int)
      BY <2>2, <2>3
    <2>5. QED
      BY <2>1, <2>2, <2>4
  <1>4. annotations \in Seq(WireAnnotation)
    <2>1. /\ Len(xs) \in Nat /\ DOMAIN xs = 1..Len(xs)
          /\ \A n \in 1..Len(xs) : xs[n] \in AnnotatedResource
      BY AnnotatedFacts, ListFacts
    <2>2. ASSUME NEW x \in AnnotatedResource PROVE AnnotationToProto(known, x) \in WireAnnotation
      <3>1. x.annotation.subslice \in Slice /\ x.annotation.number \in Nat
        BY DEF AnnotatedResource, Annotation
      <3>2. Index(known, x.resource) \in Int /\ Index(known, x.annotation.from) \in Int
        <4>1. \A sq : Index(known, sq) \in Nat
          BY IndexFacts
        <4>2. QED
          BY <4>1
      <3>3. SliceToProto(x.annotation.subslice) \in WireSlice
        BY <3>1, SliceWire
      <3>4. ToInt64(x.annotation.number) \in Int
        BY <3>1, IntegerFacts
      <3>5. QED
        BY <3>2, <3>3, <3>4 DEF AnnotationToProto, WireAnnotation
    <2> HIDE DEF xs
    <2>3. \A n \in 1..Len(xs) : AnnotationToProto(known, xs[n]) \in WireAnnotation
      BY <2>1, <2>2
    <2>4. QED
      BY <2>1, <2>3
  <1> HIDE DEF xs, indices, annotations
  <1>5. SliceAssignmentToProto(known, sa, order)
          = [slice |-> SliceToProto(sa.slice), generation |-> GenerationToProto(sa.generation),
             resourceIndices |-> indices, subsliceAnnotations |-> annotations,
             primaryRateLoad |-> sa.load]
    BY DEF SliceAssignmentToProto, xs, indices, annotations
  <1>6. QED
    BY <1>1, <1>2, <1>3, <1>4, <1>5 DEF WireSliceAssignment

-----------------------------------------------------------------------------
(* What the decoder makes of a slice that passes the checks *)

LEMMA ListInSet ==
  ASSUME NEW T, NEW s \in Seq(T), NEW e
  PROVE  (\A n \in 1..Len(s) : s[n] = e) <=> (\A x \in Seqs!ToSet(s) : x = e)
  <1>1. Seqs!ToSet(s) = {s[n] : n \in 1..Len(s)}
    BY ListFacts
  <1>2. QED
    BY <1>1

LEMMA ListOf ==
  ASSUME NEW T, NEW U, NEW s \in Seq(T), \A n \in 1..Len(s) : s[n] \in U
  PROVE  s \in Seq(U)
  <1>1. Len(s) \in Nat /\ s \in [1..Len(s) -> T]
    BY ListFacts
  <1>2. PICK l \in Nat : l = Len(s)
    BY <1>1
  <1>3. s \in [1..l -> U]
    BY <1>1, <1>2
  <1>4. QED
    BY <1>3

LEMMA ResourceAtFacts ==
  ASSUME resources \in Seq(CanonicalSquid), NEW idx \in Int
  PROVE  /\ CheckIndex(idx) \in Outcomes
         /\ CheckIndex(idx) = "passes" => ResourceAt(idx) \in CanonicalSquid
                                          /\ ResourceAt(idx) \in Squid
  <1>1. Len(resources) \in Nat /\ \A n \in 1..Len(resources) : resources[n] \in CanonicalSquid
    BY ListFacts
  <1>2. CheckIndex(idx) = "passes" => idx + 1 \in 1..Len(resources)
    BY <1>1 DEF CheckIndex
  <1>3. CheckIndex(idx) \in Outcomes
    BY DEF CheckIndex, Outcomes
  <1>4. QED
    BY <1>1, <1>2, <1>3, SquidAssumption DEF ResourceAt

\* The annotations that pass their checks.
PassingAnnotation ==
  {ap \in WireAnnotation :
     /\ ResourceAt(ap.resourceId) \in Squid /\ ~SliceFails(ap.subslice)
     /\ ap.stateTransfer # Nil => ResourceAt(ap.stateTransfer.fromResourceId) \in Squid}

LEMMA AnnotationChecksFacts ==
  ASSUME resources \in Seq(CanonicalSquid), NEW ap \in WireAnnotation
  PROVE  /\ Verdict(AnnotationChecks(ap)) \in Outcomes
         /\ Verdict(AnnotationChecks(ap)) = "passes" => ap \in PassingAnnotation
  <1> DEFINE a == CheckIndex(ap.resourceId)
             b == Check(SliceFails(ap.subslice), "error")
             c == IF ap.stateTransfer = Nil THEN "passes"
                  ELSE CheckIndex(ap.stateTransfer.fromResourceId)
  <1>1. /\ ap.resourceId \in Int
        /\ ap.stateTransfer # Nil => ap.stateTransfer.fromResourceId \in Int
    BY DEF WireAnnotation
  <1>2. SliceFails(ap.subslice) \in BOOLEAN
    BY DEF SliceFails
  <1>3. a \in Outcomes /\ (a = "passes" => ResourceAt(ap.resourceId) \in Squid)
    BY <1>1, ResourceAtFacts
  <1>4. b \in Outcomes /\ (b = "passes" => ~SliceFails(ap.subslice))
    BY <1>2, CheckFacts
  <1>5. c \in Outcomes /\ (c = "passes" /\ ap.stateTransfer # Nil
                            => ResourceAt(ap.stateTransfer.fromResourceId) \in Squid)
    BY <1>1, ResourceAtFacts DEF Outcomes
  <1>6. AnnotationChecks(ap) = <<a, b, c>>
    BY DEF AnnotationChecks
  <1> HIDE DEF a, b, c
  <1>7. PICK checks : checks = <<a, b, c>>
    OBVIOUS
  <1>8. /\ checks \in Seq(Outcomes) /\ Len(checks) = 3
        /\ checks[1] = a /\ checks[2] = b /\ checks[3] = c
    BY <1>3, <1>4, <1>5, <1>7
  <1>9. /\ Verdict(checks) \in Outcomes
        /\ Verdict(checks) = "passes" => a = "passes" /\ b = "passes" /\ c = "passes"
    <2>1. 1 \in 1..Len(checks) /\ 2 \in 1..Len(checks) /\ 3 \in 1..Len(checks)
      BY <1>8
    <2>2. QED
      BY <1>8, <2>1, VerdictFacts
  <1>10. QED
    BY <1>3, <1>4, <1>5, <1>6, <1>7, <1>9 DEF PassingAnnotation

\* What the checks let through.
Passes(sap) ==
  /\ ~SliceFails(sap.slice)
  /\ \A n \in 1..Len(sap.resourceIndices) : ResourceAt(sap.resourceIndices[n]) \in CanonicalSquid
  /\ \A n \in 1..Len(sap.subsliceAnnotations) : sap.subsliceAnnotations[n] \in PassingAnnotation

\* Every check of a slice passes.
EachPasses(sap) ==
  /\ ~SliceFails(sap.slice) /\ ~GenerationPanics(sap.generation)
  /\ \A n \in 1..Len(sap.resourceIndices) : CheckIndex(sap.resourceIndices[n]) = "passes"
  /\ sap.resourceIndices # << >>
  /\ \A n \in 1..Len(sap.subsliceAnnotations) :
       Verdict(AnnotationChecks(sap.subsliceAnnotations[n])) = "passes"

LEMMA SliceChecksPass ==
  ASSUME resources \in Seq(CanonicalSquid), NEW sap \in WireSliceAssignment
  PROVE  /\ Verdict(SliceChecks(sap)) \in Outcomes
         /\ Verdict(SliceChecks(sap)) = "passes" <=> EachPasses(sap)
  <1> DEFINE is == sap.resourceIndices
             as == sap.subsliceAnnotations
             head == <<Check(SliceFails(sap.slice), "error"),
                       Check(GenerationPanics(sap.generation), "panicked")>>
             ofIndices == [n \in DOMAIN is |-> CheckIndex(is[n])]
             some == <<Check(is = << >>, "error")>>
             ofAnnotations == [n \in DOMAIN as |-> Verdict(AnnotationChecks(as[n]))]
  <1>1. is \in Seq(Int) /\ as \in Seq(WireAnnotation)
    BY DEF WireSliceAssignment
  <1>2. SliceFails(sap.slice) \in BOOLEAN /\ GenerationPanics(sap.generation) \in BOOLEAN
    BY DEF SliceFails, GenerationPanics
  <1>3. SliceChecks(sap) = ((head \o ofIndices) \o some) \o ofAnnotations
    BY DEF SliceChecks
  <1> HIDE DEF is, as
  <1>4. /\ Len(is) \in Nat /\ DOMAIN is = 1..Len(is) /\ \A n \in 1..Len(is) : is[n] \in Int
        /\ Len(as) \in Nat /\ DOMAIN as = 1..Len(as) /\ \A n \in 1..Len(as) : as[n] \in WireAnnotation
    BY <1>1, ListFacts
  <1>5. /\ head \in Seq(Outcomes) /\ Len(head) = 2
        /\ head[1] = Check(SliceFails(sap.slice), "error")
        /\ head[2] = Check(GenerationPanics(sap.generation), "panicked")
    <2>1. PICK a \in Outcomes, b \in Outcomes :
            a = Check(SliceFails(sap.slice), "error")
            /\ b = Check(GenerationPanics(sap.generation), "panicked")
      BY <1>2, CheckFacts
    <2>2. QED
      BY <2>1
  <1>6. ofIndices \in Seq(Outcomes) /\ Len(ofIndices) = Len(is)
        /\ \A n \in 1..Len(is) : ofIndices[n] = CheckIndex(is[n])
    <2>1. \A n \in 1..Len(is) : CheckIndex(is[n]) \in Outcomes
      BY <1>4, ResourceAtFacts
    <2>2. QED
      BY <1>4, <2>1
  <1>7. some \in Seq(Outcomes) /\ Len(some) = 1 /\ some[1] = Check(is = << >>, "error")
    <2>1. PICK a \in Outcomes : a = Check(is = << >>, "error")
      BY CheckFacts
    <2>2. QED
      BY <2>1
  <1>8. ofAnnotations \in Seq(Outcomes) /\ Len(ofAnnotations) = Len(as)
        /\ \A n \in 1..Len(as) : ofAnnotations[n] = Verdict(AnnotationChecks(as[n]))
    <2>1. \A n \in 1..Len(as) : Verdict(AnnotationChecks(as[n])) \in Outcomes
      BY <1>4, AnnotationChecksFacts
    <2>2. PICK l \in Nat : l = Len(as)
      BY <1>4
    <2>3. ofAnnotations = [n \in 1..l |-> Verdict(AnnotationChecks(as[n]))]
      BY <1>4, <2>2
    <2>4. ofAnnotations \in [1..l -> Outcomes]
      BY <2>1, <2>2, <2>3
    <2> HIDE DEF ofAnnotations
    <2>5. ofAnnotations \in Seq(Outcomes) /\ Len(ofAnnotations) = l
      BY <2>4
    <2>6. QED
      BY <2>2, <2>3, <2>5
  <1> HIDE DEF head, ofIndices, some, ofAnnotations
  <1>9. PICK checks : checks = ((head \o ofIndices) \o some) \o ofAnnotations
    OBVIOUS
  <1>10. /\ checks \in Seq(Outcomes)
         /\ Seqs!ToSet(checks) = Seqs!ToSet(head) \cup Seqs!ToSet(ofIndices) \cup Seqs!ToSet(some)
                                 \cup Seqs!ToSet(ofAnnotations)
    <2>1. PICK x \in Seq(Outcomes) :
            x = head \o ofIndices /\ Seqs!ToSet(x) = Seqs!ToSet(head) \cup Seqs!ToSet(ofIndices)
      <3>1. /\ head \o ofIndices \in Seq(Outcomes)
            /\ Seqs!ToSet(head \o ofIndices) = Seqs!ToSet(head) \cup Seqs!ToSet(ofIndices)
        BY <1>5, <1>6, ConcatFacts
      <3>2. QED
        BY <3>1
    <2>0. some \in Seq(Outcomes)
      BY <1>7
    <2>2. PICK y \in Seq(Outcomes) :
            y = x \o some /\ Seqs!ToSet(y) = Seqs!ToSet(x) \cup Seqs!ToSet(some)
      BY <2>0, ConcatFacts
    <2>3. /\ y \o ofAnnotations \in Seq(Outcomes)
          /\ Seqs!ToSet(y \o ofAnnotations) = Seqs!ToSet(y) \cup Seqs!ToSet(ofAnnotations)
      BY <1>8, ConcatFacts
    <2>4. QED
      BY <1>9, <2>1, <2>2, <2>3
  <1>11. Verdict(checks) = "passes" <=> EachPasses(sap)
    <2>1. Verdict(checks) = "passes" <=> \A e \in Seqs!ToSet(checks) : e = "passes"
      BY <1>10, VerdictFacts, ListInSet
    <2>2. (\A e \in Seqs!ToSet(checks) : e = "passes")
            <=> /\ \A e \in Seqs!ToSet(head) : e = "passes"
                /\ \A e \in Seqs!ToSet(ofIndices) : e = "passes"
                /\ \A e \in Seqs!ToSet(some) : e = "passes"
                /\ \A e \in Seqs!ToSet(ofAnnotations) : e = "passes"
      BY <1>10
    <2>3. (\A e \in Seqs!ToSet(head) : e = "passes")
            <=> ~SliceFails(sap.slice) /\ ~GenerationPanics(sap.generation)
      <3>1. (\A e \in Seqs!ToSet(head) : e = "passes")
              <=> head[1] = "passes" /\ head[2] = "passes"
        <4>1. (\A e \in Seqs!ToSet(head) : e = "passes") <=> \A n \in 1..Len(head) : head[n] = "passes"
          BY <1>5, ListInSet
        <4>2. \A n : n \in 1..2 <=> n = 1 \/ n = 2
          OBVIOUS
        <4>3. QED
          BY <1>5, <4>1, <4>2
      <3>2. QED
        BY <1>2, <1>5, <3>1, CheckFacts
    <2>4. (\A e \in Seqs!ToSet(ofIndices) : e = "passes")
            <=> \A n \in 1..Len(is) : CheckIndex(is[n]) = "passes"
      <3>1. (\A e \in Seqs!ToSet(ofIndices) : e = "passes")
              <=> \A n \in 1..Len(ofIndices) : ofIndices[n] = "passes"
        BY <1>6, ListInSet
      <3>2. QED
        BY <1>6, <3>1
    <2>5. (\A e \in Seqs!ToSet(some) : e = "passes") <=> is # << >>
      <3>1. (\A e \in Seqs!ToSet(some) : e = "passes") <=> some[1] = "passes"
        <4>1. (\A e \in Seqs!ToSet(some) : e = "passes") <=> \A n \in 1..Len(some) : some[n] = "passes"
          BY <1>7, ListInSet
        <4>2. \A n : n \in 1..1 <=> n = 1
          OBVIOUS
        <4>3. QED
          BY <1>7, <4>1, <4>2
      <3>2. QED
        BY <1>7, <3>1, CheckFacts
    <2>6. (\A e \in Seqs!ToSet(ofAnnotations) : e = "passes")
            <=> \A n \in 1..Len(as) : Verdict(AnnotationChecks(as[n])) = "passes"
      <3>1. (\A e \in Seqs!ToSet(ofAnnotations) : e = "passes")
              <=> \A n \in 1..Len(ofAnnotations) : ofAnnotations[n] = "passes"
        BY <1>8, ListInSet
      <3>2. QED
        BY <1>8, <3>1
    <2>7. QED
      BY <2>1, <2>2, <2>3, <2>4, <2>5, <2>6 DEF EachPasses, is, as
  <1>12. Verdict(checks) \in Outcomes
    BY <1>10, VerdictFacts
  <1>13. QED
    BY <1>3, <1>9, <1>11, <1>12

LEMMA SliceChecksFacts ==
  ASSUME resources \in Seq(CanonicalSquid), NEW sap \in WireSliceAssignment
  PROVE  /\ Verdict(SliceChecks(sap)) \in Outcomes
         /\ Verdict(SliceChecks(sap)) = "passes" => Passes(sap)
  <1> DEFINE is == sap.resourceIndices
             as == sap.subsliceAnnotations
  <1>1. is \in Seq(Int) /\ as \in Seq(WireAnnotation)
    BY DEF WireSliceAssignment
  <1>2. ASSUME EachPasses(sap) PROVE Passes(sap)
    <2>1. /\ ~SliceFails(sap.slice)
          /\ \A n \in 1..Len(is) : CheckIndex(is[n]) = "passes"
          /\ \A n \in 1..Len(as) : Verdict(AnnotationChecks(as[n])) = "passes"
      BY <1>2 DEF EachPasses
    <2> HIDE DEF is, as
    <2>2. \A n \in 1..Len(is) : ResourceAt(is[n]) \in CanonicalSquid
      <3>1. \A n \in 1..Len(is) : is[n] \in Int
        BY <1>1, ListFacts
      <3>2. QED
        BY <2>1, <3>1, ResourceAtFacts
    <2>3. \A n \in 1..Len(as) : as[n] \in PassingAnnotation
      <3>1. \A n \in 1..Len(as) : as[n] \in WireAnnotation
        BY <1>1, ListFacts
      <3>2. QED
        BY <2>1, <3>1, AnnotationChecksFacts
    <2>4. QED
      BY <2>1, <2>2, <2>3 DEF Passes, is, as
  <1>3. QED
    BY <1>2, SliceChecksPass

LEMMA AnnotationWire ==
  ASSUME NEW ap \in PassingAnnotation
  PROVE  AnnotationFromProto(ap) \in Annotation
  <1>1. /\ ap \in WireAnnotation /\ ~SliceFails(ap.subslice)
        /\ ap.stateTransfer # Nil => ResourceAt(ap.stateTransfer.fromResourceId) \in Squid
    BY DEF PassingAnnotation
  <1>2. ap.subslice \in WireSlice \cup {Nil} /\ ap.generationNumber \in Int
    BY <1>1 DEF WireAnnotation
  <1>3. SliceFromProto(ap.subslice) \in Slice
    BY <1>1, <1>2, SliceWire
  <1>4. ToUint64(ap.generationNumber) \in Nat
    BY <1>2, IntegerFacts
  <1>5. QED
    BY <1>1, <1>3, <1>4 DEF AnnotationFromProto, Annotation

LEMMA DecodedSlice ==
  ASSUME NEW sap \in WireSliceAssignment, Passes(sap)
  PROVE  IsSliceRecord(SliceAssignmentFromProto(sap))
  <1> DEFINE is == sap.resourceIndices
             as == sap.subsliceAnnotations
             sa == SliceAssignmentFromProto(sap)
             lists == AnnotationsFromProto(as)
             owners == [n \in DOMAIN is |-> ResourceAt(is[n])]
  <1>1. /\ is \in Seq(Int) /\ as \in Seq(WireAnnotation) /\ sap.slice \in WireSlice \cup {Nil}
        /\ sap.generation \in WireGeneration \cup {Nil} /\ sap.primaryRateLoad \in Load
    BY DEF WireSliceAssignment
  <1>2. SliceFromProto(sap.slice) \in Slice /\ GenerationFromProto(sap.generation) \in Gen!Generations
    BY <1>1, SliceWire, GenerationFacts DEF Passes
  <1>3. owners \in Seq(Squid)
    <2>1. Len(is) \in Nat /\ DOMAIN is = 1..Len(is)
      BY <1>1, ListFacts
    <2>2. \A n \in 1..Len(is) : ResourceAt(is[n]) \in Squid
      BY SquidAssumption DEF Passes
    <2> HIDE DEF is
    <2>3. QED
      BY <2>1, <2>2
  <1>4. DOMAIN lists \subseteq Squid /\ lists \in [DOMAIN lists -> Seq(Annotation)]
    <2> DEFINE D == {ResourceAt(as[n].resourceId) : n \in DOMAIN as}
               ofR(r) == Those(as, {ap \in Seqs!ToSet(as) : ResourceAt(ap.resourceId) = r})
               of(r) == [n \in DOMAIN ofR(r) |-> AnnotationFromProto(ofR(r)[n])]
    <2>1. lists = [r \in D |-> of(r)]
      BY DEF AnnotationsFromProto
    <2>2. Len(as) \in Nat /\ DOMAIN as = 1..Len(as)
      BY <1>1, ListFacts
    <2>3. \A n \in 1..Len(as) : as[n] \in PassingAnnotation
      BY DEF Passes
    <2> HIDE DEF as
    <2>4. as \in Seq(PassingAnnotation)
      <3>1. as \in Seq(WireAnnotation)
        BY <1>1 DEF as
      <3>2. QED
        BY <2>3, <3>1, ListOf
    <2>5. D \subseteq Squid
      BY <2>2, <2>3 DEF PassingAnnotation
    <2>6. ASSUME NEW r \in D PROVE of(r) \in Seq(Annotation)
      <3>1. PICK x : x = ofR(r)
        OBVIOUS
      <3>2. x \in Seq(PassingAnnotation)
        BY <2>4, <3>1, ThoseFacts
      <3>3. Len(x) \in Nat /\ DOMAIN x = 1..Len(x) /\ \A n \in 1..Len(x) : x[n] \in PassingAnnotation
        BY <3>2, ListFacts
      <3>4. \A n \in 1..Len(x) : AnnotationFromProto(x[n]) \in Annotation
        BY <3>3, AnnotationWire
      <3>5. [n \in DOMAIN x |-> AnnotationFromProto(x[n])] \in Seq(Annotation)
        BY <3>3, <3>4
      <3>6. QED
        BY <3>1, <3>5
    <2> HIDE DEF of, D, lists
    <2>7. QED
      BY <2>1, <2>5, <2>6
  <1> HIDE DEF is, as, lists, owners
  <1>5. sa = [slice |-> SliceFromProto(sap.slice), generation |-> GenerationFromProto(sap.generation),
              resources |-> owners, annotations |-> lists, load |-> sap.primaryRateLoad]
    BY DEF SliceAssignmentFromProto, is, as, lists, owners
  <1> HIDE DEF sa
  <1>6. IsSliceRecord(sa)
    BY <1>1, <1>2, <1>3, <1>4, <1>5 DEF IsSliceRecord
  <1>7. QED
    BY <1>6 DEF sa

-----------------------------------------------------------------------------
(* The conversion *)

\* While there is something to convert, there is a message, and an Assignment to encode.
ConverterInv ==
  /\ ConverterTypeOK
  /\ outcome = "encoding" => source \in Sources /\ message \in WireAssignment
  /\ outcome = "decoding" => message \in WireAssignment

LEMMA EmptyFacts ==
  ASSUME NEW a, IsConstructed(a)
  PROVE  Empty(a) \in WireAssignment /\ Empty(a).resources = << >>
  <1>1. a.generation \in Gen!Generations /\ a.isFrozen \in BOOLEAN
    BY DEF IsConstructed
  <1>2. GenerationToProto(a.generation) \in WireGeneration
    BY <1>1, GenerationFacts
  <1>3. << >> \in Seq(WireSliceAssignment) /\ << >> \in Seq(WireSquid \cup {Nil})
    BY EmptySeq
  <1>4. QED
    BY <1>1, <1>2, <1>3 DEF Empty, WireAssignment

\* The resources of an empty pool.
LEMMA NoResources == [n \in DOMAIN << >> |-> SquidToProto(<< >>[n])] = << >>
  <1>1. << >> \in Seq(Squid) /\ Len(<< >>) = 0
    BY EmptySeq
  <1>2. DOMAIN << >> = {}
    <2>1. DOMAIN << >> = 1..Len(<< >>)
      BY <1>1, LenProperties
    <2>2. 1..0 = {}
      OBVIOUS
    <2>3. QED
      BY <1>1, <2>1, <2>2
  <1>3. PICK f : f = [n \in {} |-> SquidToProto(<< >>[n])]
    OBVIOUS
  <1>4. f \in [1..0 -> WireSquid]
    <2>1. 1..0 = {}
      OBVIOUS
    <2>2. QED
      BY <1>3, <2>1
  <1>5. f \in Seq(WireSquid) /\ Len(f) = 0
    BY <1>4
  <1>6. f = << >>
    BY <1>5, EmptySeq
  <1>7. QED
    BY <1>2, <1>3, <1>6

LEMMA NoSliceAssignments == AreSliceAssignments(<< >>)
  <1>1. << >> \in Seq(Seqs!ToSet(<< >>)) /\ Len(<< >>) = 0
    BY EmptySeq
  <1>2. DOMAIN << >> = 1..0
    BY <1>1, LenProperties
  <1>3. \A n : n \notin 1..0
    OBVIOUS
  <1>4. QED
    BY <1>1, <1>2, <1>3 DEF AreSliceAssignments

LEMMA ConverterInit == Init => ConverterInv
  <1> SUFFICES ASSUME Init PROVE ConverterInv
    OBVIOUS
  <1>1. pool = << >> /\ resources = << >> /\ made = << >> /\ result = Nil
    BY DEF Init
  <1>2. pool \in Seq(Squid) /\ Len(pool) = Cardinality(Seqs!ToSet(pool))
    <2>1. << >> \in Seq(Squid) /\ Len(<< >>) = 0
      BY EmptySeq
    <2>2. Distinct(<< >>)
      BY <2>1 DEF Distinct
    <2>3. QED
      BY <1>1, <2>1, <2>2, DistinctCounts
  <1>3. resources \in Seq(CanonicalSquid) /\ AreSliceAssignments(made)
    BY <1>1, EmptySeq, NoSliceAssignments
  <1>4. CASE source \in Sources /\ message = Empty(source) /\ outcome = "encoding"
    <2>1. message \in WireAssignment /\ message.resources = << >>
      BY <1>4, SourcesAssumption, EmptyFacts
    <2>2. message.resources = [n \in DOMAIN pool |-> SquidToProto(pool[n])]
      BY <1>1, <2>1, NoResources
    <2>3. QED
      BY <1>1, <1>2, <1>3, <1>4, <2>1, <2>2 DEF ConverterInv, ConverterTypeOK
  <1>5. CASE source = Nil /\ message \in Messages /\ outcome = "received"
    <2>1. message \in WireAssignment \cup {Nil}
      BY <1>5, MessagesAssumption
    <2>2. QED
      BY <1>1, <1>2, <1>3, <1>5, <2>1 DEF ConverterInv, ConverterTypeOK
  <1>6. QED
    BY <1>4, <1>5 DEF Init

LEMMA EncodeSliceKeeps ==
  ASSUME ConverterInv, EncodeSlice
  PROVE  ConverterInv'
  <1>1. /\ outcome = "encoding" /\ source \in Sources /\ message \in WireAssignment
        /\ UNCHANGED <<source, resources, made, outcome, result>>
    BY DEF ConverterInv, EncodeSlice
  <1>2. pool \in Seq(Squid) /\ Len(pool) = Cardinality(Seqs!ToSet(pool))
    BY DEF ConverterInv, ConverterTypeOK
  <1>3. PICK l : l = Len(message.sliceAssignments)
    OBVIOUS
  <1>4. message.sliceAssignments \in Seq(WireSliceAssignment) /\ l \in Nat
    BY <1>1, <1>3, ListFacts DEF WireAssignment
  <1>5. PICK sa : sa = source.sliceMap[l + 1]
    OBVIOUS
  <1>6. IsSliceRecord(sa) /\ IsSliceAssignment(sa)
    <2>1. AreSliceAssignments(source.sliceMap)
      BY <1>1, SourcesAssumption DEF IsConstructed
    <2>2. l < Len(source.sliceMap)
      BY <1>3 DEF EncodeSlice
    <2>3. Len(source.sliceMap) \in Nat
      BY <2>1, SliceAssignmentFacts
    <2>4. l + 1 \in 1..Len(source.sliceMap)
      BY <1>4, <2>2, <2>3
    <2>5. QED
      BY <1>5, <2>1, <2>4, SliceAssignmentFacts
  <1>7. PICK order \in Seqs!SetToSeqs(DOMAIN sa.annotations) :
          /\ pool' = Pooled(pool, Met(sa, order))
          /\ message' = [message EXCEPT
               !.sliceAssignments = Append(@, SliceAssignmentToProto(pool', sa, order)),
               !.resources = [n \in DOMAIN pool' |-> SquidToProto(pool'[n])]]
    BY <1>3, <1>5 DEF EncodeSlice
  <1>8. PICK known : known = pool'
    OBVIOUS
  <1>9. known \in Seq(Squid) /\ Len(known) = Cardinality(Seqs!ToSet(known))
    <2>1. Met(sa, order) \in Seq(Squid)
      BY <1>6, MetFacts
    <2>2. /\ Added(pool, Met(sa, order)) \in Seq(Squid)
          /\ Distinct(pool) => Distinct(Added(pool, Met(sa, order)))
      BY <1>2, <2>1, AddedFacts DEF Continues
    <2>3. known = Added(pool, Met(sa, order))
      BY <1>7, <1>8 DEF Pooled
    <2>4. Distinct(pool)
      BY <1>2, DistinctCounts
    <2>5. QED
      BY <2>2, <2>3, <2>4, DistinctCounts
  <1>10. PICK sap : sap = SliceAssignmentToProto(known, sa, order)
    OBVIOUS
  <1>11. sap \in WireSliceAssignment
    BY <1>6, <1>9, <1>10, EncodedFacts
  <1>12. PICK wire : wire = [n \in DOMAIN known |-> SquidToProto(known[n])]
    OBVIOUS
  <1>13. wire \in Seq(WireSquid \cup {Nil})
    <2>1. Len(known) \in Nat /\ DOMAIN known = 1..Len(known)
          /\ \A n \in 1..Len(known) : known[n] \in Squid
      BY <1>9, ListFacts
    <2>2. \A n \in 1..Len(known) : SquidToProto(known[n]) \in WireSquid
      BY <2>1, SquidsSurvive
    <2>3. QED
      BY <1>12, <2>1, <2>2
  <1>14. message' = [message EXCEPT !.sliceAssignments = Append(@, sap), !.resources = wire]
    BY <1>7, <1>8, <1>10, <1>12
  <1>15. Append(message.sliceAssignments, sap) \in Seq(WireSliceAssignment)
    BY <1>4, <1>11, AppendProperties
  <1>16. message' \in WireAssignment /\ message'.resources = wire
    BY <1>1, <1>13, <1>14, <1>15 DEF WireAssignment
  <1>17. ConverterTypeOK'
    <2>1. pool' \in Seq(Squid) /\ Len(pool') = Cardinality(Seqs!ToSet(pool'))
      BY <1>8, <1>9
    <2>2. message'.resources = [n \in DOMAIN pool' |-> SquidToProto(pool'[n])]
      BY <1>8, <1>12, <1>16
    <2>3. QED
      BY <1>1, <1>16, <2>1, <2>2 DEF ConverterInv, ConverterTypeOK
  <1>18. QED
    BY <1>1, <1>16, <1>17 DEF ConverterInv

LEMMA DecodeResourcesKeeps ==
  ASSUME ConverterInv, DecodeResources
  PROVE  ConverterInv'
  <1>1. outcome = "received" /\ UNCHANGED <<source, pool, message, made, result>>
        /\ message \in WireAssignment \cup {Nil} /\ resources \in Seq(CanonicalSquid)
        /\ AreSliceAssignments(made) /\ result = Nil
    BY DEF DecodeResources, ConverterInv, ConverterTypeOK
  <1> DEFINE nils == \E n \in DOMAIN message.resources : message.resources[n] = Nil
             checks == <<Check(GenerationPanics(message.generation), "panicked"),
                         Check(nils, "error")>>
  <1>2. PICK verdict : verdict = IF message = Nil THEN "error" ELSE Verdict(checks)
    OBVIOUS
  <1>3. IF verdict = "passes"
          THEN /\ outcome' = "decoding"
               /\ resources' =
                    [n \in DOMAIN message.resources |-> SquidFromProto(message.resources[n])]
          ELSE outcome' = verdict /\ resources' = resources
    BY <1>2 DEF DecodeResources
  <1>4. verdict \in Outcomes /\ (verdict = "passes" => message # Nil /\ ~nils)
    <2>1. GenerationPanics(message.generation) \in BOOLEAN /\ nils \in BOOLEAN
      BY DEF GenerationPanics
    <2> HIDE DEF nils
    <2>2. PICK a \in Outcomes, b \in Outcomes :
            /\ a = Check(GenerationPanics(message.generation), "panicked")
            /\ b = Check(nils, "error") /\ (b = "passes" <=> ~nils)
      BY <2>1, CheckFacts
    <2>3. PICK list : list = <<a, b>>
      OBVIOUS
    <2>4. list \in Seq(Outcomes) /\ Len(list) = 2 /\ list[2] = b
      BY <2>3
    <2>5. Verdict(list) \in Outcomes /\ (Verdict(list) = "passes" => b = "passes")
      <3>1. 2 \in 1..Len(list)
        BY <2>4
      <3>2. QED
        BY <2>4, <3>1, VerdictFacts
    <2>6. checks = list
      BY <2>2, <2>3
    <2>7. QED
      BY <1>2, <2>2, <2>5, <2>6 DEF Outcomes
  <1>5. CASE verdict = "passes"
    <2>1. message \in WireAssignment /\ \A n \in DOMAIN message.resources : message.resources[n] # Nil
      BY <1>1, <1>4, <1>5
    <2>2. PICK list : list = message.resources /\ list \in Seq(WireSquid \cup {Nil})
      BY <2>1 DEF WireAssignment
    <2>3. Len(list) \in Nat /\ DOMAIN list = 1..Len(list)
          /\ \A n \in 1..Len(list) : list[n] \in WireSquid
      BY <2>1, <2>2, ListFacts
    <2>4. ASSUME NEW p \in WireSquid PROVE SquidFromProto(p) \in CanonicalSquid
      <3>1. SquidFromProto(p) \in Squid
        BY DEF WireSquid
      <3>2. Canonical(SquidFromProto(p)) = SquidFromProto(p)
        BY DEF SquidFromProto, Canonical, CanonicalText, Parse
      <3>3. QED
        BY <3>1, <3>2 DEF CanonicalSquid
    <2>5. \A n \in 1..Len(list) : SquidFromProto(list[n]) \in CanonicalSquid
      BY <2>3, <2>4
    <2>6. resources' = [n \in DOMAIN list |-> SquidFromProto(list[n])] /\ outcome' = "decoding"
      BY <1>3, <1>5, <2>2
    <2>7. resources' \in Seq(CanonicalSquid)
      BY <2>3, <2>5, <2>6
    <2>8. QED
      BY <1>1, <2>1, <2>6, <2>7 DEF ConverterInv, ConverterTypeOK
  <1>6. CASE verdict # "passes"
    <2>1. outcome' \in {"error", "panicked"} /\ resources' = resources
      BY <1>3, <1>4, <1>6 DEF Outcomes
    <2>2. QED
      BY <1>1, <2>1 DEF ConverterInv, ConverterTypeOK
  <1>7. QED
    BY <1>5, <1>6

LEMMA DecodeSliceKeeps ==
  ASSUME ConverterInv, DecodeSlice
  PROVE  ConverterInv'
  <1>1. /\ outcome = "decoding" /\ message \in WireAssignment
        /\ UNCHANGED <<source, pool, message, resources, result>>
        /\ resources \in Seq(CanonicalSquid) /\ AreSliceAssignments(made) /\ result = Nil
    BY DEF DecodeSlice, ConverterInv, ConverterTypeOK
  <1>2. /\ Len(made) \in Nat /\ DOMAIN made = 1..Len(made) /\ made \in Seq(Seqs!ToSet(made))
        /\ \A n \in 1..Len(made) : IsSliceRecord(made[n]) /\ IsSliceAssignment(made[n])
    BY <1>1, SliceAssignmentFacts
  <1>3. PICK sap : sap = message.sliceAssignments[Len(made) + 1]
    OBVIOUS
  <1>4. sap \in WireSliceAssignment
    <2>1. PICK list \in Seq(WireSliceAssignment) : list = message.sliceAssignments
      BY <1>1 DEF WireAssignment
    <2>2. Len(made) < Len(list)
      BY <2>1 DEF DecodeSlice
    <2>3. Len(list) \in Nat /\ \A n \in 1..Len(list) : list[n] \in WireSliceAssignment
      BY ListFacts
    <2>4. Len(made) + 1 \in 1..Len(list)
      BY <1>2, <2>2, <2>3
    <2>5. QED
      BY <1>3, <2>1, <2>3, <2>4
  <1>5. PICK verdict : verdict = Verdict(SliceChecks(sap))
    OBVIOUS
  <1>6. PICK sa : sa = SliceAssignmentFromProto(sap)
    OBVIOUS
  <1>7. IF verdict # "passes" THEN outcome' = verdict /\ made' = made
        ELSE IF IsSliceAssignment(sa) THEN outcome' = outcome /\ made' = Append(made, sa)
        ELSE outcome' = "error" /\ made' = made
    BY <1>3, <1>5, <1>6 DEF DecodeSlice
  <1>8. verdict \in Outcomes /\ (verdict = "passes" => Passes(sap))
    BY <1>1, <1>4, <1>5, SliceChecksFacts
  <1>9. CASE verdict = "passes" /\ IsSliceAssignment(sa)
    <2>1. IsSliceRecord(sa)
      BY <1>4, <1>6, <1>8, <1>9, DecodedSlice
    <2>2. PICK all : all = Append(made, sa)
      OBVIOUS
    <2>3. AreSliceAssignments(all)
      <3>1. PICK T : T = Seqs!ToSet(made) \cup {sa}
        OBVIOUS
      <3>2. made \in Seq(T)
        <4>1. \A n \in 1..Len(made) : made[n] \in T
          BY <1>2, <3>1, ListFacts
        <4>2. QED
          BY <1>2, <4>1, ListOf
      <3>3. /\ all \in Seq(T) /\ Len(all) = Len(made) + 1 /\ all[Len(made) + 1] = sa
            /\ \A n \in 1..Len(made) : all[n] = made[n]
            /\ Seqs!ToSet(all) = T
        BY <2>2, <3>1, <3>2, AppendFacts
      <3>4. DOMAIN all = 1..Len(all)
        BY <3>3, LenProperties
      <3>5. \A n \in 1..Len(all) : n \in 1..Len(made) \/ n = Len(made) + 1
        BY <1>2, <3>3
      <3>6. \A n \in 1..Len(all) : IsSliceRecord(all[n]) /\ IsSliceAssignment(all[n])
        BY <1>2, <1>9, <2>1, <3>3, <3>5
      <3>7. QED
        BY <3>3, <3>4, <3>6 DEF AreSliceAssignments
    <2>4. outcome' = "decoding" /\ made' = all
      BY <1>1, <1>7, <1>9, <2>2
    <2>5. QED
      BY <1>1, <2>3, <2>4 DEF ConverterInv, ConverterTypeOK
  <1>10. CASE ~(verdict = "passes" /\ IsSliceAssignment(sa))
    <2>1. outcome' \in {"error", "panicked"} /\ made' = made
      BY <1>7, <1>8, <1>10 DEF Outcomes
    <2>2. QED
      BY <1>1, <2>1 DEF ConverterInv, ConverterTypeOK
  <1>11. QED
    BY <1>9, <1>10

LEMMA DecodeEndsKeeps ==
  ASSUME ConverterInv, DecodeEnds
  PROVE  ConverterInv'
  <1>1. /\ outcome = "decoding" /\ message \in WireAssignment
        /\ UNCHANGED <<source, pool, message, resources, made>>
        /\ resources \in Seq(CanonicalSquid) /\ AreSliceAssignments(made) /\ result = Nil
    BY DEF DecodeEnds, ConverterInv, ConverterTypeOK
  <1>2. PICK a : a = [generation |-> GenerationFromProto(message.generation), sliceMap |-> made,
                      isFrozen |-> message.isFrozen, mode |-> "eventual"]
    OBVIOUS
  <1>3. IF IsAssignment(a) THEN outcome' = "decoded" /\ result' = a
                           ELSE outcome' = "error" /\ result' = Nil
    BY <1>2 DEF DecodeEnds
  <1>4. message.generation \in WireGeneration \cup {Nil} /\ message.isFrozen \in BOOLEAN
    BY <1>1 DEF WireAssignment
  <1>5. GenerationFromProto(message.generation) \in Gen!Generations
    BY <1>4, GenerationFacts
  <1>6. IsAssignment(a) => IsConstructed(a)
    BY <1>1, <1>2, <1>4, <1>5 DEF IsConstructed
  <1>7. QED
    BY <1>1, <1>3, <1>6 DEF ConverterInv, ConverterTypeOK

LEMMA ConverterStep == ConverterInv /\ [Next]_vars => ConverterInv'
  <1> SUFFICES ASSUME ConverterInv, [Next]_vars PROVE ConverterInv'
    OBVIOUS
  <1>1. CASE EncodeSlice
    BY <1>1, EncodeSliceKeeps
  <1>2. CASE Sent
    BY <1>2 DEF Sent, ConverterInv, ConverterTypeOK
  <1>3. CASE DecodeResources
    BY <1>3, DecodeResourcesKeeps
  <1>4. CASE DecodeSlice
    BY <1>4, DecodeSliceKeeps
  <1>5. CASE DecodeEnds
    BY <1>5, DecodeEndsKeeps
  <1>6. CASE UNCHANGED vars
    BY <1>6 DEF vars, ConverterInv, ConverterTypeOK
  <1>7. QED
    BY <1>1, <1>2, <1>3, <1>4, <1>5, <1>6 DEF Next

LEMMA ConverterInvariant == Spec => []ConverterInv
  <1>1. QED
    BY ConverterInit, ConverterStep, PTL DEF Spec

\* Conversions keep their types: messages are well-formed, the pool has no resource
\* twice, and what was made passed the constructors.
THEOREM ConverterTypes == Spec => []ConverterTypeOK
  <1>1. ConverterInv => ConverterTypeOK
    BY DEF ConverterInv
  <1>2. QED
    BY <1>1, ConverterInvariant, PTL

\* Whatever the message, an Assignment that comes out of it agrees with itself.
THEOREM DecodedAgrees == Spec => []DecodedIsConsistent
  <1>1. ConverterInv => DecodedIsConsistent
    <2>1. SUFFICES ASSUME ConverterInv, outcome = "decoded"
                   PROVE  /\ OwnershipAgrees(result)
                          /\ AnnotationsAreOwned(result)
                          /\ \A n \in DOMAIN result.sliceMap : BoundedAnnotationsFit(result.sliceMap[n])
      BY DEF DecodedIsConsistent
    <2>2. IsConstructed(result)
      BY <2>1 DEF ConverterInv, ConverterTypeOK
    <2>3. QED
      BY <2>2, AssignmentsAgree
  <1>2. QED
    BY <1>1, ConverterInvariant, PTL

-----------------------------------------------------------------------------
(* The pool and its indices *)

\* The index stands for the Squid.
Names(known, idx, sq) == idx \in Nat /\ idx < Len(known) /\ known[idx + 1] = sq

LEMMA IndexNames ==
  ASSUME NEW known \in Seq(Squid), NEW sq \in Seqs!ToSet(known)
  PROVE  Names(known, Index(known, sq), sq)
  <1>1. Len(known) \in Nat /\ DOMAIN known = 1..Len(known) /\ \A n \in 1..Len(known) : known[n] \in Squid
    BY ListFacts
  <1> DEFINE I == {n \in 1..Len(known) : known[n] = sq}
  <1>2. I # {} /\ I \subseteq Nat
    BY ListFacts
  <1>3. PICK m \in I : \A n \in I : ~(<<n, m>> \in OpToRel(<, Nat))
    BY <1>2, WFMin, NatLessThanWellFounded
  <1>4. m \in 1..Len(known) /\ m \in Nat /\ known[m] = sq
    <2>1. m \in I
      BY <1>3
    <2>2. m \in 1..Len(known) /\ known[m] = sq
      BY <2>1
    <2>3. QED
      BY <1>1, <2>2
  <1>5. ASSUME NEW n \in 1..(m - 1) PROVE known[n] # sq
    <2>1. n \in 1..Len(known) /\ n \in Nat /\ n < m
      BY <1>1, <1>4
    <2>2. n \notin I
      BY <1>3, <1>4, <2>1 DEF OpToRel
    <2>3. QED
      BY <2>1, <2>2
  <1>6. ASSUME NEW n \in 1..Len(known)
        PROVE  Seqs!ToSet(SubSeq(known, 1, n)) = {known[i] : i \in 1..n}
    <2>1. \A i \in 1..n : i \in 1..Len(known)
      BY <1>1
    <2>2. \A i \in 1..n : known[i] \in Squid
      BY <1>1, <2>1
    <2>3. PICK s : s = SubSeq(known, 1, n)
      OBVIOUS
    <2>4. 1 \in Int /\ n \in Int /\ 1 <= n
      OBVIOUS
    <2>5. /\ s \in Seq(Squid) /\ Len(s) = n - 1 + 1
          /\ \A i \in 1..(n - 1 + 1) : s[i] = known[1 + i - 1]
      BY <2>2, <2>3, <2>4, SubSeqProperties
    <2>6. Len(s) = n /\ \A i \in 1..n : s[i] = known[i]
      <3>1. n - 1 + 1 = n /\ \A i \in 1..n : 1 + i - 1 = i
        OBVIOUS
      <3>2. QED
        BY <2>5, <3>1
    <2>7. Seqs!ToSet(s) = {s[i] : i \in 1..n}
      BY <2>5, <2>6, ListFacts
    <2>8. QED
      BY <2>3, <2>6, <2>7
  <1> DEFINE before == {n \in DOMAIN known : sq \notin Seqs!ToSet(SubSeq(known, 1, n))}
  <1>7. before = 1..(m - 1)
    <2>1. ASSUME NEW n \in 1..Len(known) PROVE n \in before <=> n < m
      <3>1. n \in before <=> ~(\E i \in 1..n : known[i] = sq)
        BY <1>1, <1>6
      <3>2. CASE n < m
        <4>1. \A i \in 1..n : i \in 1..(m - 1)
          BY <1>4, <3>2
        <4>2. QED
          BY <1>5, <3>1, <3>2, <4>1
      <3>3. CASE ~(n < m)
        <4>1. m \in 1..n
          BY <1>4, <3>3
        <4>2. QED
          BY <1>4, <3>1, <3>3, <4>1
      <3>4. QED
        BY <3>2, <3>3
    <2>2. before \subseteq 1..Len(known)
      BY <1>1
    <2> HIDE DEF before
    <2>3. \A n : n \in 1..(m - 1) <=> n \in 1..Len(known) /\ n < m
      BY <1>1, <1>4
    <2>4. QED
      BY <2>1, <2>2, <2>3
  <1>8. Cardinality(before) = m - 1
    <2>1. 1 \in Int /\ m - 1 \in Int
      BY <1>4
    <2>2. Cardinality(1..(m - 1)) = IF 1 > m - 1 THEN 0 ELSE (m - 1) - 1 + 1
      BY <2>1, FS_Interval
    <2>3. Cardinality(1..(m - 1)) = m - 1
      BY <1>4, <2>2
    <2>4. QED
      BY <1>7, <2>3
  <1>9. Index(known, sq) = m - 1
    BY <1>8 DEF Index
  <1>10. QED
    BY <1>1, <1>4, <1>9 DEF Names


\* The other list begins with this one.
Extends(more, known) ==
  Len(known) <= Len(more) /\ \A n \in 1..Len(known) : more[n] = known[n]

\* An index is the same ever after.
LEMMA IndexKept ==
  ASSUME NEW known \in Seq(Squid), NEW more \in Seq(Squid), Extends(more, known), Distinct(more),
         NEW sq \in Seqs!ToSet(known)
  PROVE  Index(more, sq) = Index(known, sq) /\ sq \in Seqs!ToSet(more)
  <1>1. /\ Len(known) \in Nat /\ Seqs!ToSet(known) = {known[n] : n \in 1..Len(known)}
        /\ Len(more) \in Nat /\ Seqs!ToSet(more) = {more[n] : n \in 1..Len(more)}
    BY ListFacts
  <1>2. Len(known) <= Len(more) /\ \A n \in 1..Len(known) : more[n] = known[n]
    BY DEF Extends
  <1>3. sq \in Seqs!ToSet(more)
    <2>1. PICK n \in 1..Len(known) : known[n] = sq
      BY <1>1
    <2>2. n \in 1..Len(more)
      BY <1>1, <1>2
    <2>3. QED
      BY <1>1, <1>2, <2>1, <2>2
  <1>4. PICK i \in Nat : i = Index(known, sq) /\ i < Len(known) /\ known[i + 1] = sq
    BY IndexNames DEF Names
  <1>5. PICK j \in Nat : j = Index(more, sq) /\ j < Len(more) /\ more[j + 1] = sq
    BY <1>3, IndexNames DEF Names
  <1>6. i + 1 \in 1..Len(known) /\ i + 1 \in 1..Len(more) /\ j + 1 \in 1..Len(more)
    BY <1>1, <1>2, <1>4, <1>5
  <1>7. more[i + 1] = more[j + 1]
    BY <1>2, <1>4, <1>5, <1>6
  <1>8. i + 1 = j + 1
    BY <1>6, <1>7 DEF Distinct
  <1>9. QED
    BY <1>3, <1>4, <1>5, <1>8

\* The encoder meets every resource of a slice.
LEMMA MetContains ==
  ASSUME NEW sa, IsSliceRecord(sa), IsSliceAssignment(sa),
         NEW order \in Seqs!SetToSeqs(DOMAIN sa.annotations)
  PROVE  /\ Seqs!ToSet(sa.resources) \subseteq Seqs!ToSet(Met(sa, order))
         /\ \A i \in 1..Len(Annotated(sa, order)) :
              LET x == Annotated(sa, order)[i] IN
              /\ x.resource \in Seqs!ToSet(Met(sa, order))
              /\ x.annotation.from # NoTransfer => x.annotation.from \in Seqs!ToSet(Met(sa, order))
  <1> DEFINE xs == Annotated(sa, order)
             part(n) == LET x == xs[n] IN
                        IF x.annotation.from = NoTransfer THEN <<x.resource>>
                                                          ELSE <<x.resource, x.annotation.from>>
             parts == [n \in DOMAIN xs |-> part(n)]
  <1>1. xs \in Seq(AnnotatedResource)
    BY AnnotatedFacts
  <1> HIDE DEF xs
  <1>2. Len(xs) \in Nat /\ DOMAIN xs = 1..Len(xs) /\ \A n \in 1..Len(xs) : xs[n] \in AnnotatedResource
    BY <1>1, ListFacts
  <1>3. ASSUME NEW n \in 1..Len(xs)
        PROVE  /\ part(n) \in Seq(Squid)
               /\ xs[n].resource \in Seqs!ToSet(part(n))
               /\ xs[n].annotation.from # NoTransfer => xs[n].annotation.from \in Seqs!ToSet(part(n))
    <2>1. xs[n].resource \in Squid /\ xs[n].annotation.from \in Squid \cup {NoTransfer}
      BY <1>2 DEF AnnotatedResource, Annotation
    <2>2. PICK r, f : r = xs[n].resource /\ f = xs[n].annotation.from
      OBVIOUS
    <2>3. CASE f = NoTransfer
      <3>1. part(n) = <<r>>
        BY <2>2, <2>3
      <3>2. PICK s : s = <<r>>
        OBVIOUS
      <3>3. s \in Seq(Squid) /\ Len(s) = 1 /\ s[1] = r
        BY <2>1, <2>2, <3>2
      <3>4. r \in Seqs!ToSet(s)
        BY <3>3, ListFacts
      <3>5. QED
        BY <2>2, <2>3, <3>1, <3>2, <3>3, <3>4
    <2>4. CASE f # NoTransfer
      <3>1. part(n) = <<r, f>>
        BY <2>2, <2>4
      <3>2. PICK s : s = <<r, f>>
        OBVIOUS
      <3>3. s \in Seq(Squid) /\ Len(s) = 2 /\ s[1] = r /\ s[2] = f
        BY <2>1, <2>2, <2>4, <3>2
      <3>4. r \in Seqs!ToSet(s) /\ f \in Seqs!ToSet(s)
        <4>1. 1 \in 1..Len(s) /\ 2 \in 1..Len(s)
          BY <3>3
        <4>2. Seqs!ToSet(s) = {s[m] : m \in 1..Len(s)}
          BY <3>3, ListFacts
        <4>3. s[1] \in Seqs!ToSet(s) /\ s[2] \in Seqs!ToSet(s)
          BY <4>1, <4>2
        <4>4. QED
          BY <3>3, <4>3
      <3>5. QED
        BY <2>2, <3>1, <3>2, <3>3, <3>4
    <2>5. QED
      BY <2>3, <2>4
  <1> HIDE DEF part
  <1>4. parts \in Seq(Seq(Squid)) /\ Len(parts) = Len(xs)
        /\ \A n \in 1..Len(xs) : parts[n] = part(n)
    BY <1>2, <1>3
  <1> HIDE DEF parts
  <1>5. /\ Seqs!FlattenSeq(parts) \in Seq(Squid)
        /\ Seqs!ToSet(Seqs!FlattenSeq(parts)) = UNION {Seqs!ToSet(parts[n]) : n \in 1..Len(parts)}
    BY <1>4, FlattenFacts
  <1>6. sa.resources \in Seq(Squid)
    BY DEF IsSliceRecord
  <1>7. Seqs!ToSet(sa.resources \o Seqs!FlattenSeq(parts))
          = Seqs!ToSet(sa.resources) \cup Seqs!ToSet(Seqs!FlattenSeq(parts))
    BY <1>5, <1>6, ConcatFacts
  <1>8. Met(sa, order) = sa.resources \o Seqs!FlattenSeq(parts)
    BY DEF Met, parts, part, xs
  <1>9. \A n \in 1..Len(xs) : Seqs!ToSet(part(n)) \subseteq Seqs!ToSet(Met(sa, order))
    BY <1>4, <1>5, <1>7, <1>8
  <1>10. \A n \in 1..Len(xs) :
           /\ xs[n].resource \in Seqs!ToSet(Met(sa, order))
           /\ xs[n].annotation.from # NoTransfer
                => xs[n].annotation.from \in Seqs!ToSet(Met(sa, order))
    BY <1>3, <1>9
  <1>11. QED
    BY <1>7, <1>8, <1>10 DEF xs

\* What the encoder made of a slice, the pool being this one.
Encodes(known, sap, sa) ==
  \E order \in Seqs!SetToSeqs(DOMAIN sa.annotations) :
    /\ Seqs!ToSet(Met(sa, order)) \subseteq Seqs!ToSet(known)
    /\ sap = SliceAssignmentToProto(known, sa, order)

\* It is that of any later pool.
LEMMA EncodesKept ==
  ASSUME NEW known \in Seq(Squid), NEW more \in Seq(Squid), Extends(more, known), Distinct(more),
         NEW sa, IsSliceRecord(sa), IsSliceAssignment(sa), NEW sap, Encodes(known, sap, sa)
  PROVE  Encodes(more, sap, sa)
  <1>1. PICK order \in Seqs!SetToSeqs(DOMAIN sa.annotations) :
          /\ Seqs!ToSet(Met(sa, order)) \subseteq Seqs!ToSet(known)
          /\ sap = SliceAssignmentToProto(known, sa, order)
    BY DEF Encodes
  <1>2. PICK met : met = Seqs!ToSet(Met(sa, order))
    OBVIOUS
  <1>3. \A sq \in met : Index(more, sq) = Index(known, sq) /\ sq \in Seqs!ToSet(more)
    <2>1. ASSUME NEW sq \in met PROVE Index(more, sq) = Index(known, sq) /\ sq \in Seqs!ToSet(more)
      <3>1. sq \in Seqs!ToSet(known)
        BY <1>1, <1>2
      <3>2. QED
        BY <3>1, IndexKept
    <2>2. QED
      BY <2>1
  <1>4. PICK xs : xs = Annotated(sa, order)
    OBVIOUS
  <1>5. PICK rs : rs = sa.resources
    OBVIOUS
  <1>6. rs \in Seq(Squid) /\ xs \in Seq(AnnotatedResource)
    BY <1>4, <1>5, AnnotatedFacts DEF IsSliceRecord
  <1>7. /\ DOMAIN rs = 1..Len(rs) /\ Seqs!ToSet(rs) = {rs[n] : n \in 1..Len(rs)}
        /\ DOMAIN xs = 1..Len(xs)
    BY <1>6, ListFacts
  <1>8. /\ \A n \in DOMAIN rs : rs[n] \in met
        /\ \A n \in DOMAIN xs :
             /\ xs[n].resource \in met
             /\ xs[n].annotation.from # NoTransfer => xs[n].annotation.from \in met
    BY <1>2, <1>4, <1>5, <1>7, MetContains
  <1>9. [n \in DOMAIN rs |-> Index(more, rs[n])] = [n \in DOMAIN rs |-> Index(known, rs[n])]
    BY <1>3, <1>8
  <1>10. \A n \in DOMAIN xs : AnnotationToProto(more, xs[n]) = AnnotationToProto(known, xs[n])
    BY <1>3, <1>8 DEF AnnotationToProto
  <1>11. [n \in DOMAIN xs |-> AnnotationToProto(more, xs[n])]
           = [n \in DOMAIN xs |-> AnnotationToProto(known, xs[n])]
    BY <1>10
  <1>12. SliceAssignmentToProto(more, sa, order) = SliceAssignmentToProto(known, sa, order)
    BY <1>4, <1>5, <1>9, <1>11 DEF SliceAssignmentToProto
  <1>13. QED
    BY <1>1, <1>2, <1>3, <1>12 DEF Encodes

-----------------------------------------------------------------------------
(* The annotations of a slice on the wire *)

\* Where each list is in the one they make: off says where it begins.
Blocks(off, seqs, flat, n) ==
  /\ off \in [1..n -> Nat]
  /\ \A k \in 1..n : off[k] + Len(seqs[k]) <= Len(flat)
  /\ \A k \in 1..n : \A m \in 1..Len(seqs[k]) : flat[off[k] + m] = seqs[k][m]
  /\ \A i \in 1..Len(flat) : \E k \in 1..n : \E m \in 1..Len(seqs[k]) : i = off[k] + m

\* One list more.
LEMMA BlocksMore ==
  ASSUME NEW T, NEW n \in Nat, n # 0, NEW seqs, \A k \in 1..n : seqs[k] \in Seq(T),
         NEW flat \in Seq(T), NEW off, Blocks(off, seqs, flat, n - 1)
  PROVE  \E o : Blocks(o, seqs, flat \o seqs[n], n)
  <1>1. /\ off \in [1..(n - 1) -> Nat]
        /\ \A k \in 1..(n - 1) : off[k] + Len(seqs[k]) <= Len(flat)
        /\ \A k \in 1..(n - 1) : \A m \in 1..Len(seqs[k]) : flat[off[k] + m] = seqs[k][m]
        /\ \A i \in 1..Len(flat) : \E k \in 1..(n - 1) : \E m \in 1..Len(seqs[k]) : i = off[k] + m
    BY DEF Blocks
  <1>2. PICK y \in Seq(T) : y = seqs[n]
    OBVIOUS
  <1>3. PICK z : z = flat \o y
    OBVIOUS
  <1>4. /\ Len(flat) \in Nat /\ Len(y) \in Nat /\ Len(z) = Len(flat) + Len(y)
        /\ \A i \in 1..Len(flat) : z[i] = flat[i]
        /\ \A i \in 1..Len(y) : z[Len(flat) + i] = y[i]
    BY <1>3, ConcatFacts, ListFacts
  <1>5. PICK o : o = [k \in 1..n |-> IF k = n THEN Len(flat) ELSE off[k]]
    OBVIOUS
  <1>6. (\A k \in 1..n : k \in 1..(n - 1) \/ k = n) /\ n \in 1..n
    OBVIOUS
  <1>7. o[n] = Len(flat) /\ \A k \in 1..(n - 1) : k \in 1..n /\ k # n /\ o[k] = off[k]
    BY <1>5
  <1>8. \A k \in 1..(n - 1) : Len(seqs[k]) \in Nat /\ off[k] \in Nat
    <2>1. ASSUME NEW k \in 1..(n - 1) PROVE Len(seqs[k]) \in Nat
      <3>1. seqs[k] \in Seq(T)
        BY <1>7
      <3>2. QED
        BY <3>1, ListFacts
    <2>2. QED
      BY <1>1, <2>1
  <1>9. o \in [1..n -> Nat]
    <2>1. \A k \in 1..n : o[k] \in Nat
      BY <1>4, <1>6, <1>7, <1>8
    <2>2. QED
      BY <1>5, <2>1
  <1>10. ASSUME NEW k \in 1..n
         PROVE  /\ o[k] + Len(seqs[k]) <= Len(z)
                /\ \A m \in 1..Len(seqs[k]) : z[o[k] + m] = seqs[k][m]
    <2>1. CASE k = n
      <3>1. o[k] = Len(flat) /\ seqs[k] = y
        BY <1>2, <1>7, <2>1
      <3>2. Len(flat) + Len(y) <= Len(z)
        BY <1>4
      <3>3. \A m \in 1..Len(y) : z[Len(flat) + m] = y[m]
        BY <1>4
      <3>4. o[k] + Len(seqs[k]) <= Len(z)
        BY <3>1, <3>2
      <3>5. \A m \in 1..Len(seqs[k]) : z[o[k] + m] = seqs[k][m]
        BY <3>1, <3>3
      <3>6. QED
        BY <3>4, <3>5
    <2>2. CASE k \in 1..(n - 1)
      <3>1. off[k] + Len(seqs[k]) <= Len(flat) /\ Len(seqs[k]) \in Nat /\ off[k] \in Nat
            /\ o[k] = off[k]
        BY <1>1, <1>7, <1>8, <2>2
      <3>2. \A m \in 1..Len(seqs[k]) : off[k] + m \in 1..Len(flat)
        BY <1>4, <3>1
      <3>3. \A m \in 1..Len(seqs[k]) : flat[off[k] + m] = seqs[k][m]
        BY <1>1, <2>2
      <3>4. \A m \in 1..Len(seqs[k]) : z[off[k] + m] = seqs[k][m]
        BY <1>4, <3>2, <3>3
      <3>5. off[k] + Len(seqs[k]) <= Len(z)
        BY <1>4, <3>1
      <3>6. QED
        BY <3>1, <3>4, <3>5
    <2>3. QED
      BY <1>6, <2>1, <2>2
  <1>11. ASSUME NEW i \in 1..Len(z) PROVE \E k \in 1..n : \E m \in 1..Len(seqs[k]) : i = o[k] + m
    <2>1. CASE i \in 1..Len(flat)
      <3>1. PICK k \in 1..(n - 1) : \E m \in 1..Len(seqs[k]) : i = off[k] + m
        BY <1>1, <2>1
      <3>2. QED
        BY <1>7, <3>1
    <2>2. CASE i \notin 1..Len(flat)
      <3>1. i - Len(flat) \in 1..Len(y) /\ i = Len(flat) + (i - Len(flat))
        BY <1>4, <2>2
      <3>2. QED
        BY <1>2, <1>6, <1>7, <3>1
    <2>3. QED
      BY <2>1, <2>2
  <1>12. Blocks(o, seqs, z, n)
    BY <1>9, <1>10, <1>11 DEF Blocks
  <1>13. QED
    BY <1>2, <1>3, <1>12

LEMMA FlattenBlocks ==
  ASSUME NEW T, NEW seqs \in Seq(Seq(T))
  PROVE  \E off : Blocks(off, seqs, Seqs!FlattenSeq(seqs), Len(seqs))
  <1> DEFINE m == Len(seqs)
  <1>1. m \in Nat /\ \A n \in 1..m : seqs[n] \in Seq(T)
    BY ListFacts
  <1>2. PICK none : none = [k \in 1..0 |-> 0]
    OBVIOUS
  <1>3. Blocks(none, seqs, << >>, 0)
    <2>1. Len(<< >>) = 0
      BY EmptySeq
    <2>2. \A n : n \notin 1..0
      OBVIOUS
    <2>3. none \in [1..0 -> Nat]
      BY <1>2, <2>2
    <2>4. QED
      BY <2>1, <2>2, <2>3 DEF Blocks
  <1>4. CASE m = 0
    <2>1. Seqs!FlattenSeq(seqs) = << >>
      BY <1>4, EmptySeq DEF Seqs!FlattenSeq
    <2>2. QED
      BY <1>3, <1>4, <2>1
  <1>5. CASE m # 0
    <2>1. PICK f : FlattenLoop(f, seqs) /\ Seqs!FlattenSeq(seqs) = f[m]
      BY <1>5, FlattenLoopExists
    <2>2. \A n \in 1..m : f[n] = IF n = 1 THEN seqs[n] ELSE f[n - 1] \o seqs[n]
      BY <2>1 DEF FlattenLoop
    <2> DEFINE A == {n \in 0..m : n = 0 \/ (f[n] \in Seq(T) /\ \E o : Blocks(o, seqs, f[n], n))}
    <2>3. 0 \in A
      BY <1>1
    <2>4. ASSUME NEW n \in 1..m, n - 1 \in A PROVE n \in A
      <3>1. n \in 0..m /\ n \in Nat /\ n # 0 /\ \A k \in 1..n : seqs[k] \in Seq(T)
        BY <1>1
      <3>2. seqs[n] \in Seq(T)
        BY <1>1
      <3>3. CASE n = 1
        <4>1. << >> \in Seq(T) /\ << >> \o seqs[n] = seqs[n]
          BY <3>2, EmptySeq, ConcatEmptySeq
        <4>2. Blocks(none, seqs, << >>, n - 1)
          BY <1>3, <3>3
        <4>3. \E o : Blocks(o, seqs, << >> \o seqs[n], n)
          BY <3>1, <4>1, <4>2, BlocksMore
        <4>4. f[n] = seqs[n]
          BY <2>2, <3>3
        <4>5. QED
          BY <3>1, <3>2, <4>1, <4>3, <4>4
      <3>4. CASE n # 1
        <4>1. n - 1 # 0
          BY <3>4
        <4>2. f[n - 1] \in Seq(T) /\ \E off : Blocks(off, seqs, f[n - 1], n - 1)
          BY <2>4, <4>1
        <4>3. \E o : Blocks(o, seqs, f[n - 1] \o seqs[n], n)
          BY <3>1, <4>2, BlocksMore
        <4>4. f[n] = f[n - 1] \o seqs[n] /\ f[n] \in Seq(T)
          BY <2>2, <3>2, <3>4, <4>2, ConcatProperties
        <4>5. QED
          BY <3>1, <4>3, <4>4
      <3>5. QED
        BY <3>3, <3>4
    <2>5. m \in A
      <3> HIDE DEF A, m
      <3>1. \A n \in 0..m : n \in A
        BY <1>1, <2>3, <2>4, Stepwise
      <3>2. QED
        BY <1>1, <3>1
    <2>6. QED
      BY <1>5, <2>1, <2>5
  <1>6. QED
    BY <1>4, <1>5

\* The annotations listed are those of the slice, and those of each resource are
\* together, in their order.
Grouped(xs, sa) ==
  /\ \A i \in 1..Len(xs) :
       \E r \in DOMAIN sa.annotations :
         \E m \in 1..Len(sa.annotations[r]) :
           xs[i] = [resource |-> r, annotation |-> sa.annotations[r][m]]
  /\ \A r \in DOMAIN sa.annotations :
       \E o \in Nat :
         /\ o + Len(sa.annotations[r]) <= Len(xs)
         /\ \A m \in 1..Len(sa.annotations[r]) :
              xs[o + m] = [resource |-> r, annotation |-> sa.annotations[r][m]]
         /\ \A i \in 1..Len(xs) :
              xs[i].resource = r => i \in (o + 1)..(o + Len(sa.annotations[r]))

LEMMA AnnotatedGrouped ==
  ASSUME NEW sa, IsSliceRecord(sa), IsSliceAssignment(sa),
         NEW order \in Seqs!SetToSeqs(DOMAIN sa.annotations)
  PROVE  Grouped(Annotated(sa, order), sa)
  <1> DEFINE D == DOMAIN sa.annotations
             part(n) == [m \in DOMAIN sa.annotations[order[n]] |->
                           [resource |-> order[n], annotation |-> sa.annotations[order[n]][m]]]
             parts == [n \in DOMAIN order |-> part(n)]
  <1>1. /\ Len(order) \in Nat /\ DOMAIN order = 1..Len(order) /\ order \in Seq(D)
        /\ Distinct(order) /\ IsFiniteSet(D) /\ Len(order) = Cardinality(D)
    BY OrderFacts
  <1>2. \A n \in 1..Len(order) : order[n] \in D
    BY <1>1, ListFacts
  <1>3. \A r \in D : \E n \in 1..Len(order) : order[n] = r
    <2>1. Seqs!ToSet(order) = {order[n] : n \in 1..Len(order)} /\ Seqs!ToSet(order) \subseteq D
      BY <1>1, ListFacts
    <2>2. Len(order) = Cardinality(Seqs!ToSet(order))
      BY <1>1, DistinctCounts
    <2>3. Seqs!ToSet(order) = D
      BY <1>1, <2>1, <2>2, FS_Subset
    <2>4. QED
      BY <2>1, <2>3
  <1>4. \A r \in D : /\ r \in Squid /\ Len(sa.annotations[r]) \in Nat
                     /\ DOMAIN sa.annotations[r] = 1..Len(sa.annotations[r])
                     /\ \A m \in 1..Len(sa.annotations[r]) : sa.annotations[r][m] \in Annotation
    <2>1. ASSUME NEW r \in D
          PROVE  /\ r \in Squid /\ Len(sa.annotations[r]) \in Nat
                 /\ DOMAIN sa.annotations[r] = 1..Len(sa.annotations[r])
                 /\ \A m \in 1..Len(sa.annotations[r]) : sa.annotations[r][m] \in Annotation
      <3>1. r \in Squid
        BY DEF IsSliceRecord
      <3>2. QED
        BY <3>1, AnnotationFacts
    <2>2. QED
      BY <2>1
  <1>5. ASSUME NEW n \in 1..Len(order)
        PROVE  /\ part(n) \in Seq(AnnotatedResource)
               /\ Len(part(n)) = Len(sa.annotations[order[n]])
               /\ \A m \in 1..Len(sa.annotations[order[n]]) :
                    part(n)[m] = [resource |-> order[n], annotation |-> sa.annotations[order[n]][m]]
    <2>1. PICK r \in D : r = order[n]
      BY <1>2
    <2>2. PICK list : list = sa.annotations[r]
      OBVIOUS
    <2>3. /\ r \in Squid /\ Len(list) \in Nat /\ DOMAIN list = 1..Len(list)
          /\ \A m \in 1..Len(list) : list[m] \in Annotation
      BY <1>4, <2>2
    <2>4. PICK p : p = [m \in 1..Len(list) |-> [resource |-> r, annotation |-> list[m]]]
      OBVIOUS
    <2>5. part(n) = p
      BY <2>1, <2>2, <2>3, <2>4
    <2>6. \A m \in 1..Len(list) : [resource |-> r, annotation |-> list[m]] \in AnnotatedResource
      BY <2>3 DEF AnnotatedResource
    <2> HIDE DEF part
    <2>7. p \in Seq(AnnotatedResource) /\ Len(p) = Len(list)
      BY <2>3, <2>4, <2>6
    <2>8. QED
      BY <2>1, <2>2, <2>4, <2>5, <2>7
  <1> HIDE DEF part
  <1>6. parts \in Seq(Seq(AnnotatedResource)) /\ Len(parts) = Len(order)
        /\ \A n \in 1..Len(order) : parts[n] = part(n)
    BY <1>1, <1>5
  <1> HIDE DEF parts
  <1>7. PICK xs : xs = Seqs!FlattenSeq(parts)
    OBVIOUS
  <1>8. PICK off : Blocks(off, parts, xs, Len(order))
    BY <1>6, <1>7, FlattenBlocks
  <1>9. /\ \A k \in 1..Len(order) : off[k] \in Nat
        /\ \A k \in 1..Len(order) : off[k] + Len(parts[k]) <= Len(xs)
        /\ \A k \in 1..Len(order) : \A m \in 1..Len(parts[k]) : xs[off[k] + m] = parts[k][m]
        /\ \A i \in 1..Len(xs) : \E k \in 1..Len(order) : \E m \in 1..Len(parts[k]) : i = off[k] + m
    BY <1>8 DEF Blocks
  <1>10. \A k \in 1..Len(order) :
           /\ Len(parts[k]) = Len(sa.annotations[order[k]])
           /\ \A m \in 1..Len(parts[k]) :
                xs[off[k] + m] = [resource |-> order[k], annotation |-> sa.annotations[order[k]][m]]
    BY <1>5, <1>6, <1>9
  <1>11. ASSUME NEW i \in 1..Len(xs)
         PROVE  \E r \in D : \E m \in 1..Len(sa.annotations[r]) :
                  xs[i] = [resource |-> r, annotation |-> sa.annotations[r][m]]
    <2>1. PICK k \in 1..Len(order) : \E m \in 1..Len(parts[k]) : i = off[k] + m
      BY <1>9
    <2>2. PICK m \in 1..Len(parts[k]) : i = off[k] + m
      BY <2>1
    <2>3. xs[i] = [resource |-> order[k], annotation |-> sa.annotations[order[k]][m]]
          /\ order[k] \in D /\ m \in 1..Len(sa.annotations[order[k]])
      BY <1>2, <1>10, <2>2
    <2>4. QED
      BY <2>3
  <1>12. ASSUME NEW r \in D
         PROVE  \E o \in Nat :
                  /\ o + Len(sa.annotations[r]) <= Len(xs)
                  /\ \A m \in 1..Len(sa.annotations[r]) :
                       xs[o + m] = [resource |-> r, annotation |-> sa.annotations[r][m]]
                  /\ \A i \in 1..Len(xs) :
                       xs[i].resource = r => i \in (o + 1)..(o + Len(sa.annotations[r]))
    <2>1. PICK n \in 1..Len(order) : order[n] = r
      BY <1>3
    <2>2. PICK o \in Nat : o = off[n]
      BY <1>9
    <2>3. PICK l \in Nat : l = Len(sa.annotations[r])
      BY <1>4
    <2>4. /\ o + l <= Len(xs)
          /\ \A m \in 1..l : xs[o + m] = [resource |-> r, annotation |-> sa.annotations[r][m]]
      BY <1>9, <1>10, <2>1, <2>2, <2>3
    <2>5. ASSUME NEW i \in 1..Len(xs), xs[i].resource = r PROVE i \in (o + 1)..(o + l)
      <3>1. PICK k \in 1..Len(order) : \E m \in 1..Len(parts[k]) : i = off[k] + m
        BY <1>9
      <3>0. PICK m \in 1..Len(parts[k]) : i = off[k] + m
        BY <3>1
      <3>2. order[k] = r
        <4>1. xs[i] = [resource |-> order[k], annotation |-> sa.annotations[order[k]][m]]
          BY <1>10, <3>0
        <4>2. QED
          BY <2>5, <4>1
      <3>3. k = n
        BY <1>1, <2>1, <3>2 DEF Distinct
      <3>4. m \in 1..l /\ i = o + m
        BY <1>10, <2>1, <2>2, <2>3, <3>0, <3>3
      <3>5. QED
        BY <2>2, <2>3, <3>4
    <2>6. QED
      BY <2>3, <2>4, <2>5
  <1>13. Grouped(xs, sa)
    BY <1>11, <1>12 DEF Grouped
  <1>14. QED
    BY <1>7, <1>13 DEF Annotated, parts, part

\* The elements of the list that are in S are the l of them after the first o.
IsRun(list, S, n, o, l) == \A i \in 1..n : list[i] \in S <=> i \in (o + 1)..(o + l)

\* x has those, one after the other.
HasRun(x, list, o, l) == Len(x) = l /\ \A m \in 1..l : x[m] = list[o + m]

\* What selects such elements has them so.
LEMMA RunSelected ==
  ASSUME NEW x, NEW list, NEW S, NEW n \in Nat, NEW pos, Selects(pos, x, list, S, n), Len(x) \in Nat,
         NEW o \in Nat, NEW l \in Nat, o + l <= n, IsRun(list, S, n, o, l)
  PROVE  HasRun(x, list, o, l)
  <1>1. /\ pos \in [1..Len(x) -> 1..n]
        /\ \A m \in 1..Len(x) : x[m] = list[pos[m]]
        /\ \A m, k \in 1..Len(x) : m < k => pos[m] < pos[k]
        /\ \A i \in 1..n : list[i] \in S <=> \E m \in 1..Len(x) : pos[m] = i
    BY DEF Selects
  <1>2. PICK L \in Nat : L = Len(x)
    OBVIOUS
  <1>3. \A m \in 1..L : pos[m] \in 1..n /\ pos[m] \in (o + 1)..(o + l) /\ pos[m] \in Nat
    <2>1. ASSUME NEW m \in 1..L PROVE pos[m] \in 1..n /\ pos[m] \in (o + 1)..(o + l) /\ pos[m] \in Nat
      <3>1. pos[m] \in 1..n
        BY <1>1, <1>2
      <3>2. list[pos[m]] \in S
        BY <1>1, <1>2, <3>1
      <3>3. QED
        BY <3>1, <3>2 DEF IsRun
    <2>2. QED
      BY <2>1
  <1>4. ASSUME NEW i \in (o + 1)..(o + l) PROVE \E m \in 1..L : pos[m] = i
    <2>1. i \in 1..n
      OBVIOUS
    <2>2. list[i] \in S
      BY <2>1 DEF IsRun
    <2>3. QED
      BY <1>1, <1>2, <2>1, <2>2
  <1> DEFINE A == {m \in 0..L : m = 0 \/ pos[m] = o + m}
  <1>5. 0 \in A
    OBVIOUS
  <1>6. ASSUME NEW m \in 1..L, m - 1 \in A PROVE m \in A
    <2>1. pos[m] \in (o + 1)..(o + l) /\ m \in 0..L
      BY <1>3
    <2>2. m = 1 \/ (m - 1 \in 1..L /\ pos[m - 1] = o + (m - 1))
      BY <1>6
    <2>3. pos[m] >= o + m
      <3>1. CASE m = 1
        BY <2>1, <3>1
      <3>2. CASE m # 1
        <4>1. pos[m - 1] < pos[m] /\ pos[m - 1] = o + (m - 1)
          BY <1>1, <1>2, <2>2, <3>2
        <4>2. QED
          BY <2>1, <4>1
      <3>3. QED
        BY <3>1, <3>2
    <2>4. pos[m] <= o + m
      <3>1. SUFFICES ASSUME pos[m] > o + m PROVE FALSE
        BY <2>1
      <3>2. o + m \in (o + 1)..(o + l)
        BY <2>1, <3>1
      <3>3. PICK k \in 1..L : pos[k] = o + m
        BY <1>4, <3>2
      <3>4. ~(m < k) /\ m # k
        <4>1. m < k => pos[m] < pos[k]
          BY <1>1, <1>2
        <4>2. pos[m] \in Nat /\ pos[k] \in Nat
          BY <1>3
        <4>3. QED
          BY <3>1, <3>3, <4>1, <4>2
      <3>5. k <= m - 1 /\ m # 1
        BY <3>4
      <3>6. pos[k] <= pos[m - 1]
        <4>1. m - 1 \in 1..L /\ pos[k] \in Nat /\ pos[m - 1] \in Nat
          BY <1>3, <2>2, <3>5
        <4>2. k < m - 1 => pos[k] < pos[m - 1]
          BY <1>1, <1>2, <4>1
        <4>3. k = m - 1 \/ k < m - 1
          BY <3>5
        <4>4. QED
          BY <4>1, <4>2, <4>3
      <3>7. QED
        BY <2>2, <3>3, <3>5, <3>6
    <2>5. QED
      BY <2>1, <2>3, <2>4
  <1>7. \A m \in 1..L : pos[m] = o + m
    <2>1. \A m \in 1..L : m \in 0..L /\ m # 0
      OBVIOUS
    <2>2. \A m \in 0..L : m \in A
      <3> HIDE DEF A
      <3>1. QED
        BY <1>5, <1>6, Stepwise
    <2>3. QED
      BY <2>1, <2>2
  <1>8. L <= l
    <2>1. CASE L = 0
      BY <2>1
    <2>2. CASE L # 0
      <3>1. L \in 1..L
        BY <2>2
      <3>2. QED
        BY <1>3, <1>7, <3>1
    <2>3. QED
      BY <2>1, <2>2
  <1>9. l <= L
    <2>1. CASE l = 0
      BY <2>1
    <2>2. CASE l # 0
      <3>1. o + l \in (o + 1)..(o + l)
        BY <2>2
      <3>2. PICK m \in 1..L : pos[m] = o + l
        BY <1>4, <3>1
      <3>3. QED
        BY <1>7, <3>2
    <2>3. QED
      BY <2>1, <2>2
  <1>10. L = l
    BY <1>8, <1>9
  <1>11. \A m \in 1..L : x[m] = list[o + m]
    <2>1. \A m \in 1..L : x[m] = list[pos[m]]
      BY <1>1, <1>2
    <2>2. QED
      BY <1>7, <2>1
  <1>12. QED
    BY <1>2, <1>10, <1>11 DEF HasRun

-----------------------------------------------------------------------------
(* There and back *)

LEMMA IntegerTrips ==
  ASSUME NEW n \in Nat, n < Words
  PROVE  ToUint64(ToInt64(n)) = n
  <1>1. PICK w \in Nat \ {0} : w = Words
    BY WordAssumption, Powers DEF Words
  <1>2. n \in 0..(w - 1)
    BY <1>1
  <1>3. (((-1) * w + n) % w = n) /\ ((0 * w + n) % w = n)
    <2>1. -1 \in Int /\ 0 \in Int
      OBVIOUS
    <2>2. QED
      BY <1>2, <2>1, Division
  <1>4. (-1) * w + n = n - w /\ 0 * w + n = n
    OBVIOUS
  <1>5. ToInt64(n) = n - w \/ ToInt64(n) = n
    BY <1>1 DEF ToInt64
  <1>6. ((n - w) % w = n) /\ (n % w = n)
    BY <1>3, <1>4
  <1>7. QED
    BY <1>1, <1>5, <1>6 DEF ToUint64

LEMMA GenerationTrips ==
  ASSUME NEW g \in Gen!Generations, g.incarnation < Guardrail, g.number < Words
  PROVE  /\ GenerationFromProto(GenerationToProto(g)) = g
         /\ ~GenerationPanics(GenerationToProto(g))
  <1>1. g.incarnation \in Nat /\ g.number \in Nat
        /\ g = [incarnation |-> g.incarnation, number |-> g.number]
    BY DEF Gen!Generations
  <1>2. Words \in Nat /\ Guardrail \in Nat /\ Guardrail <= Words
    BY WordAssumption, Powers, SourcesAssumption DEF Words
  <1>3. g.incarnation < Words
    BY <1>1, <1>2
  <1>4. ToUint64(ToInt64(g.incarnation)) = g.incarnation /\ ToUint64(ToInt64(g.number)) = g.number
    BY <1>1, <1>3, IntegerTrips
  <1>5. GenerationToProto(g) # Nil
    BY GenerationFacts, NilAssumption
  <1>6. GenerationToProto(g).incarnation = ToInt64(g.incarnation)
        /\ GenerationToProto(g).number = ToInt64(g.number)
    BY DEF GenerationToProto
  <1>7. GenerationFromProto(GenerationToProto(g)) = g
    BY <1>1, <1>4, <1>5, <1>6 DEF GenerationFromProto
  <1>8. ~(g.incarnation >= Guardrail)
    BY <1>1, <1>2
  <1>9. QED
    BY <1>4, <1>6, <1>7, <1>8 DEF GenerationPanics

LEMMA SliceTrips ==
  ASSUME NEW s \in Slice
  PROVE  SliceFromProto(SliceToProto(s)) = s /\ ~SliceFails(SliceToProto(s))
  <1>1. s \in [low : Key, high : HighKey] /\ IsSlice(s)
    BY DEF Slice
  <1>2. SliceToProto(s) # Nil
    BY SliceWire, NilAssumption
  <1>3. s = [low |-> s.low, high |-> s.high]
    BY <1>1
  <1>4. s.high # InfinityKey => s.high \in Key /\ s.high # Nil
    BY <1>1, NilAssumption DEF HighKey
  <1>5. SliceFromProto(SliceToProto(s)) = [low |-> s.low, high |-> s.high]
    BY <1>4 DEF SliceFromProto, SliceToProto
  <1>6. QED
    BY <1>1, <1>2, <1>3, <1>5 DEF SliceFails

\* The decoder has the pool of the encoder, each Squid as it comes from the wire.
PoolReceived ==
  /\ pool \in Seq(Squid) /\ resources \in Seq(CanonicalSquid) /\ Len(resources) = Len(pool)
  /\ \A n \in 1..Len(pool) : resources[n] = Canonical(pool[n])

LEMMA ResourceTrips ==
  ASSUME PoolReceived, NEW sq \in Seqs!ToSet(pool)
  PROVE  /\ CheckIndex(Index(pool, sq)) = "passes"
         /\ ResourceAt(Index(pool, sq)) = Canonical(sq)
  <1>1. Len(pool) \in Nat
    BY ListFacts DEF PoolReceived
  <1>2. PICK i \in Nat : i = Index(pool, sq) /\ i < Len(pool) /\ pool[i + 1] = sq
    BY IndexNames DEF PoolReceived, Names
  <1>3. i + 1 \in 1..Len(pool)
    BY <1>1, <1>2
  <1>4. resources[i + 1] = Canonical(sq)
    BY <1>2, <1>3 DEF PoolReceived
  <1>5. CheckIndex(i) = "passes"
    <2>1. ~(i >= Len(resources)) /\ ~(i < 0)
      BY <1>1, <1>2 DEF PoolReceived
    <2>2. QED
      BY <2>1 DEF CheckIndex
  <1>6. QED
    BY <1>2, <1>4, <1>5 DEF ResourceAt

\* A transfer's source after a round trip, or none.
CanonicalFrom(from) == IF from = NoTransfer THEN NoTransfer ELSE Canonical(from)

LEMMA ThreePass == Verdict(<<"passes", "passes", "passes">>) = "passes"
  <1>1. PICK checks : checks = <<"passes", "passes", "passes">>
    OBVIOUS
  <1>2. checks \in Seq(Outcomes) /\ Len(checks) = 3 /\ \A n \in 1..3 : checks[n] = "passes"
    BY <1>1 DEF Outcomes
  <1>3. QED
    BY <1>1, <1>2, VerdictFacts

LEMMA AnnotationTrips ==
  ASSUME PoolReceived, NEW x \in AnnotatedResource, x.annotation.number < Words,
         x.resource \in Seqs!ToSet(pool),
         x.annotation.from # NoTransfer => x.annotation.from \in Seqs!ToSet(pool),
         NEW ap, ap = AnnotationToProto(pool, x)
  PROVE  /\ Verdict(AnnotationChecks(ap)) = "passes"
         /\ ResourceAt(ap.resourceId) = Canonical(x.resource)
         /\ AnnotationFromProto(ap)
              = [subslice |-> x.annotation.subslice, number |-> x.annotation.number,
                 from |-> CanonicalFrom(x.annotation.from)]
  <1>1. x.annotation.subslice \in Slice /\ x.annotation.number \in Nat
    BY DEF AnnotatedResource, Annotation
  <1>2. /\ ap.resourceId = Index(pool, x.resource)
        /\ ap.subslice = SliceToProto(x.annotation.subslice)
        /\ ap.generationNumber = ToInt64(x.annotation.number)
        /\ ap.stateTransfer = IF x.annotation.from = NoTransfer THEN Nil
                              ELSE [fromResourceId |-> Index(pool, x.annotation.from)]
    BY DEF AnnotationToProto
  <1>3. CheckIndex(ap.resourceId) = "passes" /\ ResourceAt(ap.resourceId) = Canonical(x.resource)
    BY <1>2, ResourceTrips
  <1>4. ~SliceFails(ap.subslice) /\ SliceFromProto(ap.subslice) = x.annotation.subslice
    BY <1>1, <1>2, SliceTrips
  <1>5. ToUint64(ap.generationNumber) = x.annotation.number
    BY <1>1, <1>2, IntegerTrips
  <1>6. CASE x.annotation.from = NoTransfer
    <2>1. ap.stateTransfer = Nil
      BY <1>2, <1>6
    <2>2. AnnotationChecks(ap) = <<"passes", "passes", "passes">>
      BY <1>3, <1>4, <2>1 DEF AnnotationChecks, Check
    <2>3. AnnotationFromProto(ap)
            = [subslice |-> x.annotation.subslice, number |-> x.annotation.number,
               from |-> NoTransfer]
      BY <1>4, <1>5, <2>1 DEF AnnotationFromProto
    <2>4. QED
      BY <1>3, <1>6, <2>2, <2>3, ThreePass DEF CanonicalFrom
  <1>7. CASE x.annotation.from # NoTransfer
    <2>1. PICK i \in Nat : i = Index(pool, x.annotation.from)
      BY IndexFacts DEF PoolReceived
    <2>2. ap.stateTransfer = [fromResourceId |-> i]
      BY <1>2, <1>7, <2>1
    <2>3. ap.stateTransfer # Nil /\ ap.stateTransfer.fromResourceId = i
      <3>1. [fromResourceId |-> i] \in [fromResourceId : Int]
        OBVIOUS
      <3>2. QED
        BY <2>2, <3>1, NilAssumption
    <2>4. CheckIndex(i) = "passes" /\ ResourceAt(i) = Canonical(x.annotation.from)
      BY <1>7, <2>1, ResourceTrips
    <2>5. AnnotationChecks(ap) = <<"passes", "passes", "passes">>
      BY <1>3, <1>4, <2>3, <2>4 DEF AnnotationChecks, Check
    <2>6. AnnotationFromProto(ap)
            = [subslice |-> x.annotation.subslice, number |-> x.annotation.number,
               from |-> Canonical(x.annotation.from)]
      BY <1>4, <1>5, <2>3, <2>4 DEF AnnotationFromProto
    <2>7. QED
      BY <1>3, <1>7, <2>5, <2>6, ThreePass DEF CanonicalFrom
  <1>8. QED
    BY <1>6, <1>7

-----------------------------------------------------------------------------
(* A slice there and back *)

\* Squids of the set differ in more than how their UUIDs are written.
OneForm(S) == \A p, q \in S : Canonical(p) = Canonical(q) => p = q

\* What the encoder is given of a slice.
Encodable(sa) ==
  /\ IsSliceRecord(sa) /\ IsSliceAssignment(sa)
  /\ sa.generation.incarnation < Guardrail /\ sa.generation.number < Words

CanonicalAnnotation(annotation) ==
  [subslice |-> annotation.subslice, number |-> annotation.number,
   from |-> CanonicalFrom(annotation.from)]

LEMMA CanonicalListFacts ==
  ASSUME NEW list \in Seq(Annotation)
  PROVE  /\ CanonicalList(list) = [m \in 1..Len(list) |-> CanonicalAnnotation(list[m])]
         /\ CanonicalList(list) \in Seq(Annotation) /\ Len(CanonicalList(list)) = Len(list)
  <1>1. Len(list) \in Nat /\ DOMAIN list = 1..Len(list) /\ \A m \in 1..Len(list) : list[m] \in Annotation
    BY ListFacts
  <1>2. ASSUME NEW a \in Annotation
        PROVE  /\ [a EXCEPT !.from = IF @ = NoTransfer THEN NoTransfer ELSE Canonical(@)]
                    = CanonicalAnnotation(a)
               /\ CanonicalAnnotation(a) \in Annotation
    <2>1. PICK f : f = CanonicalFrom(a.from)
      OBVIOUS
    <2>2. f \in Squid \cup {NoTransfer}
      BY <2>1, SquidsSurvive DEF CanonicalFrom, Annotation
    <2>3. [a EXCEPT !.from = f] = [subslice |-> a.subslice, number |-> a.number, from |-> f]
      BY DEF Annotation
    <2>4. CanonicalAnnotation(a) = [subslice |-> a.subslice, number |-> a.number, from |-> f]
      BY <2>1 DEF CanonicalAnnotation
    <2>5. [a EXCEPT !.from = IF @ = NoTransfer THEN NoTransfer ELSE Canonical(@)]
            = [a EXCEPT !.from = f]
      BY <2>1 DEF CanonicalFrom
    <2>6. CanonicalAnnotation(a) \in Annotation
      BY <2>2, <2>4 DEF Annotation
    <2>7. QED
      BY <2>3, <2>4, <2>5, <2>6
  <1>3. CanonicalList(list) = [m \in 1..Len(list) |-> CanonicalAnnotation(list[m])]
    BY <1>1, <1>2 DEF CanonicalList
  <1>4. \A m \in 1..Len(list) : CanonicalAnnotation(list[m]) \in Annotation
    BY <1>1, <1>2
  <1>5. [m \in 1..Len(list) |-> CanonicalAnnotation(list[m])] \in Seq(Annotation)
        /\ Len([m \in 1..Len(list) |-> CanonicalAnnotation(list[m])]) = Len(list)
    BY <1>1, <1>4
  <1>6. QED
    BY <1>3, <1>5

CanonicalAnnotations(sa) ==
  [r \in {Canonical(q) : q \in DOMAIN sa.annotations} |->
     CanonicalList(sa.annotations[CHOOSE q \in DOMAIN sa.annotations : Canonical(q) = r])]

CanonicalResources(sa) == [n \in DOMAIN sa.resources |-> Canonical(sa.resources[n])]

LEMMA CanonicalSliceIs ==
  ASSUME NEW sa, IsSliceRecord(sa)
  PROVE  CanonicalSlice(sa)
           = [slice |-> sa.slice, resources |-> CanonicalResources(sa), generation |-> sa.generation,
              annotations |-> CanonicalAnnotations(sa), load |-> sa.load]
  <1>1. PICK rs, as : rs = CanonicalResources(sa) /\ as = CanonicalAnnotations(sa)
    OBVIOUS
  <1>2. CanonicalSlice(sa) = [sa EXCEPT !.resources = rs, !.annotations = as]
    BY <1>1 DEF CanonicalSlice, CanonicalResources, CanonicalAnnotations
  <1>3. PICK A : A = {sa.annotations}
    OBVIOUS
  <1>4. sa \in [slice : Slice, resources : Seq(Squid), generation : Gen!Generations,
                annotations : A, load : Load]
    BY <1>3 DEF IsSliceRecord
  <1>5. [sa EXCEPT !.resources = rs, !.annotations = as]
          = [slice |-> sa.slice, resources |-> rs, generation |-> sa.generation,
             annotations |-> as, load |-> sa.load]
    <2>1. PICK s, q, g, a, l : /\ s = sa.slice /\ q = sa.resources /\ g = sa.generation
                               /\ a = sa.annotations /\ l = sa.load
      OBVIOUS
    <2>2. PICK R : R = [slice : {s}, resources : {q, rs}, generation : {g},
                        annotations : {a, as}, load : {l}]
      OBVIOUS
    <2>3. sa \in R
      BY <1>4, <2>1, <2>2
    <2>4. PICK u : u = [sa EXCEPT !.resources = rs, !.annotations = as]
      OBVIOUS
    <2>5. u \in R /\ u.resources = rs /\ u.annotations = as
      BY <2>2, <2>3, <2>4
    <2>6. u = [slice |-> s, resources |-> rs, generation |-> g, annotations |-> as, load |-> l]
      BY <2>2, <2>5
    <2>7. QED
      BY <2>1, <2>4, <2>6
  <1>6. QED
    BY <1>1, <1>2, <1>5

\* An annotation that the encoder lists is one of a resource of the slice, from before
\* the slice's generation.
LEMMA EncodedAnnotation ==
  ASSUME NEW sa, Encodable(sa), NEW order \in Seqs!SetToSeqs(DOMAIN sa.annotations),
         NEW i \in 1..Len(Annotated(sa, order))
  PROVE  LET x == Annotated(sa, order)[i] IN
         /\ x \in AnnotatedResource /\ x.resource \in DOMAIN sa.annotations
         /\ x.annotation.number < Words
  <1>1. PICK xs : xs = Annotated(sa, order)
    OBVIOUS
  <1>2. xs \in Seq(AnnotatedResource) /\ Grouped(xs, sa)
    BY <1>1, AnnotatedFacts, AnnotatedGrouped DEF Encodable
  <1>3. xs[i] \in AnnotatedResource
    BY <1>1, <1>2, ListFacts
  <1>4. PICK r \in DOMAIN sa.annotations : \E m \in 1..Len(sa.annotations[r]) :
          xs[i] = [resource |-> r, annotation |-> sa.annotations[r][m]]
    BY <1>1, <1>2 DEF Grouped
  <1>5. PICK m \in 1..Len(sa.annotations[r]) :
          xs[i] = [resource |-> r, annotation |-> sa.annotations[r][m]]
    BY <1>4
  <1>6. sa.annotations[r][m].number <= sa.generation.number
    <2>1. DOMAIN sa.annotations[r] = 1..Len(sa.annotations[r])
      BY AnnotationFacts DEF Encodable
    <2>2. QED
      BY <2>1 DEF Encodable, IsSliceAssignment, Accepts
  <1>7. sa.annotations[r][m].number \in Nat /\ sa.generation.number \in Nat /\ Words \in Nat
    <2>1. sa.annotations[r][m] \in Annotation
      BY AnnotationFacts DEF Encodable
    <2>2. sa.generation \in Gen!Generations
      BY DEF Encodable, IsSliceRecord
    <2>3. QED
      BY <2>1, <2>2, WordAssumption, Powers DEF Annotation, Gen!Generations, Words
  <1>8. sa.annotations[r][m].number < Words
    BY <1>6, <1>7 DEF Encodable
  <1>9. QED
    BY <1>1, <1>3, <1>5, <1>8

\* What the slice mentions: its resources, and where they take state from.
Mentions(S, sa) ==
  /\ Seqs!ToSet(sa.resources) \subseteq S
  /\ \A r \in DOMAIN sa.annotations :
       \A m \in 1..Len(sa.annotations[r]) :
         sa.annotations[r][m].from # NoTransfer => sa.annotations[r][m].from \in S

\* The decoder takes an annotation for what the encoder was given.
LEMMA ListedAnnotationTrips ==
  ASSUME PoolReceived, NEW sa, Encodable(sa),
         NEW order \in Seqs!SetToSeqs(DOMAIN sa.annotations),
         Seqs!ToSet(Met(sa, order)) \subseteq Seqs!ToSet(pool),
         NEW i \in 1..Len(Annotated(sa, order))
  PROVE  LET x  == Annotated(sa, order)[i]
             ap == AnnotationToProto(pool, x)
         IN  /\ Verdict(AnnotationChecks(ap)) = "passes"
             /\ ResourceAt(ap.resourceId) = Canonical(x.resource)
             /\ AnnotationFromProto(ap) = CanonicalAnnotation(x.annotation)
  <1>1. PICK x : x = Annotated(sa, order)[i]
    OBVIOUS
  <1>2. PICK ap : ap = AnnotationToProto(pool, x)
    OBVIOUS
  <1>3. x \in AnnotatedResource /\ x.annotation.number < Words
    BY <1>1, EncodedAnnotation
  <1>4. /\ x.resource \in Seqs!ToSet(Met(sa, order))
        /\ x.annotation.from # NoTransfer => x.annotation.from \in Seqs!ToSet(Met(sa, order))
    BY <1>1, MetContains DEF Encodable
  <1>5. /\ x.resource \in Seqs!ToSet(pool)
        /\ x.annotation.from # NoTransfer => x.annotation.from \in Seqs!ToSet(pool)
    BY <1>4
  <1>6. /\ Verdict(AnnotationChecks(ap)) = "passes"
        /\ ResourceAt(ap.resourceId) = Canonical(x.resource)
        /\ AnnotationFromProto(ap) = CanonicalAnnotation(x.annotation)
    BY <1>2, <1>3, <1>5, AnnotationTrips DEF CanonicalAnnotation
  <1>7. QED
    BY <1>1, <1>2, <1>6

\* What was encoded passes the checks.
LEMMA EncodedPasses ==
  ASSUME PoolReceived, NEW sa, Encodable(sa), NEW sap, Encodes(pool, sap, sa)
  PROVE  Verdict(SliceChecks(sap)) = "passes"
  <1>1. PICK order \in Seqs!SetToSeqs(DOMAIN sa.annotations) :
          /\ Seqs!ToSet(Met(sa, order)) \subseteq Seqs!ToSet(pool)
          /\ sap = SliceAssignmentToProto(pool, sa, order)
    BY DEF Encodes
  <1>2. sap \in WireSliceAssignment
    BY <1>1, EncodedFacts DEF Encodable, PoolReceived
  <1>3. sa.slice \in Slice /\ sa.generation \in Gen!Generations /\ sa.resources \in Seq(Squid)
        /\ sa.resources # << >>
    BY DEF Encodable, IsSliceRecord, IsSliceAssignment
  <1>4. ~SliceFails(sap.slice) /\ ~GenerationPanics(sap.generation)
    BY <1>1, <1>3, SliceTrips, GenerationTrips DEF SliceAssignmentToProto, Encodable
  <1>5. PICK rs : rs = sa.resources
    OBVIOUS
  <1>6. rs \in Seq(Squid) /\ Len(rs) \in Nat /\ DOMAIN rs = 1..Len(rs) /\ Len(rs) # 0
        /\ Seqs!ToSet(rs) = {rs[n] : n \in 1..Len(rs)}
    BY <1>3, <1>5, ListFacts, EmptySeq
  <1>7. PICK is : is = [n \in 1..Len(rs) |-> Index(pool, rs[n])]
    OBVIOUS
  <1>8. sap.resourceIndices = is
    BY <1>1, <1>5, <1>6, <1>7 DEF SliceAssignmentToProto
  <1>9. is \in Seq(Int) /\ Len(is) = Len(rs)
    <2>1. \A n \in 1..Len(rs) : Index(pool, rs[n]) \in Int
      BY IndexFacts DEF PoolReceived
    <2>2. QED
      BY <1>6, <1>7, <2>1
  <1>10. ASSUME NEW n \in 1..Len(is) PROVE CheckIndex(is[n]) = "passes"
    <2>1. rs[n] \in Seqs!ToSet(pool)
      <3>1. rs[n] \in Seqs!ToSet(Met(sa, order))
        BY <1>5, <1>6, <1>9, MetContains DEF Encodable
      <3>2. QED
        BY <1>1, <3>1
    <2>2. QED
      BY <1>7, <1>9, <2>1, ResourceTrips
  <1>11. is # << >>
    BY <1>6, <1>9, EmptySeq
  <1>12. PICK xs : xs = Annotated(sa, order)
    OBVIOUS
  <1>13. xs \in Seq(AnnotatedResource) /\ Len(xs) \in Nat /\ DOMAIN xs = 1..Len(xs)
    BY <1>12, AnnotatedFacts, ListFacts DEF Encodable
  <1>14. PICK as : as = [n \in 1..Len(xs) |-> AnnotationToProto(pool, xs[n])]
    OBVIOUS
  <1>15. sap.subsliceAnnotations = as
    BY <1>1, <1>12, <1>13, <1>14 DEF SliceAssignmentToProto
  <1>16. Len(as) = Len(xs)
    BY <1>13, <1>14
  <1>17. ASSUME NEW n \in 1..Len(as) PROVE Verdict(AnnotationChecks(as[n])) = "passes"
    BY <1>1, <1>12, <1>14, <1>16, ListedAnnotationTrips
  <1>18. EachPasses(sap)
    BY <1>4, <1>8, <1>10, <1>11, <1>15, <1>17 DEF EachPasses
  <1>19. QED
    BY <1>2, <1>18, SliceChecksPass DEF PoolReceived

\* The annotations are put together again by resource, in their order.
LEMMA AnnotationsTrip ==
  ASSUME PoolReceived, NEW sa, Encodable(sa),
         NEW order \in Seqs!SetToSeqs(DOMAIN sa.annotations),
         Seqs!ToSet(Met(sa, order)) \subseteq Seqs!ToSet(pool),
         NEW S, OneForm(S), Mentions(S, sa)
  PROVE  AnnotationsFromProto(SliceAssignmentToProto(pool, sa, order).subsliceAnnotations)
           = CanonicalAnnotations(sa)
  <1> DEFINE D == DOMAIN sa.annotations
  <1>1. PICK xs : xs = Annotated(sa, order)
    OBVIOUS
  <1>2. /\ xs \in Seq(AnnotatedResource) /\ Grouped(xs, sa)
        /\ Len(xs) \in Nat /\ DOMAIN xs = 1..Len(xs)
    BY <1>1, AnnotatedFacts, AnnotatedGrouped, ListFacts DEF Encodable
  <1>3. PICK l \in Nat : l = Len(xs)
    BY <1>2
  <1>4. PICK as : as = [n \in 1..l |-> AnnotationToProto(pool, xs[n])]
    OBVIOUS
  <1>5. SliceAssignmentToProto(pool, sa, order).subsliceAnnotations = as
    BY <1>1, <1>2, <1>3, <1>4 DEF SliceAssignmentToProto
  <1>6. as \in Seq(WireAnnotation) /\ Len(as) = l /\ DOMAIN as = 1..l
        /\ Seqs!ToSet(as) = {as[n] : n \in 1..l}
    <2>1. SliceAssignmentToProto(pool, sa, order) \in WireSliceAssignment
      BY EncodedFacts DEF Encodable, PoolReceived
    <2>2. as \in Seq(WireAnnotation)
      BY <1>5, <2>1 DEF WireSliceAssignment
    <2>3. Len(as) = l
      BY <1>3, <1>4
    <2>4. QED
      BY <2>2, <2>3, ListFacts
  <1>7. ASSUME NEW n \in 1..l
        PROVE  /\ ResourceAt(as[n].resourceId) = Canonical(xs[n].resource)
               /\ AnnotationFromProto(as[n]) = CanonicalAnnotation(xs[n].annotation)
               /\ xs[n].resource \in D
    <2>1. as[n] = AnnotationToProto(pool, xs[n])
      BY <1>4
    <2>2. xs[n].resource \in D
      BY <1>1, <1>3, EncodedAnnotation
    <2>3. QED
      BY <1>1, <1>3, <2>1, <2>2, ListedAnnotationTrips
  <1>8. \A q, r \in D : Canonical(q) = Canonical(r) => q = r
    <2>1. D \subseteq S
      BY DEF Mentions, Encodable, IsSliceAssignment
    <2>2. QED
      BY <2>1 DEF OneForm
  <1>9. {ResourceAt(as[n].resourceId) : n \in DOMAIN as} = {Canonical(q) : q \in D}
    <2>1. ASSUME NEW q \in D PROVE \E n \in 1..l : xs[n].resource = q
      <3>1. PICK o \in Nat :
              /\ o + Len(sa.annotations[q]) <= l
              /\ \A m \in 1..Len(sa.annotations[q]) :
                   xs[o + m] = [resource |-> q, annotation |-> sa.annotations[q][m]]
        BY <1>2, <1>3 DEF Grouped
      <3>2. Len(sa.annotations[q]) \in Nat \ {0}
        BY AnnotationFacts DEF Encodable
      <3>3. 1 \in 1..Len(sa.annotations[q]) /\ o + 1 \in 1..l
        BY <3>1, <3>2
      <3>4. xs[o + 1] = [resource |-> q, annotation |-> sa.annotations[q][1]]
        BY <3>1, <3>3
      <3>5. xs[o + 1].resource = q
        BY <3>4
      <3>6. QED
        BY <3>3, <3>5
    <2>2. \A n \in 1..l : ResourceAt(as[n].resourceId) \in {Canonical(q) : q \in D}
      BY <1>7
    <2>3. ASSUME NEW q \in D PROVE \E n \in 1..l : ResourceAt(as[n].resourceId) = Canonical(q)
      <3>1. PICK n \in 1..l : xs[n].resource = q
        BY <2>1
      <3>2. QED
        BY <1>7, <3>1
    <2>4. QED
      BY <1>6, <2>2, <2>3
  <1> DEFINE Of(r) == Those(as, {ap \in Seqs!ToSet(as) : ResourceAt(ap.resourceId) = r})
             List(r) == [n \in DOMAIN Of(r) |-> AnnotationFromProto(Of(r)[n])]
             Whose(r) == CHOOSE q \in D : Canonical(q) = r
  <1>10. ASSUME NEW r \in {Canonical(q) : q \in D}
         PROVE  List(r) = CanonicalList(sa.annotations[Whose(r)])
    <2>1. PICK q : q = Whose(r)
      OBVIOUS
    <2>2. q \in D /\ Canonical(q) = r
      BY <2>1
    <2>3. PICK list : list = sa.annotations[q]
      OBVIOUS
    <2>4. list \in Seq(Annotation) /\ Len(list) \in Nat
      BY <2>2, <2>3, AnnotationFacts DEF Encodable
    <2>5. PICK k \in Nat : k = Len(list)
      BY <2>4
    <2>6. PICK o \in Nat :
            /\ o + k <= l
            /\ \A m \in 1..k : xs[o + m] = [resource |-> q, annotation |-> list[m]]
            /\ \A i \in 1..l : xs[i].resource = q => i \in (o + 1)..(o + k)
      BY <1>2, <1>3, <2>2, <2>3, <2>5 DEF Grouped
    <2>7. PICK T : T = {ap \in Seqs!ToSet(as) : ResourceAt(ap.resourceId) = r}
      OBVIOUS
    <2>8. ASSUME NEW i \in 1..l PROVE as[i] \in T <=> i \in (o + 1)..(o + k)
      <3>1. as[i] \in T <=> Canonical(xs[i].resource) = r
        BY <1>6, <1>7, <2>7
      <3>2. Canonical(xs[i].resource) = r <=> xs[i].resource = q
        BY <1>7, <1>8, <2>2
      <3>3. ASSUME i \in (o + 1)..(o + k) PROVE xs[i].resource = q
        <4>1. i - o \in 1..k /\ o + (i - o) = i
          BY <3>3
        <4>2. xs[i] = [resource |-> q, annotation |-> list[i - o]]
          BY <2>6, <4>1
        <4>3. QED
          BY <4>2
      <3>4. QED
        BY <2>6, <3>1, <3>2, <3>3
    <2>9. PICK y : y = Those(as, T)
      OBVIOUS
    <2>10. y \in Seq(WireAnnotation) /\ \E pos : Selects(pos, y, as, T, l)
      BY <1>6, <2>9, ThoseFacts
    <2>11. Len(y) \in Nat /\ DOMAIN y = 1..Len(y)
      BY <2>10, ListFacts
    <2>12. Len(y) = k /\ \A m \in 1..k : y[m] = as[o + m]
      <3>1. PICK pos : Selects(pos, y, as, T, l)
        BY <2>10
      <3>2. o + k <= l /\ Len(y) \in Nat /\ IsRun(as, T, l, o, k)
        BY <2>6, <2>8, <2>11 DEF IsRun
      <3>3. HasRun(y, as, o, k)
        BY <3>1, <3>2, RunSelected
      <3>4. QED
        BY <3>3 DEF HasRun
    <2>13. ASSUME NEW m \in 1..k PROVE AnnotationFromProto(y[m]) = CanonicalAnnotation(list[m])
      <3>1. o + m \in 1..l
        BY <2>6
      <3>2. xs[o + m] = [resource |-> q, annotation |-> list[m]]
        BY <2>6
      <3>3. xs[o + m].annotation = list[m]
        BY <3>2
      <3>4. y[m] = as[o + m]
        BY <2>12
      <3>5. AnnotationFromProto(as[o + m]) = CanonicalAnnotation(xs[o + m].annotation)
        BY <1>7, <3>1
      <3>6. QED
        BY <3>3, <3>4, <3>5
    <2>14. [n \in DOMAIN y |-> AnnotationFromProto(y[n])]
             = [m \in 1..k |-> CanonicalAnnotation(list[m])]
      BY <2>11, <2>12, <2>13
    <2>15. CanonicalList(list) = [m \in 1..k |-> CanonicalAnnotation(list[m])]
      BY <2>4, <2>5, CanonicalListFacts
    <2>16. List(r) = [n \in DOMAIN y |-> AnnotationFromProto(y[n])]
      BY <2>7, <2>9
    <2>17. QED
      BY <2>1, <2>3, <2>14, <2>15, <2>16
  <1>11. AnnotationsFromProto(as)
           = [r \in {ResourceAt(as[n].resourceId) : n \in DOMAIN as} |-> List(r)]
    BY DEF AnnotationsFromProto
  <1>12. CanonicalAnnotations(sa)
           = [r \in {Canonical(q) : q \in D} |-> CanonicalList(sa.annotations[Whose(r)])]
    BY DEF CanonicalAnnotations
  <1> HIDE DEF List, Whose, D, Of
  <1>13. QED
    BY <1>5, <1>9, <1>10, <1>11, <1>12

\* What was encoded is decoded.
LEMMA EncodedDecodes ==
  ASSUME PoolReceived, NEW sa, Encodable(sa), NEW sap, Encodes(pool, sap, sa),
         NEW S, OneForm(S), Mentions(S, sa)
  PROVE  SliceAssignmentFromProto(sap) = CanonicalSlice(sa)
  <1>1. PICK order \in Seqs!SetToSeqs(DOMAIN sa.annotations) :
          /\ Seqs!ToSet(Met(sa, order)) \subseteq Seqs!ToSet(pool)
          /\ sap = SliceAssignmentToProto(pool, sa, order)
    BY DEF Encodes
  <1>2. sa.slice \in Slice /\ sa.generation \in Gen!Generations /\ sa.resources \in Seq(Squid)
    BY DEF Encodable, IsSliceRecord
  <1>3. /\ SliceFromProto(sap.slice) = sa.slice
        /\ GenerationFromProto(sap.generation) = sa.generation
        /\ sap.primaryRateLoad = sa.load
    BY <1>1, <1>2, SliceTrips, GenerationTrips DEF SliceAssignmentToProto, Encodable
  <1>4. AnnotationsFromProto(sap.subsliceAnnotations) = CanonicalAnnotations(sa)
    BY <1>1, AnnotationsTrip
  <1>5. [n \in DOMAIN sap.resourceIndices |-> ResourceAt(sap.resourceIndices[n])]
          = CanonicalResources(sa)
    <2>1. PICK rs : rs = sa.resources
      OBVIOUS
    <2>2. DOMAIN rs = 1..Len(rs) /\ Seqs!ToSet(rs) = {rs[n] : n \in 1..Len(rs)}
      BY <1>2, <2>1, ListFacts
    <2>3. PICK is : is = [n \in DOMAIN rs |-> Index(pool, rs[n])]
      OBVIOUS
    <2>4. sap.resourceIndices = is
      BY <1>1, <2>1, <2>3 DEF SliceAssignmentToProto
    <2>5. ASSUME NEW n \in DOMAIN rs PROVE ResourceAt(is[n]) = Canonical(rs[n])
      <3>1. rs[n] \in Seqs!ToSet(Met(sa, order))
        BY <2>1, <2>2, MetContains DEF Encodable
      <3>2. rs[n] \in Seqs!ToSet(pool)
        BY <1>1, <3>1
      <3>3. QED
        BY <2>3, <3>2, ResourceTrips
    <2>6. [n \in DOMAIN is |-> ResourceAt(is[n])] = [n \in DOMAIN rs |-> Canonical(rs[n])]
      BY <2>3, <2>5
    <2>7. QED
      BY <2>1, <2>4, <2>6 DEF CanonicalResources
  <1>6. SliceAssignmentFromProto(sap)
          = [slice |-> sa.slice, generation |-> sa.generation, resources |-> CanonicalResources(sa),
             annotations |-> CanonicalAnnotations(sa), load |-> sa.load]
    BY <1>3, <1>4, <1>5 DEF SliceAssignmentFromProto
  <1>7. QED
    BY <1>6, CanonicalSliceIs DEF Encodable

\* The constructor accepts it.
LEMMA CanonicalAccepted ==
  ASSUME NEW sa, Encodable(sa), NEW S, OneForm(S), Mentions(S, sa)
  PROVE  IsSliceAssignment(CanonicalSlice(sa))
  <1> DEFINE D == DOMAIN sa.annotations
  <1>1. PICK c : c = CanonicalSlice(sa)
    OBVIOUS
  <1>2. /\ c.slice = sa.slice /\ c.resources = CanonicalResources(sa)
        /\ c.generation = sa.generation /\ c.annotations = CanonicalAnnotations(sa)
        /\ c.load = sa.load
    BY <1>1, CanonicalSliceIs DEF Encodable
  <1>3. PICK rs \in Seq(Squid) : rs = sa.resources
    BY DEF Encodable, IsSliceRecord
  <1>4. Len(rs) \in Nat /\ DOMAIN rs = 1..Len(rs) /\ Len(rs) # 0
        /\ (\A n \in 1..Len(rs) : rs[n] \in Squid)
        /\ Seqs!ToSet(rs) = {rs[n] : n \in 1..Len(rs)}
    BY <1>3, ListFacts, EmptySeq DEF Encodable, IsSliceAssignment
  <1>5. PICK cs : cs = [n \in 1..Len(rs) |-> Canonical(rs[n])]
    OBVIOUS
  <1>6. c.resources = cs
    BY <1>2, <1>3, <1>4, <1>5 DEF CanonicalResources
  <1>7. cs \in Seq(Squid) /\ Len(cs) = Len(rs)
    <2>1. \A n \in 1..Len(rs) : Canonical(rs[n]) \in Squid
      BY <1>4, SquidsSurvive
    <2>2. QED
      BY <1>4, <1>5, <2>1
  <1>8. cs # << >> /\ Seqs!ToSet(cs) = {cs[n] : n \in 1..Len(cs)}
    BY <1>4, <1>7, EmptySeq, ListFacts
  <1>9. D \subseteq Seqs!ToSet(rs) /\ D \subseteq S /\ D \subseteq Squid
    BY <1>3 DEF Encodable, IsSliceRecord, IsSliceAssignment, Mentions
  <1>10. DOMAIN c.annotations = {Canonical(q) : q \in D}
    BY <1>2 DEF CanonicalAnnotations
  <1>11. ASSUME NEW r \in {Canonical(q) : q \in D}
         PROVE  r \in Seqs!ToSet(c.resources) /\ Accepts(c, r)
    <2>1. PICK q : q = CHOOSE p \in D : Canonical(p) = r
      OBVIOUS
    <2>2. q \in D /\ Canonical(q) = r
      BY <2>1
    <2>3. PICK list : list = sa.annotations[q]
      OBVIOUS
    <2>4. /\ list \in Seq(Annotation) /\ Len(list) \in Nat \ {0} /\ DOMAIN list = 1..Len(list)
          /\ \A n \in 1..Len(list) : list[n] \in Annotation
      BY <2>2, <2>3, AnnotationFacts DEF Encodable
    <2>5. PICK after : after = CanonicalList(list)
      OBVIOUS
    <2>6. c.annotations[r] = after
      BY <1>2, <2>1, <2>3, <2>5 DEF CanonicalAnnotations
    <2>7. /\ after \in Seq(Annotation) /\ Len(after) = Len(list)
          /\ \A n \in 1..Len(list) : after[n] = CanonicalAnnotation(list[n])
      BY <2>4, <2>5, CanonicalListFacts
    <2>8. DOMAIN after = 1..Len(list) /\ after # << >>
      BY <2>4, <2>7, ListFacts, EmptySeq
    <2>9. \A n \in 1..Len(list) :
            /\ after[n].subslice = list[n].subslice /\ after[n].number = list[n].number
            /\ after[n].from = CanonicalFrom(list[n].from)
      <3>1. \A a : /\ CanonicalAnnotation(a).subslice = a.subslice
                   /\ CanonicalAnnotation(a).number = a.number
                   /\ CanonicalAnnotation(a).from = CanonicalFrom(a.from)
        BY DEF CanonicalAnnotation
      <3>2. QED
        BY <2>7, <3>1
    <2>10. /\ \A n \in 1..Len(list) :
                /\ list[n].number <= sa.generation.number
                /\ Follows(list[n], PrevHigh(sa, list, n))
                /\ list[n].from # q
           /\ CompareWithHigh(list[Len(list)].subslice.high, sa.slice.high) <= 0
      <3>1. Accepts(sa, q)
        BY <2>2 DEF Encodable, IsSliceAssignment
      <3>2. QED
        BY <2>3, <2>4, <3>1 DEF Accepts
    <2>11. ASSUME NEW n \in 1..Len(list)
           PROVE  /\ after[n].number <= c.generation.number
                  /\ Follows(after[n], PrevHigh(c, after, n))
                  /\ after[n].from # r
      <3>1. after[n].number <= c.generation.number
        BY <1>2, <2>9, <2>10
      <3>2. PrevHigh(c, after, n) = PrevHigh(sa, list, n)
        <4>1. CASE n = 1
          BY <1>2, <4>1 DEF PrevHigh
        <4>2. CASE n # 1
          <5>1. n - 1 \in 1..Len(list)
            BY <2>4, <4>2
          <5>2. QED
            BY <2>9, <4>2, <5>1 DEF PrevHigh
        <4>3. QED
          BY <4>1, <4>2
      <3>3. Follows(after[n], PrevHigh(c, after, n))
        BY <2>9, <2>10, <3>2 DEF Follows
      <3>4. after[n].from # r
        <4>1. CASE list[n].from = NoTransfer
          <5>1. after[n].from = NoTransfer
            BY <2>9, <4>1 DEF CanonicalFrom
          <5>2. r \in Squid
            BY <1>9, <2>2, SquidsSurvive
          <5>3. QED
            BY <5>1, <5>2, SquidAssumption
        <4>2. CASE list[n].from # NoTransfer
          <5>1. list[n].from \in S
            BY <2>2, <2>3, <4>2 DEF Mentions
          <5>2. after[n].from = Canonical(list[n].from)
            BY <2>9, <4>2 DEF CanonicalFrom
          <5>3. list[n].from # q /\ q \in S
            BY <1>9, <2>2, <2>10
          <5>4. QED
            BY <2>2, <5>1, <5>2, <5>3 DEF OneForm
        <4>3. QED
          BY <4>1, <4>2
      <3>5. QED
        BY <3>1, <3>3, <3>4
    <2>12. CompareWithHigh(after[Len(after)].subslice.high, c.slice.high) <= 0
      <3>1. Len(list) \in 1..Len(list)
        BY <2>4
      <3>2. after[Len(after)].subslice = list[Len(list)].subslice
        BY <2>7, <2>9, <3>1
      <3>3. QED
        BY <1>2, <2>10, <3>2
    <2>13. Accepts(c, r)
      BY <2>6, <2>8, <2>11, <2>12 DEF Accepts
    <2>14. r \in Seqs!ToSet(c.resources)
      <3>1. PICK n \in 1..Len(rs) : rs[n] = q
        BY <1>4, <1>9, <2>2
      <3>2. cs[n] = r
        BY <1>5, <2>2, <3>1
      <3>3. QED
        BY <1>6, <1>7, <1>8, <3>2
    <2>15. QED
      BY <2>13, <2>14
  <1>12. ~Gen!IsEmpty(c.generation) /\ c.load \in {"none", "finite"}
    BY <1>2 DEF Encodable, IsSliceAssignment
  <1>13. IsSliceAssignment(c)
    BY <1>6, <1>8, <1>10, <1>11, <1>12 DEF IsSliceAssignment
  <1>14. QED
    BY <1>1, <1>13

-----------------------------------------------------------------------------
(* The round trip *)

\* The message has the slices encoded so far, all of them once it is sent.
EncodedSoFar ==
  /\ message \in WireAssignment
  /\ message.generation = GenerationToProto(source.generation)
  /\ message.isFrozen = source.isFrozen
  /\ Len(message.sliceAssignments) <= Len(source.sliceMap)
  /\ outcome # "encoding" => Len(message.sliceAssignments) = Len(source.sliceMap)
  /\ \A n \in 1..Len(message.sliceAssignments) :
       Encodes(pool, message.sliceAssignments[n], source.sliceMap[n])

\* An Assignment after a round trip.
RoundTripped(a) ==
  [a EXCEPT !.mode = "eventual", !.sliceMap = [n \in DOMAIN @ |-> CanonicalSlice(@[n])]]

\* The decoder accepts it all, and makes what there was.
DecodedSoFar ==
  /\ outcome \in {"encoding", "received", "decoding", "decoded"}
  /\ outcome \in {"encoding", "received"} => made = << >>
  /\ outcome = "decoding" =>
       /\ PoolReceived
       /\ Len(made) <= Len(source.sliceMap)
       /\ \A n \in 1..Len(made) : made[n] = CanonicalSlice(source.sliceMap[n])
  /\ outcome = "decoded" => result = RoundTripped(source)

RoundTripInv ==
  /\ ConverterInv
  /\ source # Nil =>
       EncodedSoFar /\ (OneForm(Mentioned(source)) => DecodedSoFar)

LEMMA SourceFacts ==
  ASSUME NEW a \in Sources
  PROVE  /\ a # Nil /\ IsConstructed(a)
         /\ a.generation \in Gen!Generations
         /\ a.generation.incarnation < Guardrail /\ a.generation.number < Words
         /\ Len(a.sliceMap) \in Nat /\ DOMAIN a.sliceMap = 1..Len(a.sliceMap)
         /\ \A n \in 1..Len(a.sliceMap) :
              Encodable(a.sliceMap[n]) /\ Mentions(Mentioned(a), a.sliceMap[n])
  <1>1. a # Nil /\ IsConstructed(a)
    BY SourcesAssumption, NilAssumption
  <1>2. a.generation \in Gen!Generations /\ AreSliceAssignments(a.sliceMap)
    BY <1>1 DEF IsConstructed
  <1>3. /\ Len(a.sliceMap) \in Nat /\ DOMAIN a.sliceMap = 1..Len(a.sliceMap)
        /\ \A n \in 1..Len(a.sliceMap) : IsSliceRecord(a.sliceMap[n]) /\ IsSliceAssignment(a.sliceMap[n])
    BY <1>2, SliceAssignmentFacts
  <1>4. /\ a.generation.incarnation < Guardrail /\ a.generation.number < Words
        /\ \A n \in 1..Len(a.sliceMap) :
             /\ a.sliceMap[n].generation.incarnation < Guardrail
             /\ a.sliceMap[n].generation.number < Words
    BY <1>3, SourcesAssumption
  <1>5. ASSUME NEW n \in 1..Len(a.sliceMap) PROVE Mentions(Mentioned(a), a.sliceMap[n])
    <2>1. PICK sa : sa = a.sliceMap[n]
      OBVIOUS
    <2>2. IsSliceRecord(sa) /\ IsSliceAssignment(sa)
      BY <1>3, <2>1
    <2>3. Seqs!ToSet(sa.resources) \subseteq Squid
      <3>1. sa.resources \in Seq(Squid)
        BY <2>2 DEF IsSliceRecord
      <3>2. QED
        BY <3>1, ListFacts
    <2> DEFINE By(s) == Seqs!ToSet(s.resources) \cup
                        UNION {{s.annotations[r][m].from : m \in DOMAIN s.annotations[r]} :
                                 r \in DOMAIN s.annotations}
    <2>4. Mentioned(a) = (UNION {By(a.sliceMap[i]) : i \in DOMAIN a.sliceMap}) \ {NoTransfer}
      BY DEF Mentioned
    <2>5. \A e \in By(sa) : e # NoTransfer => e \in Mentioned(a)
      <3> HIDE DEF By
      <3>1. n \in DOMAIN a.sliceMap
        BY <1>3
      <3>2. QED
        BY <2>1, <2>4, <3>1
    <2>6. Seqs!ToSet(sa.resources) \subseteq Mentioned(a)
      <3>1. \A e \in Seqs!ToSet(sa.resources) : e \in By(sa) /\ e # NoTransfer
        BY <2>3, SquidAssumption
      <3>2. QED
        BY <2>5, <3>1
    <2>7. ASSUME NEW r \in DOMAIN sa.annotations, NEW m \in 1..Len(sa.annotations[r]),
                 sa.annotations[r][m].from # NoTransfer
          PROVE  sa.annotations[r][m].from \in Mentioned(a)
      <3>1. m \in DOMAIN sa.annotations[r]
        BY <2>2, AnnotationFacts
      <3>2. sa.annotations[r][m].from \in By(sa)
        BY <3>1
      <3>3. QED
        BY <2>7, <2>5, <3>2
    <2>8. QED
      BY <2>1, <2>6, <2>7 DEF Mentions
  <1>6. QED
    BY <1>1, <1>2, <1>3, <1>4, <1>5 DEF Encodable

\* What was encoded stays, once it is sent.
LEMMA EncodedStays ==
  ASSUME EncodedSoFar, UNCHANGED <<source, pool, message>>,
         outcome' # "encoding" => Len(message.sliceAssignments) = Len(source.sliceMap)
  PROVE  EncodedSoFar'
  <1>1. \A n \in 1..Len(message.sliceAssignments) :
          Encodes(pool, message.sliceAssignments[n], source.sliceMap[n])
    BY DEF EncodedSoFar
  <1>2. \A n \in 1..Len(message'.sliceAssignments) :
          Encodes(pool', message'.sliceAssignments[n], source'.sliceMap[n])
    BY <1>1
  <1>3. /\ message' \in WireAssignment
        /\ message'.generation = GenerationToProto(source'.generation)
        /\ message'.isFrozen = source'.isFrozen
        /\ Len(message'.sliceAssignments) <= Len(source'.sliceMap)
        /\ outcome' # "encoding" => Len(message'.sliceAssignments) = Len(source'.sliceMap)
    BY DEF EncodedSoFar
  <1>4. QED
    BY <1>2, <1>3 DEF EncodedSoFar

LEMMA RoundTripInit == Init => RoundTripInv
  <1> SUFFICES ASSUME Init PROVE RoundTripInv
    OBVIOUS
  <1>1. ConverterInv
    BY ConverterInit
  <1>2. ASSUME source # Nil PROVE EncodedSoFar /\ DecodedSoFar
    <2>1. source \in Sources /\ message = Empty(source) /\ outcome = "encoding" /\ made = << >>
      BY <1>2 DEF Init
    <2>2. Len(source.sliceMap) \in Nat /\ IsConstructed(source)
      BY <2>1, SourceFacts
    <2>3. /\ message \in WireAssignment /\ message.generation = GenerationToProto(source.generation)
          /\ message.isFrozen = source.isFrozen /\ message.sliceAssignments = << >>
      BY <2>1, <2>2, EmptyFacts DEF Empty
    <2>4. Len(message.sliceAssignments) = 0 /\ \A n : n \notin 1..0
      BY <2>3, EmptySeq
    <2>5. EncodedSoFar
      BY <2>1, <2>2, <2>3, <2>4 DEF EncodedSoFar
    <2>6. QED
      BY <2>1, <2>5 DEF DecodedSoFar
  <1>3. QED
    BY <1>1, <1>2 DEF RoundTripInv

LEMMA EncodeSliceTrips ==
  ASSUME RoundTripInv, EncodeSlice, source # Nil
  PROVE  EncodedSoFar' /\ (OneForm(Mentioned(source')) => DecodedSoFar')
  <1>1. /\ outcome = "encoding" /\ source \in Sources
        /\ UNCHANGED <<source, resources, made, outcome, result>>
        /\ pool \in Seq(Squid) /\ Len(pool) = Cardinality(Seqs!ToSet(pool))
    BY DEF RoundTripInv, ConverterInv, ConverterTypeOK, EncodeSlice
  <1>2. /\ message \in WireAssignment /\ message.generation = GenerationToProto(source.generation)
        /\ message.isFrozen = source.isFrozen
        /\ \A n \in 1..Len(message.sliceAssignments) :
             Encodes(pool, message.sliceAssignments[n], source.sliceMap[n])
    BY DEF RoundTripInv, EncodedSoFar
  <1>3. PICK list : list = message.sliceAssignments
    OBVIOUS
  <1>4. list \in Seq(WireSliceAssignment) /\ Len(list) \in Nat
    BY <1>2, <1>3, ListFacts DEF WireAssignment
  <1>5. PICK sa : sa = source.sliceMap[Len(list) + 1]
    OBVIOUS
  <1>6. Len(list) + 1 <= Len(source.sliceMap) /\ Encodable(sa)
    <2>1. Len(list) < Len(source.sliceMap) /\ Len(source.sliceMap) \in Nat
      BY <1>1, <1>3, SourceFacts DEF EncodeSlice
    <2>2. Len(list) + 1 \in 1..Len(source.sliceMap)
      BY <1>4, <2>1
    <2>3. QED
      BY <1>1, <1>5, <2>2, SourceFacts
  <1>7. PICK order \in Seqs!SetToSeqs(DOMAIN sa.annotations) :
          /\ pool' = Pooled(pool, Met(sa, order))
          /\ message' = [message EXCEPT
               !.sliceAssignments = Append(@, SliceAssignmentToProto(pool', sa, order)),
               !.resources = [n \in DOMAIN pool' |-> SquidToProto(pool'[n])]]
    BY <1>3, <1>5 DEF EncodeSlice
  <1>8. PICK known : known = pool'
    OBVIOUS
  <1>9. /\ known \in Seq(Squid) /\ Distinct(known) /\ Extends(known, pool)
        /\ Seqs!ToSet(Met(sa, order)) \subseteq Seqs!ToSet(known)
    <2>1. PICK met : met = Met(sa, order)
      OBVIOUS
    <2>2. met \in Seq(Squid)
      BY <1>6, <2>1, MetFacts DEF Encodable
    <2>3. known = Added(pool, met)
      BY <1>7, <1>8, <2>1 DEF Pooled
    <2>4. known \in Seq(Squid) /\ Continues(known, pool, met, Len(met))
      BY <1>1, <2>2, <2>3, AddedFacts
    <2>5. Distinct(pool) /\ Seqs!ToSet(met) = {met[i] : i \in 1..Len(met)}
      BY <1>1, <2>2, DistinctCounts, ListFacts
    <2>6. QED
      BY <2>1, <2>4, <2>5 DEF Continues, Extends
  <1>10. PICK sap : sap = SliceAssignmentToProto(known, sa, order)
    OBVIOUS
  <1>11. Encodes(known, sap, sa) /\ sap \in WireSliceAssignment
    BY <1>6, <1>9, <1>10, EncodedFacts DEF Encodes, Encodable
  <1>12. PICK more : more = Append(list, sap)
    OBVIOUS
  <1>13. /\ more \in Seq(WireSliceAssignment) /\ Len(more) = Len(list) + 1
         /\ more[Len(list) + 1] = sap /\ \A n \in 1..Len(list) : more[n] = list[n]
    BY <1>4, <1>11, <1>12, AppendFacts
  <1>14. PICK wire : wire = [n \in DOMAIN known |-> SquidToProto(known[n])]
    OBVIOUS
  <1>15. message' = [message EXCEPT !.sliceAssignments = more, !.resources = wire]
    BY <1>3, <1>7, <1>8, <1>10, <1>12, <1>14
  <1>16. /\ message'.sliceAssignments = more /\ message'.generation = message.generation
         /\ message'.isFrozen = message.isFrozen
    BY <1>2, <1>15 DEF WireAssignment
  <1>17. message' \in WireAssignment
    <2>1. ConverterInv'
      BY EncodeSliceKeeps DEF RoundTripInv
    <2>2. QED
      BY <1>1, <2>1 DEF ConverterInv
  <1>18. ASSUME NEW n \in 1..Len(more) PROVE Encodes(known, more[n], source.sliceMap[n])
    <2>1. CASE n = Len(list) + 1
      BY <1>5, <1>11, <1>13, <2>1
    <2>2. CASE n # Len(list) + 1
      <3>1. n \in 1..Len(list)
        BY <1>4, <1>13, <2>2
      <3>2. Encodes(pool, more[n], source.sliceMap[n])
        BY <1>2, <1>3, <1>13, <3>1
      <3>3. IsSliceRecord(source.sliceMap[n]) /\ IsSliceAssignment(source.sliceMap[n])
        <4>1. n \in 1..Len(source.sliceMap)
          BY <1>1, <1>4, <1>6, <3>1, SourceFacts
        <4>2. QED
          BY <1>1, <4>1, SourceFacts DEF Encodable
      <3>4. QED
        BY <1>1, <1>9, <3>2, <3>3, EncodesKept
    <2>3. QED
      BY <2>1, <2>2
  <1>19. EncodedSoFar'
    <2>1. \A n \in 1..Len(message'.sliceAssignments) :
            Encodes(pool', message'.sliceAssignments[n], source'.sliceMap[n])
      BY <1>1, <1>8, <1>16, <1>18
    <2>2. Len(message'.sliceAssignments) <= Len(source'.sliceMap)
      BY <1>1, <1>6, <1>13, <1>16
    <2>3. QED
      BY <1>1, <1>2, <1>16, <1>17, <2>1, <2>2 DEF EncodedSoFar
  <1>20. ASSUME OneForm(Mentioned(source)) PROVE DecodedSoFar'
    <2>1. made = << >>
      BY <1>1, <1>20 DEF RoundTripInv, DecodedSoFar
    <2>2. QED
      BY <1>1, <2>1 DEF DecodedSoFar
  <1>21. QED
    BY <1>1, <1>19, <1>20

LEMMA DecodeResourcesTrips ==
  ASSUME RoundTripInv, DecodeResources, source # Nil
  PROVE  EncodedSoFar' /\ (OneForm(Mentioned(source')) => DecodedSoFar')
  <1>1. /\ outcome = "received" /\ source \in Sources /\ EncodedSoFar
        /\ UNCHANGED <<source, pool, message, made, result>>
        /\ pool \in Seq(Squid) /\ message.resources = [n \in DOMAIN pool |-> SquidToProto(pool[n])]
    BY DEF RoundTripInv, ConverterInv, ConverterTypeOK, DecodeResources
  <1>2. EncodedSoFar'
    BY <1>1, EncodedStays DEF EncodedSoFar
  <1>3. ASSUME OneForm(Mentioned(source)) PROVE DecodedSoFar'
    <2>1. made = << >>
      BY <1>1, <1>3 DEF RoundTripInv, DecodedSoFar
    <2>2. message # Nil /\ message.generation = GenerationToProto(source.generation)
      <3>1. message \in WireAssignment /\ message.generation = GenerationToProto(source.generation)
        BY <1>1 DEF EncodedSoFar
      <3>2. QED
        BY <3>1, NilAssumption
    <2>3. ~GenerationPanics(message.generation)
      BY <1>1, <2>2, SourceFacts, GenerationTrips
    <2>4. PICK l \in Nat : l = Len(pool)
      BY <1>1, ListFacts
    <2>5. DOMAIN pool = 1..l /\ \A n \in 1..l : pool[n] \in Squid
      BY <1>1, <2>4, ListFacts
    <2>6. PICK wire : wire = [n \in 1..l |-> SquidToProto(pool[n])]
      OBVIOUS
    <2>7. message.resources = wire
      BY <1>1, <2>5, <2>6
    <2>8. ASSUME NEW n \in 1..l
          PROVE  /\ wire[n] # Nil /\ SquidFromProto(wire[n]) = Canonical(pool[n])
                 /\ Canonical(pool[n]) \in CanonicalSquid
      <3>1. wire[n] = SquidToProto(pool[n]) /\ pool[n] \in Squid
        BY <2>5, <2>6
      <3>2. wire[n] \in WireSquid
        BY <3>1, SquidsSurvive
      <3>3. QED
        BY <3>1, <3>2, SquidsSurvive, NilAssumption
    <2>9. ~(\E n \in DOMAIN message.resources : message.resources[n] = Nil)
      BY <2>6, <2>7, <2>8
    <2>10. outcome' = "decoding"
           /\ resources' = [n \in DOMAIN message.resources |-> SquidFromProto(message.resources[n])]
      <3>1. PICK nils \in BOOLEAN :
              nils = \E n \in DOMAIN message.resources : message.resources[n] = Nil
        OBVIOUS
      <3>2. Check(GenerationPanics(message.generation), "panicked") = "passes"
            /\ Check(nils, "error") = "passes"
        BY <2>3, <2>9, <3>1 DEF Check
      <3>3. PICK checks : checks = <<"passes", "passes">>
        OBVIOUS
      <3>4. checks \in Seq(Outcomes) /\ Len(checks) = 2 /\ \A n \in 1..2 : checks[n] = "passes"
        BY <3>3 DEF Outcomes
      <3>5. Verdict(checks) = "passes"
        BY <3>4, VerdictFacts
      <3>6. <<Check(GenerationPanics(message.generation), "panicked"), Check(nils, "error")>> = checks
        BY <3>2, <3>3
      <3>7. QED
        BY <2>2, <3>1, <3>5, <3>6 DEF DecodeResources
    <2>11. resources' = [n \in 1..l |-> Canonical(pool[n])]
      BY <2>6, <2>7, <2>8, <2>10
    <2>12. resources' \in Seq(CanonicalSquid) /\ Len(resources') = l
      BY <2>8, <2>11
    <2>13. PoolReceived'
      BY <1>1, <2>4, <2>11, <2>12 DEF PoolReceived
    <2>14. Len(made) = 0 /\ Len(source.sliceMap) \in Nat /\ \A n : n \notin 1..0
      BY <1>1, <2>1, EmptySeq, SourceFacts
    <2>15. QED
      BY <1>1, <2>10, <2>13, <2>14 DEF DecodedSoFar
  <1>4. QED
    BY <1>1, <1>2, <1>3

LEMMA DecodeSliceTrips ==
  ASSUME RoundTripInv, DecodeSlice, source # Nil
  PROVE  EncodedSoFar' /\ (OneForm(Mentioned(source')) => DecodedSoFar')
  <1>1. /\ outcome = "decoding" /\ source \in Sources /\ EncodedSoFar
        /\ UNCHANGED <<source, pool, message, resources, result>>
        /\ AreSliceAssignments(made)
    BY DEF RoundTripInv, ConverterInv, ConverterTypeOK, DecodeSlice
  <1>2. EncodedSoFar'
    BY <1>1, EncodedStays DEF EncodedSoFar
  <1>3. ASSUME OneForm(Mentioned(source)) PROVE DecodedSoFar'
    <2>1. /\ PoolReceived
          /\ \A n \in 1..Len(made) : made[n] = CanonicalSlice(source.sliceMap[n])
      BY <1>1, <1>3 DEF RoundTripInv, DecodedSoFar
    <2>2. made \in Seq(Seqs!ToSet(made)) /\ Len(made) \in Nat
      BY <1>1, SliceAssignmentFacts
    <2>3. PICK sap : sap = message.sliceAssignments[Len(made) + 1]
      OBVIOUS
    <2>4. PICK sa : sa = source.sliceMap[Len(made) + 1]
      OBVIOUS
    <2>5. /\ Len(made) + 1 \in 1..Len(source.sliceMap)
          /\ Encodes(pool, sap, sa)
      <3>1. /\ Len(made) < Len(message.sliceAssignments)
            /\ Len(message.sliceAssignments) = Len(source.sliceMap) /\ Len(source.sliceMap) \in Nat
        BY <1>1, SourceFacts DEF DecodeSlice, EncodedSoFar
      <3>2. Len(made) + 1 \in 1..Len(message.sliceAssignments)
        BY <2>2, <3>1
      <3>3. QED
        BY <1>1, <2>3, <2>4, <3>1, <3>2 DEF EncodedSoFar
    <2>6. Encodable(sa) /\ Mentions(Mentioned(source), sa)
      BY <1>1, <2>4, <2>5, SourceFacts
    <2>7. /\ Verdict(SliceChecks(sap)) = "passes"
          /\ SliceAssignmentFromProto(sap) = CanonicalSlice(sa)
          /\ IsSliceAssignment(CanonicalSlice(sa))
      BY <1>3, <2>1, <2>5, <2>6, EncodedPasses, EncodedDecodes, CanonicalAccepted
    <2>8. outcome' = "decoding" /\ made' = Append(made, CanonicalSlice(sa))
      BY <1>1, <2>3, <2>7 DEF DecodeSlice
    <2>9. PICK more : more = Append(made, CanonicalSlice(sa))
      OBVIOUS
    <2>10. /\ Len(more) = Len(made) + 1 /\ more[Len(made) + 1] = CanonicalSlice(sa)
           /\ \A n \in 1..Len(made) : more[n] = made[n]
      <3>1. PICK T : T = Seqs!ToSet(made) \cup {CanonicalSlice(sa)}
        OBVIOUS
      <3>2. made \in Seq(T)
        <4>1. \A n \in 1..Len(made) : made[n] \in T
          BY <2>2, <3>1, ListFacts
        <4>2. QED
          BY <2>2, <4>1, ListOf
      <3>3. QED
        BY <2>9, <3>1, <3>2, AppendFacts
    <2>11. ASSUME NEW n \in 1..Len(more) PROVE more[n] = CanonicalSlice(source.sliceMap[n])
      <3>1. n \in 1..Len(made) \/ n = Len(made) + 1
        BY <2>2, <2>10
      <3>2. QED
        BY <2>1, <2>4, <2>10, <3>1
    <2>12. Len(more) <= Len(source.sliceMap)
      BY <2>2, <2>5, <2>10
    <2>13. PoolReceived'
      BY <1>1, <2>1 DEF PoolReceived
    <2>14. QED
      BY <1>1, <2>8, <2>9, <2>11, <2>12, <2>13 DEF DecodedSoFar
  <1>4. QED
    BY <1>1, <1>2, <1>3

LEMMA RoundTrippedIs ==
  ASSUME NEW a \in Sources
  PROVE  RoundTripped(a)
           = [generation |-> a.generation,
              sliceMap |-> [n \in DOMAIN a.sliceMap |-> CanonicalSlice(a.sliceMap[n])],
              isFrozen |-> a.isFrozen, mode |-> "eventual"]
  <1>1. PICK g, s, f, m, t : /\ g = a.generation /\ s = a.sliceMap /\ f = a.isFrozen /\ m = a.mode
                             /\ t = [n \in DOMAIN a.sliceMap |-> CanonicalSlice(a.sliceMap[n])]
    OBVIOUS
  <1>2. PICK R : R = [generation : {g}, sliceMap : {s, t}, isFrozen : {f}, mode : {m, "eventual"}]
    OBVIOUS
  <1>3. a \in R
    BY <1>1, <1>2, SourceFacts DEF IsConstructed
  <1>4. PICK u : u = [a EXCEPT !.mode = "eventual", !.sliceMap = t]
    OBVIOUS
  <1>5. u \in R /\ u.mode = "eventual" /\ u.sliceMap = t
    BY <1>2, <1>3, <1>4
  <1>6. u = [generation |-> g, sliceMap |-> t, isFrozen |-> f, mode |-> "eventual"]
    BY <1>2, <1>5
  <1>7. RoundTripped(a) = u
    BY <1>1, <1>4 DEF RoundTripped
  <1>8. QED
    BY <1>1, <1>6, <1>7

LEMMA DecodeEndsTrips ==
  ASSUME RoundTripInv, DecodeEnds, source # Nil
  PROVE  EncodedSoFar' /\ (OneForm(Mentioned(source')) => DecodedSoFar')
  <1>1. /\ outcome = "decoding" /\ source \in Sources /\ EncodedSoFar
        /\ UNCHANGED <<source, pool, message, resources, made>>
        /\ AreSliceAssignments(made)
    BY DEF RoundTripInv, ConverterInv, ConverterTypeOK, DecodeEnds
  <1>2. /\ EncodedSoFar'
        /\ Len(made) = Len(source.sliceMap)
        /\ message.generation = GenerationToProto(source.generation)
        /\ message.isFrozen = source.isFrozen
    <2>1. outcome' # "encoding"
      BY DEF DecodeEnds
    <2>2. QED
      BY <1>1, EncodedStays DEF EncodedSoFar, DecodeEnds
  <1>3. ASSUME OneForm(Mentioned(source)) PROVE DecodedSoFar'
    <2>1. \A n \in 1..Len(made) : made[n] = CanonicalSlice(source.sliceMap[n])
      BY <1>1, <1>3 DEF RoundTripInv, DecodedSoFar
    <2>2. PICK map : map = source.sliceMap
      OBVIOUS
    <2>3. Len(map) \in Nat /\ DOMAIN map = 1..Len(map) /\ \A n \in 1..Len(map) : Encodable(map[n])
      BY <1>1, <2>2, SourceFacts
    <2>4. made = [n \in 1..Len(map) |-> CanonicalSlice(map[n])] /\ DOMAIN made = 1..Len(map)
      <3>1. made \in [1..Len(made) -> Seqs!ToSet(made)]
        BY <1>1, SliceAssignmentFacts, ListFacts
      <3>2. QED
        BY <1>2, <2>1, <2>2, <3>1
    <2>5. \A n \in 1..Len(map) : made[n].slice = map[n].slice /\ made[n].generation = map[n].generation
      <3>1. ASSUME NEW n \in 1..Len(map)
            PROVE  made[n].slice = map[n].slice /\ made[n].generation = map[n].generation
        <4>1. IsSliceRecord(map[n]) /\ made[n] = CanonicalSlice(map[n])
          BY <2>3, <2>4 DEF Encodable
        <4>2. QED
          BY <4>1, CanonicalSliceIs
      <3>2. QED
        BY <3>1
    <2>6. GenerationFromProto(message.generation) = source.generation
      BY <1>1, <1>2, SourceFacts, GenerationTrips
    <2>7. PICK a : a = [generation |-> source.generation, sliceMap |-> made,
                        isFrozen |-> source.isFrozen, mode |-> "eventual"]
      OBVIOUS
    <2>8. IsAssignment(source) /\ Complete(map)
      BY <1>1, <2>2, SourceFacts DEF IsConstructed, IsAssignment
    <2>9. Complete(made)
      <3>1. Len(map) # 0 /\ made # << >>
        <4>1. AreSliceAssignments(map) /\ map # << >>
          BY <1>1, <2>2, <2>8, SourceFacts DEF IsConstructed, Complete
        <4>2. map \in Seq(Seqs!ToSet(map)) /\ made \in Seq(Seqs!ToSet(made))
          BY <1>1, <4>1, SliceAssignmentFacts
        <4>3. Len(map) # 0
          BY <4>1, <4>2, EmptySeq
        <4>4. made # << >>
          BY <1>2, <2>2, <4>2, <4>3, EmptySeq
        <4>5. QED
          BY <4>3, <4>4
      <3>2. 1 \in 1..Len(map) /\ Len(map) \in 1..Len(map) /\ Len(made) = Len(map)
        BY <1>2, <2>2, <2>3, <3>1
      <3>3. made[1].slice.low = MinSliceKey /\ made[Len(made)].slice.high = InfinityKey
        BY <2>5, <2>8, <3>2 DEF Complete
      <3>4. ASSUME NEW n \in 1..(Len(made) - 1) PROVE Meets(made[n].slice, made[n + 1].slice)
        <4>1. n \in 1..Len(map) /\ n + 1 \in 1..Len(map) /\ n \in 1..(Len(map) - 1)
          BY <2>3, <3>2
        <4>2. Meets(map[n].slice, map[n + 1].slice)
          BY <2>8, <4>1 DEF Complete
        <4>3. QED
          BY <2>5, <4>1, <4>2
      <3>5. QED
        BY <3>1, <3>3, <3>4 DEF Complete
    <2>10. IsAssignment(a)
      <3>1. /\ ~Gen!IsEmpty(source.generation)
            /\ \A n \in 1..Len(map) : CheckAssignmentGeneration(map[n], source.generation)
        BY <2>2, <2>3, <2>8 DEF IsAssignment
      <3>2. \A n \in 1..Len(map) : CheckAssignmentGeneration(made[n], source.generation)
        BY <2>5, <3>1 DEF CheckAssignmentGeneration
      <3>3. a.sliceMap = made /\ a.generation = source.generation
        BY <2>7
      <3>4. QED
        BY <2>4, <2>9, <3>1, <3>2, <3>3 DEF IsAssignment
    <2>11. outcome' = "decoded" /\ result' = a
      BY <1>2, <2>6, <2>7, <2>10 DEF DecodeEnds
    <2>12. a = RoundTripped(source)
      BY <1>1, <2>2, <2>3, <2>4, <2>7, RoundTrippedIs
    <2>13. QED
      BY <1>1, <2>11, <2>12 DEF DecodedSoFar
  <1>4. QED
    BY <1>1, <1>2, <1>3

LEMMA RoundTripStep == RoundTripInv /\ [Next]_vars => RoundTripInv'
  <1> SUFFICES ASSUME RoundTripInv, [Next]_vars PROVE RoundTripInv'
    OBVIOUS
  <1>1. ConverterInv'
    BY ConverterStep DEF RoundTripInv
  <1>2. source' = source
    BY DEF Next, vars, EncodeSlice, Sent, DecodeResources, DecodeSlice, DecodeEnds
  <1>3. ASSUME source # Nil
        PROVE  EncodedSoFar' /\ (OneForm(Mentioned(source')) => DecodedSoFar')
    <2>1. CASE EncodeSlice
      BY <1>3, <2>1, EncodeSliceTrips
    <2>2. CASE Sent
      <3>1. EncodedSoFar /\ UNCHANGED <<source, pool, message, resources, made, result>>
            /\ outcome = "encoding" /\ outcome' = "received"
            /\ Len(message.sliceAssignments) = Len(source.sliceMap)
        BY <1>3, <2>2 DEF RoundTripInv, Sent
      <3>2. EncodedSoFar'
        BY <3>1, EncodedStays
      <3>3. OneForm(Mentioned(source)) => DecodedSoFar'
        BY <1>3, <3>1 DEF RoundTripInv, DecodedSoFar
      <3>4. QED
        BY <1>2, <3>2, <3>3
    <2>3. CASE DecodeResources
      BY <1>3, <2>3, DecodeResourcesTrips
    <2>4. CASE DecodeSlice
      BY <1>3, <2>4, DecodeSliceTrips
    <2>5. CASE DecodeEnds
      BY <1>3, <2>5, DecodeEndsTrips
    <2>6. CASE UNCHANGED vars
      <3>1. EncodedSoFar /\ (OneForm(Mentioned(source)) => DecodedSoFar)
        BY <1>3 DEF RoundTripInv
      <3>2. EncodedSoFar'
        BY <2>6, <3>1, EncodedStays DEF vars, EncodedSoFar
      <3>3. DecodedSoFar => DecodedSoFar'
        BY <2>6 DEF vars, DecodedSoFar, PoolReceived
      <3>4. QED
        BY <1>2, <3>1, <3>2, <3>3
    <2>7. QED
      BY <2>1, <2>2, <2>3, <2>4, <2>5, <2>6 DEF Next
  <1>4. QED
    BY <1>1, <1>2, <1>3 DEF RoundTripInv

\* An Assignment that is encoded is decoded to what it was, whatever order its
\* annotations came in, but for the texts of UUIDs and the consistency mode.
THEOREM AssignmentsSurvive == Spec => []RoundTrip
  <1>1. RoundTripInv => RoundTrip
    <2>1. SUFFICES ASSUME RoundTripInv, source # Nil, Ended,
                          \A p, q \in Mentioned(source) : Canonical(p) = Canonical(q) => p = q
                   PROVE  outcome = "decoded" /\ result = RoundTripped(source)
      BY DEF RoundTrip, RoundTripped
    <2>2. DecodedSoFar
      BY <2>1 DEF RoundTripInv, OneForm
    <2>3. QED
      BY <2>1, <2>2 DEF DecodedSoFar, Ended
  <1>2. Spec => []RoundTripInv
    BY RoundTripInit, RoundTripStep, PTL DEF Spec
  <1>3. QED
    BY <1>1, <1>2, PTL
=============================================================================
