----------------------------- MODULE MCSliceMap -----------------------------
(* Keys of up to three bytes of two values with a prefix of two bytes. *)
EXTENDS ByteKeys

CONSTANTS x, y

MCMinSliceKey == << >>

MCKey ==
  {<< >>, <<0>>, <<0, 0>>, <<0, 0, 0>>, <<0, 0, 1>>, <<0, 1>>, <<1>>, <<1, 0>>}

\* The keys slices begin and end with.
Boundaries == {<< >>, <<0, 0, 1>>, <<0, 1>>, <<1>>}

BoundedSlices == {s \in [low : Boundaries, high : Boundaries \cup {InfinityKey}] : IsSlice(s)}

\* The boundaries of a map, in order.
RECURSIVE Ordered(_)
Ordered(keys) ==
  IF keys = {} THEN << >>
  ELSE LET least == CHOOSE k \in keys : \A o \in keys : Compare(k, o) <= 0
       IN  <<least>> \o Ordered(keys \ {least})

\* The map with these boundaries and values.
MapOf(lows, values) ==
  [n \in 1..Len(lows) |->
     [slice |-> [low |-> lows[n],
                 high |-> IF n = Len(lows) THEN InfinityKey ELSE lows[n + 1]],
      value |-> values[n]]]

MCMaps ==
  UNION {LET lows == Ordered(keys \cup {<< >>})
         IN  {MapOf(lows, values) : values \in [1..Len(lows) -> Value]} :
           keys \in SUBSET Boundaries}

MCLists == UNION {[1..m -> [slice : BoundedSlices, value : {x}]] : m \in 0..3}
=============================================================================
