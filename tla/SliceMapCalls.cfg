SPECIFICATION Spec
CONSTANTS
  x = x
  y = y
  InfinityKey = InfinityKey
  Gap = Gap
  Value = {x, y}
  MaxByte = 1
  PrefixLength = 2
  MinSliceKey <- MCMinSliceKey
  Key <- MCKey
  KeyCompare <- Compare
  Maps <- MCMaps
  Lists <- MCLists
CHECK_DEADLOCK FALSE
INVARIANT SliceMapTypeOK
INVARIANT SearchIsExact
INVARIANT FoundByBytes
INVARIANT IntersectionIsPointwise
INVARIANT CoalescingKeepsTheMap
INVARIANT FillingIsExact
