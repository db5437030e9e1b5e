SPECIFICATION FairCacheSpec
CONSTANTS
  c1 = c1
  c2 = c2
  c3 = c3
  c4 = c4
  Clerks = {c1, c2, c3, c4}
  Cached = {c1, c2, c3}
  TargetOf <- MCTargetOf
  AddressOf <- MCAddressOf
  Closers = {k1, k2}
  Separator = "|"
  Nobody = Nobody
INVARIANT CacheTypeOK
INVARIANT SharedByKey
INVARIANT OneLoopPerKey
INVARIANT CloseStopsAll
PROPERTY CacheCallsReturn
