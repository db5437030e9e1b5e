SPECIFICATION LookupSpec
CONSTANTS
  a1 = a1
  a2 = a2
  main = main
  other = other
  NoAssignment = NoAssignment
  NoAddress = NoAddress
  BlankAddress = BlankAddress
  NoResponse = NoResponse
  Address = {main, other}
  DefaultWatchAddress = main
  Assignment <- MCAssignment
  GenOf <- MCGenOf
  Responses <- MCResponses
  Config <- MCConfig
  DefaultConfig <- MCConfig
  DurationLimit = 16
  Millisecond = 2
  MaxLag = 0
  MaxOps = 2
  Stoppers = {}
INVARIANT BackoffFallsBackToDefault
