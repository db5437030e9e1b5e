SPECIFICATION MCSpec
CONSTANTS
  a1 = a1
  a2 = a2
  main = main
  other = other
  NoAssignment = NoAssignment
  NoAddress = NoAddress
  BlankAddress = BlankAddress
  NoResponse = NoResponse
  Address = {main, other}
  Assignment <- MCAssignment
  GenOf <- MCGenOf
  Responses <- MCResponses
  DefaultConfig <- MCDefaultConfig
  Config <- MCConfig
  DurationLimit = 8
  Millisecond = 2
  MaxLag = 1
  MaxOpID = 4
INVARIANT SMTypeOK
INVARIANT LatestIsLast
INVARIANT WakesUpInTime
PROPERTY LateEventsKeepRetry
PROPERTY MachineFollowsLifecycle
