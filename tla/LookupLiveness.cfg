SPECIFICATION FairLookupSpec
CONSTANTS
  a1 = a1
  a2 = a2
  main = main
  other = other
  NoAssignment = NoAssignment
  NoAddress = NoAddress
  BlankAddress = BlankAddress
  NoResponse = NoResponse
  Address = {main, other}
  DefaultWatchAddress = main
  Assignment <- MCAssignment
  GenOf <- MCGenOf
  Responses <- MCPlainResponses
  Config <- MCSlowConfig
  DefaultConfig <- MCConfig
  DurationLimit = 16
  Millisecond = 2
  MaxLag = 1
  MaxOps = 2
  Stoppers = {s1}
PROPERTY StopCompletes
PROPERTY KeepsTrying
PROPERTY AssignmentIsPublished
