SPECIFICATION Spec
CHECK_DEADLOCK FALSE
CONSTANTS
  Key = {0, 1, 2}
  KeyCompare <- MCKeyCompare
  MinSliceKey = 0
  InfinityKey = InfinityKey
  Nil = Nil
  NoTransfer = NoTransfer
  Squid <- MCSquid
  MaxByte = 1
  WordBytes = 3
  Guardrail = 3
  Sources <- MCSources
  Messages <- MCMessages
INVARIANT AnnotationsFit
