SPECIFICATION FairSpec
CONSTANTS
  a1 = a1
  a2 = a2
  b2 = b2
  Assignment <- MCAssignment
  GenOf <- MCGenOf
  NoAssignment = NoAssignment
  NoListener = NoListener
  Calls = {c1, c2, c3}
  Listeners = {l1}
INVARIANT TypeOK
INVARIANT EveryListenerToldOnce
PROPERTY CellIsARegister
PROPERTY CallsReturn
