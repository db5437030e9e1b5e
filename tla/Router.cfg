SPECIFICATION RouterSpec
CONSTANTS
  a1 = a1
  a2 = a2
  k1 = k1
  k2 = k2
  NoAssignment = NoAssignment
  Assignment <- MCAssignment
  GenOf <- MCGenOf
  c1 = c1
  c2 = c2
  KindsOf <- MCKindsOf
  Callers = {c1, c2}
  Squid <- MCSquid
  Keys = {k1, k2}
  ResourcesOf <- MCResourcesOf
  SecondaryKeys = {s1}
  HashOf <- MCHashOf
  Modulus = 4
  MaxRoutes = 4
INVARIANT RouterTypeOK
INVARIANT RouteIsCurrent
INVARIANT ReadyMeansRoutable
INVARIANT RetryTriesEachOnce
INVARIANT EvenSpread
