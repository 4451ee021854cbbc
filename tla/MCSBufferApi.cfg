SPECIFICATION ApiSpec
CONSTANTS
  Node = {n1, n2, n3}
  Reading = {r1, r2}
  NULL = NULL
  TIMEOUT = 1
  MaxIndex = 3
SYMMETRY Symmetry
CHECK_DEADLOCK FALSE
INVARIANTS
  HeapExact
  AgreesUntilFreed
