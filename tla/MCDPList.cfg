SPECIFICATION Spec
CONSTANTS
  Node = {n1, n2, n3}
  Element = {1, 2}
  NULL = NULL
INVARIANTS
  Linked
  HeapExact
  QueriesAnswer
PROPERTIES
  ImplementsList
