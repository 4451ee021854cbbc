SPECIFICATION FairSpec
CONSTANTS
  Node = {n1, n2, n3}
  Reading = {r1, r2}
  NULL = NULL
  TIMEOUT = 2
INVARIANTS
  TakesLiveNode
  HeapExact
  BufferOK
PROPERTIES
  NoDataMeansEmpty
  ImplementsQueue
  RemoveReturns
  InsertedIsRemoved
