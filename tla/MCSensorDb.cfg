SPECIFICATION FairSpec
CONSTANTS
  Reading <- MCReading
  Conn = {c1, c2}
  NULL = NULL
  NaN = NaN
  LOOP_TIME = 2
  Ids = 4
  Grain = 3
  MaxCalls = 2
  MaxFile = 2
INVARIANTS
  AcknowledgedIsStored
  QueriesAnswer
PROPERTIES
  FailsOnlyForCause
  CallsEnd
