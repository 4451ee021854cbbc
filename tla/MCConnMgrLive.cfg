SPECIFICATION FairSpec
CONSTANTS
  Client = {c1, c2}
  Uninit = Uninit
  TIMEOUT = 1
  FieldSize = 1
  MaxAhead = 1
  MaxRecords = 1
PROPERTIES
  GoneIsClosed
  Ends
