SPECIFICATION Spec
CONSTANTS
  Client = {c1, c2}
  Uninit = Uninit
  TIMEOUT = 1
  FieldSize = 2
  MaxAhead = 0
  MaxRecords = 2
INVARIANT
  RecordsWhole
