SPECIFICATION Spec
CONSTANTS
  Client = {c1, c2}
  Uninit = Uninit
  TIMEOUT = 1
  FieldSize = 1
  MaxAhead = 1
  MaxRecords = 2
SYMMETRY ClientSymmetry
INVARIANTS
  ClientsMatchPoll
  RecordsWhole
  LogTellsOnce
  OnlyResetLeaks
PROPERTIES
  ClosedOnlyWhenStale
