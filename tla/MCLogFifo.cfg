SPECIFICATION FairSpec
CONSTANTS
  MAX = 3
  PipeSize = 6
  ReadSize = 4
  MaxEvents = 1
INVARIANTS
  LinesWhole
PROPERTIES
  ImplementsLog
  EventsAreRecorded
  LogProcessEnds
