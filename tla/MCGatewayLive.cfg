SPECIFICATION FairSpec
CONSTANTS
  Reading = {r1}
  TIMEOUT = 2
  MaxEvents = 2
PROPERTIES
  Termination
  ReceivedIsStored
