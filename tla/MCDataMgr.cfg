SPECIFICATION Spec
CONSTANTS
  SensorId = {s1, s2}
  RoomId = {room1, room2}
  Value <- MCValue
  Time <- MCTime
  Garbage = 7
  RUN_AVG_LENGTH = 3
  SET_MIN_TEMP = 2
  SET_MAX_TEMP = 2
  MaxSensors = 2
  MaxReadings = 4
CHECK_DEADLOCK FALSE
INVARIANTS
  AnswersFromHistory
  FirstEntryServes
PROPERTIES
  AlertsAreExact
