SPECIFICATION Spec
CONSTANTS
  Reading = {r1, r2}
  TIMEOUT = 2
  MaxEvents = 3
SYMMETRY Symmetry
INVARIANTS
  TypeOK
  Conservation
  AbandonedAfterGap
  OneAhead
  EndComplete
PROPERTIES
  GivesUpAfterSilence
  ImplementsStore
