SPECIFICATION Spec
CONSTANTS
  Reading = {r1, r2}
  TIMEOUT = 2
  MaxEvents = 2
SYMMETRY Symmetry
INVARIANTS
  AllStored
