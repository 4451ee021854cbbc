----------------------------- MODULE MCSensorDb ------------------------------
(* Model checking of SensorDb: the ids are two bits wide, so that one of    *)
(* the readings has an id that is stored as a negative number; the values of *)
(* two of them are printed alike; the third is no number.                    *)
EXTENDS SensorDb

MCReading ==
  { [id |-> 1, value |-> 4, ts |-> 7],
    [id |-> 2, value |-> 3, ts |-> 8],
    [id |-> 1, value |-> NaN, ts |-> 9] }
==============================================================================
