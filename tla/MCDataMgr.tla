------------------------------ MODULE MCDataMgr ------------------------------
(* Model checking of DataMgr: two sensors, of which the map may list none,  *)
(* one, both or the same twice; one reading more than the array holds.      *)
EXTENDS DataMgr

MCValue == 1 .. 3
MCTime  == 1 .. 2
==============================================================================
