------------------------------ MODULE MCSBuffer ------------------------------
(* Model checking of SBuffer: three nodes and two readings, without         *)
(* symmetry, since liveness is checked too.                                 *)
EXTENDS SBuffer
==============================================================================
