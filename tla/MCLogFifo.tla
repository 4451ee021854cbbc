------------------------------ MODULE MCLogFifo ------------------------------
(* Model checking of LogFifo. *)
EXTENDS LogFifo
==============================================================================
