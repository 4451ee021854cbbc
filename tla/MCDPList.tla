------------------------------- MODULE MCDPList -------------------------------
(* Model checking of DPList: three nodes, so that a node can be first, last *)
(* and in the middle; an element may be in the list more than once.         *)
EXTENDS DPList
==============================================================================
