------------------------------ MODULE MCGateway ------------------------------
(* Model checking of Gateway: readings are interchangeable in the runs that *)
(* check safety only.                                                       *)
EXTENDS Gateway, TLC

Symmetry == Permutations(Reading)
==============================================================================
