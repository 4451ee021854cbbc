------------------------------ MODULE MCConnMgr ------------------------------
(* Model checking of ConnMgr: two connections, so that the second can be    *)
(* given the descriptor of the first.                                       *)
EXTENDS ConnMgr, TLC

ClientSymmetry == Permutations(Client)
==============================================================================
