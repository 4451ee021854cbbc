----------------------------- MODULE MCSBufferApi -----------------------------
(* Model checking of SBufferApi. *)
EXTENDS SBufferApi, TLC

Symmetry == Permutations(Node) \cup Permutations(Reading)
==============================================================================
