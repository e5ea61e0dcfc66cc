------------------------------ MODULE MCDevice ------------------------------
(* An instance of CallDevice for TLC: two calls, of which each may be made *)
(* or received, and three handlers that wait at the same time.             *)
EXTENDS CallDevice, TLC

Symmetry == Permutations(Task) \cup Permutations(Call)
=============================================================================
