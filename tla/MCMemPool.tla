----------------------------- MODULE MCMemPool ------------------------------
(* Instance of MemPool for TLC.                                              *)
EXTENDS MemPool, TLC

Symmetry == Permutations(Users)
=============================================================================
