----------------------------- MODULE MCLogQueue -----------------------------
(***************************************************************************)
(* Instances of LogQueue for TLC.                                          *)
(***************************************************************************)
EXTENDS LogQueue, TLC

Symmetry == Permutations(Threads) \cup Permutations(Items)
=============================================================================
