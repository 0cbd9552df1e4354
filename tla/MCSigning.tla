------------------------------ MODULE MCSigning ------------------------------
(***************************************************************************)
(* Instances of Signing for TLC: senders and resetters are model values    *)
(* given in the cfg file, and interchangeable.                             *)
(***************************************************************************)
EXTENDS Signing, TLC

Interchangeable == Permutations(Senders) \cup Permutations(Resetters)
=============================================================================
