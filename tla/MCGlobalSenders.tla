--------------------------- MODULE MCGlobalSenders ---------------------------
(***************************************************************************)
(* Instances of GlobalSenders for TLC: the threads are model values given  *)
(* in the cfg files.                                                       *)
(***************************************************************************)
EXTENDS GlobalSenders
=============================================================================
