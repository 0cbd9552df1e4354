------------------------ MODULE MCLogProducerSender ------------------------
(***************************************************************************)
(* Instances of LogProducerSender for TLC: the send threads are model      *)
(* values given in the cfg file.                                           *)
(***************************************************************************)
EXTENDS LogProducerSender
=============================================================================
