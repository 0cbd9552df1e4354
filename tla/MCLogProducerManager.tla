------------------------ MODULE MCLogProducerManager ------------------------
(***************************************************************************)
(* Instances of LogProducerManager for TLC.  The threads are model values  *)
(* given in the cfg files; the clients are interchangeable, and so are the *)
(* send threads, in the runs that check safety only.                       *)
(***************************************************************************)
EXTENDS LogProducerManager, TLC

Interchangeable == Permutations(Clients) \cup Permutations(SendThreads)
=============================================================================
