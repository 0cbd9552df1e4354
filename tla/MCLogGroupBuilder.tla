------------------------- MODULE MCLogGroupBuilder -------------------------
(***************************************************************************)
(* Instances of LogGroupBuilder for TLC: a small base brings the bounds of *)
(* the varints near.                                                       *)
(***************************************************************************)
EXTENDS LogGroupBuilder
=============================================================================
