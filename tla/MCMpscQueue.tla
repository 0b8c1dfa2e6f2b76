--------------------------- MODULE MCMpscQueue ---------------------------
(* Instances of MpscQueue for TLC. *)
EXTENDS MpscQueue
=============================================================================
