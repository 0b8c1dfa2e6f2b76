----------------------- MODULE MCSyncedReplication -----------------------
(* Instances of SyncedReplication for TLC. *)
EXTENDS SyncedReplication
=============================================================================
