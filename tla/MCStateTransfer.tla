-------------------------- MODULE MCStateTransfer --------------------------
(* Instances of StateTransfer for TLC: who asks whom, in which order. *)
EXTENDS StateTransfer, TLC

CONSTANTS x, y, a, b

\* One joiner falls back on the peer that another one is asking.
Shared == x :> <<a, b>> @@ y :> <<b>>
=============================================================================
