--------------------------- MODULE MCMembership ---------------------------
(* Instances of Membership for TLC: who names whom on the command line. *)
EXTENDS Membership, TLC

CONSTANTS a, b

\* b joins through a.
Pair == a :> {} @@ b :> {a}
=============================================================================
