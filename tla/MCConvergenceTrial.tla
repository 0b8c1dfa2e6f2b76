------------------------ MODULE MCConvergenceTrial ------------------------
(***************************************************************************)
(* An instance of ConvergenceTrial for TLC, with four trials before: one    *)
(* that passed although a dump is missing, one that failed, one of the same *)
(* peer count that left a single dump, and one without meta.txt.           *)
(***************************************************************************)
EXTENDS ConvergenceTrial

Meta(trial, peers) == [trial |-> trial, n_peers |-> peers, seed |-> "seed"]

Trial1 == [meta |-> Meta(1, 3), dumps |-> 0 :> <<1>> @@ 2 :> <<1>>]
Trial2 == [meta |-> Meta(2, 3), dumps |-> 0 :> <<1>> @@ 1 :> <<2>> @@ 2 :> <<1>>]
Trial3 == [meta |-> Meta(3, 2), dumps |-> 0 :> <<>> @@ 1 :> <<1>>]
Trial4 == [meta |-> <<>>, dumps |-> 0 :> <<1, 2>> @@ 1 :> <<1, 2>>]
Trials4 == <<Trial1, Trial2, Trial3, Trial4>>
=============================================================================
