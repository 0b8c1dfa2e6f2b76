--------------------------- MODULE MCExperiment ---------------------------
(***************************************************************************)
(* An instance of Experiment with three peers.  The one that may get a      *)
(* datagram twice is one whose address was added twice.                    *)
(***************************************************************************)
EXTENDS Experiment

TwiceToPeer1 == 0 :> 1 @@ 1 :> 2 @@ 2 :> 1
OneClock     == [p \in Peers |-> 0]
Peer0Ahead   == [OneClock EXCEPT ![0] = 700]
Clocks       == {OneClock, Peer0Ahead}
=============================================================================
