---------------------------- MODULE Membership ----------------------------
(***************************************************************************)
(* PeerManager (src/src/peer_manager.cpp): who an editor believes is       *)
(* there.  Every node sends JOIN, HEARTBEAT and LEAVE to the heartbeat     *)
(* addresses it has, adds whoever it hears from, and drops whoever says    *)
(* LEAVE or is silent for too long.  The callbacks that p2p-editor.cpp     *)
(* wires tell the pipeline and the data socket.                            *)
(*                                                                         *)
(* The background thread goes round a loop: one datagram or a timeout, a   *)
(* heartbeat when one is due, the check for dead peers.  Time passes with  *)
(* the node's own heartbeats: a peer's silence is counted in them.  The    *)
(* clocks of two nodes are unrelated, so a live peer may be declared dead. *)
(***************************************************************************)
EXTENDS Naturals, FiniteSets

CONSTANTS
  Nodes,      \* the editors
  Seeds,      \* the peers named on each one's command line
  Late,       \* the interactive ones: they set the callbacks after start
  Stoppers,   \* the ones that may be shut down
  DeadAfter,  \* own heartbeats without a message until a peer is dead
  Lossy       \* datagrams may be lost

ASSUME NodesAssumption ==
  /\ Seeds \in [Nodes -> SUBSET Nodes]
  /\ Late \subseteq Nodes /\ Stoppers \subseteq Nodes
  /\ DeadAfter \in Nat \ {0}
  /\ Lossy \in BOOLEAN

VARIABLES
  thread,     \* where the background thread is
  running,    \* running_
  callbacks,  \* joinCb_ and leaveCb_ are set
  peers,      \* peers_: site -> how long it has been silent
  addrs,      \* the addresses of socket_
  dataAddrs,  \* the addresses of the data socket: where operations go
  told,       \* the sites announced to the pipeline (knownSiteIDs_)
  net         \* the datagrams in flight

vars == <<thread, running, callbacks, peers, addrs, dataAddrs, told, net>>

Msg(type, from, dests) == [type : {type}, from : {from}, to : dests]

\* The destinations a datagram for all of dests gets to.
Reached(dests) == IF Lossy THEN SUBSET dests ELSE {dests}

Message == [type : {"JOIN", "LEAVE", "HEARTBEAT"}, from : Nodes, to : Nodes]

Init ==
  /\ thread = [n \in Nodes |-> "none"]
  /\ running = [n \in Nodes |-> FALSE]
  /\ callbacks = [n \in Nodes |-> n \notin Late]
  /\ peers = [n \in Nodes |-> <<>>]
  /\ addrs = Seeds
  /\ dataAddrs = Seeds
  /\ told = [n \in Nodes |-> {}]
  /\ net = {}

-----------------------------------------------------------------------------
(* The main thread.                                                        *)

Start(n) ==
  /\ thread[n] = "none"
  /\ thread' = [thread EXCEPT ![n] = "receive"]
  /\ running' = [running EXCEPT ![n] = TRUE]
  /\ \E dests \in Reached(addrs[n]) : net' = net \cup Msg("JOIN", n, dests)
  /\ UNCHANGED <<callbacks, peers, addrs, dataAddrs, told>>

\* runInteractive wires the callbacks after the first state transfer.
SetCallbacks(n) ==
  /\ running[n]
  /\ ~callbacks[n]
  /\ callbacks' = [callbacks EXCEPT ![n] = TRUE]
  /\ UNCHANGED <<thread, running, peers, addrs, dataAddrs, told, net>>

\* The background thread may still be on its way round the loop.
Shutdown(n) ==
  /\ n \in Stoppers
  /\ running[n]
  /\ running' = [running EXCEPT ![n] = FALSE]
  /\ \E dests \in Reached(addrs[n]) : net' = net \cup Msg("LEAVE", n, dests)
  /\ UNCHANGED <<thread, callbacks, peers, addrs, dataAddrs, told>>

-----------------------------------------------------------------------------
(* The background thread: processMsg.                                      *)

Drop(f, gone) == [p \in DOMAIN f \ gone |-> f[p]]

\* Mutant of OnPeerLeave: the site stays known.
OnPeerLeave_Untold(n, gone) == told[n]

\* The leave callback, if it is set.
OnPeerLeave(n, gone) == IF callbacks[n] THEN told[n] \ gone ELSE told[n]

HearLeave(n, m) ==
  /\ m.type = "LEAVE"
  /\ peers' = [peers EXCEPT ![n] = Drop(@, {m.from})]
  /\ told' = [told EXCEPT ![n] = OnPeerLeave(n, {m.from})]
  /\ net' = net \ {m}
  /\ UNCHANGED <<callbacks, addrs, dataAddrs>>

HearKnown(n, m) ==
  /\ m.type # "LEAVE"
  /\ m.from \in DOMAIN peers[n]
  /\ peers' = [peers EXCEPT ![n][m.from] = 0]
  /\ net' = net \ {m}
  /\ UNCHANGED <<callbacks, addrs, dataAddrs, told>>

\* Mutant of AddPeer: the list grows, the addresses do not.
AddPeer_NoAddress(n, p) == addrs[n]

\* socket_.addPeer for a new peer.
AddPeer(n, p) == addrs[n] \cup {p}

\* Mutant of OnPeerJoin: the data address is not registered.
OnPeerJoin_ToldOnly(n, p) ==
  [told      |-> IF callbacks[n] THEN told[n] \cup {p} ELSE told[n],
   dataAddrs |-> dataAddrs[n]]

\* The join callback of p2p-editor.cpp, if it is set.
OnPeerJoin(n, p) ==
  [told      |-> IF callbacks[n] THEN told[n] \cup {p} ELSE told[n],
   dataAddrs |-> IF callbacks[n] THEN dataAddrs[n] \cup {p} ELSE dataAddrs[n]]

\* The first message of a site adds it and its address, is answered by a
\* JOIN to everyone, and is announced.
HearNew(n, m) ==
  /\ m.type # "LEAVE"
  /\ m.from \notin DOMAIN peers[n]
  /\ peers' = [peers EXCEPT ![n] = [p \in DOMAIN @ \cup {m.from} |->
                                      IF p = m.from THEN 0 ELSE @[p]]]
  /\ addrs' = [addrs EXCEPT ![n] = AddPeer(n, m.from)]
  /\ \E dests \in Reached(addrs'[n]) : net' = (net \ {m}) \cup Msg("JOIN", n, dests)
  /\ told' = [told EXCEPT ![n] = OnPeerJoin(n, m.from).told]
  /\ dataAddrs' = [dataAddrs EXCEPT ![n] = OnPeerJoin(n, m.from).dataAddrs]
  /\ UNCHANGED callbacks

Hear(n, p) ==
  /\ thread[n] = "receive"
  /\ thread' = [thread EXCEPT ![n] = "rest"]
  /\ \E m \in net :
       /\ m.to = n /\ m.from = p
       /\ HearLeave(n, m) \/ HearKnown(n, m) \/ HearNew(n, m)
  /\ UNCHANGED running

Timeout(n) ==
  /\ thread[n] = "receive"
  /\ thread' = [thread EXCEPT ![n] = "rest"]
  /\ UNCHANGED <<running, callbacks, peers, addrs, dataAddrs, told, net>>

-----------------------------------------------------------------------------
(* The rest of the loop: a heartbeat when it is due, then checkDeadPeers.   *)

\* Mutant of Dead: waits for a count that is never reached.
Dead_Never(ages) == {p \in DOMAIN ages : ages[p] > DeadAfter}

Dead(ages) == {p \in DOMAIN ages : ages[p] >= DeadAfter}

Rest(n, ages) ==
  /\ thread[n] = "rest"
  /\ thread' = [thread EXCEPT ![n] = IF running[n] THEN "receive" ELSE "ended"]
  /\ peers' = [peers EXCEPT ![n] = Drop(ages, Dead(ages))]
  /\ told' = [told EXCEPT ![n] = OnPeerLeave(n, Dead(ages))]
  /\ UNCHANGED <<running, callbacks, addrs, dataAddrs>>

NotDue(n) ==
  /\ Rest(n, peers[n])
  /\ UNCHANGED net

Heartbeat(n, dests) ==
  /\ Rest(n, [p \in DOMAIN peers[n] |->
               IF peers[n][p] < DeadAfter THEN peers[n][p] + 1 ELSE peers[n][p]])
  /\ net' = net \cup Msg("HEARTBEAT", n, dests)

-----------------------------------------------------------------------------
Loop(n) ==
  \/ \E p \in Nodes : Hear(n, p)
  \/ Timeout(n)
  \/ NotDue(n)
  \/ \E dests \in Reached(addrs[n]) : Heartbeat(n, dests)

Next == \E n \in Nodes : Start(n) \/ SetCallbacks(n) \/ Shutdown(n) \/ Loop(n)

Spec == Init /\ [][Next]_vars

\* Every editor is started and its thread keeps going round; heartbeats come
\* due again and again (every 2 s), now and then one is not lost, and what
\* has reached a socket is read in the end.  Nobody has to be shut down.
FairSpec ==
  /\ Spec
  /\ \A n \in Nodes :
       /\ WF_vars(Start(n)) /\ WF_vars(SetCallbacks(n)) /\ WF_vars(Loop(n))
       /\ SF_vars(Heartbeat(n, addrs[n]))
       /\ \A p \in Nodes \ {n} : SF_vars(Hear(n, p))

-----------------------------------------------------------------------------
\* The pipeline of an editor that sets its callbacks in time knows exactly the
\* sites in the list of peers (peer_manager.cpp:121-125, 137-155, 159-185).
PipelineInformed == \A n \in Nodes \ Late : told[n] = DOMAIN peers[n]

\* Such an editor sends its operations to every peer in its list, the ones it
\* found out about by itself and the ones that came back included.
PeersGetOperations == \A n \in Nodes \ Late : DOMAIN peers[n] \subseteq dataAddrs[n]

\* An editor that was shut down is forgotten by all that stay, although its
\* last heartbeats may come in after its LEAVE and bring it back.
StoppedForgotten ==
  \A n, p \in Nodes :
    <>[](thread[p] = "ended") =>
      <>[](p \notin DOMAIN peers[n] \/ thread[n] = "ended")

\* Discovery works in both directions from one address (peer_manager.h:9-11):
\* two editors that stay and of which one knows the other have each other in
\* their lists again and again, whatever is lost in between.
BothDiscovered ==
  \A n \in Nodes : \A p \in Seeds[n] :
    <>[](running[n] /\ running[p]) =>
      []<>(p \in DOMAIN peers[n]) /\ []<>(n \in DOMAIN peers[p])
=============================================================================
