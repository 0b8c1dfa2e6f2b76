------------------------- MODULE MembershipProofs -------------------------
(***************************************************************************)
(* Safety of Membership for any editors, any way of naming each other and   *)
(* any network: the pipeline and the data socket of an editor that sets its *)
(* callbacks in time follow its list of peers.                             *)
(***************************************************************************)
EXTENDS Membership, TLAPS

-----------------------------------------------------------------------------
(* The inductive invariant.                                                *)

\* A list of peers with how long each has been silent.
PeerList == UNION {[S -> 0 .. DeadAfter] : S \in SUBSET Nodes}

MembershipType ==
  /\ thread \in [Nodes -> {"none", "receive", "rest", "ended"}]
  /\ running \in [Nodes -> BOOLEAN]
  /\ callbacks \in [Nodes -> BOOLEAN]
  /\ peers \in [Nodes -> PeerList]
  /\ addrs \in [Nodes -> SUBSET Nodes]
  /\ dataAddrs \in [Nodes -> SUBSET Nodes]
  /\ told \in [Nodes -> SUBSET Nodes]
  /\ net \subseteq Message

\* Nothing takes back a callback, so that an editor which has them from the
\* start hears of every peer.
CallbacksInTime == \A n \in Nodes \ Late : callbacks[n]

MembershipInv ==
  /\ MembershipType
  /\ CallbacksInTime
  /\ PipelineInformed
  /\ PeersGetOperations

-----------------------------------------------------------------------------
(* Lists of peers.                                                         *)

LEMMA DropType ==
  ASSUME NEW f \in PeerList, NEW gone
  PROVE  Drop(f, gone) \in PeerList /\ DOMAIN Drop(f, gone) = DOMAIN f \ gone
<1>1. PICK S \in SUBSET Nodes : f \in [S -> 0 .. DeadAfter]
  BY DEF PeerList
<1>2. Drop(f, gone) \in [S \ gone -> 0 .. DeadAfter]
  BY <1>1 DEF Drop
<1> QED
  BY <1>1, <1>2 DEF PeerList, Drop

LEMMA MsgType ==
  ASSUME NEW type \in {"JOIN", "LEAVE", "HEARTBEAT"}, NEW n \in Nodes,
         NEW A \in SUBSET Nodes, NEW dests \in Reached(A)
  PROVE  Msg(type, n, dests) \subseteq Message
BY DEF Reached, Msg, Message

\* The properties need to be looked at for the editor that takes the step.
LEMMA OneEditor ==
  ASSUME MembershipInv, NEW n \in Nodes, NEW list, NEW sites, NEW dests,
         peers' = [peers EXCEPT ![n] = list],
         told' = [told EXCEPT ![n] = sites],
         dataAddrs' = [dataAddrs EXCEPT ![n] = dests],
         callbacks' = callbacks,
         n \notin Late => sites = DOMAIN list /\ DOMAIN list \subseteq dests
  PROVE  CallbacksInTime' /\ PipelineInformed' /\ PeersGetOperations'
<1>1. \A x \in Nodes : /\ peers'[x] = IF x = n THEN list ELSE peers[x]
                       /\ told'[x] = IF x = n THEN sites ELSE told[x]
                       /\ dataAddrs'[x] = IF x = n THEN dests ELSE dataAddrs[x]
  BY DEF MembershipInv, MembershipType
<1>2. CallbacksInTime'
  BY DEF MembershipInv, CallbacksInTime
<1>3. ASSUME NEW x \in Nodes \ Late
      PROVE  told'[x] = DOMAIN peers'[x] /\ DOMAIN peers'[x] \subseteq dataAddrs'[x]
  <2>1. CASE x = n
    BY <1>1, <1>3, <2>1
  <2>2. CASE x # n
    <3>1. peers'[x] = peers[x] /\ told'[x] = told[x] /\ dataAddrs'[x] = dataAddrs[x]
      BY <1>1, <1>3, <2>2
    <3> QED
      BY <1>3, <3>1 DEF MembershipInv, PipelineInformed, PeersGetOperations
  <2> QED
    BY <2>1, <2>2
<1> QED
  BY <1>2, <1>3 DEF PipelineInformed, PeersGetOperations

-----------------------------------------------------------------------------
(* The steps.                                                              *)

LEMMA MainThreadStep ==
  ASSUME MembershipInv, NEW n \in Nodes, Start(n) \/ SetCallbacks(n) \/ Shutdown(n)
  PROVE  MembershipInv'
<1>1. /\ UNCHANGED <<peers, addrs, dataAddrs, told>>
      /\ MembershipType /\ CallbacksInTime /\ PipelineInformed /\ PeersGetOperations
  BY DEF Start, SetCallbacks, Shutdown, MembershipInv
<1>2. net' \subseteq Message
  <2>1. addrs[n] \in SUBSET Nodes
    BY <1>1 DEF MembershipType
  <2> QED
    BY <1>1, <2>1, MsgType DEF Start, SetCallbacks, Shutdown, MembershipType
<1>3. /\ thread' \in [Nodes -> {"none", "receive", "rest", "ended"}]
      /\ running' \in [Nodes -> BOOLEAN]
      /\ callbacks' \in [Nodes -> BOOLEAN]
      /\ CallbacksInTime'
  BY <1>1 DEF Start, SetCallbacks, Shutdown, MembershipType, CallbacksInTime
<1> QED
  BY <1>1, <1>2, <1>3 DEF MembershipInv, MembershipType, PipelineInformed, PeersGetOperations

\* One message of processMsg.
LEMMA HearStep ==
  ASSUME MembershipInv, NEW n \in Nodes, NEW p \in Nodes, Hear(n, p)
  PROVE  MembershipInv'
<1>1. MembershipType /\ CallbacksInTime /\ PipelineInformed /\ PeersGetOperations
  BY DEF MembershipInv
<1>2. PICK m \in net : /\ m.to = n /\ m.from = p
                       /\ HearLeave(n, m) \/ HearKnown(n, m) \/ HearNew(n, m)
  BY DEF Hear
<1>3. /\ UNCHANGED <<running, callbacks>>
      /\ thread' \in [Nodes -> {"none", "receive", "rest", "ended"}]
  BY <1>1, <1>2 DEF Hear, HearLeave, HearKnown, HearNew, MembershipType
<1>4. peers[n] \in PeerList /\ DOMAIN peers[n] \subseteq Nodes
  BY <1>1 DEF MembershipType, PeerList
<1>5. CASE HearLeave(n, m)
  <2>1. /\ peers' = [peers EXCEPT ![n] = Drop(peers[n], {p})]
        /\ told' = [told EXCEPT ![n] = OnPeerLeave(n, {p})]
        /\ net' = net \ {m} /\ UNCHANGED <<addrs, dataAddrs>>
    BY <1>2, <1>5 DEF HearLeave
  <2>2. Drop(peers[n], {p}) \in PeerList /\ DOMAIN Drop(peers[n], {p}) = DOMAIN peers[n] \ {p}
    BY <1>4, DropType
  <2>3. OnPeerLeave(n, {p}) = IF callbacks[n] THEN told[n] \ {p} ELSE told[n]
    BY DEF OnPeerLeave
  <2>4. MembershipType'
    BY <1>1, <1>3, <2>1, <2>2, <2>3 DEF MembershipType
  <2> DEFINE list == Drop(peers[n], {p})
             sites == OnPeerLeave(n, {p})
             dests == dataAddrs[n]
  <2>5. dataAddrs' = [dataAddrs EXCEPT ![n] = dests]
    BY <1>1, <2>1 DEF MembershipType
  <2>6. n \notin Late => sites = DOMAIN list /\ DOMAIN list \subseteq dests
    <3> SUFFICES ASSUME n \notin Late
                 PROVE  sites = DOMAIN list /\ DOMAIN list \subseteq dests
      OBVIOUS
    <3>1. callbacks[n] /\ told[n] = DOMAIN peers[n] /\ DOMAIN peers[n] \subseteq dataAddrs[n]
      BY <1>1 DEF CallbacksInTime, PipelineInformed, PeersGetOperations
    <3> QED
      BY <2>2, <2>3, <3>1
  <2> HIDE DEF list, sites, dests
  <2>7. CallbacksInTime' /\ PipelineInformed' /\ PeersGetOperations'
    BY <1>3, <2>1, <2>5, <2>6, OneEditor DEF list, sites
  <2> QED
    BY <2>4, <2>7 DEF MembershipInv
<1>6. CASE HearKnown(n, m)
  <2>1. /\ p \in DOMAIN peers[n]
        /\ peers' = [peers EXCEPT ![n] = [peers[n] EXCEPT ![p] = 0]]
        /\ net' = net \ {m} /\ UNCHANGED <<addrs, dataAddrs, told>>
    BY <1>2, <1>6 DEF HearKnown
  <2> DEFINE list == [peers[n] EXCEPT ![p] = 0]
  <2>2. list \in PeerList /\ DOMAIN list = DOMAIN peers[n]
    BY <1>4, <2>1, NodesAssumption DEF PeerList
  <2> HIDE DEF list
  <2>3. MembershipType'
    BY <1>1, <1>3, <2>1, <2>2 DEF MembershipType, list
  <2> QED
    BY <1>1, <1>3, <2>1, <2>2, <2>3
    DEF MembershipInv, MembershipType, CallbacksInTime, PipelineInformed, PeersGetOperations, list
<1>7. CASE HearNew(n, m)
  <2> DEFINE list == [q \in DOMAIN peers[n] \cup {p} |-> IF q = p THEN 0 ELSE peers[n][q]]
             sites == IF callbacks[n] THEN told[n] \cup {p} ELSE told[n]
             dests == IF callbacks[n] THEN dataAddrs[n] \cup {p} ELSE dataAddrs[n]
  <2>1. /\ peers' = [peers EXCEPT ![n] = list]
        /\ addrs' = [addrs EXCEPT ![n] = addrs[n] \cup {p}]
        /\ told' = [told EXCEPT ![n] = sites]
        /\ dataAddrs' = [dataAddrs EXCEPT ![n] = dests]
        /\ \E to \in Reached(addrs'[n]) : net' = (net \ {m}) \cup Msg("JOIN", n, to)
    BY <1>2, <1>7 DEF HearNew, AddPeer, OnPeerJoin
  <2>2. list \in PeerList
    <3>1. PICK S \in SUBSET Nodes : peers[n] \in [S -> 0 .. DeadAfter]
      BY <1>4 DEF PeerList
    <3>2. list \in [S \cup {p} -> 0 .. DeadAfter] /\ S \cup {p} \in SUBSET Nodes
      BY <3>1, NodesAssumption
    <3> HIDE DEF list
    <3> QED
      BY <3>2 DEF PeerList
  <2>3. DOMAIN list = DOMAIN peers[n] \cup {p}
    OBVIOUS
  <2> HIDE DEF list
  <2>4. addrs' \in [Nodes -> SUBSET Nodes] /\ addrs'[n] \in SUBSET Nodes
    BY <1>1, <2>1 DEF MembershipType
  <2>5. net' \subseteq Message
    BY <1>1, <2>1, <2>4, MsgType DEF MembershipType
  <2>6. MembershipType'
    BY <1>1, <1>3, <2>1, <2>2, <2>4, <2>5 DEF MembershipType
  <2>7. n \notin Late => sites = DOMAIN list /\ DOMAIN list \subseteq dests
    <3> SUFFICES ASSUME n \notin Late
                 PROVE  sites = DOMAIN list /\ DOMAIN list \subseteq dests
      OBVIOUS
    <3>1. callbacks[n] /\ told[n] = DOMAIN peers[n] /\ DOMAIN peers[n] \subseteq dataAddrs[n]
      BY <1>1 DEF CallbacksInTime, PipelineInformed, PeersGetOperations
    <3> QED
      BY <2>3, <3>1
  <2> HIDE DEF sites, dests
  <2>8. CallbacksInTime' /\ PipelineInformed' /\ PeersGetOperations'
    BY <1>3, <2>1, <2>7, OneEditor
  <2> QED
    BY <2>6, <2>8 DEF MembershipInv
<1> QED
  BY <1>2, <1>5, <1>6, <1>7

\* checkDeadPeers: the callback is called for exactly the peers erased.
LEMMA RestStep ==
  ASSUME MembershipInv, NEW n \in Nodes, NEW ages \in PeerList,
         DOMAIN ages = DOMAIN peers[n], Rest(n, ages), net' \subseteq Message
  PROVE  MembershipInv'
<1>1. MembershipType /\ CallbacksInTime /\ PipelineInformed /\ PeersGetOperations
  BY DEF MembershipInv
<1> DEFINE dead == Dead(ages)
           list == Drop(ages, dead)
           sites == IF callbacks[n] THEN told[n] \ dead ELSE told[n]
           dests == dataAddrs[n]
<1> HIDE DEF dead
<1>2. /\ thread' \in [Nodes -> {"none", "receive", "rest", "ended"}]
      /\ peers' = [peers EXCEPT ![n] = list]
      /\ told' = [told EXCEPT ![n] = sites]
      /\ UNCHANGED <<running, callbacks, addrs, dataAddrs>>
  BY <1>1 DEF Rest, OnPeerLeave, dead, MembershipType
<1>3. list \in PeerList /\ DOMAIN list = DOMAIN peers[n] \ dead
  BY DropType
<1> HIDE DEF list
<1>4. MembershipType'
  BY <1>1, <1>2, <1>3 DEF MembershipType
<1>5. dataAddrs' = [dataAddrs EXCEPT ![n] = dests]
  BY <1>1, <1>2 DEF MembershipType
<1>6. n \notin Late => sites = DOMAIN list /\ DOMAIN list \subseteq dests
  <2> SUFFICES ASSUME n \notin Late
               PROVE  sites = DOMAIN list /\ DOMAIN list \subseteq dests
    OBVIOUS
  <2>1. callbacks[n] /\ told[n] = DOMAIN peers[n] /\ DOMAIN peers[n] \subseteq dataAddrs[n]
    BY <1>1 DEF CallbacksInTime, PipelineInformed, PeersGetOperations
  <2> QED
    BY <1>3, <2>1
<1> HIDE DEF sites, dests
<1>7. CallbacksInTime' /\ PipelineInformed' /\ PeersGetOperations'
  BY <1>2, <1>5, <1>6, OneEditor
<1> QED
  BY <1>4, <1>7 DEF MembershipInv

LEMMA LoopStep ==
  ASSUME MembershipInv, NEW n \in Nodes, Loop(n)
  PROVE  MembershipInv'
<1>1. MembershipType
  BY DEF MembershipInv
<1>2. /\ peers[n] \in PeerList /\ addrs[n] \in SUBSET Nodes /\ net \subseteq Message
      /\ DeadAfter \in Nat
  BY <1>1, NodesAssumption DEF MembershipType
<1>3. CASE Timeout(n)
  BY <1>1, <1>3 DEF Timeout, MembershipInv, MembershipType, CallbacksInTime,
                    PipelineInformed, PeersGetOperations
<1>4. CASE NotDue(n)
  BY <1>2, <1>4, RestStep DEF NotDue
<1>5. ASSUME NEW dests \in Reached(addrs[n]), Heartbeat(n, dests) PROVE MembershipInv'
  <2> DEFINE ages == [p \in DOMAIN peers[n] |->
                        IF peers[n][p] < DeadAfter THEN peers[n][p] + 1 ELSE peers[n][p]]
  <2>1. ages \in PeerList /\ DOMAIN ages = DOMAIN peers[n]
    <3>1. PICK S \in SUBSET Nodes : peers[n] \in [S -> 0 .. DeadAfter]
      BY <1>2 DEF PeerList
    <3>2. \A x \in 0 .. DeadAfter : x < DeadAfter => x + 1 \in 0 .. DeadAfter
      BY <1>2
    <3>3. ages \in [S -> 0 .. DeadAfter]
      BY <3>1, <3>2
    <3> QED
      BY <3>3 DEF PeerList
  <2>2. Rest(n, ages) /\ net' \subseteq Message
    BY <1>2, <1>5, MsgType DEF Heartbeat
  <2> HIDE DEF ages
  <2> QED
    BY <2>1, <2>2, RestStep
<1> QED
  BY <1>3, <1>4, <1>5, HearStep DEF Loop

-----------------------------------------------------------------------------
(* The theorems.                                                           *)

\* The lists of peers, the addresses and what the pipeline was told keep
\* their types and go together.
THEOREM MembershipInvariance == Spec => []MembershipInv
<1>1. Init => MembershipInv
  <2> SUFFICES ASSUME Init PROVE MembershipInv
    OBVIOUS
  <2>1. <<>> \in PeerList /\ DOMAIN <<>> = {}
    <3>1. <<>> \in [{} -> 0 .. DeadAfter]
      OBVIOUS
    <3> QED
      BY <3>1 DEF PeerList
  <2>2. MembershipType
    BY <2>1, NodesAssumption DEF Init, MembershipType
  <2> QED
    BY <2>1, <2>2 DEF Init, MembershipInv, CallbacksInTime, PipelineInformed, PeersGetOperations
<1>2. MembershipInv /\ [Next]_vars => MembershipInv'
  <2>1. CASE UNCHANGED vars
    BY <2>1 DEF vars, MembershipInv, MembershipType, CallbacksInTime,
                PipelineInformed, PeersGetOperations
  <2> QED
    BY <2>1, MainThreadStep, LoopStep DEF Next
<1> QED
  BY <1>1, <1>2, PTL DEF Spec

\* The pipeline knows exactly the peers in the list.
THEOREM PipelineKnowsPeers == Spec => []PipelineInformed
<1>1. MembershipInv => PipelineInformed
  BY DEF MembershipInv
<1> QED
  BY <1>1, MembershipInvariance, PTL

\* Every peer in the list is a destination of operations.
THEOREM PeersAreDestinations == Spec => []PeersGetOperations
<1>1. MembershipInv => PeersGetOperations
  BY DEF MembershipInv
<1> QED
  BY <1>1, MembershipInvariance, PTL
=============================================================================
