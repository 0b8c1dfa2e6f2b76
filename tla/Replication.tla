--------------------------- MODULE Replication ---------------------------
(***************************************************************************)
(* Editors that start together and replicate one document: each site has   *)
(* the engine of RGA, the operations of pipeline.cpp that change it, and a  *)
(* UDP network between them.                                               *)
(*                                                                         *)
(* A step is one critical section of crdtMutex_.  What lies between two of *)
(* them (the outgoing queue, the send thread, the sockets, the receive     *)
(* thread, the incoming queue) only carries operations, without a promise  *)
(* of order, so it is a bag of operations on their way to each site.  How   *)
(* many copies of a datagram reach a peer is settled when it is sent:      *)
(* none when it is lost, several when it is duplicated (peer_socket.cpp    *)
(* also sends once per entry of a peer list that may repeat an address).   *)
(* State transfer (syncState) is not part of this module: syncing_ is      *)
(* false and no site joins late.                                           *)
(***************************************************************************)
EXTENDS RGA, Bags

CONSTANTS
  Sites,          \* the site identifiers
  MaxOps,         \* bound: operations issued by all sites together
  MaxClock,       \* bound: no site edits once its clock is there
  MinCopies,      \* copies of a datagram that reach one peer: at least,
  MaxCopies,      \*   and at most
  DeletesInOrder  \* the network brings no DELETE ahead of its INSERT

ASSUME SitesAssumption  == Sites \subseteq Nat
ASSUME CopiesAssumption == MinCopies \in Nat /\ MaxCopies \in Nat
ASSUME OrderAssumption  == DeletesInOrder \in BOOLEAN

VARIABLES
  crdt,     \* crdt_ of each site
  pending,  \* pendingOps_: received INSERTs whose left neighbour is missing
  net,      \* the operations on their way to each site
  applied   \* history: the operations each site has issued or applied

vars == <<crdt, pending, net, applied>>

Issued == UNION {applied[s] : s \in Sites}

NextID(s) == [clock |-> crdt[s].clock + 1, site |-> s]

Init ==
  /\ crdt = [s \in Sites |-> NewEngine]
  /\ pending = [s \in Sites |-> <<>>]
  /\ net = [s \in Sites |-> EmptyBag]
  /\ applied = [s \in Sites |-> {}]

-----------------------------------------------------------------------------
(* Local edits: Pipeline::localInsert and Pipeline::localDelete.           *)

MayEdit(s) == crdt[s].clock < MaxClock /\ Cardinality(Issued) < MaxOps

AddCopies(bag, op, n) ==
  IF n = 0 THEN bag ELSE bag (+) [o \in {op} |-> n]

\* outgoing_.push, up to the arrival of each copy in its peer's socket.
Broadcast(s, op) ==
  \E copies \in [Sites \ {s} -> MinCopies .. MaxCopies] :
    net' = [d \in Sites |-> IF d = s THEN net[d]
                            ELSE AddCopies(net[d], op, copies[d])]

Commit(s, edit) ==
  /\ crdt' = [crdt EXCEPT ![s] = edit.engine]
  /\ applied' = [applied EXCEPT ![s] = @ \cup {edit.op}]
  /\ Broadcast(s, edit.op)
  /\ UNCHANGED pending

\* The editor took pos from a text that remote operations may have shortened
\* since, so one past the end is possible.
Insert(s, pos) ==
  /\ MayEdit(s)
  /\ Commit(s, LocalInsert(crdt[s], s, pos))

Delete(s, pos) ==
  /\ MayEdit(s)
  /\ VisibleIter(crdt[s].seq, pos) # {}
  /\ Commit(s, LocalDelete(crdt[s], pos))

DeleteOutOfRange(s, pos) ==
  /\ MayEdit(s)
  /\ VisibleIter(crdt[s].seq, pos) = {}
  /\ crdt' = [crdt EXCEPT ![s] = LocalDeleteThrows(@)]
  /\ UNCHANGED <<pending, net, applied>>

-----------------------------------------------------------------------------
(* Remote operations: Pipeline::crdtLoop.                                  *)

(* drainPending scans the pending operations, applying and erasing the      *)
(* ones that can be, and scans again as long as a scan made progress.  It   *)
(* is the iteration of ScanStep, which handles one element or restarts.    *)

Scan == [crdt : Engine, pending : Seq(Operation), at : Nat \ {0},
         progress : BOOLEAN, notified : SUBSET Operation]

ScanStep == [d \in Scan |->
  IF d.at <= Len(d.pending)
  THEN LET op == d.pending[d.at] IN
       IF CanApply(d.crdt, op)
       THEN [crdt     |-> ApplyRemote(d.crdt, op),
             pending  |-> RemoveAt(d.pending, d.at),
             at       |-> d.at,
             progress |-> TRUE,
             notified |-> d.notified \cup {op}]
       ELSE [d EXCEPT !.at = @ + 1]
  ELSE IF d.progress
  THEN [crdt |-> d.crdt, pending |-> d.pending, at |-> 1,
        progress |-> FALSE, notified |-> d.notified]
  ELSE d]

StartScan(e, queue, done) ==
  [crdt |-> e, pending |-> queue, at |-> 1, progress |-> FALSE, notified |-> done]

\* Mutants of DrainPending: a single scan, and none.
DrainPending_OneScan(e, queue, done) ==
  LET scan[n \in Nat] ==
        IF n = 0 THEN StartScan(e, queue, done) ELSE ScanStep[scan[n - 1]]
  IN  scan[Len(queue)]
DrainPending_Never(e, queue, done) == StartScan(e, queue, done)

\* At most one scan more than there are operations, each of as many steps
\* and one to restart.
DrainPending(e, queue, done) ==
  LET scan[n \in Nat] ==
        IF n = 0 THEN StartScan(e, queue, done) ELSE ScanStep[scan[n - 1]]
  IN  scan[(Len(queue) + 1) * (Len(queue) + 1)]

Park(s, op) ==
  /\ ~CanApply(crdt[s], op)
  /\ pending' = [pending EXCEPT ![s] = Append(@, op)]
  /\ UNCHANGED <<crdt, applied>>

Apply(s, op) ==
  /\ CanApply(crdt[s], op)
  /\ LET d == DrainPending(ApplyRemote(crdt[s], op), pending[s], {op}) IN
     /\ crdt' = [crdt EXCEPT ![s] = d.crdt]
     /\ pending' = [pending EXCEPT ![s] = d.pending]
     /\ applied' = [applied EXCEPT ![s] = @ \cup d.notified]

\* DeletesInOrder is an assumption on the network, not a test of the code.
Arrives(s, op) ==
  /\ op \in BagToSet(net[s])
  /\ DeletesInOrder /\ op.type = "DELETE" => op.id \in Ids(crdt[s].seq)
  /\ net' = [net EXCEPT ![s] = @ (-) SetToBag({op})]

Receive(s) == \E op \in BagToSet(net[s]) : Arrives(s, op) /\ (Park(s, op) \/ Apply(s, op))

-----------------------------------------------------------------------------
\* The places in the text, its end, and one that lies past it by now.
Positions(s) == 0 .. Len(GetDocument(crdt[s].seq)) + 1

Next ==
  \E s \in Sites :
    \/ \E pos \in Positions(s) :
         \/ Insert(s, pos)
         \/ Delete(s, pos)
         \/ DeleteOutOfRange(s, pos)
    \/ Receive(s)

Spec == Init /\ [][Next]_vars

-----------------------------------------------------------------------------
TypeOK ==
  /\ crdt \in [Sites -> Engine]
  /\ pending \in [Sites -> Seq(Operation)]
  /\ \A s \in Sites : DOMAIN net[s] \subseteq Operation
  /\ applied \in [Sites -> SUBSET Operation]

\* CharIDs are never reused: the identifier a site gives its next character
\* names no character yet, whatever it has received in between (rga.cpp:33;
\* ARCHITECTURE.md, RGA invariants: every CharID is globally unique).
NextIDFresh ==
  \A s \in Sites : \A op \in Issued : op.id # NextID(s)

\* The left neighbour of every node stands before it in the same list and is
\* older.  This is what insertNode and rootAncestor rely on: index_.at does
\* not throw (rga.cpp:125), and the climb, which has no other exit, ends
\* (rga.cpp:96-108).
LeftNeighborBefore ==
  \A s \in Sites : LET seq == crdt[s].seq IN
    \A i \in 2 .. Len(seq) :
      \E j \in 1 .. i - 1 :
        seq[j].id = seq[i].left /\ Less(seq[j].id, seq[i].id)

\* An operation is kept in pendingOps_ only while its left neighbour is
\* missing: no drain ever leaves one behind that could be applied
\* (pipeline.cpp:149-167).
PendingBlocked ==
  \A s \in Sites : \A i \in DOMAIN pending[s] :
    ~CanApply(crdt[s], pending[s][i])

\* Any two characters that two editors both hold stand in the same order in
\* both, whatever order their inserts were applied in (rga.cpp:123-138).
OrderAgreement ==
  \A r, s \in Sites : r < s => LET p == crdt[r].seq  q == crdt[s].seq IN
    \A x, y \in Ids(p) \cap Ids(q) :
      Idx(p, x) < Idx(p, y) => Idx(q, x) < Idx(q, y)

\* Two editors that have applied the same operations show the same text
\* (ARCHITECTURE.md, section 1).
Convergence ==
  \A r, s \in Sites :
    applied[r] = applied[s] => GetDocument(crdt[r].seq) = GetDocument(crdt[s].seq)

\* A step keeps every node of a list in its order and never brings a deleted
\* character back; the Lamport clock never goes back.
NothingUndone ==
  [][\A s \in Sites : LET old == crdt[s].seq  new == crdt'[s].seq IN
       /\ crdt[s].clock <= crdt'[s].clock
       /\ \A i \in DOMAIN old : \E k \in i .. Len(new) :
            new[k].id = old[i].id /\ (old[i].tomb => new[k].tomb)
       /\ \A i, j \in DOMAIN old :
            i < j => Idx(new, old[i].id) < Idx(new, old[j].id)]_vars

\* What the user types appears exactly where it was typed, among tombstones
\* and characters of other sites (localInsert, rga.cpp:31-36): the new
\* character is never carried further by the scan of insertNode.
InsertIntent ==
  [][\A s \in Sites : LET text == GetDocument(crdt[s].seq) IN
       \A pos \in 0 .. Len(text) :
         Insert(s, pos) =>
           GetDocument(crdt'[s].seq) = InsertAt(text, pos + 1, NextID(s))]_vars

\* Once every datagram has been taken in, and none was lost, nobody has
\* anything pending and all editors show the same text.
DeliveredSameText ==
  (\A s \in Sites : net[s] = EmptyBag) =>
    \A r, s \in Sites :
      /\ pending[s] = <<>>
      /\ GetDocument(crdt[r].seq) = GetDocument(crdt[s].seq)

\* When no datagram is lost and the users stop, all editors end with the
\* same text and nothing pending.
EventuallySameText ==
  <>[](\A r, s \in Sites :
         /\ pending[s] = <<>>
         /\ GetDocument(crdt[r].seq) = GetDocument(crdt[s].seq))
=============================================================================
