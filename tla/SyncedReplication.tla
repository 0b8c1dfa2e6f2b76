------------------------ MODULE SyncedReplication ------------------------
(***************************************************************************)
(* Replication with the state transfer of the pipeline: when an operation  *)
(* of an unknown site is applied, an interactive editor starts a detached  *)
(* thread that replaces its document by the one of a peer                  *)
(* (setupUnknownPeerCallback in p2p-editor.cpp, Pipeline::syncState).      *)
(*                                                                         *)
(* A call of syncState goes through "spawned" (the thread exists),         *)
(* "asking" (syncing_ is set, the request is out) and "loading" (a peer    *)
(* has serialized its state and the frame is on its way).  Between these   *)
(* steps crdtMutex_ is free, so edits, arrivals and other calls of the     *)
(* same editor fall in between.                                            *)
(*                                                                         *)
(* The sites are set up to send to each other; what varies is which of     *)
(* them have been announced to the pipeline by the callbacks of            *)
(* PeerManager (knownSiteIDs_).                                            *)
(***************************************************************************)
EXTENDS Replication

CONSTANTS
  Writers,      \* the sites that edit
  Interactive,  \* the sites that register an unknown-peer callback
  MaxForgets,   \* bound: peers declared offline by mistake
  MaySyncFail   \* no peer may answer in time

ASSUME WritersAssumption == Writers \subseteq Sites /\ Interactive \subseteq Sites
ASSUME SyncFailAssumption == MaySyncFail \in BOOLEAN /\ MaxForgets \in Nat

VARIABLES
  known,       \* knownSiteIDs_
  syncing,     \* syncing_
  syncBuffer,  \* syncBuffer_
  calls,       \* the unfinished calls of syncState of each site
  forgets,     \* how often a peer was declared offline
  issued       \* history: every operation issued so far

syncVars == <<known, syncing, syncBuffer, calls, forgets>>
allVars == <<vars, syncVars, issued>>

SyncInit ==
  /\ Init
  /\ known = [s \in Sites |-> {s}]
  /\ syncing = [s \in Sites |-> FALSE]
  /\ syncBuffer = [s \in Sites |-> <<>>]
  /\ calls = [s \in Sites |-> <<>>]
  /\ forgets = 0
  /\ issued = {}

-----------------------------------------------------------------------------
(* The state on the wire.                                                  *)

\* encodeState leaves the sentinel out; ops is history, not on the wire.
EncodeState(s) ==
  [clock |-> crdt[s].clock,
   nodes |-> ElementsAt(crdt[s].seq, {i \in DOMAIN crdt[s].seq : crdt[s].seq[i].id # SENTINEL_ID}),
   ops   |-> applied[s]]

\* Mutant of DecodeState: the clock starts anew.
DecodeState_NoClock(frame) == [NewEngine EXCEPT !.seq = @ \o frame.nodes]

\* What decodeState builds and loadState takes over: the clock as well.
DecodeState(frame) == [clock |-> frame.clock, seq |-> NewEngine.seq \o frame.nodes]

-----------------------------------------------------------------------------
Edit(s) ==
  /\ s \in Writers
  /\ Cardinality(issued) < MaxOps
  /\ \E pos \in Positions(s) : Insert(s, pos) \/ Delete(s, pos) \/ DeleteOutOfRange(s, pos)
  /\ issued' = issued \cup applied'[s]
  /\ UNCHANGED syncVars

\* PeerManager announces a peer, or declares it offline after six seconds
\* without a heartbeat although it is still there.
Discover(s, u) ==
  /\ u \notin known[s]
  /\ known' = [known EXCEPT ![s] = @ \cup {u}]
  /\ UNCHANGED <<vars, syncing, syncBuffer, calls, forgets, issued>>

Forget(s, u) ==
  /\ u \in known[s] \ {s}
  /\ forgets < MaxForgets
  /\ forgets' = forgets + 1
  /\ known' = [known EXCEPT ![s] = @ \ {u}]
  /\ UNCHANGED <<vars, syncing, syncBuffer, calls, issued>>

-----------------------------------------------------------------------------
(* crdtLoop.                                                               *)

Buffer(s, op) ==
  /\ syncing[s]
  /\ syncBuffer' = [syncBuffer EXCEPT ![s] = Append(@, op)]
  /\ UNCHANGED <<crdt, pending, applied, known, syncing, calls>>

ParkOp(s, op) == ~syncing[s] /\ Park(s, op) /\ UNCHANGED syncVars

\* The site looked up is the one of op.id: for a DELETE the author of the
\* character, not the sender.  The callback does nothing when PeerManager
\* has no active peer.
NoteSite(s, site) ==
  /\ known' = [known EXCEPT ![s] = @ \cup {site}]
  /\ \/ UNCHANGED calls
     \/ /\ site \notin known[s]
        /\ s \in Interactive
        /\ calls' = [calls EXCEPT ![s] = Append(@, [phase |-> "spawned"])]

ApplyOp(s, op) ==
  /\ ~syncing[s]
  /\ Apply(s, op)
  /\ NoteSite(s, op.id.site)
  /\ UNCHANGED <<syncing, syncBuffer>>

ReceiveSynced(s) ==
  /\ \E op \in BagToSet(net[s]) :
       Arrives(s, op) /\ (Buffer(s, op) \/ ParkOp(s, op) \/ ApplyOp(s, op))
  /\ UNCHANGED <<forgets, issued>>

-----------------------------------------------------------------------------
(* syncState.                                                              *)

SyncStart(s, k) ==
  /\ calls[s][k].phase = "spawned"
  /\ calls' = [calls EXCEPT ![s][k] = [phase |-> "asking"]]
  /\ syncing' = [syncing EXCEPT ![s] = TRUE]
  /\ syncBuffer' = [syncBuffer EXCEPT ![s] = <<>>]
  /\ UNCHANGED <<vars, known, forgets, issued>>

\* Peer p runs serializeState for the request; the frame gets through.
SyncServe(s, k, p) ==
  /\ calls[s][k].phase = "asking"
  /\ p # s
  /\ calls' = [calls EXCEPT ![s][k] = [phase |-> "loading", frame |-> EncodeState(p)]]
  /\ UNCHANGED <<vars, known, syncing, syncBuffer, forgets, issued>>

\* The next operation of the buffer, applied or parked.
Replayed(d, op) ==
  IF CanApply(d.crdt, op)
  THEN DrainPending(ApplyRemote(d.crdt, op), d.pending, d.notified \cup {op})
  ELSE [d EXCEPT !.pending = Append(@, op)]

ReplayStep == [x \in Scan \X Seq(Operation) |->
  IF x[2] = <<>> THEN x ELSE <<Replayed(x[1], Head(x[2])), Tail(x[2])>>]

\* Mutant of Replay: without the buffer.
Replay_Nothing(e, queue, buffer) == DrainPending(e, queue, {})

\* The buffered operations in the order they arrived, then a final drain.
Replay(e, queue, buffer) ==
  LET replay[n \in Nat] ==
        IF n = 0 THEN <<StartScan(e, queue, {}), buffer>> ELSE ReplayStep[replay[n - 1]]
      d == replay[Len(buffer)][1]
  IN  DrainPending(d.crdt, d.pending, d.notified)

SyncLoad(s, k) ==
  /\ calls[s][k].phase = "loading"
  /\ LET frame == calls[s][k].frame
         d == Replay(DecodeState(frame), pending[s], syncBuffer[s]) IN
     /\ crdt' = [crdt EXCEPT ![s] = d.crdt]
     /\ pending' = [pending EXCEPT ![s] = d.pending]
     /\ applied' = [applied EXCEPT ![s] = frame.ops \cup d.notified]
  /\ calls' = [calls EXCEPT ![s] = RemoveAt(@, k)]
  /\ syncBuffer' = [syncBuffer EXCEPT ![s] = <<>>]
  /\ syncing' = [syncing EXCEPT ![s] = FALSE]
  /\ UNCHANGED <<net, known, forgets, issued>>

\* Mutants of SyncFail: syncing_ stays set; the buffer is left behind.
SyncFail_StillSyncing(s, k) ==
  /\ MaySyncFail
  /\ calls[s][k].phase = "asking"
  /\ calls' = [calls EXCEPT ![s] = RemoveAt(@, k)]
  /\ syncBuffer' = [syncBuffer EXCEPT ![s] = <<>>]
  /\ UNCHANGED <<vars, known, syncing, forgets, issued>>
SyncFail_KeepBuffer(s, k) ==
  /\ MaySyncFail
  /\ calls[s][k].phase = "asking"
  /\ calls' = [calls EXCEPT ![s] = RemoveAt(@, k)]
  /\ syncing' = [syncing EXCEPT ![s] = FALSE]
  /\ UNCHANGED <<vars, known, syncBuffer, forgets, issued>>

\* Every peer has been tried: the buffered operations are dropped.
SyncFail(s, k) ==
  /\ MaySyncFail
  /\ calls[s][k].phase = "asking"
  /\ calls' = [calls EXCEPT ![s] = RemoveAt(@, k)]
  /\ syncBuffer' = [syncBuffer EXCEPT ![s] = <<>>]
  /\ syncing' = [syncing EXCEPT ![s] = FALSE]
  /\ UNCHANGED <<vars, known, forgets, issued>>

SyncStep(s) ==
  \E k \in DOMAIN calls[s] :
    \/ SyncStart(s, k)
    \/ \E p \in Sites : SyncServe(s, k, p)
    \/ SyncLoad(s, k)
    \/ SyncFail(s, k)

-----------------------------------------------------------------------------
SyncNext ==
  \E s \in Sites :
    \/ Edit(s)
    \/ \E u \in Sites : Discover(s, u) \/ Forget(s, u)
    \/ ReceiveSynced(s)
    \/ SyncStep(s)

SyncSpec == SyncInit /\ [][SyncNext]_allVars

\* The threads of the pipeline run, and a call of syncState, whose every wait
\* has a timeout, goes on until it returns.
FairSyncSpec ==
  /\ SyncSpec
  /\ \A s \in Sites : WF_allVars(ReceiveSynced(s)) /\ WF_allVars(SyncStep(s))

-----------------------------------------------------------------------------
Frame == [clock : Nat, nodes : Seq(Node), ops : SUBSET Operation]

SyncTypeOK ==
  /\ TypeOK
  /\ known \in [Sites -> SUBSET Sites]
  /\ syncing \in [Sites -> BOOLEAN]
  /\ syncBuffer \in [Sites -> Seq(Operation)]
  /\ \A s \in Sites : \A k \in DOMAIN calls[s] :
       LET c == calls[s][k] IN
       /\ c.phase \in {"spawned", "asking", "loading"}
       /\ c.phase = "loading" => c.frame \in Frame
  /\ forgets \in 0 .. MaxForgets
  /\ issued \subseteq Operation

\* An editor buffers only on behalf of a call that will end it: with syncing_
\* set there is one under way, and without it nothing is buffered
\* (pipeline.cpp:229-233, 269-270, 281-283), even when calls overlap.
BufferingHasACall ==
  \A s \in Sites :
    /\ syncing[s] =>
         \E k \in DOMAIN calls[s] : calls[s][k].phase \in {"asking", "loading"}
    /\ ~syncing[s] => syncBuffer[s] = <<>>

\* No identifier is given twice, loaded documents included (ARCHITECTURE.md:317:
\* "Every node's `CharID` is globally unique (Lamport clock + siteID).").
IdentifiersFresh == \A s \in Sites : \A op \in issued : op.id # NextID(s)

\* A site that loads a document never makes an identifier that another node of
\* that document already has or would outrank: its clock covers them all.
ClockCoversText ==
  \A s \in Sites : \A id \in Ids(crdt[s].seq) : id.clock <= crdt[s].clock

\* No operation gets lost on its way into a document, whatever is loaded in
\* between: every one issued is under way to a site, kept by it, or applied.
\* ARCHITECTURE.md:20: "every peer holds a complete, authoritative copy of the
\* document".
NothingLost ==
  \A s \in Sites :
    issued \subseteq BagToSet(net[s]) \cup Range(pending[s])
                     \cup Range(syncBuffer[s]) \cup applied[s]

\* Every state transfer comes to an end and the editor takes operations
\* directly again.
SyncEnds == \A s \in Sites : syncing[s] ~> ~syncing[s]
=============================================================================
