--------------------- MODULE SyncedReplicationProofs ---------------------
(***************************************************************************)
(* With the state transfer of the pipeline a clock may go back, and with it *)
(* the invariants of Replication about issued operations are gone.  What is *)
(* left, for any sites, calls of syncState and losses: every document is   *)
(* well formed and below its clock, whatever was loaded, and no editor      *)
(* goes on buffering without a call that ends it.                          *)
(***************************************************************************)
EXTENDS SyncedReplication, ReplicationProofs

-----------------------------------------------------------------------------
(* The inductive invariant.                                                *)

SoundOps == {op \in Operation : OpOK(op) /\ op.id.site \in Sites}

SoundEngine(e) == EngineOK(e) /\ Ids(e.seq) \subseteq KnownIds(SoundOps)

\* The documents, and the operations that wait for one.
DocumentsInv ==
  /\ TypeOK
  /\ \A s \in Sites : /\ SoundEngine(crdt[s])
                      /\ DOMAIN net[s] \subseteq SoundOps
                      /\ pending[s] \in Seq(SoundOps)

\* A frame that is to be loaded holds a document.
Call ==
  [phase : {"spawned", "asking"}]
    \cup {c \in [phase : {"loading"}, frame : Frame] : SoundEngine(DecodeState(c.frame))}

CallsInv ==
  /\ known \in [Sites -> SUBSET Sites]
  /\ syncing \in [Sites -> BOOLEAN]
  /\ syncBuffer \in [Sites -> Seq(SoundOps)]
  /\ calls \in [Sites -> Seq(Call)]
  /\ forgets \in 0 .. MaxForgets
  /\ issued \subseteq Operation
  /\ BufferingHasACall

SyncInv == DocumentsInv /\ CallsInv

LEMMA SoundOpsFacts ==
  /\ SoundOps \subseteq Operation
  /\ \A op \in SoundOps : OpOK(op) /\ op.id.site \in Sites
  /\ \A id \in KnownIds(SoundOps) : id = SENTINEL_ID \/ id.site \in Sites
  /\ \A id \in CharID : id.site \in Sites => id \in KnownIds(SoundOps)
<1>1. SENTINEL_ID \in CharID
  BY DEF SENTINEL_ID, CharID
<1>2. ASSUME NEW id \in CharID, id.site \in Sites PROVE id \in KnownIds(SoundOps)
  <2>1. DeleteOp(id) \in SoundOps /\ DeleteOp(id).id = id
    BY <1>1, <1>2 DEF SoundOps, DeleteOp, OpOK, Operation
  <2> QED
    BY <2>1 DEF KnownIds
<1>3. \A id \in KnownIds(SoundOps) : id = SENTINEL_ID \/ id.site \in Sites
  BY DEF KnownIds, SoundOps
<1> QED
  BY <1>2, <1>3 DEF SoundOps

-----------------------------------------------------------------------------
(* The state on the wire.                                                  *)

\* The document that is loaded is the one that was serialized: what encodeState
\* leaves out is the sentinel, with which every document begins.
LEMMA DecodeEncoded ==
  ASSUME NEW s \in Sites, EngineOK(crdt[s]), applied[s] \subseteq Operation
  PROVE  EncodeState(s) \in Frame /\ DecodeState(EncodeState(s)) = crdt[s]
<1> DEFINE seq == crdt[s].seq
           places == {i \in DOMAIN seq : seq[i].id # SENTINEL_ID}
           f == [n \in 1 .. Len(seq) - 1 |-> n + 1]
           nodes == ElementsAt(seq, places)
           whole == NewEngine.seq \o nodes
<1>1. /\ WellFormed(seq) /\ seq \in Seq(Node) /\ crdt[s].clock \in Nat
      /\ Len(seq) \in Nat \ {0} /\ DOMAIN seq = 1 .. Len(seq)
      /\ crdt[s] = [clock |-> crdt[s].clock, seq |-> seq]
  BY EngineFields, IdsAreCharIDs DEF EngineOK, Engine, WellFormed, SentinelFirst
<1>2. seq[1].id = SENTINEL_ID /\ seq[1] \in Node
  BY <1>1, ElementOfSeq DEF WellFormed, SentinelFirst
<1>3. seq[1] = [id |-> SENTINEL_ID, left |-> SENTINEL_ID, tomb |-> TRUE]
  BY <1>1, <1>2 DEF WellFormed, SentinelFirst, Node
<1>4. places = 2 .. Len(seq)
  <2>1. \A i \in 1 .. Len(seq) : seq[i].id = SENTINEL_ID <=> i = 1
    BY <1>1, <1>2 DEF WellFormed, NoDuplicates
  <2>2. 2 .. Len(seq) = {i \in 1 .. Len(seq) : i # 1}
    BY <1>1
  <2> QED
    BY <1>1, <2>1, <2>2
<1> HIDE DEF places
<1>5. Enumerates(f, Len(seq) - 1, places)
  <2>1. f \in [1 .. Len(seq) - 1 -> places]
    BY <1>1, <1>4
  <2>2. \A n, k \in 1 .. Len(seq) - 1 : n < k => f[n] < f[k]
    BY <1>1
  <2>3. ASSUME NEW i \in places PROVE \E n \in 1 .. Len(seq) - 1 : f[n] = i
    <3>1. i - 1 \in 1 .. Len(seq) - 1 /\ f[i - 1] = i
      BY <1>1, <1>4
    <3> QED
      BY <3>1
  <2> QED
    BY <2>1, <2>2, <2>3 DEF Enumerates
<1>6. nodes = [n \in 1 .. Len(seq) - 1 |-> seq[f[n]]]
  <2>1. places \subseteq 1 .. Len(seq) /\ Len(seq) - 1 \in Nat /\ Len(seq) \in Nat
    BY <1>1, <1>4
  <2> DEFINE N == Len(seq)
             m == Len(seq) - 1
  <2>2. N \in Nat /\ m \in Nat /\ places \subseteq 1 .. N /\ Enumerates(f, m, places)
    BY <1>5, <2>1
  <2> HIDE DEF f, seq, nodes, places, N, m
  <2>3. ElementsAt(seq, places) = ElementsBy(seq, f, m)
    BY <2>2, ElementsInOrder, ZenonT(60)
  <2> QED
    BY <2>3 DEF nodes, ElementsBy, m
<1>7. \A n \in 1 .. Len(seq) - 1 : f[n] = n + 1 /\ n + 1 \in 1 .. Len(seq)
  BY <1>1
<1> HIDE DEF f, nodes, seq
<1>8. /\ nodes \in Seq(Node) /\ Len(nodes) = Len(seq) - 1
      /\ \A n \in 1 .. Len(seq) - 1 : nodes[n] = seq[n + 1]
  <2>1. \A n \in 1 .. Len(seq) - 1 : seq[n + 1] \in Node
    BY <1>1, <1>7, ElementOfSeq
  <2>2. nodes = [n \in 1 .. Len(seq) - 1 |-> seq[n + 1]] /\ Len(seq) - 1 \in Nat
    BY <1>1, <1>6, <1>7
  <2> QED
    BY <2>1, <2>2
<1>9. /\ NewEngine.seq \in Seq(Node) /\ Len(NewEngine.seq) = 1
      /\ NewEngine.seq[1] = seq[1]
  BY <1>2, <1>3 DEF NewEngine
<1>10. whole = seq
  <2> DEFINE head == NewEngine.seq
  <2>0. /\ head \in Seq(Node) /\ Len(head) = 1 /\ head[1] = seq[1]
        /\ whole = head \o nodes
    BY <1>9
  <2> HIDE DEF whole, head
  <2>0a. /\ whole \in Seq(Node) /\ Len(whole) = Len(head) + Len(nodes)
        /\ \A i \in 1 .. Len(head) + Len(nodes) :
             whole[i] = IF i <= Len(head) THEN head[i] ELSE nodes[i - Len(head)]
    <3>1. nodes \in Seq(Node)
      BY <1>8
    <3>2. /\ head \o nodes \in Seq(Node)
          /\ Len(head \o nodes) = Len(head) + Len(nodes)
          /\ \A i \in 1 .. Len(head) + Len(nodes) :
               (head \o nodes)[i] = IF i <= Len(head) THEN head[i] ELSE nodes[i - Len(head)]
      BY <2>0, <3>1, ConcatProperties, ZenonT(60)
    <3> QED
      BY <2>0, <3>2
  <2>1. whole \in Seq(Node) /\ Len(whole) = Len(seq)
    BY <1>1, <1>8, <2>0, <2>0a
  <2>2. ASSUME NEW i \in 1 .. Len(seq) PROVE whole[i] = seq[i]
    <3>1. CASE i = 1
      BY <1>1, <1>8, <2>0, <2>0a, <3>1
    <3>2. CASE i # 1
      <4>1. i - 1 \in 1 .. Len(seq) - 1 /\ (i - 1) + 1 = i
        BY <1>1, <3>2
      <4>2. whole[i] = nodes[i - 1]
        BY <1>1, <1>8, <2>0, <2>0a, <3>2, <4>1
      <4> QED
        BY <1>8, <4>1, <4>2
    <3> QED
      BY <3>1, <3>2
  <2> QED
    BY <1>1, <2>1, <2>2, SeqEqual
<1>11. EncodeState(s) = [clock |-> crdt[s].clock, nodes |-> nodes, ops |-> applied[s]]
  BY DEF EncodeState, nodes, places, seq
<1>12. EncodeState(s) \in Frame
  BY <1>1, <1>8, <1>11 DEF Frame
<1>13. DecodeState(EncodeState(s)) = [clock |-> crdt[s].clock, seq |-> whole]
  BY <1>11 DEF DecodeState
<1> HIDE DEF whole
<1> QED
  BY <1>1, <1>10, <1>12, <1>13

-----------------------------------------------------------------------------
(* Replaying the buffer.                                                   *)

Sound == DrainStates(SoundOps, 0)

LEMMA SoundFields ==
  ASSUME NEW d \in Sound
  PROVE  /\ d \in Scan /\ SoundEngine(d.crdt) /\ d.pending \in Seq(SoundOps)
         /\ d.notified \subseteq SoundOps /\ d.notified \subseteq Operation
         /\ d.at \in Nat \ {0} /\ d.progress \in BOOLEAN
         /\ d = [crdt |-> d.crdt, pending |-> d.pending, at |-> d.at,
                 progress |-> d.progress, notified |-> d.notified]
BY DrainStateFields, SoundOpsFacts DEF Sound, SoundEngine

LEMMA SoundIntro ==
  ASSUME NEW e, SoundEngine(e), NEW queue \in Seq(SoundOps), NEW at \in Nat \ {0},
         NEW progress \in BOOLEAN, NEW done, done \subseteq SoundOps
  PROVE  [crdt |-> e, pending |-> queue, at |-> at,
          progress |-> progress, notified |-> done] \in Sound
<1>1. EngineOK(e) /\ 0 <= e.clock /\ Ids(e.seq) \subseteq KnownIds(SoundOps)
  BY EngineFields DEF SoundEngine
<1> QED
  BY <1>1, SoundOpsFacts, DrainStateIntro DEF Sound

LEMMA DrainSound ==
  ASSUME NEW e, SoundEngine(e), NEW queue \in Seq(SoundOps),
         NEW done, done \subseteq SoundOps
  PROVE  DrainPending(e, queue, done) \in Sound
<1>1. [crdt |-> e, pending |-> queue, at |-> 1, progress |-> FALSE,
       notified |-> done] \in Sound
  BY SoundIntro, 1 \in Nat \ {0}, FALSE \in BOOLEAN
<1>2. \A d \in Sound : ScanStep[d] \in Sound
  BY ScanStepOK, SoundOpsFacts DEF Sound
<1>3. Sound \subseteq Scan /\ Len(queue) \in Nat
  BY SoundFields
<1> QED
  BY <1>1, <1>2, <1>3, DrainInvariant

LEMMA AppliedSound ==
  ASSUME NEW e, SoundEngine(e), NEW op \in SoundOps, CanApply(e, op)
  PROVE  SoundEngine(ApplyRemote(e, op))
<1> DEFINE new == ApplyRemote(e, op)
<1>1. EngineOK(e) /\ Ids(e.seq) \subseteq KnownIds(SoundOps) /\ OpOK(op)
  BY SoundOpsFacts DEF SoundEngine
<1>2. EngineOK(new) /\ Ids(new.seq) \subseteq Ids(e.seq) \cup {op.id}
  BY <1>1, ApplyRemoteOK
<1>3. op.id \in KnownIds(SoundOps)
  BY DEF KnownIds
<1> HIDE DEF new
<1>4. SoundEngine(new)
  BY <1>1, <1>2, <1>3 DEF SoundEngine
<1> QED
  BY <1>4 DEF new

LEMMA ReplayedSound ==
  ASSUME NEW d \in Sound, NEW op \in SoundOps
  PROVE  Replayed(d, op) \in Sound
<1>1. /\ SoundEngine(d.crdt) /\ d.pending \in Seq(SoundOps) /\ d.notified \subseteq SoundOps
      /\ d.at \in Nat \ {0} /\ d.progress \in BOOLEAN
      /\ d = [crdt |-> d.crdt, pending |-> d.pending, at |-> d.at,
              progress |-> d.progress, notified |-> d.notified]
  BY SoundFields
<1>2. CASE CanApply(d.crdt, op)
  <2>1. SoundEngine(ApplyRemote(d.crdt, op)) /\ d.notified \cup {op} \subseteq SoundOps
    BY <1>1, <1>2, AppliedSound
  <2> QED
    BY <1>1, <1>2, <2>1, DrainSound DEF Replayed
<1>3. CASE ~CanApply(d.crdt, op)
  <2> DEFINE queue == Append(d.pending, op)
  <2>1. queue \in Seq(SoundOps)
    BY <1>1
  <2>2. Replayed(d, op) = [d EXCEPT !.pending = queue]
    BY <1>3 DEF Replayed
  <2> HIDE DEF queue
  <2>3. [d EXCEPT !.pending = queue] =
          [crdt |-> d.crdt, pending |-> queue, at |-> d.at,
           progress |-> d.progress, notified |-> d.notified]
    BY <1>1
  <2> QED
    BY <1>1, <2>1, <2>2, <2>3, SoundIntro
<1> QED
  BY <1>2, <1>3

\* The drain loses nothing of what was pending.
LEMMA DrainKeeps ==
  ASSUME NEW e, SoundEngine(e), NEW queue \in Seq(SoundOps),
         NEW done, done \subseteq SoundOps,
         NEW d, d = DrainPending(e, queue, done)
  PROVE  Kept(queue) \cup done \subseteq Kept(d.pending) \cup d.notified
<1> DEFINE all == Kept(queue) \cup done
           S == KeepingStates(SoundOps, 0, all)
           first == [crdt |-> e, pending |-> queue, at |-> 1, progress |-> FALSE,
                     notified |-> done]
<1>1. first \in Sound
  BY SoundIntro, 1 \in Nat \ {0}, FALSE \in BOOLEAN
<1>2. first.pending = queue /\ first.notified = done
  OBVIOUS
<1> HIDE DEF first
<1>3. first \in S
  BY <1>1, <1>2 DEF KeepingStates, Sound
<1>4. \A x \in S : ScanStep[x] \in S
  BY SoundOpsFacts, ScanStepKeeps
<1>5. S \subseteq Scan /\ Len(queue) \in Nat
  BY SoundFields DEF KeepingStates, Sound
<1> HIDE DEF S
<1>6. d \in S
  BY <1>3, <1>4, <1>5, DrainInvariant DEF first
<1> QED
  BY <1>6 DEF S, KeepingStates

LEMMA ReplayedKeeps ==
  ASSUME NEW d \in Sound, NEW op \in SoundOps, NEW new, new = Replayed(d, op)
  PROVE  Kept(d.pending) \cup d.notified \cup {op} \subseteq Kept(new.pending) \cup new.notified
<1>1. /\ SoundEngine(d.crdt) /\ d.pending \in Seq(SoundOps) /\ d.notified \subseteq SoundOps
      /\ d = [crdt |-> d.crdt, pending |-> d.pending, at |-> d.at,
              progress |-> d.progress, notified |-> d.notified]
  BY SoundFields
<1>2. CASE CanApply(d.crdt, op)
  <2> DEFINE e == ApplyRemote(d.crdt, op)
             done == d.notified \cup {op}
  <2>1. SoundEngine(e) /\ done \subseteq SoundOps
    BY <1>1, <1>2, AppliedSound
  <2>2. new = DrainPending(e, d.pending, done)
    BY <1>2 DEF Replayed
  <2>3. d.notified \cup {op} = done
    OBVIOUS
  <2> HIDE DEF e, done
  <2>4. Kept(d.pending) \cup done \subseteq Kept(new.pending) \cup new.notified
    BY <1>1, <2>1, <2>2, DrainKeeps
  <2> QED
    BY <2>3, <2>4
<1>3. CASE ~CanApply(d.crdt, op)
  <2>1. new = [d EXCEPT !.pending = Append(@, op)]
    BY <1>3 DEF Replayed
  <2>2. new.pending = Append(d.pending, op) /\ new.notified = d.notified
    BY <1>1, <2>1
  <2>3. Kept(new.pending) = Kept(d.pending) \cup {op}
    BY <1>1, <2>2, KeptAppended
  <2> QED
    BY <2>2, <2>3
<1> QED
  BY <1>2, <1>3

LEMMA KeptTaken ==
  ASSUME NEW rest \in Seq(SoundOps), rest # <<>>
  PROVE  /\ Head(rest) \in SoundOps /\ Tail(rest) \in Seq(SoundOps)
         /\ Kept(rest) = {Head(rest)} \cup Kept(Tail(rest))
         /\ Len(rest) \in Nat \ {0} /\ Len(Tail(rest)) = Len(rest) - 1
<1> DEFINE tail == Tail(rest)
<1>1. /\ Head(rest) \in SoundOps /\ Head(rest) = rest[1] /\ tail \in Seq(SoundOps)
      /\ Len(rest) \in Nat \ {0} /\ Len(tail) = Len(rest) - 1
      /\ DOMAIN rest = 1 .. Len(rest) /\ DOMAIN tail = 1 .. Len(rest) - 1
      /\ \A i \in 1 .. Len(rest) - 1 : tail[i] = rest[i + 1]
  OBVIOUS
<1> HIDE DEF tail
<1>2. ASSUME NEW o \in Kept(tail) PROVE o \in Kept(rest)
  <2>1. PICK i \in 1 .. Len(rest) - 1 : o = tail[i]
    BY <1>1 DEF Kept
  <2>2. i + 1 \in 1 .. Len(rest) /\ o = rest[i + 1]
    BY <1>1, <2>1
  <2> QED
    BY <1>1, <2>2 DEF Kept
<1>3. ASSUME NEW o \in Kept(rest), o # rest[1] PROVE o \in Kept(tail)
  <2>1. PICK i \in 1 .. Len(rest) : o = rest[i]
    BY <1>1 DEF Kept
  <2>2. i - 1 \in 1 .. Len(rest) - 1 /\ (i - 1) + 1 = i
    BY <1>1, <1>3, <2>1
  <2>3. o = tail[i - 1]
    BY <1>1, <2>1, <2>2
  <2> QED
    BY <1>1, <2>2, <2>3 DEF Kept
<1>4. rest[1] \in Kept(rest)
  <2>1. 1 \in 1 .. Len(rest)
    BY <1>1
  <2> QED
    BY <1>1, <2>1 DEF Kept
<1>5. Kept(rest) = {rest[1]} \cup Kept(tail)
  BY <1>2, <1>3, <1>4
<1> QED
  BY <1>1, <1>5 DEF tail

\* A replay under way: nothing is lost of what was queued and buffered.
Replays(all) ==
  {x \in Sound \X Seq(SoundOps) : all \subseteq Kept(x[1].pending) \cup x[1].notified \cup Kept(x[2])}

LEMMA ReplayStepKeeps ==
  ASSUME NEW all, NEW x \in Replays(all), NEW y, y = ReplayStep[x]
  PROVE  /\ x[2] \in Seq(SoundOps) /\ y \in Replays(all)
         /\ x[2] = <<>> => y = x
         /\ x[2] # <<>> => y[2] = Tail(x[2])
<1>1. PICK d \in Sound, rest \in Seq(SoundOps) : x = <<d, rest>>
  BY DEF Replays
<1>2. x[1] = d /\ x[2] = rest
  BY <1>1
<1>3. d \in Scan /\ rest \in Seq(Operation)
  BY SoundFields, SoundOpsFacts, SeqMonotonic
<1>4. x \in Scan \X Seq(Operation)
  BY <1>1, <1>3
<1>5. y = IF rest = <<>> THEN x ELSE <<Replayed(d, Head(rest)), Tail(rest)>>
  BY <1>2, <1>4 DEF ReplayStep
<1>6. CASE rest = <<>>
  BY <1>2, <1>5, <1>6
<1>7. CASE rest # <<>>
  <2> DEFINE op == Head(rest)
             new == Replayed(d, op)
             tail == Tail(rest)
  <2>1. op \in SoundOps /\ tail \in Seq(SoundOps) /\ Kept(rest) = {op} \cup Kept(tail)
    BY <1>7, KeptTaken
  <2>2. y = <<new, tail>>
    BY <1>5, <1>7
  <2>3. tail = Tail(rest)
    OBVIOUS
  <2> HIDE DEF op, tail
  <2>4. new \in Sound
    BY <2>1, ReplayedSound
  <2>5. Kept(d.pending) \cup d.notified \cup {op} \subseteq Kept(new.pending) \cup new.notified
    BY <2>1, ReplayedKeeps
  <2> HIDE DEF new
  <2>6. y[1] = new /\ y[2] = tail /\ y \in Sound \X Seq(SoundOps)
    BY <2>1, <2>2, <2>4
  <2>7. all \subseteq Kept(d.pending) \cup d.notified \cup Kept(rest)
    BY <1>2 DEF Replays
  <2>8. all \subseteq Kept(new.pending) \cup new.notified \cup Kept(tail)
    BY <2>1, <2>5, <2>7
  <2>9. y \in Replays(all)
    BY <2>6, <2>8 DEF Replays
  <2> QED
    BY <1>2, <1>7, <2>3, <2>6, <2>9
<1> QED
  BY <1>6, <1>7

LEMMA ReplayStays ==
  ASSUME NEW S, NEW start \in S, \A x \in S : ReplayStep[x] \in S, NEW N \in Nat
  PROVE  LET replay[n \in Nat] == IF n = 0 THEN start ELSE ReplayStep[replay[n - 1]]
         IN  replay[N] \in S
BY IteratesStay

\* As many steps as there are operations in the buffer empty it.
Replayeds(all) == {x \in Replays(all) : x[2] = <<>>}

LEMMA ReplayEnds ==
  ASSUME NEW all, NEW start \in Replays(all), NEW N \in Nat, Len(start[2]) = N
  PROVE  LET replay[n \in Nat] == IF n = 0 THEN start ELSE ReplayStep[replay[n - 1]]
         IN  replay[N] \in Replayeds(all)
<1> DEFINE S == Replays(all)
           End == Replayeds(all)
<1>1. \A x \in End : ReplayStep[x] \in End
  BY ReplayStepKeeps DEF Replayeds
<1>2. start[2] \in Seq(SoundOps)
  BY ReplayStepKeeps
<1>3. CASE N = 0
  <2>1. start \in End
    BY <1>2, <1>3 DEF Replayeds
  <2> HIDE DEF End
  <2>2. LET replay[n \in Nat] == IF n = 0 THEN start ELSE ReplayStep[replay[n - 1]]
        IN  replay[N] \in End
    BY <1>1, <2>1, ReplayStays
  <2> QED
    BY <2>2 DEF End
<1>4. CASE N # 0
  <2> DEFINE mu == [x \in S |-> IF x[2] = <<>> THEN 0 ELSE Len(x[2]) - 1]
  <2>1. ASSUME NEW x \in S
        PROVE  /\ ReplayStep[x] \in S
               /\ mu[x] \in Nat
               /\ ReplayStep[x] \in End \/ (x \notin End /\ mu[ReplayStep[x]] < mu[x])
    <3> DEFINE y == ReplayStep[x]
    <3>1. /\ x[2] \in Seq(SoundOps) /\ y \in S
          /\ x[2] = <<>> => y = x
          /\ x[2] # <<>> => y[2] = Tail(x[2])
      BY ReplayStepKeeps
    <3> HIDE DEF y
    <3>2. /\ mu[x] = IF x[2] = <<>> THEN 0 ELSE Len(x[2]) - 1
          /\ mu[y] = IF y[2] = <<>> THEN 0 ELSE Len(y[2]) - 1
      BY <3>1
    <3> HIDE DEF mu
    <3>3. CASE x[2] = <<>>
      <4>1. y \in End /\ mu[x] = 0
        BY <3>1, <3>2, <3>3 DEF Replayeds
      <4> QED
        BY <3>1, <4>1 DEF y
    <3>4. CASE x[2] # <<>>
      <4>1. Len(x[2]) \in Nat \ {0} /\ Len(y[2]) = Len(x[2]) - 1
        BY <3>1, <3>4, KeptTaken
      <4>2. mu[x] \in Nat
        BY <3>2, <3>4, <4>1
      <4>3. CASE y[2] = <<>>
        <5>1. y \in End
          BY <3>1, <4>3 DEF Replayeds
        <5> QED
          BY <3>1, <4>2, <5>1 DEF y
      <4>4. CASE y[2] # <<>>
        <5>1. mu[y] < mu[x]
          BY <3>2, <3>4, <4>1, <4>4
        <5>2. x \notin End
          BY <3>4 DEF Replayeds
        <5> QED
          BY <3>1, <4>2, <5>1, <5>2 DEF y
      <4> QED
        BY <4>3, <4>4
    <3> QED
      BY <3>3, <3>4
  <2>2. mu[start] < N
    BY <1>2, <1>4
  <2> HIDE DEF S, End, mu
  <2>3. LeadsTo(S, ReplayStep, mu, End)
    BY <2>1 DEF LeadsTo
  <2>4. start \in S
    BY DEF S
  <2>5. LET replay[n \in Nat] == IF n = 0 THEN start ELSE ReplayStep[replay[n - 1]]
        IN  replay[N] \in End
    BY <2>2, <2>3, <2>4, IteratesEnd
  <2> QED
    BY <2>5 DEF End
<1> QED
  BY <1>3, <1>4

LEMMA ReplaySound ==
  ASSUME NEW e, SoundEngine(e), NEW queue \in Seq(SoundOps), NEW buffer \in Seq(SoundOps),
         NEW d, d = Replay(e, queue, buffer)
  PROVE  /\ d \in Sound
         /\ Kept(queue) \cup Kept(buffer) \subseteq Kept(d.pending) \cup d.notified
<1> DEFINE all == Kept(queue) \cup Kept(buffer)
           begin == StartScan(e, queue, {})
           start == <<begin, buffer>>
           N == Len(buffer)
<1>1. begin \in Sound /\ begin.pending = queue
  BY SoundIntro, 1 \in Nat \ {0}, FALSE \in BOOLEAN DEF StartScan
<1> HIDE DEF begin
<1>2. start \in Replays(all) /\ start[2] = buffer
  BY <1>1 DEF Replays
<1>3. N \in Nat /\ Len(start[2]) = N
  BY <1>2
<1>4. all = Kept(queue) \cup Kept(buffer)
  OBVIOUS
<1> HIDE DEF start, N, all
<1>5. LET replay[n \in Nat] == IF n = 0 THEN start ELSE ReplayStep[replay[n - 1]]
      IN  replay[N] \in Replayeds(all)
  BY <1>2, <1>3, ReplayEnds
<1> DEFINE replayed ==
             LET replay[n \in Nat] == IF n = 0 THEN start ELSE ReplayStep[replay[n - 1]]
             IN  replay[N]
<1>6. replayed \in Replayeds(all)
  BY <1>5
<1>7. d = DrainPending(replayed[1].crdt, replayed[1].pending, replayed[1].notified)
  BY DEF Replay, start, N, begin
<1> HIDE DEF replayed
<1> DEFINE x == replayed[1]
<1>8. x \in Sound /\ replayed[2] = <<>>
      /\ all \subseteq Kept(x.pending) \cup x.notified \cup Kept(replayed[2])
  BY <1>6 DEF Replays, Replayeds
<1>9. Kept(<<>>) = {}
  BY DEF Kept
<1>10. SoundEngine(x.crdt) /\ x.pending \in Seq(SoundOps) /\ x.notified \subseteq SoundOps
  BY <1>8, SoundFields
<1>11. d = DrainPending(x.crdt, x.pending, x.notified)
  BY <1>7
<1> HIDE DEF x
<1>12. d \in Sound
  BY <1>10, <1>11, DrainSound
<1>13. Kept(x.pending) \cup x.notified \subseteq Kept(d.pending) \cup d.notified
  BY <1>10, <1>11, DrainKeeps
<1> QED
  BY <1>4, <1>8, <1>9, <1>12, <1>13

-----------------------------------------------------------------------------
(* The steps.                                                              *)

LEMMA InitSound == ASSUME SyncInit PROVE SyncInv
<1>1. /\ crdt = [s \in Sites |-> NewEngine] /\ pending = [s \in Sites |-> <<>>]
      /\ net = [s \in Sites |-> EmptyBag] /\ applied = [s \in Sites |-> {}]
  BY DEF SyncInit, Init
<1>2. SoundEngine(NewEngine) /\ NewEngine \in Engine
  BY NewEngineOK DEF SoundEngine, EngineOK, KnownIds
<1>3. <<>> \in Seq(Operation) /\ <<>> \in Seq(SoundOps) /\ <<>> \in Seq(Call)
  OBVIOUS
<1>4. DOMAIN EmptyBag = {}
  BY DEF EmptyBag, SetToBag
<1>5. TypeOK
  BY <1>1, <1>2, <1>3, <1>4 DEF TypeOK
<1>6. DocumentsInv
  BY <1>1, <1>2, <1>3, <1>4, <1>5 DEF DocumentsInv
<1>7. known \in [Sites -> SUBSET Sites] /\ syncing \in [Sites -> BOOLEAN]
  BY DEF SyncInit
<1>8. syncBuffer \in [Sites -> Seq(SoundOps)] /\ calls \in [Sites -> Seq(Call)]
  BY <1>3 DEF SyncInit
<1>9. forgets \in 0 .. MaxForgets /\ issued \subseteq Operation
  BY SyncFailAssumption DEF SyncInit
<1>10. BufferingHasACall
  BY DEF SyncInit, BufferingHasACall
<1> QED
  BY <1>6, <1>7, <1>8, <1>9, <1>10 DEF SyncInv, CallsInv

\* One document and its queue change; what is under way stays sound.
LEMMA DocumentsAgain ==
  ASSUME DocumentsInv, NEW s \in Sites, NEW e, NEW queue, NEW done,
         crdt' = [crdt EXCEPT ![s] = e],
         pending' = [pending EXCEPT ![s] = queue],
         applied' = [applied EXCEPT ![s] = done],
         \A d \in Sites : DOMAIN net'[d] \subseteq SoundOps,
         SoundEngine(e), queue \in Seq(SoundOps), done \subseteq Operation
  PROVE  DocumentsInv'
<1>1. /\ crdt \in [Sites -> Engine]
      /\ pending \in [Sites -> Seq(Operation)]
      /\ applied \in [Sites -> SUBSET Operation]
  BY DEF DocumentsInv, TypeOK
<1>2. e \in Engine /\ queue \in Seq(Operation)
  BY SoundOpsFacts, SeqMonotonic DEF SoundEngine, EngineOK
<1>3. \A d \in Sites : DOMAIN net'[d] \subseteq Operation
  BY SoundOpsFacts
<1>4. TypeOK'
  BY <1>1, <1>2, <1>3 DEF TypeOK
<1>5. \A t \in Sites : /\ crdt'[t] = IF t = s THEN e ELSE crdt[t]
                       /\ pending'[t] = IF t = s THEN queue ELSE pending[t]
  BY <1>1
<1> QED
  BY <1>4, <1>5 DEF DocumentsInv

\* One editor's calls change, its flag and its buffer.
LEMMA CallsAgain ==
  ASSUME CallsInv, NEW s \in Sites, NEW flag \in BOOLEAN, NEW buffer \in Seq(SoundOps),
         NEW list \in Seq(Call),
         syncing' = [syncing EXCEPT ![s] = flag],
         syncBuffer' = [syncBuffer EXCEPT ![s] = buffer],
         calls' = [calls EXCEPT ![s] = list],
         flag => \E k \in DOMAIN list : list[k].phase \in {"asking", "loading"},
         ~flag => buffer = <<>>,
         known' \in [Sites -> SUBSET Sites], forgets' \in 0 .. MaxForgets,
         issued' \subseteq Operation
  PROVE  CallsInv'
<1>1. /\ syncing \in [Sites -> BOOLEAN] /\ syncBuffer \in [Sites -> Seq(SoundOps)]
      /\ calls \in [Sites -> Seq(Call)]
  BY DEF CallsInv
<1>2. /\ syncing' \in [Sites -> BOOLEAN] /\ syncBuffer' \in [Sites -> Seq(SoundOps)]
      /\ calls' \in [Sites -> Seq(Call)]
  BY <1>1
<1>3. \A t \in Sites : /\ syncing'[t] = IF t = s THEN flag ELSE syncing[t]
                       /\ syncBuffer'[t] = IF t = s THEN buffer ELSE syncBuffer[t]
                       /\ calls'[t] = IF t = s THEN list ELSE calls[t]
  BY <1>1
<1>4. BufferingHasACall'
  <2> SUFFICES ASSUME NEW t \in Sites
               PROVE  /\ syncing'[t] => \E k \in DOMAIN calls'[t] :
                                           calls'[t][k].phase \in {"asking", "loading"}
                      /\ ~syncing'[t] => syncBuffer'[t] = <<>>
    BY DEF BufferingHasACall
  <2>1. CASE t = s
    BY <1>3, <2>1
  <2>2. CASE t # s
    BY <1>3, <2>2 DEF CallsInv, BufferingHasACall
  <2> QED
    BY <2>1, <2>2
<1> QED
  BY <1>2, <1>4 DEF CallsInv

\* A local edit, once its operation is on its way.
LEMMA CommitSound ==
  ASSUME DocumentsInv, NEW s \in Sites, NEW edit, Commit(s, edit),
         SoundEngine(edit.engine), edit.op \in SoundOps
  PROVE  DocumentsInv'
<1> DEFINE op == edit.op
           e == edit.engine
           queue == pending[s]
           done == applied[s] \cup {op}
<1>1. /\ crdt' = [crdt EXCEPT ![s] = e]
      /\ applied' = [applied EXCEPT ![s] = done]
      /\ pending' = pending
      /\ Broadcast(s, op)
  BY DEF Commit
<1>2. /\ pending' = [pending EXCEPT ![s] = queue]
      /\ queue \in Seq(SoundOps) /\ done \subseteq Operation
  BY <1>1, SoundOpsFacts DEF DocumentsInv, TypeOK
<1>3. \A d \in Sites : DOMAIN net'[d] \subseteq SoundOps
  BY <1>1, BroadcastContents DEF DocumentsInv
<1> HIDE DEF op, e, queue, done
<1>4. SoundEngine(e)
  BY DEF e
<1> QED
  BY <1>1, <1>2, <1>3, <1>4, DocumentsAgain

LEMMA EditSound ==
  ASSUME SyncInv, NEW s \in Sites, Edit(s)
  PROVE  SyncInv'
<1>1. /\ SoundEngine(crdt[s]) /\ EngineOK(crdt[s]) /\ crdt[s].clock \in Nat
      /\ Ids(crdt[s].seq) \subseteq KnownIds(SoundOps)
      /\ pending[s] \in Seq(SoundOps) /\ s \in Nat /\ DocumentsInv
  BY SitesAssumption, EngineFields DEF SyncInv, DocumentsInv, SoundEngine
<1>2. PICK pos \in Positions(s) :
        Insert(s, pos) \/ Delete(s, pos) \/ DeleteOutOfRange(s, pos)
  BY DEF Edit
<1>3. ASSUME Insert(s, pos) PROVE DocumentsInv'
  <2> DEFINE edit == LocalInsert(crdt[s], s, pos)
  <2>1. Commit(s, edit)
    BY <1>3 DEF Insert
  <2> HIDE DEF edit
  <2>0. EngineOK(crdt[s]) /\ s \in Nat /\ crdt[s].clock \in Nat
    BY <1>1
  <2>1a. LocalInserted(crdt[s], s, edit)
    BY <2>0, LocalInsertFacts DEF edit
  <2>2. /\ EngineOK(edit.engine)
        /\ OpOK(edit.op)
        /\ edit.op.id = [clock |-> crdt[s].clock + 1, site |-> s]
        /\ edit.engine.clock = crdt[s].clock + 1
        /\ Ids(edit.engine.seq) = Ids(crdt[s].seq) \cup {edit.op.id}
    BY <2>1a DEF LocalInserted
  <2>3. edit.op \in SoundOps
    BY <2>2 DEF SoundOps, OpOK
  <2>4. edit.op.id \in KnownIds(SoundOps)
    BY <2>3 DEF KnownIds
  <2>5. SoundEngine(edit.engine)
    BY <1>1, <2>2, <2>4 DEF SoundEngine
  <2> QED
    BY <1>1, <2>1, <2>3, <2>5, CommitSound
<1>4. ASSUME Delete(s, pos) PROVE DocumentsInv'
  <2> DEFINE edit == LocalDelete(crdt[s], pos)
  <2>1. Commit(s, edit) /\ VisibleIter(crdt[s].seq, pos) # {}
    BY <1>4 DEF Delete
  <2> HIDE DEF edit
  <2>2. /\ EngineOK(edit.engine)
        /\ OpOK(edit.op)
        /\ edit.op.id \in Ids(crdt[s].seq) \ {SENTINEL_ID}
        /\ edit.engine.clock = crdt[s].clock + 1
        /\ Ids(edit.engine.seq) = Ids(crdt[s].seq)
    BY <1>1, <2>1, LocalDeleteOK DEF edit
  <2>3. edit.op.id \in KnownIds(SoundOps) /\ edit.op.id # SENTINEL_ID
    BY <1>1, <2>2
  <2>4. edit.op \in SoundOps
    BY <2>2, <2>3, SoundOpsFacts DEF SoundOps, OpOK
  <2>5. SoundEngine(edit.engine)
    BY <1>1, <2>2 DEF SoundEngine
  <2> QED
    BY <1>1, <2>1, <2>4, <2>5, CommitSound
<1>5. ASSUME DeleteOutOfRange(s, pos) PROVE DocumentsInv'
  <2> DEFINE e == LocalDeleteThrows(crdt[s])
             queue == pending[s]
             done == applied[s]
  <2>1. /\ crdt' = [crdt EXCEPT ![s] = e]
        /\ pending' = pending /\ net' = net /\ applied' = applied
    BY <1>5 DEF DeleteOutOfRange
  <2>2. /\ pending' = [pending EXCEPT ![s] = queue]
        /\ applied' = [applied EXCEPT ![s] = done]
        /\ queue \in Seq(SoundOps) /\ done \subseteq Operation
        /\ \A d \in Sites : DOMAIN net'[d] \subseteq SoundOps
    BY <2>1 DEF SyncInv, DocumentsInv, TypeOK
  <2> HIDE DEF e, queue, done
  <2>3. EngineOK(e) /\ e.clock = crdt[s].clock + 1 /\ e.seq = crdt[s].seq
    BY <1>1, LocalDeleteThrowsOK DEF e
  <2>4. SoundEngine(e)
    BY <1>1, <2>3 DEF SoundEngine
  <2> QED
    BY <1>1, <2>1, <2>2, <2>4, DocumentsAgain
<1>6. DocumentsInv'
  BY <1>2, <1>3, <1>4, <1>5
<1>7. CallsInv'
  <2>1. UNCHANGED syncVars /\ issued' = issued \cup applied'[s]
    BY DEF Edit
  <2>2. applied'[s] \subseteq Operation
    BY <1>6 DEF DocumentsInv, TypeOK
  <2> QED
    BY <2>1, <2>2 DEF SyncInv, CallsInv, syncVars, BufferingHasACall
<1> QED
  BY <1>6, <1>7 DEF SyncInv

LEMMA AnnouncedSound ==
  ASSUME SyncInv, NEW s \in Sites, NEW u \in Sites, Discover(s, u) \/ Forget(s, u)
  PROVE  SyncInv'
<1>1. known \in [Sites -> SUBSET Sites] /\ forgets \in 0 .. MaxForgets /\ MaxForgets \in Nat
  BY SyncFailAssumption DEF SyncInv, CallsInv
<1>2. UNCHANGED <<vars, syncing, syncBuffer, calls, issued>>
  BY DEF Discover, Forget
<1>3. known' \in [Sites -> SUBSET Sites]
  BY <1>1 DEF Discover, Forget
<1>4. forgets' \in 0 .. MaxForgets
  BY <1>1 DEF Discover, Forget
<1>5. CallsInv'
  BY <1>2, <1>3, <1>4 DEF SyncInv, CallsInv, BufferingHasACall
<1>6. DocumentsInv'
  BY <1>2 DEF SyncInv, DocumentsInv, TypeOK, vars
<1> QED
  BY <1>5, <1>6 DEF SyncInv

\* crdtLoop: buffered, parked, or applied with a drain.
LEMMA ReceiveSound ==
  ASSUME SyncInv, NEW s \in Sites, ReceiveSynced(s)
  PROVE  SyncInv'
<1>1. /\ SoundEngine(crdt[s]) /\ pending[s] \in Seq(SoundOps)
      /\ applied[s] \subseteq Operation /\ DocumentsInv
  BY DEF SyncInv, DocumentsInv, TypeOK
<1>2. /\ syncing \in [Sites -> BOOLEAN] /\ syncBuffer \in [Sites -> Seq(SoundOps)]
      /\ calls \in [Sites -> Seq(Call)] /\ known \in [Sites -> SUBSET Sites]
      /\ CallsInv
  BY DEF SyncInv, CallsInv
<1>3. PICK op \in BagToSet(net[s]) :
        Arrives(s, op) /\ (Buffer(s, op) \/ ParkOp(s, op) \/ ApplyOp(s, op))
  BY DEF ReceiveSynced
<1>4. forgets' = forgets /\ issued' = issued
  BY DEF ReceiveSynced
<1>5. op \in SoundOps
  BY <1>1, <1>3 DEF DocumentsInv, BagToSet
<1>6. \A d \in Sites : DOMAIN net'[d] \subseteq SoundOps
  <2>1. net' = [net EXCEPT ![s] = @ (-) SetToBag({op})]
    BY <1>3 DEF Arrives
  <2>2. \A bag : DOMAIN (bag (-) SetToBag({op})) \subseteq DOMAIN bag
    BY DEF (-)
  <2> SUFFICES ASSUME NEW d \in Sites PROVE DOMAIN net'[d] \subseteq SoundOps
    OBVIOUS
  <2>3. net'[d] = net[d] \/ net'[d] = net[d] (-) SetToBag({op})
    BY <2>1
  <2> QED
    BY <1>1, <2>2, <2>3 DEF DocumentsInv
<1>7. ASSUME Buffer(s, op) PROVE SyncInv'
  <2> DEFINE buffer == Append(syncBuffer[s], op)
  <2>1. /\ syncing[s] /\ syncBuffer' = [syncBuffer EXCEPT ![s] = buffer]
        /\ crdt' = crdt /\ pending' = pending /\ applied' = applied
        /\ known' = known /\ syncing' = syncing /\ calls' = calls
    BY <1>7 DEF Buffer
  <2>2. DocumentsInv'
    BY <1>1, <1>6, <2>1, SoundOpsFacts DEF DocumentsInv, TypeOK
  <2>3. buffer \in Seq(SoundOps)
    BY <1>2, <1>5
  <2> HIDE DEF buffer
  <2>4. syncBuffer' \in [Sites -> Seq(SoundOps)]
    BY <1>2, <2>1, <2>3
  <2>5. \A t \in Sites : ~syncing[t] => syncBuffer'[t] = syncBuffer[t]
    BY <1>2, <2>1
  <2>6. BufferingHasACall'
    BY <1>2, <2>1, <2>5 DEF CallsInv, BufferingHasACall
  <2> QED
    BY <1>2, <1>4, <2>1, <2>2, <2>4, <2>6 DEF SyncInv, CallsInv
<1>8. ASSUME ParkOp(s, op) PROVE SyncInv'
  <2> DEFINE e == crdt[s]
             queue == Append(pending[s], op)
             done == applied[s]
  <2>1. /\ crdt' = crdt /\ pending' = [pending EXCEPT ![s] = queue]
        /\ applied' = applied /\ UNCHANGED syncVars
    BY <1>8 DEF ParkOp, Park
  <2>2. /\ crdt' = [crdt EXCEPT ![s] = e]
        /\ applied' = [applied EXCEPT ![s] = done]
    BY <1>1, <2>1 DEF DocumentsInv, TypeOK
  <2>3. SoundEngine(e) /\ queue \in Seq(SoundOps) /\ done \subseteq Operation
    BY <1>1, <1>5
  <2> HIDE DEF e, queue, done
  <2>4. DocumentsInv'
    BY <1>1, <1>6, <2>1, <2>2, <2>3, DocumentsAgain
  <2>5. CallsInv'
    BY <1>2, <1>4, <2>1 DEF CallsInv, syncVars, BufferingHasACall
  <2> QED
    BY <2>4, <2>5 DEF SyncInv
<1>9. ASSUME ApplyOp(s, op) PROVE SyncInv'
  <2> DEFINE start == ApplyRemote(crdt[s], op)
             d == DrainPending(start, pending[s], {op})
  <2>1. /\ CanApply(crdt[s], op)
        /\ crdt' = [crdt EXCEPT ![s] = d.crdt]
        /\ pending' = [pending EXCEPT ![s] = d.pending]
        /\ applied' = [applied EXCEPT ![s] = @ \cup d.notified]
    BY <1>9 DEF ApplyOp, Apply
  <2>2. /\ ~syncing[s] /\ NoteSite(s, op.id.site)
        /\ syncing' = syncing /\ syncBuffer' = syncBuffer
    BY <1>9 DEF ApplyOp
  <2> HIDE DEF d
  <2>3. SoundEngine(start) /\ {op} \subseteq SoundOps
    BY <1>1, <1>5, <2>1, AppliedSound
  <2> HIDE DEF start
  <2>4. d \in Sound
    BY <1>1, <2>3, DrainSound DEF d
  <2> DEFINE e == d.crdt
             queue == d.pending
             done == applied[s] \cup d.notified
  <2>5. SoundEngine(e) /\ queue \in Seq(SoundOps) /\ done \subseteq Operation
    BY <1>1, <2>4, SoundFields
  <2>6. /\ crdt' = [crdt EXCEPT ![s] = e]
        /\ pending' = [pending EXCEPT ![s] = queue]
        /\ applied' = [applied EXCEPT ![s] = done]
    BY <2>1
  <2> HIDE DEF e, queue, done
  <2>7. DocumentsInv'
    BY <1>1, <1>6, <2>5, <2>6, DocumentsAgain
  <2>8. known' = [known EXCEPT ![s] = @ \cup {op.id.site}] /\ op.id.site \in Sites
    BY <1>5, <2>2, SoundOpsFacts DEF NoteSite
  <2>9. known' \in [Sites -> SUBSET Sites]
    BY <1>2, <2>8
  <2>10. calls' = calls \/ calls' = [calls EXCEPT ![s] = Append(@, [phase |-> "spawned"])]
    BY <2>2 DEF NoteSite
  <2>11. CASE calls' = calls
    <3>1. CallsInv'
      BY <1>2, <1>4, <2>2, <2>9, <2>11 DEF CallsInv, BufferingHasACall
    <3> QED
      BY <2>7, <3>1 DEF SyncInv
  <2>12. CASE calls' = [calls EXCEPT ![s] = Append(@, [phase |-> "spawned"])]
    <3> DEFINE flag == FALSE
               buffer == <<>>
               list == Append(calls[s], [phase |-> "spawned"])
    <3>1. [phase |-> "spawned"] \in Call
      BY DEF Call
    <3>2. list \in Seq(Call)
      BY <1>2, <3>1
    <3>3. syncBuffer[s] = <<>> /\ syncing[s] = FALSE
      BY <1>2, <2>2 DEF CallsInv, BufferingHasACall
    <3>4. /\ syncing' = [syncing EXCEPT ![s] = flag]
          /\ syncBuffer' = [syncBuffer EXCEPT ![s] = buffer]
      BY <1>2, <2>2, <3>3
    <3>5. calls' = [calls EXCEPT ![s] = list]
      BY <2>12
    <3>6. flag \in BOOLEAN /\ buffer \in Seq(SoundOps) /\ (~flag => buffer = <<>>)
          /\ (flag => \E k \in DOMAIN list : list[k].phase \in {"asking", "loading"})
      OBVIOUS
    <3>7. forgets' \in 0 .. MaxForgets /\ issued' \subseteq Operation
      BY <1>2, <1>4 DEF CallsInv
    <3> HIDE DEF flag, buffer, list
    <3>8. CallsInv'
      BY <1>2, <2>9, <3>2, <3>4, <3>5, <3>6, <3>7, CallsAgain
    <3> QED
      BY <2>7, <3>8 DEF SyncInv
  <2> QED
    BY <2>10, <2>11, <2>12
<1> QED
  BY <1>3, <1>7, <1>8, <1>9

\* One call replaced by another, or gone.
LEMMA CallReplaced ==
  ASSUME NEW list \in Seq(Call), NEW k \in DOMAIN list, NEW c \in Call
  PROVE  /\ [list EXCEPT ![k] = c] \in Seq(Call)
         /\ DOMAIN [list EXCEPT ![k] = c] = DOMAIN list
         /\ [list EXCEPT ![k] = c][k] = c
BY ExceptSeq

LEMMA StartSound ==
  ASSUME SyncInv, NEW s \in Sites, NEW k \in DOMAIN calls[s], SyncStart(s, k)
  PROVE  SyncInv'
<1> DEFINE flag == TRUE
           buffer == <<>>
           c == [phase |-> "asking"]
           list == [calls[s] EXCEPT ![k] = c]
<1>1. CallsInv /\ calls[s] \in Seq(Call) /\ known \in [Sites -> SUBSET Sites]
      /\ forgets \in 0 .. MaxForgets /\ issued \subseteq Operation
  BY DEF SyncInv, CallsInv
<1>2. /\ calls' = [calls EXCEPT ![s] = list]
      /\ syncing' = [syncing EXCEPT ![s] = flag]
      /\ syncBuffer' = [syncBuffer EXCEPT ![s] = buffer]
  BY DEF SyncStart
<1>3. UNCHANGED <<vars, known, forgets, issued>>
  BY DEF SyncStart
<1>4. c \in Call /\ c.phase \in {"asking", "loading"}
  BY DEF Call
<1>5. flag \in BOOLEAN /\ buffer \in Seq(SoundOps) /\ (~flag => buffer = <<>>)
  OBVIOUS
<1> HIDE DEF c
<1>6. list \in Seq(Call) /\ k \in DOMAIN list /\ list[k] = c
  BY <1>1, <1>4, CallReplaced
<1> HIDE DEF flag, buffer, list
<1>7. flag => \E j \in DOMAIN list : list[j].phase \in {"asking", "loading"}
  BY <1>4, <1>6
<1>8. known' \in [Sites -> SUBSET Sites] /\ forgets' \in 0 .. MaxForgets
      /\ issued' \subseteq Operation
  BY <1>1, <1>3
<1>9. CallsInv'
  BY <1>1, <1>2, <1>5, <1>6, <1>7, <1>8, CallsAgain
<1>10. DocumentsInv'
  BY <1>3 DEF SyncInv, DocumentsInv, TypeOK, vars
<1> QED
  BY <1>9, <1>10 DEF SyncInv

\* The frame holds the document of the peer, which is sound.
LEMMA ServeSound ==
  ASSUME SyncInv, NEW s \in Sites, NEW k \in DOMAIN calls[s], NEW p \in Sites,
         SyncServe(s, k, p)
  PROVE  SyncInv'
<1> DEFINE frame == EncodeState(p)
           c == [phase |-> "loading", frame |-> frame]
           list == [calls[s] EXCEPT ![k] = c]
           flag == syncing[s]
           buffer == syncBuffer[s]
<1>1. CallsInv /\ calls[s] \in Seq(Call) /\ known \in [Sites -> SUBSET Sites]
      /\ forgets \in 0 .. MaxForgets /\ issued \subseteq Operation
      /\ syncing \in [Sites -> BOOLEAN] /\ syncBuffer \in [Sites -> Seq(SoundOps)]
  BY DEF SyncInv, CallsInv
<1>2. calls' = [calls EXCEPT ![s] = list]
  BY DEF SyncServe
<1>3. UNCHANGED <<vars, known, syncing, syncBuffer, forgets, issued>>
  BY DEF SyncServe
<1>4. frame \in Frame /\ SoundEngine(DecodeState(frame))
  <2>1. EngineOK(crdt[p]) /\ applied[p] \subseteq Operation /\ SoundEngine(crdt[p])
    BY DEF SyncInv, DocumentsInv, TypeOK, SoundEngine
  <2> QED
    BY <2>1, DecodeEncoded
<1> HIDE DEF frame
<1>5. c \in Call /\ c.phase \in {"asking", "loading"}
  BY <1>4 DEF Call
<1> HIDE DEF c
<1>6. list \in Seq(Call) /\ k \in DOMAIN list /\ list[k] = c
  BY <1>1, <1>5, CallReplaced
<1>7. /\ flag \in BOOLEAN /\ buffer \in Seq(SoundOps) /\ (~flag => buffer = <<>>)
      /\ syncing' = [syncing EXCEPT ![s] = flag]
      /\ syncBuffer' = [syncBuffer EXCEPT ![s] = buffer]
  BY <1>1, <1>3 DEF CallsInv, BufferingHasACall
<1> HIDE DEF flag, buffer, list
<1>8. flag => \E j \in DOMAIN list : list[j].phase \in {"asking", "loading"}
  BY <1>5, <1>6
<1>9. known' \in [Sites -> SUBSET Sites] /\ forgets' \in 0 .. MaxForgets
      /\ issued' \subseteq Operation
  BY <1>1, <1>3
<1>10. CallsInv'
  BY <1>1, <1>2, <1>6, <1>7, <1>8, <1>9, CallsAgain
<1>11. DocumentsInv'
  BY <1>3 DEF SyncInv, DocumentsInv, TypeOK, vars
<1> QED
  BY <1>10, <1>11 DEF SyncInv

\* A call returns, with or without a document: the flag is cleared and the
\* buffer emptied with it.
LEMMA CallReturns ==
  ASSUME CallsInv, NEW s \in Sites, NEW k \in DOMAIN calls[s],
         calls' = [calls EXCEPT ![s] = RemoveAt(@, k)],
         syncBuffer' = [syncBuffer EXCEPT ![s] = <<>>],
         syncing' = [syncing EXCEPT ![s] = FALSE],
         UNCHANGED <<known, forgets, issued>>
  PROVE  CallsInv'
<1> DEFINE list == RemoveAt(calls[s], k)
           flag == FALSE
           buffer == <<>>
<1>1. calls[s] \in Seq(Call) /\ known \in [Sites -> SUBSET Sites]
      /\ forgets \in 0 .. MaxForgets /\ issued \subseteq Operation
  BY DEF CallsInv
<1>2. k \in 1 .. Len(calls[s])
  BY <1>1
<1>3. list \in Seq(Call)
  BY <1>1, <1>2, RemoveAtShape
<1>4. /\ calls' = [calls EXCEPT ![s] = list]
      /\ syncBuffer' = [syncBuffer EXCEPT ![s] = buffer]
      /\ syncing' = [syncing EXCEPT ![s] = flag]
  OBVIOUS
<1>5. flag = FALSE /\ buffer = <<>> /\ buffer \in Seq(SoundOps)
  OBVIOUS
<1>6. known' \in [Sites -> SUBSET Sites] /\ forgets' \in 0 .. MaxForgets
      /\ issued' \subseteq Operation
  BY <1>1
<1> HIDE DEF list, flag, buffer
<1>7. flag \in BOOLEAN /\ (~flag => buffer = <<>>)
      /\ (flag => \E j \in DOMAIN list : list[j].phase \in {"asking", "loading"})
  BY <1>5
<1> QED
  BY <1>3, <1>4, <1>5, <1>6, <1>7, CallsAgain

LEMMA LoadSound ==
  ASSUME SyncInv, NEW s \in Sites, NEW k \in DOMAIN calls[s], SyncLoad(s, k)
  PROVE  SyncInv'
<1> DEFINE frame == calls[s][k].frame
           loaded == DecodeState(frame)
           d == Replay(loaded, pending[s], syncBuffer[s])
           e == d.crdt
           queue == d.pending
           done == frame.ops \cup d.notified
<1>1. /\ crdt' = [crdt EXCEPT ![s] = e]
      /\ pending' = [pending EXCEPT ![s] = queue]
      /\ applied' = [applied EXCEPT ![s] = done]
      /\ calls[s][k].phase = "loading"
  BY DEF SyncLoad
<1>2. /\ calls' = [calls EXCEPT ![s] = RemoveAt(@, k)]
      /\ syncBuffer' = [syncBuffer EXCEPT ![s] = <<>>]
      /\ syncing' = [syncing EXCEPT ![s] = FALSE]
      /\ net' = net
      /\ UNCHANGED <<known, forgets, issued>>
  BY DEF SyncLoad
<1>3. /\ CallsInv /\ DocumentsInv /\ pending[s] \in Seq(SoundOps)
      /\ syncBuffer[s] \in Seq(SoundOps)
  BY DEF SyncInv, CallsInv, DocumentsInv
<1>4. frame \in Frame /\ SoundEngine(loaded)
  <2>1. calls[s] \in Seq(Call)
    BY <1>3 DEF CallsInv
  <2>2. calls[s][k] \in Call
    BY <2>1, ElementOfSeq
  <2> QED
    BY <1>1, <2>2 DEF Call
<1>5. frame.ops \subseteq Operation
  BY <1>4 DEF Frame
<1> HIDE DEF frame, loaded
<1>6. d \in Sound
  BY <1>3, <1>4, ReplaySound
<1> HIDE DEF d
<1>7. SoundEngine(e) /\ queue \in Seq(SoundOps) /\ done \subseteq Operation
  BY <1>5, <1>6, SoundFields
<1>8. \A t \in Sites : DOMAIN net'[t] \subseteq SoundOps
  BY <1>2, <1>3 DEF DocumentsInv
<1> HIDE DEF e, queue, done
<1>9. DocumentsInv'
  BY <1>1, <1>3, <1>7, <1>8, DocumentsAgain
<1>10. CallsInv'
  BY <1>2, <1>3, CallReturns
<1> QED
  BY <1>9, <1>10 DEF SyncInv

LEMMA FailSound ==
  ASSUME SyncInv, NEW s \in Sites, NEW k \in DOMAIN calls[s], SyncFail(s, k)
  PROVE  SyncInv'
<1>1. /\ calls' = [calls EXCEPT ![s] = RemoveAt(@, k)]
      /\ syncBuffer' = [syncBuffer EXCEPT ![s] = <<>>]
      /\ syncing' = [syncing EXCEPT ![s] = FALSE]
      /\ UNCHANGED <<known, forgets, issued>>
      /\ UNCHANGED vars
  BY DEF SyncFail
<1>2. CallsInv'
  BY <1>1, CallReturns DEF SyncInv
<1>3. DocumentsInv'
  BY <1>1 DEF SyncInv, DocumentsInv, TypeOK, vars
<1> QED
  BY <1>2, <1>3 DEF SyncInv

LEMMA SyncNextSound == ASSUME SyncInv, [SyncNext]_allVars PROVE SyncInv'
<1>1. ASSUME NEW s \in Sites, Edit(s) PROVE SyncInv'
  BY <1>1, EditSound
<1>2. ASSUME NEW s \in Sites, NEW u \in Sites, Discover(s, u) \/ Forget(s, u)
      PROVE  SyncInv'
  BY <1>2, AnnouncedSound
<1>3. ASSUME NEW s \in Sites, ReceiveSynced(s) PROVE SyncInv'
  BY <1>3, ReceiveSound
<1>4. ASSUME NEW s \in Sites, SyncStep(s) PROVE SyncInv'
  <2>1. PICK k \in DOMAIN calls[s] :
          \/ SyncStart(s, k)
          \/ \E p \in Sites : SyncServe(s, k, p)
          \/ SyncLoad(s, k)
          \/ SyncFail(s, k)
    BY <1>4 DEF SyncStep
  <2> QED
    BY <2>1, StartSound, ServeSound, LoadSound, FailSound
<1>5. CASE UNCHANGED allVars
  <2>1. UNCHANGED vars /\ UNCHANGED syncVars /\ issued' = issued
    BY <1>5 DEF allVars
  <2>2. DocumentsInv'
    BY <2>1 DEF SyncInv, DocumentsInv, TypeOK, vars
  <2>3. CallsInv'
    BY <2>1 DEF SyncInv, CallsInv, BufferingHasACall, syncVars
  <2> QED
    BY <2>2, <2>3 DEF SyncInv
<1> QED
  BY <1>1, <1>2, <1>3, <1>4, <1>5 DEF SyncNext

-----------------------------------------------------------------------------
(* A single follower misses nothing, although it replaces its document.     *)

\* One site writes on a network that loses nothing, and the other takes in and
\* is never left without an answer nor told that the writer has gone.
Follows(w, f) ==
  /\ Sites = {w, f} /\ w # f /\ Writers = {w}
  /\ MinCopies # 0 /\ MaxForgets = 0 /\ ~MaySyncFail

Waiting(s) == DOMAIN net[s] \cup Kept(pending[s]) \cup Kept(syncBuffer[s])

\* The writer has all of its operations, and nobody sends it any.
WriterAlone(w) == DOMAIN net[w] = {} /\ calls[w] = <<>> /\ issued = applied[w]

\* The writer is unknown to the follower only until the first call.
OneCall(w, f) ==
  /\ f \in known[f]
  /\ calls[f] # <<>> => w \in known[f]
  /\ \A k \in DOMAIN calls[f] : k = 1 /\ (calls[f][k].phase # "spawned" => syncing[f])

\* Nothing is missing now, nor will be once the frame on the wire is loaded.
NothingMissing(f) ==
  /\ issued \subseteq Waiting(f) \cup applied[f]
  /\ \A k \in DOMAIN calls[f] :
       calls[f][k].phase = "loading" => issued \subseteq Waiting(f) \cup calls[f][k].frame.ops

FollowerInv(w, f) ==
  SyncInv /\ BagsInv /\ WriterAlone(w) /\ OneCall(w, f) /\ NothingMissing(f)

LEMMA FollowerStarts ==
  ASSUME NEW w, NEW f, Follows(w, f), SyncInit
  PROVE  FollowerInv(w, f)
<1>1. w \in Sites /\ f \in Sites
  BY DEF Follows
<1>2. /\ \A s \in Sites : /\ net[s] = EmptyBag /\ applied[s] = {} /\ calls[s] = <<>>
                          /\ known[s] = {s}
      /\ issued = {}
  BY DEF SyncInit, Init
<1>3. DOMAIN EmptyBag = {}
  BY DEF EmptyBag, SetToBag
<1>4. DOMAIN calls[f] = {}
  BY <1>1, <1>2
<1>5. SyncInv
  BY InitSound
<1> QED
  BY <1>1, <1>2, <1>3, <1>4, <1>5
     DEF FollowerInv, BagsInv, WriterAlone, OneCall, NothingMissing

\* What the writer has done is on its way to the follower.
Published(w, f) ==
  /\ BagsInv' /\ DOMAIN net'[w] = {} /\ pending' = pending
  /\ applied[w] \subseteq applied'[w] /\ applied'[f] = applied[f]
  /\ DOMAIN net[f] \subseteq DOMAIN net'[f]
  /\ applied'[w] \subseteq applied[w] \cup DOMAIN net'[f]

LEMMA EditFollowed ==
  ASSUME NEW w, NEW f, Follows(w, f), FollowerInv(w, f), NEW s \in Sites, Edit(s)
  PROVE  FollowerInv(w, f)'
<1>1. w \in Sites /\ f \in Sites \ {w} /\ s = w /\ MinCopies # 0
  BY DEF Follows, Edit
<1>2. SyncInv' /\ UNCHANGED syncVars /\ issued' = issued \cup applied'[w]
  BY <1>1, EditSound DEF FollowerInv, Edit
<1>3. BagsInv /\ DOMAIN net[w] = {} /\ calls[w] = <<>> /\ issued = applied[w]
      /\ applied \in [Sites -> SUBSET Operation]
  BY DEF FollowerInv, WriterAlone, SyncInv, DocumentsInv, TypeOK
<1>4. Published(w, f)
  <2>1. ASSUME NEW edit, Commit(w, edit) PROVE Published(w, f)
    <3> DEFINE op == edit.op
    <3>1. applied' = [applied EXCEPT ![w] = @ \cup {op}] /\ pending' = pending /\ Broadcast(w, op)
      BY <2>1 DEF Commit
    <3> HIDE DEF op
    <3>2. BagsInv' /\ net'[w] = net[w] /\ DOMAIN net'[f] = DOMAIN net[f] \cup {op}
      BY <1>1, <1>3, <3>1, BroadcastReaches
    <3>3. applied'[w] = applied[w] \cup {op} /\ applied'[f] = applied[f]
      BY <1>1, <1>3, <3>1
    <3> QED
      BY <1>3, <3>1, <3>2, <3>3 DEF Published
  <2>2. ASSUME NEW pos, DeleteOutOfRange(w, pos) PROVE Published(w, f)
    <3>1. pending' = pending /\ net' = net /\ applied' = applied
      BY <2>2 DEF DeleteOutOfRange
    <3> QED
      BY <1>3, <3>1 DEF Published, BagsInv
  <2>3. PICK pos \in Positions(w) : Insert(w, pos) \/ Delete(w, pos) \/ DeleteOutOfRange(w, pos)
    BY <1>1 DEF Edit
  <2>4. (\E edit : Commit(w, edit)) \/ DeleteOutOfRange(w, pos)
    BY <2>3 DEF Insert, Delete
  <2> QED
    BY <2>1, <2>2, <2>4
<1>5. UNCHANGED <<known, syncing, syncBuffer, calls>>
  BY <1>2 DEF syncVars
<1>6. issued' = applied'[w] /\ issued' \subseteq issued \cup DOMAIN net'[f]
  BY <1>2, <1>3, <1>4 DEF Published
<1>7. Waiting(f) \subseteq Waiting(f)' /\ DOMAIN net'[f] \subseteq Waiting(f)'
  BY <1>4, <1>5 DEF Published, Waiting
<1>8. WriterAlone(w)' /\ OneCall(w, f)'
  BY <1>3, <1>4, <1>5, <1>6 DEF Published, WriterAlone, OneCall, FollowerInv
<1>9. NothingMissing(f)'
  BY <1>4, <1>5, <1>6, <1>7 DEF Published, NothingMissing, FollowerInv
<1> QED
  BY <1>2, <1>4, <1>8, <1>9 DEF Published, FollowerInv

LEMMA AnnouncedFollowed ==
  ASSUME NEW w, NEW f, Follows(w, f), FollowerInv(w, f), NEW s \in Sites, NEW u \in Sites,
         Discover(s, u) \/ Forget(s, u)
  PROVE  FollowerInv(w, f)'
<1>1. w \in Sites /\ f \in Sites /\ MaxForgets = 0
  BY DEF Follows
<1>2. forgets \in 0 .. MaxForgets /\ known \in [Sites -> SUBSET Sites]
  BY DEF FollowerInv, SyncInv, CallsInv
<1>3. Discover(s, u)
  BY <1>1, <1>2 DEF Forget
<1>4. UNCHANGED <<vars, syncing, syncBuffer, calls, issued>> /\ known[f] \subseteq known'[f]
  BY <1>1, <1>2, <1>3 DEF Discover
<1>5. SyncInv'
  BY AnnouncedSound DEF FollowerInv
<1>6. UNCHANGED <<pending, net, applied>>
  BY <1>4 DEF vars
<1>7. BagsInv' /\ WriterAlone(w)' /\ OneCall(w, f)'
  BY <1>4, <1>6 DEF FollowerInv, BagsInv, WriterAlone, OneCall
<1>8. Waiting(f)' = Waiting(f)
  BY <1>4, <1>6 DEF Waiting
<1>9. NothingMissing(f)'
  BY <1>4, <1>6, <1>8 DEF FollowerInv, NothingMissing
<1> QED
  BY <1>5, <1>7, <1>9 DEF FollowerInv

\* An operation that arrives goes on waiting, or is applied with what it lets in.
LEMMA ReceiveFollowed ==
  ASSUME NEW w, NEW f, Follows(w, f), FollowerInv(w, f), NEW s \in Sites, ReceiveSynced(s)
  PROVE  FollowerInv(w, f)'
<1>1. PICK op \in BagToSet(net[s]) :
        Arrives(s, op) /\ (Buffer(s, op) \/ ParkOp(s, op) \/ ApplyOp(s, op))
  BY DEF ReceiveSynced
<1>2. op \in DOMAIN net[s] /\ issued' = issued
  BY DEF BagToSet, ReceiveSynced
<1>3. /\ w \in Sites /\ f \in Sites /\ w # f /\ s = f
      /\ \A t \in Sites : t \in {w, f}
  BY <1>2 DEF Follows, FollowerInv, WriterAlone
<1>4. SyncInv' /\ SyncInv /\ BagsInv
  BY ReceiveSound DEF FollowerInv
<1>5. /\ BagsInv' /\ DOMAIN net'[w] = {} /\ DOMAIN net[f] \subseteq DOMAIN net'[f] \cup {op}
  BY <1>1, <1>3, <1>4, ArrivalTakesOne DEF FollowerInv, WriterAlone
<1>6. /\ pending \in [Sites -> Seq(Operation)] /\ pending[f] \in Seq(SoundOps)
      /\ applied \in [Sites -> SUBSET Operation]
      /\ syncing \in [Sites -> BOOLEAN] /\ syncBuffer \in [Sites -> Seq(SoundOps)]
      /\ calls \in [Sites -> Seq(Call)] /\ known \in [Sites -> SUBSET Sites]
      /\ SoundEngine(crdt[f]) /\ op \in SoundOps
  BY <1>2, <1>3, <1>4 DEF SyncInv, DocumentsInv, CallsInv, TypeOK
<1>7. /\ OneCall(w, f) /\ NothingMissing(f) /\ WriterAlone(w)
  BY DEF FollowerInv
<1>8. ASSUME Buffer(f, op) \/ ParkOp(f, op) PROVE FollowerInv(w, f)'
  <2>1. UNCHANGED <<applied, known, syncing, calls>>
    BY <1>8 DEF Buffer, ParkOp, Park, syncVars
  <2>2. /\ Kept(pending[f]) \subseteq Kept(pending'[f])
        /\ Kept(syncBuffer[f]) \subseteq Kept(syncBuffer'[f])
        /\ op \in Kept(pending'[f]) \cup Kept(syncBuffer'[f])
    <3>1. CASE Buffer(f, op)
      <4>1. pending' = pending /\ syncBuffer'[f] = Append(syncBuffer[f], op)
        BY <1>3, <1>6, <3>1 DEF Buffer
      <4>2. syncBuffer[f] \in Seq(SoundOps)
        BY <1>3, <1>6
      <4>3. Kept(syncBuffer'[f]) = Kept(syncBuffer[f]) \cup {op}
        BY <4>1, <4>2, KeptAppended
      <4> QED
        BY <4>1, <4>3
    <3>2. CASE ParkOp(f, op)
      <4>1. syncBuffer' = syncBuffer /\ pending'[f] = Append(pending[f], op)
        BY <1>3, <1>6, <3>2 DEF ParkOp, Park, syncVars
      <4>2. Kept(pending'[f]) = Kept(pending[f]) \cup {op}
        BY <1>6, <4>1, KeptAppended
      <4> QED
        BY <4>1, <4>2
    <3> QED
      BY <1>8, <3>1, <3>2
  <2>3. Waiting(f) \subseteq Waiting(f)'
    BY <1>5, <2>2 DEF Waiting
  <2>4. WriterAlone(w)' /\ OneCall(w, f)'
    BY <1>2, <1>5, <1>7, <2>1 DEF WriterAlone, OneCall
  <2>5. NothingMissing(f)'
    BY <1>2, <1>7, <2>1, <2>3 DEF NothingMissing
  <2> QED
    BY <1>4, <1>5, <2>4, <2>5 DEF FollowerInv
<1>9. ASSUME ApplyOp(f, op) PROVE FollowerInv(w, f)'
  <2> DEFINE e == ApplyRemote(crdt[f], op)
             d == DrainPending(e, pending[f], {op})
  <2>1. /\ CanApply(crdt[f], op)
        /\ pending' = [pending EXCEPT ![f] = d.pending]
        /\ applied' = [applied EXCEPT ![f] = @ \cup d.notified]
        /\ ~syncing[f] /\ NoteSite(f, op.id.site)
        /\ syncing' = syncing /\ syncBuffer' = syncBuffer
    BY <1>9 DEF ApplyOp, Apply
  <2>2. SoundEngine(e) /\ {op} \subseteq SoundOps
    BY <1>6, <2>1, AppliedSound
  <2> HIDE DEF e
  <2>3. d = DrainPending(e, pending[f], {op})
    OBVIOUS
  <2> HIDE DEF d
  <2>4. Kept(pending[f]) \cup {op} \subseteq Kept(d.pending) \cup d.notified
    <3> DEFINE queue == pending[f]
               done == {op}
    <3>1. queue \in Seq(SoundOps) /\ done \subseteq SoundOps /\ d = DrainPending(e, queue, done)
      BY <1>6, <2>2, <2>3
    <3> HIDE DEF queue, done
    <3>2. Kept(queue) \cup done \subseteq Kept(d.pending) \cup d.notified
      BY <2>2, <3>1, DrainKeeps
    <3> QED
      BY <3>2 DEF queue, done
  <2>5. /\ pending'[f] = d.pending /\ applied'[f] = applied[f] \cup d.notified
        /\ applied'[w] = applied[w]
    BY <1>3, <1>6, <2>1
  <2>6. issued' \subseteq Waiting(f)' \cup applied'[f]
    BY <1>2, <1>5, <1>7, <2>1, <2>4, <2>5 DEF NothingMissing, Waiting
  <2>7. known' = [known EXCEPT ![f] = @ \cup {op.id.site}]
    BY <2>1 DEF NoteSite
  <2>8. known'[f] = known[f] \cup {op.id.site} /\ op.id.site \in {w, f}
    BY <1>3, <1>6, <2>7, SoundOpsFacts
  <2>9. calls'[w] = calls[w]
    BY <1>3, <1>6, <2>1 DEF NoteSite
  <2>10. /\ calls'[f] # <<>> => w \in known'[f]
         /\ \A k \in DOMAIN calls'[f] : k = 1 /\ calls'[f][k].phase = "spawned"
    <3>1. CASE calls' = calls
      BY <1>7, <2>1, <2>8, <3>1 DEF OneCall
    <3>2. CASE /\ op.id.site \notin known[f]
               /\ calls' = [calls EXCEPT ![f] = Append(@, [phase |-> "spawned"])]
      <4>1. op.id.site = w /\ calls[f] = <<>>
        BY <1>7, <2>8, <3>2 DEF OneCall
      <4>2. calls'[f] = <<[phase |-> "spawned"]>>
        BY <1>3, <1>6, <3>2, <4>1
      <4> QED
        BY <2>8, <4>1, <4>2
    <3> QED
      BY <2>1, <3>1, <3>2 DEF NoteSite
  <2>11. WriterAlone(w)'
    BY <1>2, <1>5, <1>7, <2>5, <2>9 DEF WriterAlone
  <2>12. OneCall(w, f)'
    BY <1>7, <2>8, <2>10 DEF OneCall
  <2>13. NothingMissing(f)'
    BY <2>6, <2>10 DEF NothingMissing
  <2> QED
    BY <1>4, <1>5, <2>11, <2>12, <2>13 DEF FollowerInv
<1> QED
  BY <1>1, <1>3, <1>8, <1>9

\* While its only call has not begun, an editor buffers nothing; what the writer
\* serializes has everything; and what the replay does not apply is pending.
LEMMA CallFollowed ==
  ASSUME NEW w, NEW f, Follows(w, f), FollowerInv(w, f), NEW s \in Sites, SyncStep(s)
  PROVE  FollowerInv(w, f)'
<1>1. PICK k \in DOMAIN calls[s] :
        \/ SyncStart(s, k)
        \/ \E p \in Sites : SyncServe(s, k, p)
        \/ SyncLoad(s, k)
        \/ SyncFail(s, k)
  BY DEF SyncStep
<1>2. /\ OneCall(w, f) /\ NothingMissing(f) /\ WriterAlone(w) /\ BagsInv /\ SyncInv
  BY DEF FollowerInv
<1>3. /\ w \in Sites /\ f \in Sites /\ w # f /\ s = f /\ k = 1 /\ k \in DOMAIN calls[f]
      /\ Sites = {w, f} /\ ~SyncFail(s, k)
  BY <1>1, <1>2 DEF Follows, WriterAlone, OneCall, SyncFail
<1>4. /\ calls \in [Sites -> Seq(Call)] /\ calls[f] \in Seq(Call) /\ syncing \in [Sites -> BOOLEAN]
      /\ syncBuffer \in [Sites -> Seq(SoundOps)] /\ BufferingHasACall
      /\ pending \in [Sites -> Seq(Operation)] /\ pending[f] \in Seq(SoundOps)
      /\ applied \in [Sites -> SUBSET Operation]
  BY <1>2, <1>3 DEF SyncInv, DocumentsInv, CallsInv, TypeOK
<1>5. SyncInv'
  BY <1>1, <1>2, <1>3, StartSound, ServeSound, LoadSound
<1>6. ASSUME SyncStart(f, k) PROVE FollowerInv(w, f)'
  <2> DEFINE c == [phase |-> "asking"]
             list == [calls[f] EXCEPT ![k] = c]
  <2>1. /\ UNCHANGED <<vars, known, forgets, issued>> /\ calls[f][k].phase = "spawned"
        /\ calls' = [calls EXCEPT ![f] = list]
        /\ syncing' = [syncing EXCEPT ![f] = TRUE]
        /\ syncBuffer' = [syncBuffer EXCEPT ![f] = <<>>]
    BY <1>6 DEF SyncStart
  <2>2. ~syncing[f] /\ syncBuffer[f] = <<>>
    BY <1>2, <1>3, <1>4, <2>1 DEF OneCall, BufferingHasACall
  <2>3. list[k] = c /\ DOMAIN list = DOMAIN calls[f] /\ c.phase = "asking"
    BY <1>3
  <2> HIDE DEF list, c
  <2>4. calls'[f] = list /\ calls'[w] = calls[w] /\ syncing'[f] /\ syncBuffer'[f] = syncBuffer[f]
    BY <1>3, <1>4, <2>1, <2>2
  <2>5. UNCHANGED <<pending, net, applied, known, issued>>
    BY <2>1 DEF vars
  <2>6. BagsInv' /\ WriterAlone(w)' /\ Waiting(f)' = Waiting(f)
    BY <1>2, <2>4, <2>5 DEF BagsInv, WriterAlone, Waiting
  <2>7. \A j \in DOMAIN calls'[f] : j = k /\ calls'[f][j].phase = "asking"
    BY <1>2, <1>3, <2>3, <2>4 DEF OneCall
  <2>8. calls[f] # <<>>
    BY <1>3
  <2>9. OneCall(w, f)'
    BY <1>2, <1>3, <2>4, <2>5, <2>7, <2>8 DEF OneCall
  <2>10. NothingMissing(f)'
    BY <1>2, <2>5, <2>6, <2>7 DEF NothingMissing
  <2> QED
    BY <1>5, <2>6, <2>9, <2>10 DEF FollowerInv
<1>7. ASSUME NEW p \in Sites, SyncServe(f, k, p) PROVE FollowerInv(w, f)'
  <2> DEFINE frame == EncodeState(p)
             c == [phase |-> "loading", frame |-> frame]
             list == [calls[f] EXCEPT ![k] = c]
  <2>1. /\ UNCHANGED <<vars, known, syncing, syncBuffer, forgets, issued>>
        /\ calls[f][k].phase = "asking" /\ p = w
        /\ calls' = [calls EXCEPT ![f] = list]
    BY <1>3, <1>7 DEF SyncServe
  <2>2. frame.ops = issued
    BY <1>2, <2>1 DEF EncodeState, WriterAlone
  <2>3. list[k] = c /\ DOMAIN list = DOMAIN calls[f] /\ c.frame = frame
    BY <1>3
  <2> HIDE DEF list, c, frame
  <2>4. calls'[f] = list /\ calls'[w] = calls[w]
    BY <1>3, <1>4, <2>1
  <2>5. UNCHANGED <<pending, net, applied, known, issued, syncing, syncBuffer>>
    BY <2>1 DEF vars
  <2>6. BagsInv' /\ WriterAlone(w)' /\ Waiting(f)' = Waiting(f)
    BY <1>2, <2>4, <2>5 DEF BagsInv, WriterAlone, Waiting
  <2>7. syncing[f] /\ calls[f] # <<>>
    BY <1>2, <1>3, <2>1 DEF OneCall
  <2>8. \A j \in DOMAIN calls'[f] : j = k /\ calls'[f][j].frame.ops = issued
    BY <1>2, <1>3, <2>2, <2>3, <2>4 DEF OneCall
  <2>9. OneCall(w, f)'
    BY <1>2, <1>3, <2>5, <2>7, <2>8 DEF OneCall
  <2>10. NothingMissing(f)'
    BY <1>2, <2>5, <2>6, <2>8 DEF NothingMissing
  <2> QED
    BY <1>5, <2>6, <2>9, <2>10 DEF FollowerInv
<1>8. ASSUME SyncLoad(f, k) PROVE FollowerInv(w, f)'
  <2> DEFINE frame == calls[f][k].frame
             loaded == DecodeState(frame)
             d == Replay(loaded, pending[f], syncBuffer[f])
             list == RemoveAt(calls[f], k)
  <2>1. /\ calls[f][k].phase = "loading"
        /\ pending' = [pending EXCEPT ![f] = d.pending]
        /\ applied' = [applied EXCEPT ![f] = frame.ops \cup d.notified]
        /\ calls' = [calls EXCEPT ![f] = list]
        /\ syncBuffer' = [syncBuffer EXCEPT ![f] = <<>>]
        /\ UNCHANGED <<net, known, forgets, issued>>
    BY <1>8 DEF SyncLoad
  <2>2. calls[f][k] \in Call
    BY <1>3, <1>4, ElementOfSeq
  <2>3. SoundEngine(loaded)
    BY <2>1, <2>2 DEF Call
  <2>4. d = Replay(loaded, pending[f], syncBuffer[f]) /\ syncBuffer[f] \in Seq(SoundOps)
    BY <1>3, <1>4
  <2> HIDE DEF d, loaded
  <2>5. Kept(pending[f]) \cup Kept(syncBuffer[f]) \subseteq Kept(d.pending) \cup d.notified
    BY <1>4, <2>3, <2>4, ReplaySound
  <2>6. DOMAIN list = {}
    <3>1. k \in 1 .. Len(calls[f]) /\ Len(calls[f]) \in Nat /\ DOMAIN calls[f] = 1 .. Len(calls[f])
      BY <1>3, <1>4
    <3>2. Len(calls[f]) = 1
      <4>1. Len(calls[f]) \in DOMAIN calls[f]
        BY <3>1
      <4> QED
        BY <1>2, <4>1 DEF OneCall
    <3>3. list \in Seq(Call) /\ Len(list) = Len(calls[f]) - 1
      BY <1>4, <3>1, RemoveAtShape
    <3> QED
      BY <3>2, <3>3
  <2>7. issued \subseteq Waiting(f) \cup frame.ops
    BY <1>2, <1>3, <2>1 DEF NothingMissing
  <2> HIDE DEF list, frame
  <2>8. /\ pending'[f] = d.pending /\ applied'[f] = frame.ops \cup d.notified
        /\ applied'[w] = applied[w] /\ calls'[f] = list /\ calls'[w] = calls[w]
    BY <1>3, <1>4, <2>1
  <2>9. BagsInv' /\ WriterAlone(w)'
    BY <1>2, <2>1, <2>8 DEF BagsInv, WriterAlone
  <2>10. calls[f] # <<>>
    BY <1>3
  <2>11. OneCall(w, f)'
    BY <1>2, <2>1, <2>6, <2>8, <2>10 DEF OneCall
  <2>12. issued' \subseteq Waiting(f)' \cup applied'[f]
    BY <2>1, <2>5, <2>7, <2>8 DEF Waiting
  <2>13. NothingMissing(f)'
    BY <2>6, <2>8, <2>12 DEF NothingMissing
  <2> QED
    BY <1>5, <2>9, <2>11, <2>13 DEF FollowerInv
<1> QED
  BY <1>1, <1>3, <1>6, <1>7, <1>8

-----------------------------------------------------------------------------
(* The theorems.                                                           *)

\* Whatever documents are loaded and however calls of syncState overlap, every
\* document is one that the engine could have built.
THEOREM SyncInvariance == SyncSpec => []SyncInv
<1>1. SyncInit => SyncInv
  BY InitSound
<1>2. SyncInv /\ [SyncNext]_allVars => SyncInv'
  BY SyncNextSound
<1> QED
  BY <1>1, <1>2, PTL DEF SyncSpec

\* What is on the wire, buffered, kept or loaded is what its declaration says
\* (pipeline.h:63-96, serializer.h:33-45).
THEOREM SyncTypes == SyncSpec => []SyncTypeOK
<1>1. SyncInv => SyncTypeOK
  <2> SUFFICES ASSUME SyncInv PROVE SyncTypeOK
    OBVIOUS
  <2>1. syncBuffer \in [Sites -> Seq(Operation)]
    <3>1. Seq(SoundOps) \subseteq Seq(Operation)
      BY SoundOpsFacts, SeqMonotonic
    <3> QED
      BY <3>1 DEF SyncInv, CallsInv
  <2>2. ASSUME NEW s \in Sites, NEW k \in DOMAIN calls[s]
        PROVE  /\ calls[s][k].phase \in {"spawned", "asking", "loading"}
               /\ calls[s][k].phase = "loading" => calls[s][k].frame \in Frame
    <3>1. calls[s] \in Seq(Call)
      BY DEF SyncInv, CallsInv
    <3>2. calls[s][k] \in Call
      BY <3>1, ElementOfSeq
    <3> QED
      BY <3>2 DEF Call
  <2> QED
    BY <2>1, <2>2 DEF SyncTypeOK, SyncInv, CallsInv, DocumentsInv
<1> QED
  BY <1>1, SyncInvariance, PTL

\* No editor goes on buffering what it receives with no call of syncState left
\* to end it, and none applies directly while a buffer waits
\* (pipeline.cpp:229-233, 269-270, 281-283), for any number of calls at once.
THEOREM BufferingEnds == SyncSpec => []BufferingHasACall
<1>1. SyncInv => BufferingHasACall
  BY DEF SyncInv, CallsInv
<1> QED
  BY <1>1, SyncInvariance, PTL

\* A clock is never behind a node of its document, even when a state transfer
\* has set it back (rga.cpp:56-60, serializer.cpp:160-182).
THEOREM ClocksCoverTexts == SyncSpec => []ClockCoversText
<1>1. SyncInv => ClockCoversText
  BY DEF SyncInv, DocumentsInv, SoundEngine, EngineOK, ClockCoversText
<1> QED
  BY <1>1, SyncInvariance, PTL

\* The left neighbour of every node stands before it in documents that were
\* loaded as in those that were written (rga.cpp:125, 96-108).
THEOREM LoadedLeftNeighborsBefore == SyncSpec => []LeftNeighborBefore
<1>1. SyncInv => LeftNeighborBefore
  <2> SUFFICES ASSUME SyncInv, NEW s \in Sites PROVE LeftBefore(crdt[s].seq)
    BY DEF LeftNeighborBefore, LeftBefore
  <2> QED
    BY DEF SyncInv, DocumentsInv, SoundEngine, EngineOK, WellFormed
<1> QED
  BY <1>1, SyncInvariance, PTL

\* A single follower of a network that loses nothing never misses an operation:
\* what arrives while it replaces its document is buffered or was serialized
\* (pipeline.cpp:229-283), however many operations there are, however often and
\* in whatever order they arrive.
THEOREM FollowerLosesNothing ==
  ASSUME NEW w, NEW f, Follows(w, f)
  PROVE  SyncSpec => []NothingLost
<1>1. SyncInit => FollowerInv(w, f)
  BY FollowerStarts
<1>2. FollowerInv(w, f) /\ [SyncNext]_allVars => FollowerInv(w, f)'
  <2> SUFFICES ASSUME FollowerInv(w, f), [SyncNext]_allVars PROVE FollowerInv(w, f)'
    OBVIOUS
  <2>1. ASSUME NEW s \in Sites, Edit(s) PROVE FollowerInv(w, f)'
    BY <2>1, EditFollowed
  <2>2. ASSUME NEW s \in Sites, NEW u \in Sites, Discover(s, u) \/ Forget(s, u)
        PROVE  FollowerInv(w, f)'
    BY <2>2, AnnouncedFollowed
  <2>3. ASSUME NEW s \in Sites, ReceiveSynced(s) PROVE FollowerInv(w, f)'
    BY <2>3, ReceiveFollowed
  <2>4. ASSUME NEW s \in Sites, SyncStep(s) PROVE FollowerInv(w, f)'
    BY <2>4, CallFollowed
  <2>5. CASE UNCHANGED allVars
    <3>1. SyncInv'
      BY SyncNextSound DEF FollowerInv
    <3>2. UNCHANGED <<pending, net, applied, known, syncing, syncBuffer, calls, issued>>
      BY <2>5 DEF allVars, vars, syncVars
    <3> QED
      BY <3>1, <3>2 DEF FollowerInv, BagsInv, WriterAlone, OneCall, NothingMissing, Waiting
  <2> QED
    BY <2>1, <2>2, <2>3, <2>4, <2>5 DEF SyncNext
<1>3. FollowerInv(w, f) => NothingLost
  <2> SUFFICES ASSUME FollowerInv(w, f), NEW s \in Sites
               PROVE  issued \subseteq Waiting(s) \cup applied[s]
    BY DEF NothingLost, Waiting, Kept, Range, BagToSet
  <2> QED
    BY DEF Follows, FollowerInv, WriterAlone, NothingMissing
<1> QED
  BY <1>1, <1>2, <1>3, PTL DEF SyncSpec
=============================================================================
