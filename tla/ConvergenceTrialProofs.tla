---------------------- MODULE ConvergenceTrialProofs ----------------------
(***************************************************************************)
(* What holds of a convergence trial of any size: it keeps the invariants   *)
(* of Replication; a script fits its text as long as no DELETE of another   *)
(* script comes in; and dumps differ only for what the network did.        *)
(***************************************************************************)
EXTENDS ConvergenceTrial, ReplicationProofs

-----------------------------------------------------------------------------
(* The visible characters of a list.                                       *)

LEMMA VisibleFinite ==
  ASSUME NEW seq \in Seq(Node)
  PROVE  /\ IsFiniteSet(VisiblePlaces(seq))
         /\ IsFiniteSet(VisibleIds(seq))
         /\ Cardinality(VisiblePlaces(seq)) \in Nat
         /\ Cardinality(VisibleIds(seq)) \in Nat
         /\ Cardinality(VisibleIds(seq)) <= Cardinality(VisiblePlaces(seq))
<1>1. IsFiniteSet(VisiblePlaces(seq)) /\ Cardinality(VisiblePlaces(seq)) \in Nat
  BY PlacesFinite
<1>2. [i \in VisiblePlaces(seq) |-> seq[i].id]
        \in Surjection(VisiblePlaces(seq), VisibleIds(seq))
  <2> DEFINE f == [i \in VisiblePlaces(seq) |-> seq[i].id]
  <2>1. f \in [VisiblePlaces(seq) -> VisibleIds(seq)]
    BY DEF VisibleIds, VisiblePlaces
  <2>2. \A x \in VisibleIds(seq) : \E i \in VisiblePlaces(seq) : f[i] = x
    BY DEF VisibleIds, VisiblePlaces
  <2> QED
    BY <2>1, <2>2 DEF Surjection
<1>3. /\ IsFiniteSet(VisibleIds(seq))
      /\ Cardinality(VisibleIds(seq)) <= Cardinality(VisiblePlaces(seq))
  BY <1>1, <1>2, FS_Surjection
<1> QED
  BY <1>1, <1>3, FS_CardinalityType

\* A list without an n-th visible character has at most n of them.
LEMMA NoNthVisible ==
  ASSUME NEW seq \in Seq(Node), NEW n \in Nat, VisibleIter(seq, n) = {}
  PROVE  Cardinality(VisibleIds(seq)) <= n
BY VisibleFinite, NoNthPlace

LEMMA InsertNodeVisible ==
  ASSUME NEW seq \in Seq(Node), NEW newID \in CharID, NEW left \in Ids(seq)
  PROVE  VisibleIds(seq) \cup {newID} \subseteq VisibleIds(InsertNode(seq, newID, left))
<1> DEFINE new == InsertNode(seq, newID, left)
           p == InsertPos(seq, newID, left)
<1>1. /\ new \in Seq(Node)
      /\ Len(new) = Len(seq) + 1
      /\ p \in 2 .. Len(seq) + 1
      /\ \A i \in 1 .. p - 1 : new[i] = seq[i]
      /\ new[p] = [id |-> newID, left |-> left, tomb |-> FALSE]
      /\ \A i \in p .. Len(seq) : new[i + 1] = seq[i]
  BY InsertNodeShape
<1> HIDE DEF new, p
<1>2. newID \in VisibleIds(new)
  BY <1>1 DEF VisibleIds, VisiblePlaces
<1>3. ASSUME NEW i \in DOMAIN seq, ~seq[i].tomb PROVE seq[i].id \in VisibleIds(new)
  <2>1. CASE i < p
    <3>1. i \in DOMAIN new /\ new[i] = seq[i]
      BY <1>1, <2>1
    <3> QED
      BY <1>3, <3>1 DEF VisibleIds, VisiblePlaces
  <2>2. CASE ~(i < p)
    <3>1. i + 1 \in DOMAIN new /\ new[i + 1] = seq[i]
      BY <1>1, <2>2
    <3> QED
      BY <1>3, <3>1 DEF VisibleIds, VisiblePlaces
  <2> QED
    BY <2>1, <2>2
<1>4. VisibleIds(seq) \subseteq VisibleIds(new)
  BY <1>3 DEF VisibleIds, VisiblePlaces
<1> QED
  BY <1>2, <1>4 DEF new

LEMMA TombstoneVisible ==
  ASSUME NEW seq \in Seq(Node), NEW i \in DOMAIN seq
  PROVE  VisibleIds(seq) \ {seq[i].id} \subseteq VisibleIds(Tombstone(seq, i))
<1> DEFINE new == Tombstone(seq, i)
<1>1. DOMAIN new = DOMAIN seq /\ \A j \in DOMAIN seq : j # i => new[j] = seq[j]
  BY DEF Tombstone
<1> HIDE DEF new
<1>2. ASSUME NEW j \in DOMAIN seq, ~seq[j].tomb, seq[j].id # seq[i].id
      PROVE  seq[j].id \in VisibleIds(new)
  <2>1. j \in DOMAIN new /\ new[j] = seq[j]
    BY <1>1, <1>2
  <2> QED
    BY <1>2, <2>1 DEF VisibleIds, VisiblePlaces
<1>3. VisibleIds(seq) \ {seq[i].id} \subseteq VisibleIds(new)
  BY <1>2 DEF VisibleIds, VisiblePlaces
<1> QED
  BY <1>3 DEF new

-----------------------------------------------------------------------------
(* What the operations of an engine leave visible.                         *)

LEMMA LocalInsertVisible ==
  ASSUME NEW e, EngineOK(e), NEW site \in Nat, NEW pos,
         NEW new, new = LocalInsert(e, site, pos).engine
  PROVE  Cardinality(VisibleIds(e.seq)) + 1 <= Cardinality(VisibleIds(new.seq))
<1> DEFINE id == [clock |-> e.clock + 1, site |-> site]
           left == VisibleAt(e.seq, pos - 1)
<1>1. /\ e.seq \in Seq(Node) /\ e.clock \in Nat
      /\ id \in CharID /\ left \in Ids(e.seq)
  BY EngineFields, VisibleAtInList DEF CharID
<1>2. id \notin Ids(e.seq)
  BY <1>1 DEF EngineOK
<1>3. new.seq = InsertNode(e.seq, id, left)
  BY DEF LocalInsert
<1> HIDE DEF id, left
<1>4. VisibleIds(e.seq) \cup {id} \subseteq VisibleIds(new.seq)
  BY <1>1, <1>3, InsertNodeVisible
<1>5. new.seq \in Seq(Node)
  <2> DEFINE r == LocalInsert(e, site, pos)
  <2>1. LocalInserted(e, site, r)
    BY LocalInsertFacts
  <2>2. new = r.engine
    OBVIOUS
  <2> HIDE DEF r
  <2>3. EngineOK(new)
    BY <2>1, <2>2 DEF LocalInserted
  <2> QED
    BY <2>3, EngineFields
<1>6. id \notin VisibleIds(e.seq)
  BY <1>2 DEF VisibleIds, VisiblePlaces, Ids
<1>7. Cardinality(VisibleIds(e.seq) \cup {id}) = Cardinality(VisibleIds(e.seq)) + 1
  BY <1>1, <1>6, VisibleFinite, OneMoreOrLess
<1>8. Cardinality(VisibleIds(e.seq) \cup {id}) <= Cardinality(VisibleIds(new.seq))
  BY <1>4, <1>5, VisibleFinite, FS_Subset
<1> QED
  BY <1>7, <1>8

\* All but one of the visible characters are left: at most one less.
LEMMA AllButOne ==
  ASSUME NEW old \in Seq(Node), NEW new \in Seq(Node), NEW x,
         VisibleIds(old) \ {x} \subseteq VisibleIds(new)
  PROVE  Cardinality(VisibleIds(old)) <= Cardinality(VisibleIds(new)) + 1
<1>1. Cardinality(VisibleIds(old)) - 1 <= Cardinality(VisibleIds(old) \ {x})
  BY VisibleFinite, OneMoreOrLess
<1>2. Cardinality(VisibleIds(old) \ {x}) <= Cardinality(VisibleIds(new))
  BY VisibleFinite, FS_Subset
<1>3. /\ Cardinality(VisibleIds(old)) \in Nat /\ Cardinality(VisibleIds(new)) \in Nat
      /\ Cardinality(VisibleIds(old) \ {x}) \in Nat
  BY VisibleFinite, FS_RemoveElement, FS_CardinalityType
<1> QED
  BY <1>1, <1>2, <1>3

LEMMA LocalDeleteVisible ==
  ASSUME NEW e, EngineOK(e), NEW pos, VisibleIter(e.seq, pos) # {},
         NEW new, new = LocalDelete(e, pos).engine
  PROVE  Cardinality(VisibleIds(e.seq)) <= Cardinality(VisibleIds(new.seq)) + 1
<1> DEFINE i == CHOOSE j \in VisibleIter(e.seq, pos) : TRUE
<1>1. i \in DOMAIN e.seq
  BY DEF VisibleIter
<1>2. new.seq = Tombstone(e.seq, i)
  BY DEF LocalDelete
<1> HIDE DEF i
<1>3. e.seq \in Seq(Node) /\ WellFormed(e.seq)
  BY EngineFields DEF EngineOK
<1>4. new.seq \in Seq(Node)
  BY <1>1, <1>2, <1>3, TombstoneWellFormed DEF WellFormed
<1> QED
  BY <1>1, <1>2, <1>3, <1>4, TombstoneVisible, AllButOne

LEMMA ApplyRemoteVisible ==
  ASSUME NEW e, EngineOK(e), NEW op, OpOK(op), CanApply(e, op),
         NEW new, new = ApplyRemote(e, op)
  PROVE  /\ VisibleIds(e.seq) \ {op.id} \subseteq VisibleIds(new.seq)
         /\ op.type = "INSERT" => VisibleIds(e.seq) \subseteq VisibleIds(new.seq)
<1>1. e.seq \in Seq(Node) /\ op \in Operation /\ op.id \in CharID
  BY EngineFields DEF OpOK, Operation
<1>2. CASE op.type = "INSERT"
  <2>1. op.left \in Ids(e.seq)
    BY <1>2 DEF CanApply
  <2>2. new.seq = e.seq \/ new.seq = InsertNode(e.seq, op.id, op.left)
    BY <1>2 DEF ApplyRemote
  <2> QED
    BY <1>1, <2>1, <2>2, InsertNodeVisible
<1>3. CASE op.type # "INSERT"
  <2>1. CASE op.id \in Ids(e.seq)
    <3> DEFINE i == Idx(e.seq, op.id)
    <3>1. new.seq = Tombstone(e.seq, i)
      BY <1>3, <2>1 DEF ApplyRemote
    <3>2. i \in DOMAIN e.seq /\ e.seq[i].id = op.id
      BY <1>1, <2>1, IdxIsPlace
    <3> HIDE DEF i
    <3> QED
      BY <1>1, <1>3, <3>1, <3>2, TombstoneVisible
  <2>2. CASE op.id \notin Ids(e.seq)
    <3>1. new.seq = e.seq
      BY <1>3, <2>2 DEF ApplyRemote
    <3> QED
      BY <1>3, <3>1
  <2> QED
    BY <2>1, <2>2
<1> QED
  BY <1>2, <1>3

-----------------------------------------------------------------------------
(* drainPending: only INSERTs are parked, so that it takes nothing away.    *)

InsertOps == {op \in Operation : op.type = "INSERT"}

ShowingStates(ops, floor, visible) ==
  {d \in DrainStates(ops, floor) :
     d.pending \in Seq(InsertOps) /\ visible \subseteq VisibleIds(d.crdt.seq)}

LEMMA ScanStepShows ==
  ASSUME NEW ops, \A op \in ops : OpOK(op), NEW floor \in Nat, NEW visible,
         NEW d \in ShowingStates(ops, floor, visible)
  PROVE  ScanStep[d] \in ShowingStates(ops, floor, visible)
<1>1. /\ d \in DrainStates(ops, floor)
      /\ d.pending \in Seq(InsertOps) /\ visible \subseteq VisibleIds(d.crdt.seq)
  BY DEF ShowingStates
<1>2. d \in Scan /\ d.pending \in Seq(ops) /\ d.at \in Nat \ {0} /\ EngineOK(d.crdt)
  BY <1>1, DrainStateFields
<1>3. ScanStep[d] \in DrainStates(ops, floor)
  BY <1>1, ScanStepOK
<1>4. CASE d.at <= Len(d.pending) /\ CanApply(d.crdt, d.pending[d.at])
  <2> DEFINE op == d.pending[d.at]
  <2>1. /\ ScanStep[d].crdt = ApplyRemote(d.crdt, op)
        /\ ScanStep[d].pending = RemoveAt(d.pending, d.at)
    BY <1>2, <1>4 DEF ScanStep
  <2>2. d.at \in 1 .. Len(d.pending) /\ op \in ops /\ op \in InsertOps
    BY <1>1, <1>2, <1>4, ElementOfSeq
  <2>3. RemoveAt(d.pending, d.at) \in Seq(InsertOps)
    BY <1>1, <2>2, RemoveAtShape
  <2>4. OpOK(op) /\ op.type = "INSERT" /\ CanApply(d.crdt, op)
    BY <1>4, <2>2 DEF InsertOps
  <2> HIDE DEF op
  <2>5. VisibleIds(d.crdt.seq) \subseteq VisibleIds(ApplyRemote(d.crdt, op).seq)
    BY <1>2, <2>4, ApplyRemoteVisible
  <2> QED
    BY <1>1, <1>3, <2>1, <2>3, <2>5 DEF ShowingStates
<1>5. CASE ~(d.at <= Len(d.pending) /\ CanApply(d.crdt, d.pending[d.at]))
  <2>1. ScanStep[d].crdt = d.crdt /\ ScanStep[d].pending = d.pending
    BY <1>2, <1>5 DEF ScanStep, Scan
  <2> QED
    BY <1>1, <1>3, <2>1 DEF ShowingStates
<1> QED
  BY <1>4, <1>5

-----------------------------------------------------------------------------
(* The invariant of a trial.                                               *)

ParkedInserts == \A s \in Sites : pending[s] \in Seq(InsertOps)

\* What LoadState replaces is an empty document, so that no clock goes back.
NotStarted ==
  \A s \in Sites : status[s] = "starting" => crdt[s] = NewEngine /\ local_len[s] = 0

TrialInv == IInv /\ TrialTypeOK /\ ParkedInserts /\ NotStarted /\ ScriptFits

LEMMA TrialInitOK == ASSUME TrialInit PROVE TrialInv
<1>1. IInv
  BY InitOK DEF TrialInit
<1>2. TrialTypeOK
  BY OpsAssumption DEF TrialInit, TrialTypeOK
<1>3. ParkedInserts
  BY DEF TrialInit, Init, ParkedInserts
<1>4. NotStarted
  BY DEF TrialInit, Init, NotStarted
<1>5. ScriptFits
  <2> SUFFICES ASSUME NEW s \in Sites
               PROVE  0 <= Cardinality(VisibleIds(crdt[s].seq)) + 0
    BY DEF TrialInit, ScriptFits
  <2>1. crdt[s].seq \in Seq(Node)
    BY <1>1, EngineFields DEF IInv, EnginesInv
  <2> QED
    BY <2>1, VisibleFinite
<1> QED
  BY <1>1, <1>2, <1>3, <1>4, <1>5 DEF TrialInv

\* The facts about one site that the steps below start from.
LEMMA SiteFields ==
  ASSUME TrialInv, NEW s \in Sites
  PROVE  /\ EngineOK(crdt[s]) /\ crdt[s].seq \in Seq(Node) /\ crdt[s].clock \in Nat
         /\ crdt \in [Sites -> Engine] /\ pending \in [Sites -> Seq(Operation)]
         /\ pending[s] \in Seq(InsertOps)
         /\ local_len \in [Sites -> Nat] /\ local_len[s] \in Nat
         /\ deletes \in [Sites -> Nat] /\ deletes[s] \in Nat
         /\ status \in [Sites -> {"starting", "script", "quit", "died"}]
         /\ local_len[s] <= Cardinality(VisibleIds(crdt[s].seq)) + deletes[s]
         /\ status[s] = "died" => deletes[s] > 0
         /\ status[s] = "starting" => crdt[s] = NewEngine /\ local_len[s] = 0
BY EngineFields
DEF TrialInv, IInv, TypeOK, EnginesInv, TrialTypeOK, ParkedInserts, NotStarted, ScriptFits

\* A step moves one editor, its script and its counters on.
LEMMA FitsAgain ==
  ASSUME TrialInv, NEW s \in Sites, NEW e, NEW len, NEW dels, NEW st,
         crdt' = [crdt EXCEPT ![s] = e],
         local_len' = [local_len EXCEPT ![s] = len],
         deletes' = [deletes EXCEPT ![s] = dels],
         status' = [status EXCEPT ![s] = st],
         len <= Cardinality(VisibleIds(e.seq)) + dels,
         st = "died" => dels > 0,
         st # "starting"
  PROVE  ScriptFits' /\ NotStarted'
<1> SUFFICES ASSUME NEW t \in Sites
             PROVE  /\ local_len'[t] <= Cardinality(VisibleIds(crdt'[t].seq)) + deletes'[t]
                    /\ status'[t] = "died" => deletes'[t] > 0
                    /\ status'[t] = "starting" => crdt'[t] = NewEngine /\ local_len'[t] = 0
  BY DEF ScriptFits, NotStarted, VisibleIds, VisiblePlaces, NewEngine
<1>1. CASE t = s
  BY <1>1, SiteFields
<1>2. CASE t # s
  <2>1. /\ crdt'[t] = crdt[t] /\ local_len'[t] = local_len[t]
        /\ deletes'[t] = deletes[t] /\ status'[t] = status[t]
    BY <1>2, SiteFields
  <2> QED
    BY <2>1, SiteFields
<1> QED
  BY <1>1, <1>2

\* A document that is loaded brings nothing that was not issued.
LEMMA LoadStateOK ==
  ASSUME TrialInv, NEW s \in Sites, NEW donor \in Sites,
         status[s] = "starting", LoadState(s, donor)
  PROVE  IInv'
<1> DEFINE e == crdt[donor]
           queue == pending[s]
           done == applied[donor]
<1>1. /\ crdt' = [crdt EXCEPT ![s] = e]
      /\ applied' = [applied EXCEPT ![s] = @ \cup done]
      /\ UNCHANGED <<pending, net>>
  BY DEF LoadState
<1>2. pending' = [pending EXCEPT ![s] = queue]
  BY <1>1, SiteFields
<1>3. EngineOK(e) /\ Ids(e.seq) \subseteq KnownIds(Issued) /\ queue \in Seq(Issued)
  BY DEF TrialInv, IInv, EnginesInv, TransitInv
<1>4. crdt[s].clock <= e.clock
  <2>1. crdt[s].clock = 0
    BY SiteFields DEF NewEngine
  <2> QED
    BY <1>3, <2>1, EngineFields
<1>5. done \subseteq Issued /\ \A d \in Sites : DOMAIN net'[d] \subseteq DOMAIN net[d]
  BY <1>1 DEF Issued
<1>6. IInv
  BY DEF TrialInv
<1> HIDE DEF e, queue, done
<1> QED
  BY <1>1, <1>2, <1>3, <1>4, <1>5, <1>6, ReceiverOK

LEMMA StartOK ==
  ASSUME TrialInv, NEW s \in Sites, Start(s)
  PROVE  TrialInv'
<1>1. /\ status[s] = "starting"
      /\ status' = [status EXCEPT ![s] = "script"]
      /\ UNCHANGED <<step, local_len, deletes>>
  BY DEF Start
<1>2. TrialTypeOK'
  BY <1>1 DEF TrialInv, TrialTypeOK
<1>3. CASE UNCHANGED vars
  <2>1. IInv'
    BY <1>3, NextOK DEF TrialInv
  <2>2. ParkedInserts'
    BY <1>3 DEF TrialInv, ParkedInserts, vars
  <2>3. ScriptFits' /\ NotStarted'
    <3> SUFFICES ASSUME NEW t \in Sites
                 PROVE  /\ local_len[t] <= Cardinality(VisibleIds(crdt[t].seq)) + deletes[t]
                        /\ status'[t] = "died" => deletes[t] > 0
                        /\ status'[t] = "starting" => crdt[t] = NewEngine /\ local_len[t] = 0
      BY <1>1, <1>3 DEF ScriptFits, NotStarted, VisibleIds, VisiblePlaces, NewEngine, vars
    <3>1. status'[t] = "script" \/ status'[t] = status[t]
      BY <1>1, SiteFields
    <3> QED
      BY <3>1, SiteFields
  <2> QED
    BY <1>2, <2>1, <2>2, <2>3 DEF TrialInv
<1>4. ASSUME NEW donor \in Sites, LoadState(s, donor) PROVE TrialInv'
  <2>1. IInv'
    BY <1>1, <1>4, LoadStateOK
  <2>2. ParkedInserts'
    BY <1>4 DEF LoadState, TrialInv, ParkedInserts
  <2>3. ScriptFits' /\ NotStarted'
    <3> DEFINE e == crdt[donor]
               len == local_len[s]
               dels == deletes[s]
               st == "script"
    <3>1. crdt' = [crdt EXCEPT ![s] = e]
      BY <1>4 DEF LoadState
    <3>2. /\ local_len' = [local_len EXCEPT ![s] = len]
          /\ deletes' = [deletes EXCEPT ![s] = dels]
          /\ status' = [status EXCEPT ![s] = st]
      BY <1>1, SiteFields
    <3>3. Cardinality(VisibleIds(e.seq)) \in Nat
      BY SiteFields, VisibleFinite
    <3>4. len = 0 /\ dels \in Nat
      BY <1>1, SiteFields
    <3> HIDE DEF e, len, dels
    <3>5. len <= Cardinality(VisibleIds(e.seq)) + dels
      BY <3>3, <3>4
    <3> QED
      BY <3>1, <3>2, <3>5, FitsAgain
  <2> QED
    BY <1>2, <2>1, <2>2, <2>3 DEF TrialInv
<1> QED
  BY <1>3, <1>4 DEF Start

LEMMA ScriptLineType ==
  ASSUME TrialInv, NEW s \in Sites, NEW change \in {1, -1}, ScriptLine(s, change),
         local_len[s] + change \in Nat,
         NEW st \in {"script", "died"}, status' = [status EXCEPT ![s] = st]
  PROVE  TrialTypeOK'
<1>1. /\ status \in [Sites -> {"starting", "script", "quit", "died"}]
      /\ step \in [Sites -> 0 .. Ops] /\ step[s] < Ops
      /\ local_len \in [Sites -> Nat] /\ deletes \in [Sites -> Nat]
      /\ step' = [step EXCEPT ![s] = @ + 1]
      /\ local_len' = [local_len EXCEPT ![s] = @ + change]
      /\ deletes' = deletes
  BY DEF TrialInv, TrialTypeOK, ScriptLine
<1>2. step[s] + 1 \in 0 .. Ops
  BY <1>1, OpsAssumption
<1> QED
  BY <1>1, <1>2 DEF TrialTypeOK

LEMMA ScriptInsertOK ==
  ASSUME TrialInv, NEW s \in Sites, ScriptInsert(s)
  PROVE  TrialInv'
<1>1. PICK pos \in InsertPositions(s) : Insert(s, pos)
  BY DEF ScriptInsert
<1>2. ScriptLine(s, 1) /\ status' = status
  BY DEF ScriptInsert
<1>3. IInv'
  BY <1>1, InsertOK DEF TrialInv
<1>4. TrialTypeOK'
  <2>1. status' = [status EXCEPT ![s] = "script"]
    BY <1>2, SiteFields DEF ScriptLine
  <2>2. local_len[s] + 1 \in Nat
    BY SiteFields
  <2> QED
    BY <1>2, <2>1, <2>2, ScriptLineType
<1>5. ParkedInserts'
  BY <1>1 DEF Insert, Commit, TrialInv, ParkedInserts
<1>6. ScriptFits' /\ NotStarted'
  <2> DEFINE e == LocalInsert(crdt[s], s, pos).engine
             len == local_len[s] + 1
             dels == deletes[s]
             st == status[s]
  <2>1. crdt' = [crdt EXCEPT ![s] = e]
    BY <1>1 DEF Insert, Commit
  <2>2. s \in Nat
    BY SitesAssumption
  <2>3. Cardinality(VisibleIds(crdt[s].seq)) + 1 <= Cardinality(VisibleIds(e.seq))
    BY <2>2, SiteFields, LocalInsertVisible
  <2>4. e.seq \in Seq(Node)
    <3> DEFINE r == LocalInsert(crdt[s], s, pos)
    <3>1. LocalInserted(crdt[s], s, r)
      BY <2>2, SiteFields, LocalInsertFacts
    <3>2. e = r.engine
      OBVIOUS
    <3> HIDE DEF e, r
    <3>3. EngineOK(e)
      BY <3>1, <3>2 DEF LocalInserted
    <3> QED
      BY <3>3, EngineFields
  <2> HIDE DEF e
  <2>5. /\ Cardinality(VisibleIds(crdt[s].seq)) \in Nat
        /\ Cardinality(VisibleIds(e.seq)) \in Nat
    BY <2>4, SiteFields, VisibleFinite
  <2>6. len <= Cardinality(VisibleIds(e.seq)) + dels /\ st = "script"
    BY <1>2, <2>3, <2>5, SiteFields DEF ScriptLine
  <2>7. /\ local_len' = [local_len EXCEPT ![s] = len]
        /\ deletes' = [deletes EXCEPT ![s] = dels]
        /\ status' = [status EXCEPT ![s] = st]
    BY <1>2, SiteFields DEF ScriptLine
  <2> HIDE DEF len, dels, st
  <2> QED
    BY <2>1, <2>6, <2>7, FitsAgain
<1> QED
  BY <1>3, <1>4, <1>5, <1>6 DEF TrialInv

LEMMA ScriptDeleteOK ==
  ASSUME TrialInv, NEW s \in Sites, ScriptDelete(s)
  PROVE  TrialInv'
<1>1. PICK pos \in DeletePositions(s) : Delete(s, pos)
  BY DEF ScriptDelete
<1>2. ScriptLine(s, -1) /\ status' = status
  BY DEF ScriptDelete
<1>3. IInv'
  BY <1>1, DeleteOK DEF TrialInv
<1>4. local_len[s] - 1 \in Nat
  BY SiteFields DEF DeletePositions
<1>5. TrialTypeOK'
  <2>1. status' = [status EXCEPT ![s] = "script"]
    BY <1>2, SiteFields DEF ScriptLine
  <2>2. local_len[s] + (-1) \in Nat
    BY <1>4, SiteFields
  <2> QED
    BY <1>2, <2>1, <2>2, ScriptLineType
<1>6. ParkedInserts'
  BY <1>1 DEF Delete, Commit, TrialInv, ParkedInserts
<1>7. ScriptFits' /\ NotStarted'
  <2> DEFINE e == LocalDelete(crdt[s], pos).engine
             len == local_len[s] - 1
             dels == deletes[s]
             st == status[s]
  <2>1. crdt' = [crdt EXCEPT ![s] = e] /\ VisibleIter(crdt[s].seq, pos) # {}
    BY <1>1 DEF Delete, Commit
  <2>2. Cardinality(VisibleIds(crdt[s].seq)) <= Cardinality(VisibleIds(e.seq)) + 1
    BY <2>1, SiteFields, LocalDeleteVisible
  <2>3. e.seq \in Seq(Node)
    BY <2>1, SiteFields, LocalDeleteOK, EngineFields
  <2> HIDE DEF e
  <2>4. /\ Cardinality(VisibleIds(crdt[s].seq)) \in Nat
        /\ Cardinality(VisibleIds(e.seq)) \in Nat
    BY <2>3, SiteFields, VisibleFinite
  <2>5. len <= Cardinality(VisibleIds(e.seq)) + dels /\ st = "script"
    BY <1>2, <2>2, <2>4, SiteFields DEF ScriptLine
  <2>6. /\ local_len' = [local_len EXCEPT ![s] = len]
        /\ deletes' = [deletes EXCEPT ![s] = dels]
        /\ status' = [status EXCEPT ![s] = st]
    BY <1>2, SiteFields DEF ScriptLine
  <2> HIDE DEF len, dels, st
  <2> QED
    BY <2>1, <2>5, <2>6, FitsAgain
<1> QED
  BY <1>3, <1>5, <1>6, <1>7 DEF TrialInv

\* The position was one of the script's own text, so that a DELETE has come in.
LEMMA ScriptDiesOK ==
  ASSUME TrialInv, NEW s \in Sites, ScriptDies(s)
  PROVE  TrialInv'
<1>1. PICK pos \in DeletePositions(s) : DeleteOutOfRange(s, pos)
  BY DEF ScriptDies
<1>2. ScriptLine(s, -1) /\ status' = [status EXCEPT ![s] = "died"]
  BY DEF ScriptDies
<1>3. IInv'
  BY <1>1, DeleteOutOfRangeOK DEF TrialInv
<1>4. local_len[s] - 1 \in Nat /\ pos \in Nat /\ pos <= local_len[s] - 1
  BY SiteFields DEF DeletePositions
<1>5. TrialTypeOK'
  <2>1. local_len[s] + (-1) \in Nat
    BY <1>4, SiteFields
  <2> QED
    BY <1>2, <2>1, ScriptLineType
<1>6. ParkedInserts'
  BY <1>1 DEF DeleteOutOfRange, TrialInv, ParkedInserts
<1>7. ScriptFits' /\ NotStarted'
  <2> DEFINE e == LocalDeleteThrows(crdt[s])
             len == local_len[s] - 1
             dels == deletes[s]
             n == Cardinality(VisibleIds(crdt[s].seq))
  <2>1. crdt' = [crdt EXCEPT ![s] = e] /\ VisibleIter(crdt[s].seq, pos) = {}
    BY <1>1 DEF DeleteOutOfRange
  <2>2. e.seq = crdt[s].seq
    BY SiteFields, LocalDeleteThrowsOK
  <2>3. n \in Nat /\ n <= pos
    BY <1>4, <2>1, SiteFields, VisibleFinite, NoNthVisible
  <2> HIDE DEF e
  <2>4. Cardinality(VisibleIds(e.seq)) = n
    BY <2>2
  <2>5. local_len[s] <= n + dels /\ dels \in Nat
    BY SiteFields
  <2> HIDE DEF n
  <2>6. len <= Cardinality(VisibleIds(e.seq)) + dels /\ dels > 0
    BY <1>4, <2>3, <2>4, <2>5, SiteFields
  <2>7. /\ local_len' = [local_len EXCEPT ![s] = len]
        /\ deletes' = [deletes EXCEPT ![s] = dels]
    BY <1>2, SiteFields DEF ScriptLine
  <2> HIDE DEF len, dels
  <2> QED
    BY <1>2, <2>1, <2>6, <2>7, FitsAgain
<1> QED
  BY <1>3, <1>5, <1>6, <1>7 DEF TrialInv

LEMMA DumpOK ==
  ASSUME TrialInv, NEW s \in Sites, Dump(s)
  PROVE  TrialInv'
<1>1. /\ UNCHANGED <<vars, step, local_len, deletes>>
      /\ status' = [status EXCEPT ![s] = "quit"]
  BY DEF Dump
<1>2. IInv'
  <2>1. UNCHANGED vars
    BY <1>1
  <2> QED
    BY <2>1, NextOK DEF TrialInv
<1>3. TrialTypeOK' /\ ParkedInserts'
  BY <1>1 DEF TrialInv, TrialTypeOK, ParkedInserts, vars
<1>4. ScriptFits' /\ NotStarted'
  <2> SUFFICES ASSUME NEW t \in Sites
               PROVE  /\ local_len[t] <= Cardinality(VisibleIds(crdt[t].seq)) + deletes[t]
                      /\ status'[t] = "died" => deletes[t] > 0
                      /\ status'[t] = "starting" => crdt[t] = NewEngine /\ local_len[t] = 0
    BY <1>1 DEF ScriptFits, NotStarted, VisibleIds, VisiblePlaces, NewEngine, vars
  <2>1. status'[t] = "quit" \/ status'[t] = status[t]
    BY <1>1, SiteFields
  <2> QED
    BY <2>1, SiteFields
<1> QED
  BY <1>2, <1>3, <1>4 DEF TrialInv

\* What applying an operation and draining leaves at one editor.
LEMMA ApplyKeepsVisible ==
  ASSUME TrialInv, NEW s \in Sites, NEW op \in Issued, CanApply(crdt[s], op),
         NEW d, d = DrainPending(ApplyRemote(crdt[s], op), pending[s], {op})
  PROVE  /\ EngineOK(d.crdt) /\ d.pending \in Seq(InsertOps)
         /\ VisibleIds(crdt[s].seq) \ {op.id} \subseteq VisibleIds(d.crdt.seq)
         /\ op.type = "INSERT" => VisibleIds(crdt[s].seq) \subseteq VisibleIds(d.crdt.seq)
<1> DEFINE e == ApplyRemote(crdt[s], op)
           visible == VisibleIds(e.seq)
           S == ShowingStates(Issued, crdt[s].clock, visible)
<1>1. /\ OpOK(op) /\ \A o \in Issued : OpOK(o)
      /\ Ids(crdt[s].seq) \subseteq KnownIds(Issued) /\ pending[s] \in Seq(Issued)
  BY DEF TrialInv, IInv, IssuedInv, EnginesInv, TransitInv
<1>2. Issued \subseteq Operation
  BY <1>1 DEF OpOK
<1>3. /\ EngineOK(e) /\ crdt[s].clock <= e.clock
      /\ Ids(e.seq) \subseteq Ids(crdt[s].seq) \cup {op.id}
  BY <1>1, SiteFields, ApplyRemoteOK
<1>4. /\ VisibleIds(crdt[s].seq) \ {op.id} \subseteq visible
      /\ op.type = "INSERT" => VisibleIds(crdt[s].seq) \subseteq visible
  <2>1. EngineOK(crdt[s]) /\ OpOK(op)
    BY <1>1, SiteFields
  <2> QED
    BY <2>1, ApplyRemoteVisible
<1> HIDE DEF e
<1>5. Ids(e.seq) \subseteq KnownIds(Issued)
  BY <1>1, <1>3 DEF KnownIds
<1>6. [crdt |-> e, pending |-> pending[s], at |-> 1,
       progress |-> FALSE, notified |-> {op}] \in S
  <2> DEFINE x == [crdt |-> e, pending |-> pending[s], at |-> 1,
                   progress |-> FALSE, notified |-> {op}]
  <2>1. x \in DrainStates(Issued, crdt[s].clock)
    BY <1>1, <1>2, <1>3, <1>5, SiteFields, 1 \in Nat \ {0}, FALSE \in BOOLEAN,
       {op} \subseteq Issued, DrainStateIntro
  <2>2. x.pending = pending[s] /\ x.crdt = e
    OBVIOUS
  <2> HIDE DEF x
  <2>3. x \in S
    BY <2>1, <2>2, SiteFields DEF ShowingStates
  <2> QED
    BY <2>3 DEF x
<1>7. \A x \in S : ScanStep[x] \in S
  BY <1>1, SiteFields, ScanStepShows
<1>8. d \in S
  <2>1. S \subseteq Scan
    BY DEF ShowingStates, DrainStates
  <2>2. Len(pending[s]) \in Nat
    BY <1>1
  <2> HIDE DEF S
  <2> QED
    BY <1>6, <1>7, <2>1, <2>2, DrainInvariant DEF e
<1>9. EngineOK(d.crdt) /\ d.pending \in Seq(InsertOps) /\ visible \subseteq VisibleIds(d.crdt.seq)
  BY <1>8 DEF ShowingStates, DrainStates
<1> HIDE DEF visible
<1> QED
  BY <1>4, <1>9

LEMMA TakeInOK ==
  ASSUME TrialInv, NEW s \in Sites, TakeIn(s)
  PROVE  TrialInv'
<1>1. PICK op \in BagToSet(net[s]) :
        /\ Arrives(s, op)
        /\ Park(s, op) \/ Apply(s, op)
        /\ deletes' = IF op.type = "DELETE" THEN [deletes EXCEPT ![s] = @ + 1] ELSE deletes
  BY DEF TakeIn
<1>2. UNCHANGED <<status, step, local_len>> /\ status[s] = "script"
  BY DEF TakeIn
<1>3. IInv'
  <2>1. Receive(s)
    BY <1>1 DEF Receive
  <2> QED
    BY <2>1, ReceiveOK DEF TrialInv
<1>4. op \in Issued /\ OpOK(op) /\ op \in Operation
  BY <1>1 DEF TrialInv, IInv, TransitInv, IssuedInv, BagToSet, OpOK
<1>5. TrialTypeOK'
  BY <1>1, <1>2 DEF TrialInv, TrialTypeOK
<1> DEFINE dels == IF op.type = "DELETE" THEN deletes[s] + 1 ELSE deletes[s]
           len == local_len[s]
           st == status[s]
<1>6. /\ deletes' = [deletes EXCEPT ![s] = dels]
      /\ local_len' = [local_len EXCEPT ![s] = len]
      /\ status' = [status EXCEPT ![s] = st]
  BY <1>1, <1>2, SiteFields
<1>7. st = "script" /\ len <= Cardinality(VisibleIds(crdt[s].seq)) + deletes[s]
  BY <1>2, SiteFields
<1> HIDE DEF len, st
<1>8. CASE Park(s, op)
  <2>1. op.type = "INSERT"
    BY <1>4, <1>8 DEF Park, CanApply, Operation
  <2>2. ParkedInserts'
    <3> SUFFICES ASSUME NEW t \in Sites PROVE pending'[t] \in Seq(InsertOps)
      BY DEF ParkedInserts, InsertOps, Operation, CharID
    <3>1. pending[t] \in Seq(InsertOps) /\ op \in InsertOps
      BY <1>4, <2>1, SiteFields DEF InsertOps
    <3>2. pending'[t] = IF t = s THEN Append(pending[t], op) ELSE pending[t]
      BY <1>8, SiteFields DEF Park
    <3> QED
      BY <3>1, <3>2
  <2>3. ScriptFits' /\ NotStarted'
    <3> DEFINE e == crdt[s]
    <3>1. crdt' = [crdt EXCEPT ![s] = e]
      BY <1>8, SiteFields DEF Park
    <3>2. len <= Cardinality(VisibleIds(e.seq)) + dels
      BY <1>7, <2>1
    <3> HIDE DEF e, dels
    <3> QED
      BY <1>6, <1>7, <3>1, <3>2, FitsAgain
  <2> QED
    BY <1>3, <1>5, <2>2, <2>3 DEF TrialInv
<1>9. CASE Apply(s, op)
  <2> DEFINE d == DrainPending(ApplyRemote(crdt[s], op), pending[s], {op})
             e == d.crdt
             old == Cardinality(VisibleIds(crdt[s].seq))
             new == Cardinality(VisibleIds(e.seq))
  <2>1. /\ CanApply(crdt[s], op)
        /\ crdt' = [crdt EXCEPT ![s] = e]
        /\ pending' = [pending EXCEPT ![s] = d.pending]
    BY <1>9 DEF Apply
  <2>2. /\ EngineOK(e) /\ d.pending \in Seq(InsertOps)
        /\ VisibleIds(crdt[s].seq) \ {op.id} \subseteq VisibleIds(e.seq)
        /\ op.type = "INSERT" => VisibleIds(crdt[s].seq) \subseteq VisibleIds(e.seq)
    BY <1>4, <2>1, ApplyKeepsVisible
  <2> HIDE DEF d
  <2>3. ParkedInserts'
    <3> SUFFICES ASSUME NEW t \in Sites PROVE pending'[t] \in Seq(InsertOps)
      BY DEF ParkedInserts, InsertOps, Operation, CharID
    <3> QED
      BY <2>1, <2>2, SiteFields
  <2> HIDE DEF e
  <2>4. crdt[s].seq \in Seq(Node) /\ e.seq \in Seq(Node)
    BY <2>2, SiteFields, EngineFields
  <2>5. old \in Nat /\ new \in Nat /\ old <= new + 1
    BY <2>2, <2>4, VisibleFinite, AllButOne
  <2>6. op.type = "INSERT" => old <= new
    BY <2>2, <2>4, VisibleFinite, FS_Subset
  <2>7. len <= new + dels
    <3> HIDE DEF old, new
    <3>1. len <= old + deletes[s] /\ deletes[s] \in Nat /\ len \in Nat
      BY <1>7, SiteFields DEF old, len
    <3>2. CASE op.type = "DELETE"
      BY <1>7, <2>5, <3>1, <3>2
    <3>3. CASE op.type # "DELETE"
      <4>1. op.type = "INSERT"
        BY <1>4, <3>3 DEF Operation
      <4> QED
        BY <1>7, <2>5, <2>6, <3>1, <4>1
    <3> QED
      BY <3>2, <3>3
  <2>8. ScriptFits' /\ NotStarted'
    <3> HIDE DEF dels
    <3> QED
      BY <1>6, <1>7, <2>1, <2>7, FitsAgain
  <2> QED
    BY <1>3, <1>5, <2>3, <2>8 DEF TrialInv
<1> QED
  BY <1>1, <1>8, <1>9

LEMMA TrialNextOK ==
  ASSUME TrialInv, [TrialNext]_<<vars, trialVars>>
  PROVE  TrialInv'
<1>1. CASE UNCHANGED <<vars, trialVars>>
  <2>1. IInv'
    BY <1>1, NextOK DEF TrialInv
  <2>2. TrialTypeOK' /\ ParkedInserts' /\ NotStarted' /\ ScriptFits'
    BY <1>1 DEF TrialInv, TrialTypeOK, ParkedInserts, NotStarted, ScriptFits, VisibleIds, VisiblePlaces, vars, trialVars
  <2> QED
    BY <2>1, <2>2 DEF TrialInv
<1> QED
  BY <1>1, StartOK, ScriptInsertOK, ScriptDeleteOK, ScriptDiesOK, DumpOK, TakeInOK DEF TrialNext

-----------------------------------------------------------------------------
(* The texts of a trial.                                                   *)

\* An editor that no DELETE has overtaken shows what it has applied.
NotOvertaken ==
  \A s \in Sites : overtaken[s] = {} => Deleted(crdt[s].seq, applied[s])

\* An editor that starts has applied nothing, which the document it may load
\* replaces.
NothingApplied == \A s \in Sites : status[s] = "starting" => applied[s] = {}

\* A dump is the text of the editor that quit, and nobody else's.
DumpsInv ==
  \A s \in Sites :
    IF status[s] = "quit" THEN dump[s] = GetDocument(crdt[s].seq) /\ dumped[s] = applied[s]
    ELSE dump[s] = <<>>

HistoryTypes ==
  /\ overtaken = [s \in Sites |-> overtaken[s]]
  /\ dump = [s \in Sites |-> dump[s]]
  /\ dumped = [s \in Sites |-> dumped[s]]

TextsInv == HistoryTypes /\ NotOvertaken /\ NothingApplied /\ DumpsInv

LEMMA TrialInitTexts == ASSUME TrialInit PROVE TextsInv
<1>1. Len(NewEngine.seq) = 1
  BY DEF NewEngine
<1>2. Deleted(NewEngine.seq, {})
  BY <1>1 DEF Deleted
<1>3. crdt = [s \in Sites |-> NewEngine] /\ applied = [s \in Sites |-> {}]
  BY DEF TrialInit, Init
<1>4. HistoryTypes
  BY DEF TrialInit, HistoryTypes
<1>5. NotOvertaken
  BY <1>2, <1>3 DEF NotOvertaken
<1>6. NothingApplied
  BY <1>3 DEF NothingApplied
<1>7. \A s \in Sites : dump[s] = <<>> /\ status[s] # "quit"
  BY DEF TrialInit
<1>8. DumpsInv
  BY <1>7 DEF DumpsInv
<1> QED
  BY <1>4, <1>5, <1>6, <1>8 DEF TextsInv

\* A step of an editor that runs and does not quit.
LEMMA TextsAgain ==
  ASSUME TrialInv, TextsInv, NEW s \in Sites, NEW e, NEW done, NEW over, NEW st,
         crdt' = [crdt EXCEPT ![s] = e],
         applied' = [applied EXCEPT ![s] = done],
         overtaken' = [overtaken EXCEPT ![s] = over],
         status' = [status EXCEPT ![s] = st],
         dump' = dump, dumped' = dumped,
         status[s] # "quit", st # "starting", st # "quit",
         over = {} => Deleted(e.seq, done)
  PROVE  TextsInv'
<1>1. /\ crdt \in [Sites -> Engine] /\ applied \in [Sites -> SUBSET Operation]
      /\ overtaken = [t \in Sites |-> overtaken[t]]
      /\ status \in [Sites -> {"starting", "script", "quit", "died"}]
  BY DEF TrialInv, IInv, TypeOK, TrialTypeOK, TextsInv, HistoryTypes
<1>2. \A t \in Sites : /\ crdt'[t] = (IF t = s THEN e ELSE crdt[t])
                       /\ applied'[t] = (IF t = s THEN done ELSE applied[t])
                       /\ status'[t] = (IF t = s THEN st ELSE status[t])
  BY <1>1
<1>3. \A t \in Sites : overtaken'[t] = (IF t = s THEN over ELSE overtaken[t])
  BY <1>1
<1>4. HistoryTypes'
  BY <1>1 DEF TextsInv, HistoryTypes
<1>5. NotOvertaken'
  BY <1>2, <1>3 DEF TextsInv, NotOvertaken
<1>6. NothingApplied'
  BY <1>2 DEF TextsInv, NothingApplied
<1>7. DumpsInv'
  BY <1>2 DEF TextsInv, DumpsInv
<1> QED
  BY <1>4, <1>5, <1>6, <1>7 DEF TextsInv

\* The facts about one site that these steps start from.
LEMMA SiteTexts ==
  ASSUME TrialInv, TextsInv, NEW s \in Sites
  PROVE  /\ EngineOK(crdt[s]) /\ s \in Nat
         /\ crdt = [crdt EXCEPT ![s] = crdt[s]]
         /\ applied = [applied EXCEPT ![s] = applied[s]]
         /\ overtaken = [overtaken EXCEPT ![s] = overtaken[s]]
         /\ status = [status EXCEPT ![s] = status[s]]
         /\ overtaken[s] = {} => Deleted(crdt[s].seq, applied[s])
<1>1. /\ crdt \in [Sites -> Engine] /\ applied \in [Sites -> SUBSET Operation]
      /\ status \in [Sites -> {"starting", "script", "quit", "died"}]
  BY DEF TrialInv, IInv, TypeOK, TrialTypeOK
<1>2. overtaken = [t \in Sites |-> overtaken[t]]
  BY DEF TextsInv, HistoryTypes
<1>3. overtaken = [overtaken EXCEPT ![s] = overtaken[s]]
  BY <1>2
<1>4. EngineOK(crdt[s]) /\ s \in Nat
  BY SitesAssumption DEF TrialInv, IInv, EnginesInv
<1>5. overtaken[s] = {} => Deleted(crdt[s].seq, applied[s])
  BY DEF TextsInv, NotOvertaken
<1> QED
  BY <1>1, <1>3, <1>4, <1>5

LEMMA StartTexts ==
  ASSUME TrialInv, HistoryInv, TextsInv, NEW s \in Sites, Start(s)
  PROVE  HistoryInv' /\ TextsInv'
<1>1. /\ status[s] = "starting"
      /\ status' = [status EXCEPT ![s] = "script"]
      /\ dump' = dump /\ dumped' = dumped
  BY DEF Start
<1>2. CASE UNCHANGED <<vars, overtaken>>
  <2>1. HistoryInv'
    <3>1. UNCHANGED vars
      BY <1>2
    <3> QED
      BY <3>1, NextHistory DEF TrialInv
  <2>2. /\ crdt' = [crdt EXCEPT ![s] = crdt[s]]
        /\ applied' = [applied EXCEPT ![s] = applied[s]]
        /\ overtaken' = [overtaken EXCEPT ![s] = overtaken[s]]
    BY <1>2, SiteTexts DEF vars
  <2>3. overtaken[s] = {} => Deleted(crdt[s].seq, applied[s])
    BY SiteTexts
  <2>4. TextsInv'
    BY <1>1, <2>2, <2>3, TextsAgain
  <2> QED
    BY <2>1, <2>4
<1>3. ASSUME NEW donor \in Sites, LoadState(s, donor) PROVE HistoryInv' /\ TextsInv'
  <2> DEFINE e == crdt[donor]
             queue == pending[s]
             done == applied[donor]
  <2>1. applied[s] = {}
    BY <1>1 DEF TextsInv, NothingApplied
  <2>2. /\ crdt' = [crdt EXCEPT ![s] = e]
        /\ applied' = [applied EXCEPT ![s] = @ \cup done]
        /\ overtaken' = [overtaken EXCEPT ![s] = overtaken[donor]]
        /\ pending' = pending
    BY <1>3 DEF LoadState
  <2>3. pending' = [pending EXCEPT ![s] = queue]
    BY <2>2, SiteFields
  <2>4. /\ done \subseteq Issued /\ queue \in Seq(Inserts(Issued))
        /\ applied[s] \cup done = done
    BY <2>1 DEF HistoryInv, PendingInv, Issued
  <2>5. Holds(e.seq, done) /\ (DeletesInOrder => Deleted(e.seq, done))
    BY DEF HistoryInv, ListsInv
  <2>6. overtaken[donor] = {} => Deleted(e.seq, done)
    BY DEF TextsInv, NotOvertaken
  <2> HIDE DEF e, queue, done
  <2>7. applied' = [applied EXCEPT ![s] = done]
    BY <2>2, <2>4
  <2>8. HistoryInv'
    <3>1. /\ Holds(e.seq, applied[s] \cup done)
          /\ DeletesInOrder => Deleted(e.seq, applied[s] \cup done)
      BY <2>4, <2>5
    <3>2. IInv
      BY DEF TrialInv
    <3> QED
      BY <2>2, <2>3, <2>4, <3>1, <3>2, ReceiverHistory, ZenonT(60)
  <2>9. TextsInv'
    BY <1>1, <2>2, <2>6, <2>7, TextsAgain
  <2> QED
    BY <2>8, <2>9
<1> QED
  BY <1>2, <1>3 DEF Start

LEMMA LineTexts ==
  ASSUME TrialInv, HistoryInv, TextsInv, NEW s \in Sites,
         ScriptInsert(s) \/ ScriptDelete(s) \/ ScriptDies(s)
  PROVE  HistoryInv' /\ TextsInv'
<1>1. status[s] = "script" /\ overtaken' = overtaken /\ dump' = dump /\ dumped' = dumped
  BY DEF ScriptInsert, ScriptDelete, ScriptDies, ScriptLine
<1>2. overtaken' = [overtaken EXCEPT ![s] = overtaken[s]]
  BY <1>1, SiteTexts
<1>3. IInv
  BY DEF TrialInv
<1>4. CASE ScriptInsert(s)
  <2>1. PICK pos : Insert(s, pos)
    BY <1>4 DEF ScriptInsert
  <2> DEFINE edit == LocalInsert(crdt[s], s, pos)
             done == applied[s] \cup {edit.op}
  <2>2. /\ crdt' = [crdt EXCEPT ![s] = edit.engine]
        /\ applied' = [applied EXCEPT ![s] = done]
    BY <2>1 DEF Insert, Commit
  <2>3. Deleted(crdt[s].seq, applied[s]) => Deleted(edit.engine.seq, applied[s] \cup {edit.op})
    BY SiteTexts, LocalInsertHolds
  <2> HIDE DEF edit
  <2>4. overtaken[s] = {} => Deleted(edit.engine.seq, done)
    BY <2>3, SiteTexts
  <2> HIDE DEF done
  <2>5. status' = [status EXCEPT ![s] = "script"]
    BY <1>1, <1>4, SiteTexts DEF ScriptInsert
  <2>6. HistoryInv'
    BY <1>3, <2>1, InsertHistory
  <2> DEFINE e == edit.engine
  <2>7. /\ crdt' = [crdt EXCEPT ![s] = e]
        /\ applied' = [applied EXCEPT ![s] = done]
        /\ overtaken[s] = {} => Deleted(e.seq, done)
    BY <2>2, <2>4
  <2> HIDE DEF e
  <2>8. TextsInv'
    BY <1>1, <1>2, <2>5, <2>7, TextsAgain
  <2> QED
    BY <2>6, <2>8
<1>5. CASE ScriptDelete(s)
  <2>1. PICK pos : Delete(s, pos)
    BY <1>5 DEF ScriptDelete
  <2> DEFINE edit == LocalDelete(crdt[s], pos)
             done == applied[s] \cup {edit.op}
  <2>2. /\ VisibleIter(crdt[s].seq, pos) # {}
        /\ crdt' = [crdt EXCEPT ![s] = edit.engine]
        /\ applied' = [applied EXCEPT ![s] = done]
    BY <2>1 DEF Delete, Commit
  <2>3. Deleted(crdt[s].seq, applied[s]) => Deleted(edit.engine.seq, applied[s] \cup {edit.op})
    BY <2>2, SiteTexts, LocalDeleteHolds
  <2> HIDE DEF edit
  <2>4. overtaken[s] = {} => Deleted(edit.engine.seq, done)
    BY <2>3, SiteTexts
  <2> HIDE DEF done
  <2>5. status' = [status EXCEPT ![s] = "script"]
    BY <1>1, <1>5, SiteTexts DEF ScriptDelete
  <2>6. HistoryInv'
    BY <1>3, <2>1, DeleteHistory
  <2> DEFINE e == edit.engine
  <2>7. /\ crdt' = [crdt EXCEPT ![s] = e]
        /\ applied' = [applied EXCEPT ![s] = done]
        /\ overtaken[s] = {} => Deleted(e.seq, done)
    BY <2>2, <2>4
  <2> HIDE DEF e
  <2>8. TextsInv'
    BY <1>1, <1>2, <2>5, <2>7, TextsAgain
  <2> QED
    BY <2>6, <2>8
<1>6. CASE ScriptDies(s)
  <2>1. PICK pos : DeleteOutOfRange(s, pos)
    BY <1>6 DEF ScriptDies
  <2> DEFINE e == LocalDeleteThrows(crdt[s])
  <2>2. crdt' = [crdt EXCEPT ![s] = e] /\ applied' = [applied EXCEPT ![s] = applied[s]]
    BY <2>1, SiteTexts DEF DeleteOutOfRange
  <2>3. e.seq = crdt[s].seq
    BY SiteTexts, LocalDeleteThrowsOK
  <2> HIDE DEF e
  <2>4. overtaken[s] = {} => Deleted(e.seq, applied[s])
    BY <2>3, SiteTexts
  <2>5. status' = [status EXCEPT ![s] = "died"]
    BY <1>6 DEF ScriptDies
  <2>6. HistoryInv'
    BY <1>3, <2>1, DeleteOutOfRangeHistory
  <2>7. TextsInv'
    BY <1>1, <1>2, <2>2, <2>4, <2>5, TextsAgain
  <2> QED
    BY <2>6, <2>7
<1> QED
  BY <1>4, <1>5, <1>6

LEMMA DumpTexts ==
  ASSUME TrialInv, HistoryInv, TextsInv, NEW s \in Sites, Dump(s)
  PROVE  HistoryInv' /\ TextsInv'
<1>1. /\ UNCHANGED <<vars, overtaken>>
      /\ dump' = [dump EXCEPT ![s] = GetDocument(crdt[s].seq)]
      /\ dumped' = [dumped EXCEPT ![s] = applied[s]]
      /\ status' = [status EXCEPT ![s] = "quit"]
  BY DEF Dump
<1>2. /\ status \in [Sites -> {"starting", "script", "quit", "died"}]
      /\ dump = [t \in Sites |-> dump[t]] /\ dumped = [t \in Sites |-> dumped[t]]
  BY DEF TrialInv, TrialTypeOK, TextsInv, HistoryTypes
<1>3. UNCHANGED <<crdt, applied, overtaken>> /\ UNCHANGED vars
  BY <1>1 DEF vars
<1>4. HistoryInv'
  BY <1>3, NextHistory DEF TrialInv
<1>5. HistoryTypes'
  BY <1>1, <1>2 DEF TextsInv, HistoryTypes
<1>6. NotOvertaken'
  BY <1>3 DEF TextsInv, NotOvertaken
<1>7. \A t \in Sites : status'[t] = (IF t = s THEN "quit" ELSE status[t])
  BY <1>1, <1>2
<1>8. \A t \in Sites :
        /\ dump'[t] = (IF t = s THEN GetDocument(crdt[s].seq) ELSE dump[t])
        /\ dumped'[t] = (IF t = s THEN applied[s] ELSE dumped[t])
  BY <1>1, <1>2
<1>9. NothingApplied'
  BY <1>3, <1>7 DEF TextsInv, NothingApplied
<1>10. DumpsInv'
  BY <1>3, <1>7, <1>8 DEF TextsInv, DumpsInv
<1> QED
  BY <1>4, <1>5, <1>6, <1>9, <1>10 DEF TextsInv

LEMMA TakeInTexts ==
  ASSUME TrialInv, HistoryInv, TextsInv, NEW s \in Sites, TakeIn(s)
  PROVE  HistoryInv' /\ TextsInv'
<1>1. PICK op \in BagToSet(net[s]) :
        /\ Arrives(s, op)
        /\ Park(s, op) \/ Apply(s, op)
        /\ overtaken' = IF op.type = "DELETE"
                        THEN [overtaken EXCEPT ![s] = @ \cup ({op.id} \ Ids(crdt[s].seq))]
                        ELSE overtaken
  BY DEF TakeIn
<1>2. status[s] = "script" /\ status' = status /\ dump' = dump /\ dumped' = dumped
  BY DEF TakeIn
<1>3. IInv
  BY DEF TrialInv
<1>4. HistoryInv'
  <2>1. Receive(s)
    BY <1>1 DEF Receive
  <2> QED
    BY <1>3, <2>1, ReceiveHistory
<1>5. op \in Issued
  BY <1>1, <1>3 DEF IInv, TransitInv, BagToSet
<1>6. status' = [status EXCEPT ![s] = "script"]
  BY <1>2, SiteTexts
<1> DEFINE over == IF op.type = "DELETE" THEN overtaken[s] \cup ({op.id} \ Ids(crdt[s].seq))
                   ELSE overtaken[s]
<1>7. overtaken' = [overtaken EXCEPT ![s] = over]
  BY <1>1, SiteTexts
<1>8. over = {} => /\ Deleted(crdt[s].seq, applied[s])
                   /\ op.type = "DELETE" => op.id \in Ids(crdt[s].seq)
  <2>1. over = {} => overtaken[s] = {} /\ (op.type = "DELETE" => op.id \in Ids(crdt[s].seq))
    OBVIOUS
  <2> QED
    BY <2>1, SiteTexts
<1> HIDE DEF over
<1>9. CASE Park(s, op)
  <2>1. crdt' = [crdt EXCEPT ![s] = crdt[s]] /\ applied' = [applied EXCEPT ![s] = applied[s]]
    BY <1>9, SiteTexts DEF Park
  <2> QED
    BY <1>2, <1>4, <1>6, <1>7, <1>8, <2>1, TextsAgain
<1>10. CASE Apply(s, op)
  <2> DEFINE d == DrainPending(ApplyRemote(crdt[s], op), pending[s], {op})
             done == applied[s] \cup d.notified
             inOrder == over = {}
  <2>1. /\ CanApply(crdt[s], op)
        /\ crdt' = [crdt EXCEPT ![s] = d.crdt]
        /\ applied' = [applied EXCEPT ![s] = done]
    BY <1>10 DEF Apply
  <2>2. inOrder => /\ Deleted(crdt[s].seq, applied[s])
                   /\ op.type = "DELETE" => op.id \in Ids(crdt[s].seq)
    BY <1>8
  <2> HIDE DEF inOrder, d
  <2>3. d \in HoldingStates(Issued, crdt[s].clock, applied[s], inOrder)
    BY <1>3, <1>5, <2>1, <2>2, ApplyDrains DEF d
  <2>4. inOrder => Deleted(d.crdt.seq, done)
    BY <2>3, HoldingStateFields
  <2> HIDE DEF done
  <2> QED
    BY <1>2, <1>4, <1>6, <1>7, <2>1, <2>4, TextsAgain DEF inOrder
<1> QED
  BY <1>1, <1>9, <1>10

LEMMA TrialNextTexts ==
  ASSUME TrialInv, HistoryInv, TextsInv, [TrialNext]_<<vars, trialVars>>
  PROVE  HistoryInv' /\ TextsInv'
<1>1. CASE UNCHANGED <<vars, trialVars>>
  <2>1. UNCHANGED vars /\ UNCHANGED <<crdt, applied, status, overtaken, dump, dumped>>
    BY <1>1 DEF vars, trialVars
  <2>2. HistoryInv'
    BY <2>1, NextHistory DEF TrialInv
  <2>3. TextsInv'
    BY <2>1 DEF TextsInv, HistoryTypes, NotOvertaken, NothingApplied, DumpsInv
  <2> QED
    BY <2>2, <2>3
<1> QED
  BY <1>1, StartTexts, LineTexts, DumpTexts, TakeInTexts DEF TrialNext

\* Two editors that have quit, with the same operations applied and none that
\* came ahead of its INSERT, have written the same dump.
LEMMA SameDumps ==
  ASSUME TrialInv, HistoryInv, TextsInv, NEW r \in Sites, NEW s \in Sites,
         status[r] = "quit", status[s] = "quit", dumped[r] = dumped[s],
         overtaken[r] = {}, overtaken[s] = {}
  PROVE  dump[r] = dump[s]
<1>1. /\ dump[r] = GetDocument(crdt[r].seq) /\ dump[s] = GetDocument(crdt[s].seq)
      /\ applied[r] = applied[s]
  BY DEF TextsInv, DumpsInv
<1>2. WellFormed(crdt[r].seq) /\ WellFormed(crdt[s].seq)
  BY SiteTexts DEF EngineOK
<1>3. SameLefts(crdt[r].seq, crdt[s].seq) /\ SameLefts(crdt[s].seq, crdt[r].seq)
  BY ListsAgree DEF TrialInv
<1>4. /\ Holds(crdt[r].seq, applied[r]) /\ Deleted(crdt[r].seq, applied[r])
      /\ Holds(crdt[s].seq, applied[r]) /\ Deleted(crdt[s].seq, applied[r])
  BY <1>1, SiteTexts DEF HistoryInv, ListsInv
<1>5. crdt[r].seq = crdt[s].seq
  BY <1>2, <1>3, <1>4, SameOperationsSameList
<1> QED
  BY <1>1, <1>5

\* Every list starts as the empty one does.
LEMMA NewMovesOn ==
  ASSUME NEW e, EngineOK(e)
  PROVE  MovesOn(NewEngine, e)
<1>1. /\ e.clock \in Nat /\ Len(e.seq) \in Nat \ {0} /\ DOMAIN e.seq = 1 .. Len(e.seq)
      /\ e.seq[1].id = SENTINEL_ID /\ e.seq[1].tomb
  BY EngineFields, IdsAreCharIDs DEF EngineOK, WellFormed, SentinelFirst
<1>2. /\ NewEngine.clock = 0 /\ DOMAIN NewEngine.seq = {1}
      /\ NewEngine.seq[1].id = SENTINEL_ID
  BY DEF NewEngine
<1>3. 1 \in 1 .. Len(e.seq)
  BY <1>1
<1>4. Grows(NewEngine.seq, e.seq)
  BY <1>1, <1>2, <1>3 DEF Grows
<1> QED
  BY <1>1, <1>2, <1>4 DEF MovesOn

\* Two of the dumps that are compared differ when a trial fails.
LEMMA FailsByTwo ==
  ASSUME TextsInv, ~Passes(ThisTrial), Cardinality(DOMAIN read_dumps(ThisTrial)) >= 2
  PROVE  \E r, s \in Sites : dump[r] # <<>> /\ dump[s] # <<>> /\ dump[r] # dump[s]
<1> DEFINE dumps == read_dumps(ThisTrial)
           D == {s \in Sites : dump[s] # <<>>}
<1>1. DOMAIN dump = Sites
  BY DEF TextsInv, HistoryTypes
<1>2. ThisTrial.dumps = dump
  BY DEF ThisTrial
<1>3. dumps = [s \in D |-> dump[s]]
  BY <1>1, <1>2 DEF read_dumps, RestrictValues, Restrict
<1>4. Diffs(dumps) # {}
  BY DEF Passes
<1> HIDE DEF dumps
<1>5. PICK s \in D : dump[s] # Reference(dumps)
  BY <1>3, <1>4 DEF Diffs
<1>6. Min(D) \in D
  <2>1. D \subseteq Nat /\ D # {}
    BY <1>5, SitesAssumption
  <2>2. \E m \in D : \A n \in D : m <= n
    BY <2>1, NatLeast
  <2> QED
    BY <2>2 DEF Min
<1>7. Reference(dumps) = dump[Min(D)]
  BY <1>3, <1>6 DEF Reference
<1> QED
  BY <1>5, <1>6, <1>7

-----------------------------------------------------------------------------
(* The theorems.                                                           *)

\* The invariant holds of every state of a trial.
THEOREM TrialInvariance == TrialSpec => []TrialInv
<1>1. TrialInit => TrialInv
  BY TrialInitOK
<1>2. TrialInv /\ [TrialNext]_<<vars, trialVars>> => TrialInv'
  BY TrialNextOK
<1> QED
  BY <1>1, <1>2, PTL DEF TrialSpec

\* The script and the histories of a trial keep their types; the length the
\* generator counts never goes below zero.
THEOREM TrialTypeCorrect == TrialSpec => []TrialTypeOK
<1>1. TrialInv => TrialTypeOK
  BY DEF TrialInv
<1> QED
  BY <1>1, TrialInvariance, PTL

\* An editor dies of a script's DELETE only after a DELETE of another came in.
THEOREM ScriptsFit == TrialSpec => []ScriptFits
<1>1. TrialInv => ScriptFits
  BY DEF TrialInv
<1> QED
  BY <1>1, TrialInvariance, PTL

\* What the editors of a trial show and dump.
THEOREM TextsInvariance == TrialSpec => [](HistoryInv /\ TextsInv)
<1>1. TrialInit => HistoryInv /\ TextsInv
  BY InitHistory, TrialInitTexts DEF TrialInit
<1>2. TrialInv /\ HistoryInv /\ TextsInv /\ [TrialNext]_<<vars, trialVars>>
        => HistoryInv' /\ TextsInv'
  BY TrialNextTexts
<1> QED
  BY <1>1, <1>2, TrialInvariance, PTL DEF TrialSpec

\* A trial with two dumps or more fails only because an operation of one
\* editor was missing at another when it wrote its dump, or because a DELETE
\* came in ahead of its INSERT: however many editors, whatever they typed.
THEOREM TrialsFailOfNetwork == TrialSpec => []WhyTrialFails
<1>1. TrialInv /\ HistoryInv /\ TextsInv => WhyTrialFails
  <2> SUFFICES ASSUME TrialInv, HistoryInv, TextsInv, Ended, ~Passes(ThisTrial),
                      Cardinality(DOMAIN read_dumps(ThisTrial)) >= 2,
                      \A r, s \in Sites \ Died : dumped[r] = dumped[s],
                      \A s \in Sites \ Died : overtaken[s] = {}
               PROVE  FALSE
    BY DEF WhyTrialFails
  <2>1. PICK r \in Sites, s \in Sites :
          dump[r] # <<>> /\ dump[s] # <<>> /\ dump[r] # dump[s]
    BY FailsByTwo
  <2>2. status[r] = "quit" /\ status[s] = "quit"
    BY <2>1 DEF TextsInv, DumpsInv
  <2>3. r \notin Died /\ s \notin Died
    BY <2>2 DEF Died
  <2>4. dump[r] = dump[s]
    BY <2>2, <2>3, SameDumps
  <2> QED
    BY <2>1, <2>4
<1> QED
  BY <1>1, TrialInvariance, TextsInvariance, PTL

\* No step of a trial takes a node out of a list, changes the order of two or
\* brings a deleted character back: loading a document is no exception, since
\* the one it replaces is empty.
THEOREM TrialsUndoNothing == TrialSpec => NothingUndone
<1>1. ASSUME TrialInv, [TrialNext]_<<vars, trialVars>>
      PROVE  UNCHANGED vars \/ \A s \in Sites : MovesOn(crdt[s], crdt'[s])
  <2>1. IInv
    BY <1>1 DEF TrialInv
  <2>2. CASE UNCHANGED <<vars, trialVars>>
    BY <2>2 DEF vars
  <2>3. ASSUME NEW s \in Sites, ScriptInsert(s) \/ ScriptDelete(s) \/ ScriptDies(s)
        PROVE  \A t \in Sites : MovesOn(crdt[t], crdt'[t])
    <3>1. PICK pos : Insert(s, pos) \/ Delete(s, pos) \/ DeleteOutOfRange(s, pos)
      BY <2>3 DEF ScriptInsert, ScriptDelete, ScriptDies
    <3> QED
      BY <2>1, <3>1, EditMovesOn, OneMovesOn
  <2>4. ASSUME NEW s \in Sites, TakeIn(s)
        PROVE  \A t \in Sites : MovesOn(crdt[t], crdt'[t])
    <3>1. Receive(s)
      BY <2>4 DEF TakeIn, Receive
    <3> QED
      BY <2>1, <3>1, ReceiveMovesOn, OneMovesOn
  <2>5. ASSUME NEW s \in Sites, Dump(s) PROVE UNCHANGED vars
    BY <2>5 DEF Dump
  <2>6. ASSUME NEW s \in Sites, NEW donor \in Sites, status[s] = "starting",
               LoadState(s, donor)
        PROVE  \A t \in Sites : MovesOn(crdt[t], crdt'[t])
    <3>1. crdt' = [crdt EXCEPT ![s] = crdt[donor]]
      BY <2>6 DEF LoadState
    <3>2. crdt[s] = NewEngine
      BY <1>1, <2>6, SiteFields
    <3>3. EngineOK(crdt[donor])
      BY <1>1, SiteFields
    <3>4. MovesOn(crdt[s], crdt[donor])
      BY <3>2, <3>3, NewMovesOn
    <3> QED
      BY <2>1, <3>1, <3>4, OneMovesOn
  <2>7. ASSUME NEW s \in Sites, Start(s)
        PROVE  UNCHANGED vars \/ \A t \in Sites : MovesOn(crdt[t], crdt'[t])
    <3>1. status[s] = "starting" /\ (UNCHANGED vars \/ \E donor \in Sites : LoadState(s, donor))
      BY <2>7 DEF Start
    <3> QED
      BY <2>6, <3>1
  <2> QED
    BY <1>1, <2>2, <2>3, <2>4, <2>5, <2>7 DEF TrialNext
<1>2. TrialInv /\ [TrialNext]_<<vars, trialVars>> =>
        [\A s \in Sites : LET old == crdt[s].seq  new == crdt'[s].seq IN
           /\ crdt[s].clock <= crdt'[s].clock
           /\ \A i \in DOMAIN old : \E k \in i .. Len(new) :
                new[k].id = old[i].id /\ (old[i].tomb => new[k].tomb)
           /\ \A i, j \in DOMAIN old :
                i < j => Idx(new, old[i].id) < Idx(new, old[j].id)]_vars
  BY <1>1 DEF MovesOn, Grows
<1> QED
  BY <1>2, TrialInvariance, PTL DEF TrialSpec, NothingUndone
=============================================================================
