--------------------------- MODULE CursorProofs ---------------------------
(***************************************************************************)
(* With any number of other editors, any network and any keys: only an      *)
(* operation applied while a key is handled makes that key kill the editor, *)
(* wherever the cursor has drifted to; and at rest the cursor is where it   *)
(* was placed unless one of the three known reasons has moved it.           *)
(***************************************************************************)
EXTENDS Cursor, ReplicationProofs

-----------------------------------------------------------------------------
(* The inductive invariant.                                                *)

Busy == [at : {"read", "edit", "set", "tell", "dead"}, key : Keys,
         len : Nat, pos : Nat, raced : BOOLEAN]

CursorType ==
  /\ cursor \in Nat
  /\ callbacks \in Seq(Notes)
  /\ handler = Idle \/ handler \in Busy

\* Unless it has been raced, the handler knows the size of the text until it
\* edits, and every edit is within the size it knows.
SizeKnown ==
  handler \in Busy =>
    /\ handler.at \in {"read", "edit"} /\ ~handler.raced => handler.len = Size
    /\ handler.at = "edit" /\ handler.key = "Backspace" =>
         handler.pos > 0 /\ handler.pos <= handler.len
    /\ handler.at = "edit" /\ handler.key = "Delete" => handler.pos < handler.len

CursorInv == IInv /\ CursorType /\ SizeKnown /\ DiesOfRaceOnly

-----------------------------------------------------------------------------
(* What the callbacks are handed.                                          *)

LEMMA SizeIsNat ==
  ASSUME IInv
  PROVE  crdt[User].seq \in Seq(Node) /\ Size \in Nat
<1>1. EngineOK(crdt[User])
  BY UserAssumption DEF IInv, EnginesInv
<1>2. crdt[User].seq \in Seq(Node)
  BY <1>1, EngineFields
<1> QED
  BY <1>2, PlacesFinite DEF Size

LEMMA NoteType ==
  ASSUME NEW op \in Operation, NEW e, NEW new, EngineOK(new)
  PROVE  Note(op, e, new) \in Notes
<1> DEFINE offset == VisibleOffsetOf(new.seq, op.id)
           again == GetDocument(e.seq) = GetDocument(new.seq)
<1>1. offset \in Int
  <2>1. CASE op.id \in Ids(new.seq)
    <3> DEFINE i == Idx(new.seq, op.id)
               B == {j \in 1 .. i - 1 : ~new.seq[j].tomb}
    <3>1. new.seq \in Seq(Node)
      BY EngineFields
    <3>2. i \in DOMAIN new.seq
      BY <2>1, <3>1, IdxIsPlace
    <3>3. i - 1 \in Int
      BY <3>1, <3>2
    <3>4. IsFiniteSet(1 .. i - 1) /\ B \subseteq 1 .. i - 1
      BY <3>3, FS_Interval
    <3>5. Cardinality(B) \in Nat
      <4> HIDE DEF B, i
      <4> QED
        BY <3>4, FS_Subset, FS_CardinalityType
    <3>6. offset = Cardinality(B)
      BY <2>1 DEF VisibleOffsetOf, VisibleBefore
    <3> QED
      BY <3>5, <3>6
  <2>2. CASE op.id \notin Ids(new.seq)
    BY <2>2 DEF VisibleOffsetOf
  <2> QED
    BY <2>1, <2>2
<1>2. again \in BOOLEAN
  OBVIOUS
<1>3. op.type \in {"INSERT", "DELETE"}
  BY DEF Operation
<1>4. Note(op, e, new) = [type |-> op.type, offset |-> offset, moved |-> FALSE,
                          again |-> again]
  BY DEF Note
<1> HIDE DEF offset, again
<1> QED
  BY <1>1, <1>2, <1>3, <1>4 DEF Notes

LEMMA NotedStepOK ==
  ASSUME NEW ops, \A op \in ops : OpOK(op), NEW floor \in Nat,
         NEW d \in DrainStates(ops, floor), NEW notes \in Seq(Notes)
  PROVE  NotedStep[<<d, notes>>] \in DrainStates(ops, floor) \X Seq(Notes)
<1> DEFINE next == ScanStep[d]
<1>1. next \in DrainStates(ops, floor)
  BY ScanStepOK
<1>2. /\ d \in Scan /\ d.pending \in Seq(ops) /\ d.at \in Nat \ {0}
      /\ d = [crdt |-> d.crdt, pending |-> d.pending, at |-> d.at,
              progress |-> d.progress, notified |-> d.notified]
  BY DrainStateFields
<1>3. EngineOK(next.crdt)
  <2> HIDE DEF next
  <2> QED
    BY <1>1, DrainStateFields
<1> DEFINE op == d.pending[d.at]
<1>4. NotedStep[<<d, notes>>] =
        IF Len(next.pending) < Len(d.pending)
        THEN <<next, Append(notes, Note(op, d.crdt, next.crdt))>>
        ELSE <<next, notes>>
  BY <1>2 DEF NotedStep
<1>5. CASE Len(next.pending) < Len(d.pending)
  <2>1. d.at <= Len(d.pending)
    <3> SUFFICES ASSUME ~(d.at <= Len(d.pending)) PROVE FALSE
      OBVIOUS
    <3>1. next.pending = d.pending
      BY <1>2 DEF ScanStep
    <3> HIDE DEF next
    <3> QED
      BY <1>2, <1>5, <3>1
  <2>2. op \in Operation
    BY <1>2, <2>1, ElementOfSeq DEF OpOK
  <2> HIDE DEF next, op
  <2> DEFINE note == Note(op, d.crdt, next.crdt)
  <2>3. note \in Notes
    BY <1>3, <2>2, NoteType
  <2>4. NotedStep[<<d, notes>>] = <<next, Append(notes, note)>>
    BY <1>4, <1>5
  <2> HIDE DEF note
  <2>5. Append(notes, note) \in Seq(Notes)
    BY <2>3
  <2> DEFINE longer == Append(notes, note)
  <2> HIDE DEF longer
  <2>6. <<next, longer>> \in DrainStates(ops, floor) \X Seq(Notes)
    BY <1>1, <2>5 DEF longer
  <2> QED
    BY <2>4, <2>6 DEF longer
<1>6. CASE ~(Len(next.pending) < Len(d.pending))
  <2> HIDE DEF next, op
  <2> QED
    BY <1>1, <1>4, <1>6
<1> QED
  BY <1>5, <1>6

\* Two iterations in step, one with something added.
InStep(S, start, step, R, first, under) ==
  /\ start \in S /\ first \in R /\ start[1] = first
  /\ \A x \in S : step[x] \in S /\ step[x][1] = under[x[1]]
  /\ \A d \in R : under[d] \in R

Matched(S, start, step, first, under, N) ==
  LET scan[n \in Nat] == IF n = 0 THEN start ELSE step[scan[n - 1]]
      plain[n \in Nat] == IF n = 0 THEN first ELSE under[plain[n - 1]]
  IN  scan[N] \in S /\ scan[N][1] = plain[N]

LEMMA IteratesMatch ==
  ASSUME NEW S, NEW start, NEW step, NEW R, NEW first, NEW under,
         InStep(S, start, step, R, first, under), NEW N \in Nat
  PROVE  Matched(S, start, step, first, under, N)
<1>0. /\ start \in S /\ first \in R /\ start[1] = first
      /\ \A x \in S : step[x] \in S /\ step[x][1] = under[x[1]]
      /\ \A d \in R : under[d] \in R
  BY DEF InStep
<1> DEFINE scan[n \in Nat] == IF n = 0 THEN start ELSE step[scan[n - 1]]
           plain[n \in Nat] == IF n = 0 THEN first ELSE under[plain[n - 1]]
<1>1. /\ scan[0] = start
      /\ \A n \in Nat : scan[n] \in S /\ scan[n + 1] = step[scan[n]]
  <2>1. start \in S /\ \A x \in S : step[x] \in S
    BY <1>0
  <2> QED
    BY <2>1, IterationFacts
<1>2. /\ plain[0] = first
      /\ \A n \in Nat : plain[n] \in R /\ plain[n + 1] = under[plain[n]]
  <2>1. first \in R /\ \A d \in R : under[d] \in R
    BY <1>0
  <2> QED
    BY <2>1, IterationFacts
<1> HIDE DEF scan, plain
<1> DEFINE T == {n \in Nat : scan[n][1] = plain[n]}
<1>3. 0 \in T
  BY <1>0, <1>1, <1>2
<1>4. \A n \in Nat : n \in T => n + 1 \in T
  BY <1>0, <1>1, <1>2
<1>5. N \in T
  <2> HIDE DEF T
  <2> QED
    BY <1>3, <1>4, NatInductionSet
<1>6. scan[N] \in S /\ scan[N][1] = plain[N]
  BY <1>1, <1>5
<1> QED
  BY <1>6 DEF scan, plain, Matched

-----------------------------------------------------------------------------
(* What a note says of the text.                                           *)

\* The text is U after what is noted, and was T before; no character of B is
\* new.  Once the cursor has been moved for it, a note says nothing more.
Linked(note, T, U, B) ==
  IF note.moved THEN U = T
  ELSE \/ note.again /\ U = T
       \/ note.type = "INSERT" /\ Widened(T, U, note.offset) /\ U[note.offset + 1] \notin B
       \/ note.type = "DELETE" /\ Widened(U, T, note.offset)

\* What is noted leads from T to U, one note after the other.
Joined(notes, T, U, B) ==
  \E texts \in [1 .. Len(notes) + 1 -> Seq(CharID)] :
    /\ texts[1] = T /\ texts[Len(notes) + 1] = U
    /\ \A i \in 1 .. Len(notes) : Linked(notes[i], texts[i], texts[i + 1], B)

LEMMA JoinedNone ==
  ASSUME NEW T \in Seq(CharID), NEW U, NEW B
  PROVE  Joined(<<>>, T, U, B) <=> T = U
<1> DEFINE texts == [i \in 1 .. 1 |-> T]
<1>1. Len(<<>>) = 0 /\ 0 + 1 = 1 /\ 1 \in 1 .. 1
  OBVIOUS
<1>2. texts \in [1 .. 1 -> Seq(CharID)] /\ texts[1] = T
  OBVIOUS
<1> HIDE DEF texts
<1>3. T = U => Joined(<<>>, T, U, B)
  BY <1>1, <1>2 DEF Joined
<1>4. Joined(<<>>, T, U, B) => T = U
  BY <1>1 DEF Joined
<1> QED
  BY <1>3, <1>4

LEMMA JoinedAppend ==
  ASSUME NEW notes \in Seq(Notes), NEW note \in Notes, NEW T, NEW U, NEW B,
         NEW V \in Seq(CharID), Joined(notes, T, U, B), Linked(note, U, V, B)
  PROVE  Joined(Append(notes, note), T, V, B)
<1> DEFINE n == Len(notes)
           longer == Append(notes, note)
<1>1. PICK texts \in [1 .. n + 1 -> Seq(CharID)] :
        /\ texts[1] = T /\ texts[n + 1] = U
        /\ \A i \in 1 .. n : Linked(notes[i], texts[i], texts[i + 1], B)
  BY DEF Joined
<1>2. /\ n \in Nat /\ Len(longer) = n + 1
      /\ \A i \in 1 .. n : longer[i] = notes[i]
      /\ longer[n + 1] = note
  OBVIOUS
<1> HIDE DEF n, longer
<1> DEFINE more == [i \in 1 .. (n + 1) + 1 |-> IF i <= n + 1 THEN texts[i] ELSE V]
<1>3. /\ more \in [1 .. (n + 1) + 1 -> Seq(CharID)]
      /\ \A i \in 1 .. n + 1 : more[i] = texts[i]
      /\ more[(n + 1) + 1] = V
  BY <1>1, <1>2
<1> HIDE DEF more
<1>4. ASSUME NEW i \in 1 .. n + 1 PROVE Linked(longer[i], more[i], more[i + 1], B)
  <2>1. CASE i <= n
    <3>1. i \in 1 .. n /\ i + 1 \in 1 .. n + 1
      BY <1>2, <2>1
    <3> QED
      BY <1>1, <1>2, <1>3, <3>1
  <2>2. CASE i = n + 1
    BY <1>1, <1>2, <1>3, <2>2
  <2> QED
    BY <1>2, <2>1, <2>2
<1>5. more[1] = T
  BY <1>1, <1>2, <1>3
<1>6. Joined(longer, T, V, B)
  BY <1>2, <1>3, <1>4, <1>5 DEF Joined
<1> QED
  BY <1>6 DEF longer

LEMMA JoinedFirst ==
  ASSUME NEW notes \in Seq(Notes), NEW note \in Notes, NEW T \in Seq(CharID), NEW U,
         NEW B, NEW V, Linked(note, T, U, B), Joined(notes, U, V, B)
  PROVE  Joined(<<note>> \o notes, T, V, B)
<1> DEFINE n == Len(notes)
           longer == <<note>> \o notes
<1>1. PICK texts \in [1 .. n + 1 -> Seq(CharID)] :
        /\ texts[1] = U /\ texts[n + 1] = V
        /\ \A i \in 1 .. n : Linked(notes[i], texts[i], texts[i + 1], B)
  BY DEF Joined
<1>2. /\ n \in Nat /\ Len(longer) = n + 1
      /\ longer[1] = note
      /\ \A i \in 1 .. n : longer[i + 1] = notes[i]
  OBVIOUS
<1> HIDE DEF n, longer
<1> DEFINE more == [i \in 1 .. (n + 1) + 1 |-> IF i = 1 THEN T ELSE texts[i - 1]]
<1>3. /\ more \in [1 .. (n + 1) + 1 -> Seq(CharID)]
      /\ more[1] = T
      /\ \A i \in 1 .. n + 1 : more[i + 1] = texts[i]
  BY <1>1, <1>2
<1> HIDE DEF more
<1>4. ASSUME NEW i \in 1 .. n + 1 PROVE Linked(longer[i], more[i], more[i + 1], B)
  <2>1. CASE i = 1
    <3>1. 1 \in 1 .. n + 1
      BY <1>2
    <3>2. more[1 + 1] = texts[1]
      BY <1>3, <3>1
    <3> QED
      BY <1>1, <1>2, <1>3, <2>1, <3>2
  <2>2. CASE i # 1
    <3>1. PICK k \in 1 .. n : i = k + 1
      <4>1. i - 1 \in 1 .. n /\ i = (i - 1) + 1
        BY <1>2, <2>2
      <4> QED
        BY <4>1
    <3>2. k \in 1 .. n + 1 /\ k + 1 \in 1 .. n + 1
      BY <1>2
    <3>3. more[k + 1] = texts[k] /\ more[(k + 1) + 1] = texts[k + 1] /\ longer[k + 1] = notes[k]
      BY <1>2, <1>3, <3>2
    <3> QED
      BY <1>1, <3>1, <3>3
  <2> QED
    BY <2>1, <2>2
<1>5. more[(n + 1) + 1] = V
  BY <1>1, <1>2, <1>3
<1>6. Joined(longer, T, V, B)
  BY <1>2, <1>3, <1>4, <1>5 DEF Joined
<1> QED
  BY <1>6 DEF longer

LEMMA JoinedRest ==
  ASSUME NEW notes \in Seq(Notes), notes # <<>>, NEW T, NEW V, NEW B,
         Joined(notes, T, V, B)
  PROVE  \E U \in Seq(CharID) :
           Linked(Head(notes), T, U, B) /\ Joined(Tail(notes), U, V, B)
<1> DEFINE n == Len(notes)
           rest == Tail(notes)
<1>1. PICK texts \in [1 .. n + 1 -> Seq(CharID)] :
        /\ texts[1] = T /\ texts[n + 1] = V
        /\ \A i \in 1 .. n : Linked(notes[i], texts[i], texts[i + 1], B)
  BY DEF Joined
<1>2. /\ n \in Nat \ {0} /\ Len(rest) = n - 1
      /\ Head(notes) = notes[1]
      /\ \A i \in 1 .. n - 1 : rest[i] = notes[i + 1]
  OBVIOUS
<1> HIDE DEF n, rest
<1> DEFINE less == [i \in 1 .. (n - 1) + 1 |-> texts[i + 1]]
<1>3. /\ less \in [1 .. (n - 1) + 1 -> Seq(CharID)]
      /\ \A i \in 1 .. n : less[i] = texts[i + 1]
  BY <1>1, <1>2
<1> HIDE DEF less
<1>4. ASSUME NEW i \in 1 .. n - 1 PROVE Linked(rest[i], less[i], less[i + 1], B)
  <2>1. i \in 1 .. n /\ i + 1 \in 1 .. n
    BY <1>2
  <2> QED
    BY <1>1, <1>2, <1>3, <2>1
<1>5. less[1] = texts[2] /\ less[(n - 1) + 1] = V
  <2>1. 1 \in 1 .. n /\ n \in 1 .. n /\ (n - 1) + 1 = n /\ 1 + 1 = 2
    BY <1>2
  <2> QED
    BY <1>1, <1>3, <2>1
<1>6. Joined(rest, texts[2], V, B)
  BY <1>2, <1>3, <1>4, <1>5 DEF Joined
<1>7. texts[2] \in Seq(CharID) /\ Linked(Head(notes), T, texts[2], B)
  <2>1. 1 \in 1 .. n /\ 2 \in 1 .. n + 1 /\ 1 + 1 = 2
    BY <1>2
  <2>2. Linked(notes[1], texts[1], texts[1 + 1], B)
    BY <1>1, <2>1
  <2> QED
    BY <1>1, <1>2, <2>1, <2>2
<1> QED
  BY <1>6, <1>7 DEF rest

\* What is noted of an operation is what it did to the text.
LEMMA NoteLinked ==
  ASSUME NEW e, EngineOK(e), NEW op, OpOK(op), CanApply(e, op),
         NEW new, new = ApplyRemote(e, op), NEW B, B \subseteq Ids(e.seq)
  PROVE  Linked(Note(op, e, new), GetDocument(e.seq), GetDocument(new.seq), B)
<1> DEFINE note == Note(op, e, new)
           old == e.seq
           seq == new.seq
<1>1. /\ WellFormed(old) /\ old \in Seq(Node) /\ EngineOK(new) /\ WellFormed(seq)
      /\ seq \in Seq(Node) /\ Len(old) \in Nat
  BY ApplyRemoteOK, EngineFields DEF EngineOK
<1>2. /\ note.type = op.type /\ ~note.moved
      /\ note.offset = VisibleOffsetOf(seq, op.id)
      /\ note.again = (GetDocument(old) = GetDocument(seq))
  BY DEF Note
<1>3. op.type \in {"INSERT", "DELETE"} /\ op.id \in CharID /\ op.left \in CharID
  BY DEF OpOK, Operation
<1>4. seq = IF op.type = "INSERT" THEN IF op.id \in Ids(old) THEN old
                                       ELSE InsertNode(old, op.id, op.left)
            ELSE IF op.id \in Ids(old) THEN Tombstone(old, Idx(old, op.id)) ELSE old
  BY DEF ApplyRemote
<1>5. op.type = "INSERT" => op.left \in Ids(old)
  BY DEF CanApply
<1> HIDE DEF note, old, seq
<1> SUFFICES Linked(note, GetDocument(old), GetDocument(seq), B)
  BY DEF note, old, seq
<1>6. CASE GetDocument(old) = GetDocument(seq)
  BY <1>2, <1>6 DEF Linked
<1>7. CASE op.type = "INSERT" /\ op.id \notin Ids(old)
  <2> DEFINE p == InsertPos(old, op.id, op.left)
  <2>0. p = InsertPos(old, op.id, op.left) /\ seq = InsertNode(old, op.id, op.left)
    BY <1>4, <1>7
  <2> HIDE DEF p
  <2>1. /\ Len(seq) = Len(old) + 1 /\ p \in 2 .. Len(old) + 1
        /\ \A i \in 1 .. p - 1 : seq[i] = old[i]
        /\ seq[p] = [id |-> op.id, left |-> op.left, tomb |-> FALSE]
        /\ \A i \in p .. Len(old) : seq[i + 1] = old[i]
    BY <1>1, <1>3, <1>5, <1>7, <2>0, InsertNodeShape
  <2>2. seq[p].id = op.id /\ ~seq[p].tomb /\ p \in 1 .. Len(old) + 1
    BY <1>1, <2>1
  <2>3. NodeAdded(old, seq, p)
    BY <1>1, <2>1, <2>2 DEF NodeAdded
  <2>4. PICK pos \in Nat : /\ Widened(GetDocument(old), GetDocument(seq), pos)
                           /\ GetDocument(seq)[pos + 1] = seq[p].id
                           /\ VisibleBefore(seq, p) = pos
    BY <2>3, InsertedSomewhere
  <2>5. p \in 1 .. Len(seq)
    BY <1>1, <2>1
  <2>6. op.id \in Ids(seq) /\ Idx(seq, op.id) = p
    BY <1>1, <2>2, <2>5, IdxOfPlace
  <2>7. note.offset = pos
    BY <1>2, <2>4, <2>6 DEF VisibleOffsetOf
  <2>8. op.id \notin B
    BY <1>7 DEF old
  <2> QED
    BY <1>2, <1>7, <2>2, <2>4, <2>7, <2>8 DEF Linked
<1>8. CASE op.type = "DELETE" /\ op.id \in Ids(old)
  <2> DEFINE i == Idx(old, op.id)
  <2>1. i \in 1 .. Len(old) /\ old[i].id = op.id /\ i \in DOMAIN old
    BY <1>1, <1>8, IdxIsPlace
  <2>2. seq = Tombstone(old, i)
    BY <1>4, <1>8
  <2> HIDE DEF i
  <2> DEFINE node == [old[i] EXCEPT !.tomb = TRUE]
  <2>3. old[i] \in Node
    BY <1>1, <2>1, ElementOfSeq
  <2>4. node \in Node /\ node.id = op.id /\ (old[i].tomb => node = old[i])
    BY <2>1, <2>3 DEF Node
  <2>5. seq = [old EXCEPT ![i] = node]
    BY <2>2 DEF Tombstone
  <2> HIDE DEF node
  <2>6. /\ Len(seq) = Len(old)
        /\ \A j \in 1 .. Len(old) : seq[j] = IF j = i THEN node ELSE old[j]
    BY <1>1, <2>1, <2>4, <2>5, ExceptSeq
  <2>7. CASE old[i].tomb
    <3>1. \A j \in 1 .. Len(old) : seq[j] = old[j]
      BY <2>4, <2>6, <2>7
    <3>2. seq = old
      BY <1>1, <2>6, <3>1, SeqEqual
    <3> QED
      BY <1>6, <3>2
  <2>8. CASE ~old[i].tomb
    <3>1. i \in VisiblePlaces(old)
      BY <2>1, <2>8 DEF VisiblePlaces
    <3>2. /\ VisibleBefore(seq, i) = VisibleBefore(old, i)
          /\ Widened(GetDocument(seq), GetDocument(old), VisibleBefore(old, i))
      BY <1>1, <2>2, <3>1, DeletedText
    <3>3. seq[i].id = op.id /\ i \in 1 .. Len(seq)
      BY <2>1, <2>4, <2>6
    <3>4. op.id \in Ids(seq) /\ Idx(seq, op.id) = i
      BY <1>1, <3>3, IdxOfPlace
    <3>5. note.offset = VisibleBefore(old, i)
      BY <1>2, <3>2, <3>4 DEF VisibleOffsetOf
    <3> QED
      BY <1>2, <1>8, <3>2, <3>5 DEF Linked
  <2> QED
    BY <2>7, <2>8
<1> QED
  BY <1>3, <1>4, <1>6, <1>7, <1>8

\* The scan and its notes: these lead to the text the scan has reached.
NotedStates(ops, floor, T, B) ==
  {x \in DrainStates(ops, floor) \X Seq(Notes) :
     /\ B \subseteq Ids(x[1].crdt.seq)
     /\ Joined(x[2], T, GetDocument(x[1].crdt.seq), B)}

\* A step that takes an operation out of the queue has applied it.
LEMMA StepApplies ==
  ASSUME NEW ops, ops \subseteq Operation, NEW floor, NEW d \in DrainStates(ops, floor),
         NEW next, next = ScanStep[d]
  PROVE  IF Len(next.pending) < Len(d.pending)
         THEN /\ d.at \in 1 .. Len(d.pending) /\ d.pending[d.at] \in ops
              /\ CanApply(d.crdt, d.pending[d.at])
              /\ next.crdt = ApplyRemote(d.crdt, d.pending[d.at])
         ELSE next.crdt = d.crdt
<1>1. /\ d \in Scan /\ d.pending \in Seq(ops) /\ d.at \in Nat \ {0}
      /\ Len(d.pending) \in Nat
  BY DrainStateFields
<1>2. CASE d.at <= Len(d.pending) /\ CanApply(d.crdt, d.pending[d.at])
  <2>1. d.at \in 1 .. Len(d.pending)
    BY <1>1, <1>2
  <2>2. /\ next.pending = RemoveAt(d.pending, d.at)
        /\ next.crdt = ApplyRemote(d.crdt, d.pending[d.at])
    BY <1>1, <1>2 DEF ScanStep
  <2>3. Len(RemoveAt(d.pending, d.at)) = Len(d.pending) - 1
    BY <1>1, <2>1, RemoveAtShape
  <2>4. d.pending[d.at] \in ops
    BY <1>1, <2>1, ElementOfSeq
  <2>5. Len(next.pending) < Len(d.pending)
    BY <1>1, <2>2, <2>3
  <2> QED
    BY <1>2, <2>1, <2>2, <2>4, <2>5
<1>3. CASE ~(d.at <= Len(d.pending) /\ CanApply(d.crdt, d.pending[d.at]))
  <2>1. next.pending = d.pending /\ next.crdt = d.crdt
    <3>1. CASE d.at <= Len(d.pending)
      <4>1. next = [d EXCEPT !.at = @ + 1]
        BY <1>1, <1>3, <3>1 DEF ScanStep
      <4> QED
        BY <1>1, <4>1 DEF Scan
    <3>2. CASE ~(d.at <= Len(d.pending))
      BY <1>1, <3>2 DEF ScanStep
    <3> QED
      BY <3>1, <3>2
  <2>2. ~(Len(next.pending) < Len(d.pending))
    BY <1>1, <2>1
  <2> QED
    BY <2>1, <2>2
<1> QED
  BY <1>2, <1>3

LEMMA NotedStepLinks ==
  ASSUME NEW ops, \A op \in ops : OpOK(op), NEW floor \in Nat, NEW T, NEW B,
         NEW x \in NotedStates(ops, floor, T, B)
  PROVE  /\ NotedStep[x] \in NotedStates(ops, floor, T, B)
         /\ NotedStep[x][1] = ScanStep[x[1]]
<1> DEFINE d == x[1]
           notes == x[2]
           next == ScanStep[d]
           op == d.pending[d.at]
           note == Note(op, d.crdt, next.crdt)
           longer == Append(notes, note)
<1>1. /\ d \in DrainStates(ops, floor) /\ notes \in Seq(Notes) /\ x = <<d, notes>>
      /\ B \subseteq Ids(d.crdt.seq)
      /\ Joined(notes, T, GetDocument(d.crdt.seq), B)
  BY DEF NotedStates
<1> HIDE DEF d, notes
<1>2. NotedStep[x] \in DrainStates(ops, floor) \X Seq(Notes)
  BY <1>1, NotedStepOK
<1>3. NotedStep[x] = IF Len(next.pending) < Len(d.pending)
                     THEN <<next, longer>> ELSE <<next, notes>>
  <2>1. x \in Scan \X Seq(Notes) /\ x[1] = d /\ x[2] = notes
    BY <1>1, DrainStateFields
  <2> QED
    BY <2>1 DEF NotedStep
<1>4. ops \subseteq Operation
  BY DEF OpOK
<1>5. IF Len(next.pending) < Len(d.pending)
      THEN /\ d.at \in 1 .. Len(d.pending) /\ op \in ops
           /\ CanApply(d.crdt, op)
           /\ next.crdt = ApplyRemote(d.crdt, op)
      ELSE next.crdt = d.crdt
  BY <1>1, <1>4, StepApplies
<1>6. next \in DrainStates(ops, floor) /\ EngineOK(d.crdt) /\ EngineOK(next.crdt)
  <2>1. next \in DrainStates(ops, floor)
    BY <1>1, ScanStepOK
  <2> HIDE DEF next
  <2> QED
    BY <1>1, <2>1, DrainStateFields
<1> HIDE DEF next, op
<1>7. CASE Len(next.pending) < Len(d.pending)
  <2>1. OpOK(op) /\ CanApply(d.crdt, op) /\ next.crdt = ApplyRemote(d.crdt, op)
    BY <1>5, <1>7
  <2>2. B \subseteq Ids(next.crdt.seq)
    BY <1>1, <1>6, <2>1, ApplyRemoteOK
  <2>3. Linked(note, GetDocument(d.crdt.seq), GetDocument(next.crdt.seq), B)
    BY <1>1, <1>6, <2>1, NoteLinked
  <2>4. note \in Notes
    BY <1>6, <2>1, NoteType DEF OpOK
  <2>5. GetDocument(next.crdt.seq) \in Seq(CharID)
    BY <1>6, TextFacts DEF EngineOK
  <2> HIDE DEF note
  <2>6. Joined(longer, T, GetDocument(next.crdt.seq), B)
    BY <1>1, <2>3, <2>4, <2>5, JoinedAppend
  <2>7. longer \in Seq(Notes)
    BY <1>1, <2>4
  <2> HIDE DEF longer
  <2>8. NotedStep[x] = <<next, longer>>
    BY <1>3, <1>7
  <2>9. <<next, longer>> \in NotedStates(ops, floor, T, B)
    BY <1>6, <2>2, <2>6, <2>7 DEF NotedStates
  <2> QED
    BY <2>8, <2>9 DEF d, next
<1>8. CASE ~(Len(next.pending) < Len(d.pending))
  <2>1. NotedStep[x] = <<next, notes>> /\ next.crdt = d.crdt
    BY <1>3, <1>5, <1>8
  <2>2. <<next, notes>> \in NotedStates(ops, floor, T, B)
    BY <1>1, <1>6, <2>1 DEF NotedStates
  <2> QED
    BY <2>1, <2>2 DEF d, next
<1> QED
  BY <1>7, <1>8

\* What a drain notes leads from the text it found to the one it leaves.
LEMMA DrainLinks ==
  ASSUME NEW ops, \A op \in ops : OpOK(op), NEW queue \in Seq(ops),
         NEW e, EngineOK(e), Ids(e.seq) \subseteq KnownIds(ops),
         NEW done, done \subseteq ops, NEW B, B \subseteq Ids(e.seq),
         NEW notes, notes = DrainNotes(e, queue, done),
         NEW last, last = DrainPending(e, queue, done)
  PROVE  /\ notes \in Seq(Notes)
         /\ Joined(notes, GetDocument(e.seq), GetDocument(last.crdt.seq), B)
         /\ B \subseteq Ids(last.crdt.seq)
<1> DEFINE T == GetDocument(e.seq)
           S == NotedStates(ops, e.clock, T, B)
           R == DrainStates(ops, e.clock)
           first == StartScan(e, queue, done)
           start == <<first, <<>> >>
           N == (Len(queue) + 1) * (Len(queue) + 1)
<1>1. e.clock \in Nat /\ ops \subseteq Operation /\ N \in Nat
  <2>1. Len(queue) \in Nat
    OBVIOUS
  <2>2. N \in Nat
    BY <2>1
  <2>3. e.clock \in Nat
    BY EngineFields
  <2>4. ops \subseteq Operation
    BY DEF OpOK
  <2> QED
    BY <2>2, <2>3, <2>4
<1>2. first \in R
  BY <1>1, e.clock <= e.clock, 1 \in Nat \ {0}, FALSE \in BOOLEAN,
     DrainStateIntro DEF StartScan
<1>3. start \in S /\ start[1] = first
  <2>1. T \in Seq(CharID)
    BY TextFacts DEF EngineOK
  <2>2. Joined(<<>>, T, T, B)
    BY <2>1, JoinedNone
  <2>3. first.crdt = e
    BY DEF StartScan
  <2>4. << >> \in Seq(Notes)
    OBVIOUS
  <2> HIDE DEF first
  <2> QED
    BY <1>2, <2>2, <2>3, <2>4 DEF NotedStates
<1>4. \A x \in S : NotedStep[x] \in S /\ NotedStep[x][1] = ScanStep[x[1]]
  BY <1>1, NotedStepLinks
<1>5. \A d \in R : ScanStep[d] \in R
  BY <1>1, ScanStepOK
<1> HIDE DEF S, R, start, N
<1> DEFINE noted == LET scan[n \in Nat] == IF n = 0 THEN start ELSE NotedStep[scan[n - 1]]
                    IN  scan[N]
           drained == LET scan[n \in Nat] == IF n = 0 THEN first ELSE ScanStep[scan[n - 1]]
                      IN  scan[N]
<1> HIDE DEF first
<1>6. Matched(S, start, NotedStep, first, ScanStep, N)
  <2>1. InStep(S, start, NotedStep, R, first, ScanStep)
    BY <1>2, <1>3, <1>4, <1>5 DEF InStep
  <2> QED
    BY <1>1, <2>1, IteratesMatch
<1>6a. noted \in S /\ noted[1] = drained
  BY <1>6 DEF Matched
<1>7. notes = noted[2]
  BY DEF DrainNotes, start, first, N
<1>8. last = drained
  BY DEF DrainPending, first, N
<1> HIDE DEF noted, drained, T
<1>9. /\ noted[2] \in Seq(Notes)
      /\ Joined(noted[2], T, GetDocument(noted[1].crdt.seq), B)
      /\ B \subseteq Ids(noted[1].crdt.seq)
  BY <1>6a DEF S, NotedStates
<1> QED
  BY <1>6a, <1>7, <1>8, <1>9 DEF T

-----------------------------------------------------------------------------
(* The steps.                                                              *)

\* What the handler does without touching the text.
LEMMA HandlerStep ==
  ASSUME CursorInv, UNCHANGED vars,
         \/ \E key \in Keys : KeyEvent(key)
         \/ ReadCursor \/ SetPos \/ BroadcastPos \/ MoveCursor \/ TellCursor
  PROVE  CursorType' /\ SizeKnown' /\ DiesOfRaceOnly'
<1>1. Size \in Nat /\ Size' = Size
  BY SizeIsNat DEF CursorInv, vars, Size
<1>2. CursorType /\ SizeKnown /\ DiesOfRaceOnly
  BY DEF CursorInv
<1>3. ASSUME NEW key \in Keys, KeyEvent(key)
      PROVE  CursorType' /\ SizeKnown' /\ DiesOfRaceOnly'
  <2>1. /\ handler' = [at |-> "read", key |-> key, len |-> Size, pos |-> 0,
                       raced |-> callbacks # <<>>]
        /\ cursor' = cursor /\ callbacks' = callbacks
    BY <1>3 DEF KeyEvent
  <2>2. (callbacks # <<>>) \in BOOLEAN
    OBVIOUS
  <2>3. handler' \in Busy /\ handler'.at = "read" /\ handler'.len = Size
    BY <1>1, <2>1, <2>2 DEF Busy
  <2> QED
    BY <1>1, <1>2, <2>1, <2>3 DEF CursorType, SizeKnown, DiesOfRaceOnly
<1>4. CASE ReadCursor
  <2>1. /\ handler \in Busy /\ handler.at = "read"
        /\ cursor' = cursor /\ callbacks' = callbacks
    <3>1. handler.at = "read" /\ cursor' = cursor /\ callbacks' = callbacks
      BY <1>4 DEF ReadCursor
    <3> QED
      BY <1>2, <3>1 DEF CursorType, Idle
  <2>2. ReadPos \in Nat /\ ReadPos <= handler.len /\ handler.len \in Nat
    BY <1>2, <2>1 DEF ReadPos, CursorType, Busy
  <2>3. \/ handler' = Idle
        \/ \E p \in 0 .. handler.len : handler' = [handler EXCEPT !.at = "set", !.pos = p]
        \/ /\ handler' = [handler EXCEPT !.at = "edit", !.pos = ReadPos]
           /\ handler.key = "Backspace" => ReadPos > 0
           /\ handler.key = "Delete" => ReadPos < handler.len
    BY <1>4 DEF ReadCursor
  <2>4. CASE handler' = Idle
    BY <1>2, <2>1, <2>4 DEF CursorType, SizeKnown, DiesOfRaceOnly, Idle, Busy
  <2>5. ASSUME NEW p \in 0 .. handler.len,
               handler' = [handler EXCEPT !.at = "set", !.pos = p]
        PROVE  CursorType' /\ SizeKnown' /\ DiesOfRaceOnly'
    <3>1. p \in Nat
      BY <2>2
    <3>2. handler' \in Busy /\ handler'.at = "set"
      BY <2>1, <2>5, <3>1 DEF Busy
    <3> QED
      BY <1>2, <2>1, <3>2 DEF CursorType, SizeKnown, DiesOfRaceOnly
  <2>6. CASE /\ handler' = [handler EXCEPT !.at = "edit", !.pos = ReadPos]
             /\ handler.key = "Backspace" => ReadPos > 0
             /\ handler.key = "Delete" => ReadPos < handler.len
    <3>1. /\ handler' \in Busy /\ handler'.at = "edit" /\ handler'.pos = ReadPos
          /\ handler'.key = handler.key /\ handler'.len = handler.len
          /\ handler'.raced = handler.raced
      BY <2>1, <2>2, <2>6 DEF Busy
    <3>2. ~handler.raced => handler.len = Size
      BY <1>2, <2>1 DEF SizeKnown
    <3> QED
      BY <1>1, <1>2, <2>1, <2>2, <2>6, <3>1, <3>2
      DEF CursorType, SizeKnown, DiesOfRaceOnly
  <2> QED
    BY <2>3, <2>4, <2>5, <2>6
<1>5. CASE SetPos
  <2>1. /\ handler \in Busy /\ cursor' = handler.pos
        /\ handler' = [handler EXCEPT !.at = "tell"] /\ callbacks' = callbacks
    BY <1>2, <1>5 DEF SetPos, CursorType, Idle
  <2>2. handler' \in Busy /\ handler'.at = "tell" /\ cursor' \in Nat
    BY <2>1 DEF Busy
  <2> QED
    BY <1>2, <2>1, <2>2 DEF CursorType, SizeKnown, DiesOfRaceOnly
<1>6. CASE BroadcastPos
  <2>1. handler' = Idle /\ cursor' = cursor /\ callbacks' = callbacks
    BY <1>6 DEF BroadcastPos
  <2> QED
    BY <1>2, <2>1 DEF CursorType, SizeKnown, DiesOfRaceOnly, Idle, Busy
<1>7. CASE MoveCursor
  <2> DEFINE note == Head(callbacks)
  <2>1. /\ callbacks # <<>> /\ handler' = handler
        /\ \/ callbacks' = Tail(callbacks) /\ cursor' = cursor
           \/ /\ callbacks' = [callbacks EXCEPT ![1].moved = TRUE]
              /\ cursor' = Shifted(note) /\ ~(note.offset < 0)
    BY <1>7 DEF MoveCursor
  <2>2. callbacks \in Seq(Notes) /\ note \in Notes /\ note = callbacks[1]
    BY <1>2, <2>1 DEF CursorType
  <2>3. cursor' \in Nat
    BY <1>2, <2>1, <2>2 DEF Shifted, CursorType, Notes
  <2>4. callbacks' \in Seq(Notes)
    <3>1. [note EXCEPT !.moved = TRUE] \in Notes
      BY <2>2 DEF Notes
    <3>2. [callbacks EXCEPT ![1].moved = TRUE] =
            [callbacks EXCEPT ![1] = [note EXCEPT !.moved = TRUE]]
      BY <2>2
    <3> DEFINE moved == [note EXCEPT !.moved = TRUE]
    <3> HIDE DEF note, moved
    <3>3. [callbacks EXCEPT ![1] = moved] \in Seq(Notes)
      <4>1. callbacks \in Seq(Notes) /\ moved \in Notes
        BY <2>2, <3>1 DEF moved
      <4>2. 1 \in 1 .. Len(callbacks)
        BY <2>1, <4>1
      <4> QED
        BY <4>1, <4>2, ExceptSeq
    <3>4. [callbacks EXCEPT ![1].moved = TRUE] = [callbacks EXCEPT ![1] = moved]
      BY <3>2 DEF moved
    <3>5. Tail(callbacks) \in Seq(Notes)
      BY <2>1, <2>2
    <3> QED
      BY <2>1, <3>3, <3>4, <3>5
  <2> QED
    BY <1>1, <1>2, <2>1, <2>3, <2>4 DEF CursorType, SizeKnown, DiesOfRaceOnly
<1>8. CASE TellCursor
  <2>1. /\ callbacks # <<>> /\ callbacks' = Tail(callbacks)
        /\ cursor' = cursor /\ handler' = handler
    BY <1>8 DEF TellCursor
  <2>2. callbacks' \in Seq(Notes)
    BY <1>2, <2>1 DEF CursorType
  <2> QED
    BY <1>1, <1>2, <2>1, <2>2 DEF CursorType, SizeKnown, DiesOfRaceOnly
<1> QED
  BY <1>3, <1>4, <1>5, <1>6, <1>7, <1>8

\* The key that edits.
LEMMA EditStep ==
  ASSUME CursorInv, TypeChar \/ BackspaceChar \/ DeleteChar \/ HandlerThrows
  PROVE  CursorInv'
<1>1. CursorType /\ SizeKnown /\ DiesOfRaceOnly /\ IInv /\ Size \in Nat
  BY SizeIsNat DEF CursorInv
<1>2. handler \in Busy /\ handler.at = "edit" /\ UNCHANGED <<cursor, callbacks>>
  BY <1>1 DEF TypeChar, BackspaceChar, DeleteChar, HandlerThrows, CursorType, Idle, Keep
<1>3. IInv'
  BY <1>1, UserAssumption, InsertOK, DeleteOK, DeleteOutOfRangeOK
  DEF TypeChar, BackspaceChar, DeleteChar, HandlerThrows
<1>4. CASE TypeChar \/ BackspaceChar
  <2>1. \/ handler' = [handler EXCEPT !.at = "set", !.pos = @ + 1]
        \/ /\ handler' = [handler EXCEPT !.at = "set", !.pos = @ - 1]
           /\ handler.key = "Backspace"
    BY <1>4 DEF TypeChar, BackspaceChar
  <2>2. handler' \in Busy /\ handler'.at = "set"
    <3>1. handler.pos + 1 \in Nat
      BY <1>2 DEF Busy
    <3>2. handler.key = "Backspace" => handler.pos - 1 \in Nat
      BY <1>1, <1>2 DEF SizeKnown, Busy
    <3> QED
      BY <1>2, <2>1, <3>1, <3>2 DEF Busy
  <2> QED
    BY <1>1, <1>2, <1>3, <2>2 DEF CursorInv, CursorType, SizeKnown, DiesOfRaceOnly
<1>5. CASE DeleteChar
  <2>1. handler' = Idle
    BY <1>5 DEF DeleteChar
  <2> QED
    BY <1>1, <1>2, <1>3, <2>1
    DEF CursorInv, CursorType, SizeKnown, DiesOfRaceOnly, Idle, Busy
<1>6. CASE HandlerThrows
  <2>1. handler' = [handler EXCEPT !.at = "dead"]
    BY <1>6 DEF HandlerThrows
  <2>2. handler' \in Busy /\ handler'.at = "dead" /\ handler'.raced = handler.raced
    BY <1>2, <2>1 DEF Busy
  <2>3. handler.raced
    <3> SUFFICES ASSUME ~handler.raced PROVE FALSE
      BY <1>2 DEF Busy
    <3>1. /\ handler.len = Size /\ handler.pos \in Nat
          /\ handler.key = "Backspace" => handler.pos > 0 /\ handler.pos <= handler.len
          /\ handler.key = "Delete" => handler.pos < handler.len
      BY <1>1, <1>2 DEF SizeKnown, Busy
    <3>2. PICK n \in Nat : n < Size /\ VisibleIter(crdt[User].seq, n) = {}
      <4>1. CASE /\ handler.key = "Backspace"
                 /\ VisibleIter(crdt[User].seq, handler.pos - 1) = {}
        BY <1>1, <3>1, <4>1
      <4>2. CASE /\ handler.key = "Delete"
                 /\ VisibleIter(crdt[User].seq, handler.pos) = {}
        BY <1>1, <3>1, <4>2
      <4> QED
        BY <1>6, <4>1, <4>2 DEF HandlerThrows, DeleteOutOfRange
    <3>3. Size <= n
      BY <1>1, <3>2, SizeIsNat, NoNthPlace DEF Size
    <3> QED
      BY <1>1, <3>2, <3>3
  <2> QED
    BY <1>1, <1>2, <1>3, <2>2, <2>3 DEF CursorInv, CursorType, SizeKnown, DiesOfRaceOnly
<1> QED
  BY <1>4, <1>5, <1>6

LEMMA ReceiveStep ==
  ASSUME CursorInv, ReceiveRemote
  PROVE  CursorInv'
<1>1. CursorType /\ SizeKnown /\ DiesOfRaceOnly /\ IInv
  BY DEF CursorInv
<1>2. PICK op \in BagToSet(net[User]) :
        LET new == ApplyRemote(crdt[User], op) IN
        /\ Arrives(User, op)
        /\ \/ Park(User, op) /\ UNCHANGED <<callbacks, handler>>
           \/ /\ Apply(User, op)
              /\ callbacks' = <<Note(op, crdt[User], new)>> \o DrainNotes(new, pending[User], {op})
              /\ handler' = IF handler = Idle THEN Idle ELSE [handler EXCEPT !.raced = TRUE]
  BY DEF ReceiveRemote
<1>3. IInv'
  <2>1. Receive(User)
    BY <1>2 DEF Receive
  <2> QED
    BY <1>1, <2>1, UserAssumption, ReceiveOK
<1>4. cursor' = cursor /\ handler.at # "dead"
  BY DEF ReceiveRemote, Alive
<1>5. CASE Park(User, op) /\ UNCHANGED <<callbacks, handler>>
  <2>1. Size' = Size
    BY <1>5 DEF Park, Size
  <2> QED
    BY <1>1, <1>3, <1>4, <1>5, <2>1 DEF CursorInv, CursorType, SizeKnown, DiesOfRaceOnly
<1>6. CASE /\ Apply(User, op)
           /\ callbacks' = <<Note(op, crdt[User], ApplyRemote(crdt[User], op))>>
                             \o DrainNotes(ApplyRemote(crdt[User], op), pending[User], {op})
           /\ handler' = IF handler = Idle THEN Idle ELSE [handler EXCEPT !.raced = TRUE]
  <2> DEFINE e == crdt[User]
             new == ApplyRemote(e, op)
             first == Note(op, e, new)
             rest == DrainNotes(new, pending[User], {op})
  <2>1. /\ op \in Issued /\ OpOK(op) /\ op \in Operation
        /\ \A o \in Issued : OpOK(o)
    BY <1>1, UserAssumption DEF IInv, TransitInv, IssuedInv, BagToSet, OpOK
  <2>2. /\ EngineOK(e) /\ CanApply(e, op) /\ Ids(e.seq) \subseteq KnownIds(Issued)
        /\ pending[User] \in Seq(Issued)
    BY <1>1, <1>6, UserAssumption DEF IInv, EnginesInv, TransitInv, Apply
  <2> HIDE DEF e
  <2>3. EngineOK(new) /\ Ids(new.seq) \subseteq Ids(e.seq) \cup {op.id}
    BY <2>1, <2>2, ApplyRemoteOK
  <2>4. callbacks' = <<first>> \o rest
    BY <1>6 DEF e
  <2> HIDE DEF new
  <2>5. Ids(new.seq) \subseteq KnownIds(Issued)
    BY <2>1, <2>2, <2>3 DEF KnownIds
  <2>6. first \in Notes
    BY <2>1, <2>3, NoteType
  <2>7. rest \in Seq(Notes)
    <3>1. {} \subseteq Ids(new.seq) /\ {op} \subseteq Issued
      BY <2>1
    <3> QED
      BY <2>1, <2>2, <2>3, <2>5, <3>1, DrainLinks
  <2> HIDE DEF first, rest
  <2>8. callbacks' \in Seq(Notes)
    BY <2>4, <2>6, <2>7
  <2>9. CASE handler = Idle
    <3>1. handler' = Idle
      BY <1>6, <2>9
    <3> QED
      BY <1>1, <1>3, <1>4, <2>8, <3>1
      DEF CursorInv, CursorType, SizeKnown, DiesOfRaceOnly, Idle, Busy
  <2>10. CASE handler # Idle
    <3>1. handler \in Busy /\ handler' = [handler EXCEPT !.raced = TRUE]
      BY <1>1, <1>6, <2>10 DEF CursorType
    <3>2. /\ handler' \in Busy /\ handler'.raced /\ handler'.at = handler.at
          /\ handler'.key = handler.key /\ handler'.pos = handler.pos
          /\ handler'.len = handler.len
      BY <3>1 DEF Busy
    <3> QED
      BY <1>1, <1>3, <1>4, <2>8, <3>1, <3>2
      DEF CursorInv, CursorType, SizeKnown, DiesOfRaceOnly
  <2> QED
    BY <2>9, <2>10
<1> QED
  BY <1>2, <1>5, <1>6

LEMMA OthersElsewhere ==
  ASSUME IInv, Others
  PROVE  crdt'[User] = crdt[User]
<1>1. PICK s \in Sites \ {User} :
        \/ \E pos \in Positions(s) : Insert(s, pos) \/ Delete(s, pos)
        \/ Receive(s)
  BY DEF Others
<1>2. crdt \in [Sites -> Engine]
  BY DEF IInv, TypeOK
<1>3. \E e : crdt' = [crdt EXCEPT ![s] = e] \/ crdt' = crdt
  BY <1>1 DEF Insert, Delete, Commit, Receive, Park, Apply
<1> QED
  BY <1>1, <1>2, <1>3, UserAssumption

LEMMA OthersStep ==
  ASSUME CursorInv, Others
  PROVE  CursorInv'
<1>1. UNCHANGED <<cursor, handler, callbacks>>
  BY DEF Others, cursorVars
<1>2. PICK s \in Sites \ {User} :
        \/ \E pos \in Positions(s) : Insert(s, pos) \/ Delete(s, pos)
        \/ Receive(s)
  BY DEF Others
<1>3. IInv'
  BY <1>2, InsertOK, DeleteOK, ReceiveOK DEF CursorInv
<1>4. crdt'[User] = crdt[User]
  BY OthersElsewhere DEF CursorInv
<1>5. Size' = Size
  BY <1>4 DEF Size
<1> QED
  BY <1>1, <1>3, <1>5 DEF CursorInv, CursorType, SizeKnown, DiesOfRaceOnly

LEMMA CursorNextOK ==
  ASSUME CursorInv, [CursorNext]_<<vars, cursorVars>>
  PROVE  CursorInv'
<1>1. CASE UNCHANGED <<vars, cursorVars>>
  <2>1. IInv'
    BY <1>1, NextOK DEF CursorInv
  <2>2. Size' = Size
    BY <1>1 DEF vars, Size
  <2> QED
    BY <1>1, <2>1, <2>2
    DEF cursorVars, CursorInv, CursorType, SizeKnown, DiesOfRaceOnly
<1>2. CASE \/ \E key \in Keys : KeyEvent(key)
           \/ ReadCursor \/ SetPos \/ BroadcastPos \/ MoveCursor \/ TellCursor
  <2>1. UNCHANGED vars
    BY <1>2 DEF KeyEvent, ReadCursor, SetPos, BroadcastPos, MoveCursor, TellCursor
  <2>2. IInv'
    BY <2>1, NextOK DEF CursorInv
  <2> QED
    BY <1>2, <2>1, <2>2, HandlerStep DEF CursorInv
<1> QED
  BY <1>1, <1>2, EditStep, ReceiveStep, OthersStep DEF CursorNext

-----------------------------------------------------------------------------
LEMMA CursorInitOK ==
  ASSUME CursorInit
  PROVE  CursorInv
<1>1. IInv
  BY InitOK DEF CursorInit
<1>2. handler \notin Busy /\ handler.at = "idle" /\ cursor \in Nat
  BY DEF CursorInit, Idle, Busy
<1>3. callbacks \in Seq(Notes)
  BY DEF CursorInit
<1> QED
  BY <1>1, <1>2, <1>3 DEF CursorInit, CursorInv, CursorType, SizeKnown, DiesOfRaceOnly

\* A key kills the editor only when an operation has come in between.
THEOREM KeysDieOfRaceOnly == CursorSpec => []DiesOfRaceOnly
<1>1. CursorInit => CursorInv
  BY CursorInitOK
<1>2. CursorInv /\ [CursorNext]_<<vars, cursorVars>> => CursorInv'
  BY CursorNextOK
<1>3. CursorInv => DiesOfRaceOnly
  BY DEF CursorInv
<1> QED
  BY <1>1, <1>2, <1>3, PTL DEF CursorSpec
-----------------------------------------------------------------------------
(* The cursor and what it was placed between.                              *)

\* Position c of T is behind every character of front and not behind any of
\* back.
Between(T, c, front, back) ==
  /\ c <= Len(T)
  /\ \A i \in DOMAIN T : /\ T[i] \in front => i <= c
                         /\ T[i] \in back => i > c

\* What moves the cursor for a note keeps it in its place, unless the note is
\* of an operation that left the text as it was.
LEMMA ShiftKeeps ==
  ASSUME cursor \in Nat, NEW T \in Seq(CharID), NEW U \in Seq(CharID),
         Between(T, cursor, behind, ahead), NEW note \in Notes, ~note.moved,
         Linked(note, T, U, behind \cup ahead)
  PROVE  IF note.offset < 0 THEN U = T
         ELSE (note.again /\ Shifted(note) # cursor) \/ Between(U, Shifted(note), behind, ahead)
<1> DEFINE o == note.offset
           c == Shifted(note)
<1>1. /\ Len(T) \in Nat /\ Len(U) \in Nat
      /\ o \in Int /\ cursor <= Len(T)
      /\ \A i \in 1 .. Len(T) : /\ T[i] \in behind => i <= cursor
                                /\ T[i] \in ahead => i > cursor
  BY DEF Notes, Between
<1>2. \/ note.again /\ U = T
      \/ note.type = "INSERT" /\ Widened(T, U, o) /\ U[o + 1] \notin behind \cup ahead
      \/ note.type = "DELETE" /\ Widened(U, T, o)
  BY DEF Linked
<1>3. c = IF o >= cursor THEN cursor
          ELSE IF note.type = "INSERT" THEN cursor + 1 ELSE cursor - 1
  BY DEF Shifted
<1> HIDE DEF o, c
<1>4. CASE note.again /\ U = T
  <2>1. c = cursor => Between(U, c, behind, ahead)
    BY <1>4
  <2> QED
    BY <1>4, <2>1 DEF c
<1>5. CASE note.type = "INSERT" /\ Widened(T, U, o) /\ U[o + 1] \notin behind \cup ahead
  <2>1. /\ o \in 0 .. Len(T) /\ Len(U) = Len(T) + 1
        /\ \A n \in 1 .. o : U[n] = T[n]
        /\ \A n \in o + 1 .. Len(T) : U[n + 1] = T[n]
    BY <1>5 DEF Widened
  <2>2. /\ c \in Nat /\ c <= Len(U)
        /\ o >= cursor => c = cursor
        /\ o < cursor => c = cursor + 1
    BY <1>1, <1>3, <1>5, <2>1
  <2>3. ASSUME NEW i \in 1 .. Len(U)
        PROVE  (U[i] \in behind => i <= c) /\ (U[i] \in ahead => i > c)
    <3>1. CASE i <= o
      <4>1. i \in 1 .. Len(T) /\ U[i] = T[i]
        BY <1>1, <2>1, <3>1
      <4> QED
        BY <1>1, <2>1, <2>2, <3>1, <4>1
    <3>2. CASE i = o + 1
      BY <1>5, <3>2
    <3>3. CASE i > o + 1
      <4>1. i - 1 \in o + 1 .. Len(T) /\ i - 1 \in 1 .. Len(T) /\ (i - 1) + 1 = i
        BY <1>1, <2>1, <3>3
      <4>2. U[i] = T[i - 1]
        BY <2>1, <4>1
      <4> QED
        BY <1>1, <2>1, <2>2, <3>3, <4>1, <4>2
    <3> QED
      BY <1>1, <2>1, <3>1, <3>2, <3>3
  <2>4. Between(U, c, behind, ahead)
    BY <2>2, <2>3 DEF Between
  <2> QED
    BY <2>1, <2>4 DEF o, c
<1>6. CASE note.type = "DELETE" /\ Widened(U, T, o)
  <2>1. /\ o \in 0 .. Len(U) /\ Len(T) = Len(U) + 1
        /\ \A n \in 1 .. o : T[n] = U[n]
        /\ \A n \in o + 1 .. Len(U) : T[n + 1] = U[n]
    BY <1>6 DEF Widened
  <2>2. /\ c \in Nat /\ c <= Len(U)
        /\ o >= cursor => c = cursor
        /\ o < cursor => c = cursor - 1
    BY <1>1, <1>3, <1>6, <2>1
  <2>3. ASSUME NEW i \in 1 .. Len(U)
        PROVE  (U[i] \in behind => i <= c) /\ (U[i] \in ahead => i > c)
    <3>1. CASE i <= o
      <4>1. i \in 1 .. Len(T) /\ U[i] = T[i]
        BY <1>1, <2>1, <3>1
      <4> QED
        BY <1>1, <2>1, <2>2, <3>1, <4>1
    <3>2. CASE i > o
      <4>1. i + 1 \in 1 .. Len(T) /\ U[i] = T[i + 1]
        BY <1>1, <2>1, <3>2
      <4> QED
        BY <1>1, <2>1, <2>2, <3>2, <4>1
    <3> QED
      BY <1>1, <2>1, <3>1, <3>2
  <2>4. Between(U, c, behind, ahead)
    BY <2>2, <2>3 DEF Between
  <2> QED
    BY <2>1, <2>4 DEF o, c
<1> QED
  BY <1>2, <1>4, <1>5, <1>6

\* The characters the cursor was placed between are still in the list.
PlacedAmongIds == behind \cup ahead \subseteq Ids(crdt[User].seq)

\* A handler that has not been raced sees no callback, edits at the cursor,
\* and puts the cursor inside the text.
UnracedHandler ==
  handler \in Busy /\ ~handler.raced =>
    /\ callbacks = <<>>
    /\ handler.at = "edit" => handler.pos = ReadPos
    /\ handler.at = "set" => handler.pos <= Len(Text)
    /\ handler.at = "tell" => /\ handler.pos = cursor
                              /\ Between(Text, cursor, behind, ahead)

\* While it is not being placed, the cursor has its place in the text that
\* was there before what is still noted.
PlaceBeforeNotes ==
  ~drifted /\ (handler = Idle \/ handler.at \in {"read", "edit"}) =>
    /\ \E T \in Seq(CharID) : /\ Between(T, cursor, behind, ahead)
                              /\ Joined(callbacks, T, Text, behind \cup ahead)
    /\ callbacks = <<>> \/ ~Head(callbacks).moved => told = cursor

KeepInv == PlacedAmongIds /\ UnracedHandler /\ PlaceBeforeNotes

LEMMA TextIsSeq ==
  ASSUME IInv
  PROVE  /\ EngineOK(crdt[User]) /\ WellFormed(crdt[User].seq)
         /\ crdt[User].seq \in Seq(Node)
         /\ Text \in Seq(CharID) /\ Len(Text) \in Nat /\ Len(Text) = Size
         /\ \A n \in 1 .. Len(Text) : Text[n] \in Ids(crdt[User].seq)
         /\ \A n, k \in 1 .. Len(Text) : Text[n] = Text[k] => n = k
<1>1. EngineOK(crdt[User])
  BY UserAssumption DEF IInv, EnginesInv
<1>2. WellFormed(crdt[User].seq) /\ crdt[User].seq \in Seq(Node)
  BY <1>1, EngineFields DEF EngineOK
<1>3. Text = GetDocument(crdt[User].seq) /\ Size = Cardinality(VisiblePlaces(crdt[User].seq))
  BY DEF Text, Size
<1> QED
  BY <1>1, <1>2, <1>3, TextFacts

\* With nothing noted, the cursor has its place in the text as it is.
LEMMA PlaceInText ==
  ASSUME IInv, KeepInv, callbacks = <<>>, ~drifted,
         handler = Idle \/ handler.at \in {"read", "edit"}
  PROVE  Between(Text, cursor, behind, ahead) /\ told = cursor
<1>1. PICK T \in Seq(CharID) : /\ Between(T, cursor, behind, ahead)
                               /\ Joined(callbacks, T, Text, behind \cup ahead)
  BY DEF KeepInv, PlaceBeforeNotes
<1>2. T = Text
  BY <1>1, JoinedNone
<1>3. told = cursor
  BY DEF KeepInv, PlaceBeforeNotes
<1> QED
  BY <1>1, <1>2, <1>3

LEMMA PlaceNoted ==
  ASSUME NEW c, NEW T \in Seq(CharID), NEW front, NEW back, Between(T, c, front, back)
  PROVE  \E V \in Seq(CharID) : /\ Between(V, c, front, back)
                                /\ Joined(<<>>, V, T, front \cup back)
<1>1. Joined(<<>>, T, T, front \cup back)
  BY JoinedNone
<1> QED
  BY <1>1

LEMMA ReadingKeeps ==
  ASSUME CursorInv, KeepInv, (\E key \in Keys : KeyEvent(key)) \/ ReadCursor
  PROVE  KeepInv'
<1>1. /\ crdt' = crdt /\ Text' = Text
      /\ UNCHANGED <<cursor, told, callbacks, behind, ahead, drifted>>
  BY DEF KeyEvent, ReadCursor, vars, Text
<1>2. /\ IInv /\ CursorType /\ SizeKnown
      /\ PlacedAmongIds /\ UnracedHandler /\ PlaceBeforeNotes
  BY DEF CursorInv, KeepInv
<1>3. PlacedAmongIds'
  BY <1>1, <1>2 DEF PlacedAmongIds
<1>4. handler = Idle \/ handler.at = "read"
  BY DEF KeyEvent, ReadCursor
<1>5. PlaceBeforeNotes'
  BY <1>1, <1>2, <1>4 DEF PlaceBeforeNotes
<1>6. ASSUME NEW key \in Keys, KeyEvent(key) PROVE UnracedHandler'
  <2>1. handler' = [at |-> "read", key |-> key, len |-> Size, pos |-> 0,
                    raced |-> callbacks # <<>>]
    BY <1>6 DEF KeyEvent
  <2>2. handler'.at = "read" /\ (~handler'.raced => callbacks' = <<>>)
    BY <1>1, <2>1
  <2> QED
    BY <2>2 DEF UnracedHandler
<1>7. ASSUME ReadCursor PROVE UnracedHandler'
  <2>1. handler \in Busy /\ handler.at = "read"
    <3>1. handler.at = "read"
      BY <1>7 DEF ReadCursor
    <3> QED
      BY <1>2, <3>1 DEF CursorType, Idle
  <2>2. \/ handler' = Idle
        \/ \E p \in 0 .. handler.len : handler' = [handler EXCEPT !.at = "set", !.pos = p]
        \/ handler' = [handler EXCEPT !.at = "edit", !.pos = ReadPos]
    BY <1>7 DEF ReadCursor
  <2>3. CASE handler' = Idle
    BY <2>3 DEF UnracedHandler, Idle, Busy
  <2>4. ASSUME NEW p \in 0 .. handler.len,
               handler' = [handler EXCEPT !.at = "set", !.pos = p]
        PROVE  UnracedHandler'
    <3>1. handler'.at = "set" /\ handler'.pos = p /\ handler'.raced = handler.raced
      BY <2>1, <2>4 DEF Busy
    <3>2. ~handler.raced => handler.len = Len(Text) /\ callbacks = <<>>
      BY <1>2, <2>1, TextIsSeq DEF SizeKnown, UnracedHandler
    <3>3. handler.len \in Nat
      BY <2>1 DEF Busy
    <3> QED
      BY <1>1, <3>1, <3>2, <3>3 DEF UnracedHandler
  <2>5. CASE handler' = [handler EXCEPT !.at = "edit", !.pos = ReadPos]
    <3>1. /\ handler'.at = "edit" /\ handler'.pos = ReadPos
          /\ handler'.raced = handler.raced /\ handler'.len = handler.len
      BY <2>1, <2>5 DEF Busy
    <3>2. ReadPos' = ReadPos
      BY <1>1, <3>1 DEF ReadPos
    <3>3. ~handler.raced => callbacks = <<>>
      BY <1>2, <2>1 DEF UnracedHandler
    <3> QED
      BY <1>1, <3>1, <3>2, <3>3 DEF UnracedHandler
  <2> QED
    BY <2>2, <2>3, <2>4, <2>5
<1>8. UnracedHandler'
  BY <1>6, <1>7
<1> QED
  BY <1>3, <1>5, <1>8 DEF KeepInv

LEMMA PlacingKeeps ==
  ASSUME CursorInv, KeepInv, SetPos \/ BroadcastPos
  PROVE  KeepInv'
<1>1. /\ IInv /\ CursorType /\ SizeKnown
      /\ PlacedAmongIds /\ UnracedHandler /\ PlaceBeforeNotes
  BY DEF CursorInv, KeepInv
<1>2. crdt' = crdt /\ Text' = Text /\ callbacks' = callbacks
  BY DEF SetPos, BroadcastPos, vars, Text
<1>3. handler \in Busy
  BY <1>1 DEF CursorType, Idle, SetPos, BroadcastPos
<1>4. CASE SetPos
  <2> DEFINE c == handler.pos
  <2>1. /\ cursor' = c /\ handler' = [handler EXCEPT !.at = "tell"] /\ handler.at = "set"
        /\ behind' = {Text[i] : i \in {j \in DOMAIN Text : j <= c}}
        /\ ahead' = Range(Text) \ behind'
    BY <1>4 DEF SetPos
  <2>2. /\ handler' \in Busy /\ handler'.at = "tell" /\ handler'.pos = c
        /\ handler'.raced = handler.raced
    BY <1>3, <2>1 DEF Busy
  <2>3. Range(Text) = {Text[i] : i \in 1 .. Len(Text)} /\ DOMAIN Text = 1 .. Len(Text)
    BY <1>1, TextIsSeq DEF Range
  <2>4. PlacedAmongIds'
    <3>1. behind' \cup ahead' \subseteq {Text[i] : i \in 1 .. Len(Text)}
      BY <2>1, <2>3
    <3> QED
      BY <1>1, <1>2, <3>1, TextIsSeq DEF PlacedAmongIds
  <2>5. PlaceBeforeNotes'
    BY <2>2 DEF PlaceBeforeNotes, Idle, Busy
  <2>6. c <= Len(Text) => Between(Text, c, behind', ahead')
    <3>1. ASSUME NEW i \in 1 .. Len(Text)
          PROVE  (Text[i] \in behind' => i <= c) /\ (Text[i] \in ahead' => i > c)
      <4>1. c \in Nat
        BY <1>3 DEF Busy
      <4>2. Text[i] \in behind' <=> i <= c
        BY <1>1, <2>1, <2>3, TextIsSeq
      <4>3. Text[i] \in ahead' => Text[i] \notin behind'
        BY <2>1
      <4> QED
        BY <4>1, <4>2, <4>3
    <3> QED
      BY <2>3, <3>1 DEF Between
  <2>7. ~handler.raced => callbacks = <<>> /\ c <= Len(Text)
    BY <1>1, <1>3, <2>1 DEF UnracedHandler
  <2>8. UnracedHandler'
    BY <1>2, <2>1, <2>2, <2>6, <2>7 DEF UnracedHandler
  <2> QED
    BY <2>4, <2>5, <2>8 DEF KeepInv
<1>5. CASE BroadcastPos
  <2>1. /\ told' = handler.pos /\ handler' = Idle /\ drifted' = handler.raced
        /\ handler.at = "tell" /\ UNCHANGED <<cursor, behind, ahead>>
    BY <1>5 DEF BroadcastPos
  <2>2. PlacedAmongIds'
    BY <1>1, <1>2, <2>1 DEF PlacedAmongIds
  <2>3. UnracedHandler'
    BY <2>1 DEF UnracedHandler, Idle, Busy
  <2>4. PlaceBeforeNotes'
    <3>1. CASE handler.raced
      BY <2>1, <3>1 DEF PlaceBeforeNotes
    <3>2. CASE ~handler.raced
      <4>1. callbacks = <<>> /\ handler.pos = cursor /\ Between(Text, cursor, behind, ahead)
        BY <1>1, <1>3, <2>1, <3>2 DEF UnracedHandler
      <4>2. \E T \in Seq(CharID) : /\ Between(T, cursor, behind, ahead)
                                   /\ Joined(callbacks, T, Text, behind \cup ahead)
        BY <1>1, <4>1, TextIsSeq, PlaceNoted
      <4> QED
        BY <1>2, <2>1, <4>1, <4>2 DEF PlaceBeforeNotes
    <3> QED
      BY <3>1, <3>2
  <2> QED
    BY <2>2, <2>3, <2>4 DEF KeepInv
<1> QED
  BY <1>4, <1>5

LEMMA MovedFirst ==
  ASSUME NEW notes \in Seq(Notes), notes # <<>>,
         NEW moved, moved = [Head(notes) EXCEPT !.moved = TRUE]
  PROVE  /\ moved \in Notes /\ moved.moved /\ Tail(notes) \in Seq(Notes)
         /\ [notes EXCEPT ![1].moved = TRUE] = <<moved>> \o Tail(notes)
         /\ Head([notes EXCEPT ![1].moved = TRUE]) = moved
         /\ [notes EXCEPT ![1].moved = TRUE] # <<>>
<1>1. /\ Len(notes) \in Nat \ {0} /\ 1 \in 1 .. Len(notes)
      /\ Head(notes) = notes[1] /\ notes[1] \in Notes
      /\ Tail(notes) \in Seq(Notes) /\ Len(Tail(notes)) = Len(notes) - 1
      /\ \A i \in 1 .. Len(notes) - 1 : Tail(notes)[i] = notes[i + 1]
  OBVIOUS
<1>2. moved \in Notes /\ moved.moved
  BY <1>1 DEF Notes
<1> DEFINE new == [notes EXCEPT ![1].moved = TRUE]
           rest == Tail(notes)
           seq == <<moved>> \o rest
<1>3. new = [notes EXCEPT ![1] = moved]
  BY <1>1
<1>4. /\ new \in Seq(Notes) /\ Len(new) = Len(notes)
      /\ \A i \in 1 .. Len(notes) : new[i] = IF i = 1 THEN moved ELSE notes[i]
  BY <1>1, <1>2, <1>3, ExceptSeq
<1> HIDE DEF new, rest
<1>5. /\ seq \in Seq(Notes) /\ Len(seq) = 1 + Len(rest) /\ seq[1] = moved
      /\ \A i \in 1 .. Len(rest) : seq[i + 1] = rest[i]
  BY <1>1, <1>2 DEF rest
<1> HIDE DEF seq
<1>6. Len(seq) = Len(notes)
  BY <1>1, <1>5 DEF rest
<1>7. ASSUME NEW i \in 1 .. Len(notes) PROVE new[i] = seq[i]
  <2>1. CASE i = 1
    BY <1>4, <1>5, <2>1
  <2>2. CASE i # 1
    <3>1. i - 1 \in 1 .. Len(notes) - 1 /\ i - 1 \in 1 .. Len(rest) /\ (i - 1) + 1 = i
      BY <1>1, <2>2 DEF rest
    <3>2. seq[i] = notes[i]
      BY <1>1, <1>5, <3>1 DEF rest
    <3> QED
      BY <1>4, <2>2, <3>2
  <2> QED
    BY <2>1, <2>2
<1>8. new = seq
  BY <1>4, <1>5, <1>6, <1>7, SeqEqual
<1>9. Head(new) = moved /\ new # <<>>
  BY <1>1, <1>4
<1> QED
  BY <1>1, <1>2, <1>8, <1>9 DEF new, seq, rest

LEMMA CallbackKeeps ==
  ASSUME CursorInv, KeepInv, MoveCursor \/ TellCursor
  PROVE  KeepInv'
<1> DEFINE note == Head(callbacks)
           B == behind \cup ahead
<1>1. /\ CursorType /\ PlacedAmongIds /\ UnracedHandler /\ PlaceBeforeNotes
      /\ cursor \in Nat /\ callbacks \in Seq(Notes)
  BY DEF CursorInv, CursorType, KeepInv
<1>2. /\ crdt' = crdt /\ Text' = Text /\ callbacks # <<>>
      /\ UNCHANGED <<handler, behind, ahead>>
  BY DEF MoveCursor, TellCursor, vars, Text
<1>3. note \in Notes /\ Tail(callbacks) \in Seq(Notes)
  BY <1>1, <1>2
<1> HIDE DEF note
<1>4. PlacedAmongIds'
  BY <1>1, <1>2 DEF PlacedAmongIds
<1>5. UnracedHandler'
  BY <1>1, <1>2 DEF UnracedHandler
<1>6. SUFFICES ASSUME ~drifted', handler = Idle \/ handler.at \in {"read", "edit"}
               PROVE  /\ \E T \in Seq(CharID) : /\ Between(T, cursor', behind, ahead)
                                                /\ Joined(callbacks', T, Text, B)
                      /\ callbacks' = <<>> \/ ~Head(callbacks').moved => told' = cursor'
  BY <1>2, <1>4, <1>5 DEF KeepInv, PlaceBeforeNotes
<1>7. ~drifted
  BY <1>6 DEF MoveCursor, TellCursor
<1>8. PICK T \in Seq(CharID) : Between(T, cursor, behind, ahead) /\ Joined(callbacks, T, Text, B)
  BY <1>1, <1>6, <1>7 DEF PlaceBeforeNotes
<1>9. PICK U \in Seq(CharID) : Linked(note, T, U, B) /\ Joined(Tail(callbacks), U, Text, B)
  BY <1>1, <1>2, <1>8, JoinedRest DEF note
<1>10. CASE MoveCursor
  <2>1. ~note.moved
    BY <1>10 DEF MoveCursor, note
  <2>2. told = cursor
    BY <1>1, <1>6, <1>7, <2>1 DEF PlaceBeforeNotes, note
  <2>3. IF note.offset < 0 THEN U = T
        ELSE (note.again /\ Shifted(note) # cursor) \/ Between(U, Shifted(note), behind, ahead)
    BY <1>1, <1>3, <1>8, <1>9, <2>1, ShiftKeeps
  <2>4. CASE note.offset < 0
    <3>1. callbacks' = Tail(callbacks) /\ cursor' = cursor /\ told' = told
      BY <1>10, <2>4 DEF MoveCursor, note
    <3> QED
      BY <1>8, <1>9, <2>2, <2>3, <2>4, <3>1
  <2>5. CASE ~(note.offset < 0)
    <3>1. /\ callbacks' = [callbacks EXCEPT ![1].moved = TRUE]
          /\ cursor' = Shifted(note)
          /\ drifted' = (drifted \/ (note.again /\ cursor' # cursor))
      BY <1>10, <2>5 DEF MoveCursor, note
    <3>2. Between(U, cursor', behind, ahead)
      BY <1>6, <2>3, <2>5, <3>1
    <3> DEFINE moved == [note EXCEPT !.moved = TRUE]
    <3>3. /\ moved \in Notes /\ moved.moved
          /\ callbacks' = <<moved>> \o Tail(callbacks)
          /\ Head(callbacks') = moved /\ callbacks' # <<>>
      BY <1>1, <1>2, <3>1, MovedFirst DEF note
    <3> HIDE DEF moved
    <3>4. Linked(moved, U, U, B)
      BY <3>3 DEF Linked
    <3>5. Joined(callbacks', U, Text, B)
      BY <1>3, <1>9, <3>3, <3>4, JoinedFirst
    <3> QED
      BY <3>2, <3>3, <3>5
  <2> QED
    BY <2>4, <2>5
<1>11. CASE TellCursor
  <2>1. /\ note.moved /\ told' = cursor /\ callbacks' = Tail(callbacks) /\ cursor' = cursor
    BY <1>11 DEF TellCursor, note
  <2>2. U = T
    BY <1>9, <2>1 DEF Linked
  <2> QED
    BY <1>8, <1>9, <2>1, <2>2
<1> QED
  BY <1>10, <1>11

\* What a key's edit does to the editor's own text.
LEMMA OwnEdit ==
  ASSUME IInv, NEW pos \in Nat
  PROVE  /\ Insert(User, pos) =>
              /\ Ids(crdt[User].seq) \subseteq Ids(crdt'[User].seq)
              /\ pos <= Len(Text) => Len(Text') = Len(Text) + 1
         /\ Delete(User, pos) =>
              /\ Ids(crdt[User].seq) \subseteq Ids(crdt'[User].seq)
              /\ Widened(Text', Text, pos)
         /\ DeleteOutOfRange(User, pos) =>
              Ids(crdt[User].seq) \subseteq Ids(crdt'[User].seq)
<1> DEFINE e == crdt[User]
<1>1. /\ EngineOK(e) /\ e.seq \in Seq(Node)
      /\ Text \in Seq(CharID) /\ Len(Text) \in Nat /\ Text = GetDocument(e.seq)
  BY TextIsSeq DEF Text
<1>2. crdt \in [Sites -> Engine] /\ User \in Sites /\ User \in Nat
  BY UserAssumption, SitesAssumption DEF IInv, TypeOK
<1>3. Text' = GetDocument(crdt'[User].seq)
  BY DEF Text
<1>4. ASSUME Insert(User, pos)
      PROVE  /\ Ids(e.seq) \subseteq Ids(crdt'[User].seq)
             /\ pos <= Len(Text) => Len(Text') = Len(Text) + 1
  <2> DEFINE r == LocalInsert(e, User, pos)
             id == [clock |-> e.clock + 1, site |-> User]
  <2>1. crdt'[User] = r.engine
    BY <1>2, <1>4 DEF Insert, Commit
  <2> HIDE DEF r, id
  <2>1a. EngineOK(crdt[User]) /\ User \in Nat
    BY <1>1, <1>2
  <2>1b. LocalInserted(crdt[User], User, r)
    BY <2>1a, LocalInsertFacts DEF r
  <2>2. /\ EngineOK(r.engine)
        /\ OpOK(r.op)
        /\ r.op.id = [clock |-> crdt[User].clock + 1, site |-> User]
        /\ r.engine.clock = crdt[User].clock + 1
        /\ Ids(r.engine.seq) = Ids(crdt[User].seq) \cup {r.op.id}
    BY <2>1b DEF LocalInserted
  <2> HIDE DEF e
  <2>3. ASSUME pos <= Len(Text) PROVE Len(Text') = Len(Text) + 1
    <3>1. pos \in 0 .. Len(GetDocument(e.seq))
      BY <1>1, <2>3
    <3>2. Text' = InsertAt(Text, pos + 1, id)
      <4> DEFINE doc == GetDocument(e.seq)
                 after == GetDocument(r.engine.seq)
      <4>0. EngineOK(e) /\ User \in Nat /\ id = [clock |-> e.clock + 1, site |-> User]
        BY <1>1, <1>2 DEF id
      <4>1. after = InsertAt(doc, pos + 1, id)
        <5>1. r = LocalInsert(e, User, pos)
          BY DEF r
        <5> HIDE DEF id
        <5>2. GetDocument(LocalInsert(e, User, pos).engine.seq) = InsertAt(doc, pos + 1, id)
          BY <3>1, <4>0, TypedInPlace
        <5> QED
          BY <5>1, <5>2
      <4>2. Text = doc /\ Text' = after
        BY <1>1, <1>3, <2>1
      <4> QED
        BY <4>1, <4>2
    <3>3. id \in CharID
      BY <1>1, <1>2, EngineFields DEF CharID, id
    <3> DEFINE at == pos + 1
               T == Text
    <3>4. T \in Seq(CharID) /\ at \in 1 .. Len(T) + 1
      BY <1>1, <2>3
    <3> HIDE DEF at, T
    <3>5. Len(InsertAt(T, at, id)) = Len(T) + 1
      BY <3>3, <3>4, InsertAtShape, SMTT(60)
    <3> QED
      BY <3>2, <3>5 DEF at, T
  <2> QED
    BY <2>1, <2>2, <2>3 DEF e
<1>5. ASSUME Delete(User, pos)
      PROVE  /\ Ids(e.seq) \subseteq Ids(crdt'[User].seq)
             /\ Widened(Text', Text, pos)
  <2> DEFINE r == LocalDelete(e, pos)
             i == CHOOSE j \in VisibleIter(e.seq, pos) : TRUE
  <2>1. crdt'[User] = r.engine /\ VisibleIter(e.seq, pos) # {}
    BY <1>2, <1>5 DEF Delete, Commit
  <2>2. r.engine.seq = Tombstone(e.seq, i)
    BY DEF LocalDelete
  <2>3. i \in VisibleIter(e.seq, pos)
    BY <2>1
  <2>4. i \in VisiblePlaces(e.seq) /\ VisibleBefore(e.seq, i) = pos
    BY <2>3 DEF VisibleIter, VisiblePlaces
  <2> HIDE DEF e, i
  <2>5. Ids(e.seq) \subseteq Ids(r.engine.seq)
    BY <1>1, <2>1, LocalDeleteOK
  <2> HIDE DEF r
  <2>6. Widened(GetDocument(r.engine.seq), GetDocument(e.seq), pos)
    BY <1>1, <2>2, <2>4, DeletedText
  <2> QED
    BY <1>1, <1>3, <2>1, <2>5, <2>6
<1>6. ASSUME DeleteOutOfRange(User, pos)
      PROVE  Ids(e.seq) \subseteq Ids(crdt'[User].seq)
  <2>1. crdt'[User] = LocalDeleteThrows(e)
    BY <1>2, <1>6 DEF DeleteOutOfRange
  <2>2. LocalDeleteThrows(e).seq = e.seq
    BY <1>1, <1>2 DEF LocalDeleteThrows, Engine
  <2> QED
    BY <2>1, <2>2
<1> QED
  BY <1>4, <1>5, <1>6

LEMMA EditKeeps ==
  ASSUME CursorInv, KeepInv, TypeChar \/ BackspaceChar \/ DeleteChar \/ HandlerThrows
  PROVE  KeepInv'
<1>1. /\ IInv /\ CursorType /\ SizeKnown /\ cursor \in Nat
      /\ PlacedAmongIds /\ UnracedHandler /\ PlaceBeforeNotes
  BY DEF CursorInv, CursorType, KeepInv
<1>2. handler.at = "edit" /\ UNCHANGED <<cursor, told, callbacks, behind, ahead>>
  BY DEF TypeChar, BackspaceChar, DeleteChar, HandlerThrows, Keep
<1>3. handler \in Busy
  BY <1>1, <1>2 DEF CursorType, Idle
<1> DEFINE p == handler.pos
<1>4. /\ p \in Nat /\ handler.len \in Nat /\ handler.raced \in BOOLEAN
      /\ handler.key = "Backspace" => p > 0
      /\ handler.key = "Delete" => p < handler.len
  BY <1>1, <1>2, <1>3 DEF Busy, SizeKnown
<1>5. Text \in Seq(CharID) /\ Len(Text) \in Nat /\ Len(Text) = Size
  BY <1>1, TextIsSeq
<1>6. ~handler.raced => /\ callbacks = <<>> /\ handler.len = Len(Text)
                        /\ p = ReadPos /\ p <= Len(Text)
  BY <1>1, <1>2, <1>3, <1>5 DEF UnracedHandler, SizeKnown, ReadPos
<1>7. handler.key = "Backspace" => p - 1 \in Nat
  BY <1>4
<1> HIDE DEF p
<1>8. Ids(crdt[User].seq) \subseteq Ids(crdt'[User].seq)
  BY <1>1, <1>4, <1>7, OwnEdit
  DEF TypeChar, BackspaceChar, DeleteChar, HandlerThrows, p
<1>9. PlacedAmongIds'
  BY <1>1, <1>2, <1>8 DEF PlacedAmongIds
<1>10. CASE TypeChar
  <2>1. handler' = [handler EXCEPT !.at = "set", !.pos = @ + 1] /\ Insert(User, p)
    BY <1>10 DEF TypeChar, p
  <2>2. handler'.at = "set" /\ handler'.pos = p + 1 /\ handler'.raced = handler.raced
    BY <1>3, <2>1 DEF Busy, p
  <2>3. ~handler.raced => p + 1 <= Len(Text')
    BY <1>1, <1>4, <1>5, <1>6, <2>1, OwnEdit
  <2>4. UnracedHandler'
    BY <1>2, <1>6, <2>2, <2>3 DEF UnracedHandler
  <2>5. PlaceBeforeNotes'
    BY <2>2 DEF PlaceBeforeNotes, Idle
  <2> QED
    BY <1>9, <2>4, <2>5 DEF KeepInv
<1>11. CASE BackspaceChar
  <2>1. /\ handler' = [handler EXCEPT !.at = "set", !.pos = @ - 1]
        /\ Delete(User, p - 1) /\ handler.key = "Backspace"
    BY <1>11 DEF BackspaceChar, p
  <2>2. handler'.at = "set" /\ handler'.pos = p - 1 /\ handler'.raced = handler.raced
    BY <1>3, <2>1 DEF Busy, p
  <2>3. Widened(Text', Text, p - 1)
    BY <1>1, <1>7, <2>1, OwnEdit
  <2>4. p - 1 <= Len(Text')
    BY <1>4, <2>3 DEF Widened
  <2>5. UnracedHandler'
    BY <1>2, <1>6, <2>2, <2>4 DEF UnracedHandler
  <2>6. PlaceBeforeNotes'
    BY <2>2 DEF PlaceBeforeNotes, Idle
  <2> QED
    BY <1>9, <2>5, <2>6 DEF KeepInv
<1>12. CASE DeleteChar
  <2>1. /\ handler' = Idle /\ drifted' = (drifted \/ handler.raced)
        /\ Delete(User, p) /\ handler.key = "Delete"
    BY <1>12 DEF DeleteChar, p
  <2>2. UnracedHandler'
    BY <2>1 DEF UnracedHandler, Idle, Busy
  <2>3. ASSUME ~drifted' PROVE PlaceBeforeNotes'
    <3>1. ~drifted /\ ~handler.raced
      BY <2>1, <2>3
    <3>2. /\ callbacks = <<>> /\ p = cursor /\ p < Len(Text)
          /\ Between(Text, cursor, behind, ahead) /\ told = cursor
      <4>1. callbacks = <<>> /\ p = ReadPos /\ p < handler.len /\ handler.len = Len(Text)
        BY <1>4, <1>6, <2>1, <3>1
      <4>2. p = cursor
        BY <1>1, <1>4, <4>1 DEF ReadPos
      <4>3. Between(Text, cursor, behind, ahead) /\ told = cursor
        BY <1>1, <1>2, <3>1, <4>1, PlaceInText DEF KeepInv
      <4> QED
        BY <4>1, <4>2, <4>3
    <3>3. Widened(Text', Text, p)
      BY <1>1, <1>4, <2>1, OwnEdit
    <3>4. /\ Text' \in Seq(CharID) /\ Len(Text') \in Nat /\ Len(Text) = Len(Text') + 1
          /\ \A n \in 1 .. p : Text[n] = Text'[n]
          /\ \A n \in p + 1 .. Len(Text') : Text[n + 1] = Text'[n]
      BY <3>3 DEF Widened
    <3>5. ASSUME NEW n \in 1 .. Len(Text')
          PROVE  (Text'[n] \in behind => n <= p) /\ (Text'[n] \in ahead => n > p)
      <4>1. \A k \in 1 .. Len(Text) : /\ Text[k] \in behind => k <= p
                                      /\ Text[k] \in ahead => k > p
        BY <1>5, <3>2 DEF Between
      <4>2. CASE n <= p
        <5>1. n \in 1 .. Len(Text) /\ Text'[n] = Text[n]
          BY <1>4, <1>5, <3>4, <4>2
        <5> QED
          BY <4>1, <4>2, <5>1
      <4>3. CASE n > p
        <5>1. n + 1 \in 1 .. Len(Text) /\ Text'[n] = Text[n + 1]
          BY <1>4, <1>5, <3>4, <4>3
        <5> QED
          BY <1>4, <4>1, <4>3, <5>1
      <4> QED
        BY <1>4, <4>2, <4>3
    <3>6. Between(Text', p, behind, ahead)
      <4>1. p <= Len(Text') /\ DOMAIN Text' = 1 .. Len(Text')
        BY <1>4, <3>2, <3>4
      <4> QED
        BY <3>5, <4>1 DEF Between
    <3>7. \E T \in Seq(CharID) : /\ Between(T, cursor, behind, ahead)
                                 /\ Joined(callbacks, T, Text', behind \cup ahead)
      BY <3>2, <3>4, <3>6, PlaceNoted
    <3> QED
      BY <1>2, <3>2, <3>7 DEF PlaceBeforeNotes
  <2>4. PlaceBeforeNotes'
    BY <2>3 DEF PlaceBeforeNotes
  <2> QED
    BY <1>9, <2>2, <2>4 DEF KeepInv
<1>13. CASE HandlerThrows
  <2>1. handler' = [handler EXCEPT !.at = "dead"]
    BY <1>13 DEF HandlerThrows
  <2>2. handler'.at = "dead" /\ handler'.raced = handler.raced
    BY <1>3, <2>1 DEF Busy
  <2>3. UnracedHandler'
    BY <1>2, <1>6, <2>2 DEF UnracedHandler
  <2>4. PlaceBeforeNotes'
    BY <2>2 DEF PlaceBeforeNotes, Idle
  <2> QED
    BY <1>9, <2>3, <2>4 DEF KeepInv
<1> QED
  BY <1>10, <1>11, <1>12, <1>13

LEMMA ReceiveKeeps ==
  ASSUME CursorInv, KeepInv, ReceiveRemote
  PROVE  KeepInv'
<1> DEFINE B == behind \cup ahead
<1>1. /\ IInv /\ CursorType /\ PlacedAmongIds /\ UnracedHandler /\ PlaceBeforeNotes
      /\ B \subseteq Ids(crdt[User].seq)
  BY DEF CursorInv, KeepInv, PlacedAmongIds
<1>2. callbacks = <<>> /\ UNCHANGED <<cursor, told, behind, ahead, drifted>>
  BY DEF ReceiveRemote
<1>3. PICK op \in BagToSet(net[User]) :
        \/ Park(User, op) /\ UNCHANGED <<callbacks, handler>>
        \/ /\ Apply(User, op)
           /\ callbacks' = <<Note(op, crdt[User], ApplyRemote(crdt[User], op))>>
                             \o DrainNotes(ApplyRemote(crdt[User], op), pending[User], {op})
           /\ handler' = IF handler = Idle THEN Idle ELSE [handler EXCEPT !.raced = TRUE]
  BY DEF ReceiveRemote
<1>4. CASE Park(User, op) /\ UNCHANGED <<callbacks, handler>>
  <2>1. crdt' = crdt /\ Text' = Text
    BY <1>4 DEF Park, Text
  <2>2. PlacedAmongIds'
    BY <1>1, <1>2, <2>1 DEF PlacedAmongIds
  <2>3. UnracedHandler'
    <3>1. handler' = handler /\ callbacks' = callbacks /\ cursor' = cursor
      BY <1>2, <1>4
    <3>2. ReadPos' = ReadPos
      BY <3>1 DEF ReadPos
    <3> QED
      BY <1>1, <1>2, <2>1, <3>1, <3>2 DEF UnracedHandler
  <2>4. PlaceBeforeNotes'
    BY <1>1, <1>2, <1>4, <2>1 DEF PlaceBeforeNotes
  <2> QED
    BY <2>2, <2>3, <2>4 DEF KeepInv
<1>5. CASE /\ Apply(User, op)
           /\ callbacks' = <<Note(op, crdt[User], ApplyRemote(crdt[User], op))>>
                             \o DrainNotes(ApplyRemote(crdt[User], op), pending[User], {op})
           /\ handler' = IF handler = Idle THEN Idle ELSE [handler EXCEPT !.raced = TRUE]
  <2> DEFINE e == crdt[User]
             new == ApplyRemote(e, op)
             first == Note(op, e, new)
             rest == DrainNotes(new, pending[User], {op})
             last == DrainPending(new, pending[User], {op})
  <2>1. /\ op \in Issued /\ OpOK(op) /\ op \in Operation
        /\ \A o \in Issued : OpOK(o)
    BY <1>1, UserAssumption DEF IInv, TransitInv, IssuedInv, BagToSet, OpOK
  <2>2. /\ EngineOK(e) /\ CanApply(e, op) /\ Ids(e.seq) \subseteq KnownIds(Issued)
        /\ pending[User] \in Seq(Issued)
    BY <1>1, <1>5, UserAssumption DEF IInv, EnginesInv, TransitInv, Apply
  <2>3. crdt'[User] = last.crdt
    <3>1. crdt \in [Sites -> Engine]
      BY <1>1 DEF IInv, TypeOK
    <3> QED
      BY <1>5, <3>1, UserAssumption DEF Apply
  <2>4. Text = GetDocument(e.seq) /\ Text' = GetDocument(last.crdt.seq)
        /\ B \subseteq Ids(e.seq) /\ Text \in Seq(CharID)
    BY <1>1, <2>3, TextIsSeq DEF Text
  <2>5. callbacks' = <<first>> \o rest
    BY <1>5
  <2>6. new = ApplyRemote(e, op) /\ rest = DrainNotes(new, pending[User], {op})
        /\ last = DrainPending(new, pending[User], {op}) /\ first = Note(op, e, new)
    OBVIOUS
  <2> HIDE DEF e, new, first, rest, last, B
  <2>7. /\ EngineOK(new) /\ Ids(e.seq) \subseteq Ids(new.seq)
        /\ Ids(new.seq) \subseteq Ids(e.seq) \cup {op.id}
    BY <2>1, <2>2, <2>6, ApplyRemoteOK
  <2>8. Ids(new.seq) \subseteq KnownIds(Issued) /\ B \subseteq Ids(new.seq)
    BY <2>1, <2>2, <2>4, <2>7 DEF KnownIds
  <2>9. Linked(first, Text, GetDocument(new.seq), B)
    BY <2>1, <2>2, <2>4, <2>6, NoteLinked
  <2>10. first \in Notes /\ ~first.moved
    <3>1. first \in Notes
      BY <2>1, <2>6, <2>7, NoteType
    <3>2. ~first.moved
      BY <2>6 DEF Note
    <3> QED
      BY <3>1, <3>2
  <2>11. /\ rest \in Seq(Notes)
         /\ Joined(rest, GetDocument(new.seq), GetDocument(last.crdt.seq), B)
         /\ B \subseteq Ids(last.crdt.seq)
    <3>1. {op} \subseteq Issued
      BY <2>1
    <3> QED
      BY <2>1, <2>2, <2>6, <2>7, <2>8, <3>1, DrainLinks
  <2>12. Joined(callbacks', Text, Text', B)
    BY <2>4, <2>5, <2>9, <2>10, <2>11, JoinedFirst
  <2>13. callbacks' # <<>> /\ Head(callbacks') = first
    BY <2>5, <2>10, <2>11
  <2>14. PlacedAmongIds'
    BY <1>2, <2>3, <2>11 DEF PlacedAmongIds, B
  <2>15. /\ handler' = Idle \/ handler'.raced
         /\ handler' = Idle \/ handler'.at \in {"read", "edit"}
              => handler = Idle \/ handler.at \in {"read", "edit"}
    <3>1. CASE handler = Idle
      BY <1>5, <3>1
    <3>2. CASE handler # Idle
      <4>1. handler \in Busy /\ handler' = [handler EXCEPT !.raced = TRUE]
        BY <1>1, <1>5, <3>2 DEF CursorType
      <4>2. handler'.raced /\ handler'.at = handler.at /\ handler.at # "idle"
        BY <4>1 DEF Busy
      <4> QED
        BY <4>2 DEF Idle
    <3> QED
      BY <3>1, <3>2
  <2>16. UnracedHandler'
    BY <2>15 DEF UnracedHandler, Idle, Busy
  <2>17. PlaceBeforeNotes'
    <3> SUFFICES ASSUME ~drifted', handler' = Idle \/ handler'.at \in {"read", "edit"}
                 PROVE  /\ \E T \in Seq(CharID) :
                             /\ Between(T, cursor', behind', ahead')
                             /\ Joined(callbacks', T, Text', behind' \cup ahead')
                        /\ told' = cursor'
      BY DEF PlaceBeforeNotes
    <3>1. Between(Text, cursor, behind, ahead) /\ told = cursor
      BY <1>1, <1>2, <2>15, PlaceInText
    <3> QED
      BY <1>2, <2>4, <2>12, <3>1 DEF B
  <2> QED
    BY <2>14, <2>16, <2>17 DEF KeepInv
<1> QED
  BY <1>3, <1>4, <1>5

\* What leaves the editor's own document, cursor and handler alone.
LEMMA ElsewhereKeeps ==
  ASSUME KeepInv, crdt'[User] = crdt[User], UNCHANGED cursorVars
  PROVE  KeepInv'
<1>1. Text' = Text
  BY DEF Text
<1>2. UNCHANGED <<cursor, told, handler, callbacks, behind, ahead, drifted>>
  BY DEF cursorVars
<1>3. ReadPos' = ReadPos
  BY <1>2 DEF ReadPos
<1>4. PlacedAmongIds'
  BY <1>2 DEF KeepInv, PlacedAmongIds
<1>5. UnracedHandler'
  BY <1>1, <1>2, <1>3 DEF KeepInv, UnracedHandler
<1>6. PlaceBeforeNotes'
  BY <1>1, <1>2 DEF KeepInv, PlaceBeforeNotes
<1> QED
  BY <1>4, <1>5, <1>6 DEF KeepInv

LEMMA KeepNextOK ==
  ASSUME CursorInv, KeepInv, [CursorNext]_<<vars, cursorVars>>
  PROVE  KeepInv'
<1>1. CASE UNCHANGED <<vars, cursorVars>>
  <2>1. crdt' = crdt /\ UNCHANGED cursorVars
    BY <1>1 DEF vars
  <2> QED
    BY <2>1, ElsewhereKeeps
<1>2. CASE Others
  <2>1. UNCHANGED cursorVars
    BY <1>2 DEF Others
  <2> QED
    BY <1>2, <2>1, OthersElsewhere, ElsewhereKeeps DEF CursorInv
<1> QED
  BY <1>1, <1>2, ReadingKeeps, EditKeeps, PlacingKeeps, ReceiveKeeps, CallbackKeeps
  DEF CursorNext

\* At rest the cursor is where it was placed, and the peers know, unless one
\* of the known reasons has moved it.
THEOREM CursorStaysInPlace == CursorSpec => []CursorKeepsPlace
<1>1. CursorInit => CursorInv /\ KeepInv
  <2> SUFFICES ASSUME CursorInit PROVE CursorInv /\ KeepInv
    OBVIOUS
  <2>1. CursorInv
    BY CursorInitOK
  <2>2. IInv /\ handler = Idle /\ callbacks = <<>> /\ behind = {} /\ ahead = {}
        /\ cursor = 0 /\ told = 0
    BY <2>1 DEF CursorInit, CursorInv
  <2>3. PlacedAmongIds /\ UnracedHandler
    BY <2>2 DEF PlacedAmongIds, UnracedHandler, Idle, Busy
  <2>4. Between(Text, 0, {}, {}) /\ Text \in Seq(CharID)
    BY <2>2, TextIsSeq DEF Between
  <2>5. \E T \in Seq(CharID) : Between(T, 0, {}, {}) /\ Joined(<<>>, T, Text, {} \cup {})
    BY <2>4, PlaceNoted
  <2>6. PlaceBeforeNotes
    BY <2>2, <2>5 DEF PlaceBeforeNotes
  <2> QED
    BY <2>1, <2>3, <2>6 DEF KeepInv
<1>2. CursorInv /\ KeepInv /\ [CursorNext]_<<vars, cursorVars>> => CursorInv' /\ KeepInv'
  BY CursorNextOK, KeepNextOK
<1>3. CursorInv /\ KeepInv => CursorKeepsPlace
  <2> SUFFICES ASSUME CursorInv, KeepInv, handler = Idle, callbacks = <<>>, ~drifted
               PROVE  /\ told = cursor /\ cursor <= Size
                      /\ \A i \in DOMAIN Text : /\ Text[i] \in behind => i <= cursor
                                                /\ Text[i] \in ahead => i > cursor
    BY DEF CursorKeepsPlace
  <2>1. Between(Text, cursor, behind, ahead) /\ told = cursor
    BY PlaceInText DEF CursorInv
  <2>2. Len(Text) = Size
    BY TextIsSeq DEF CursorInv
  <2> QED
    BY <2>1, <2>2 DEF Between
<1> QED
  BY <1>1, <1>2, <1>3, PTL DEF CursorSpec

=============================================================================
