------------------------------- MODULE RGA -------------------------------
(***************************************************************************)
(* The CRDT engine of src/src/rga.cpp: a Replicated Growable Array.  The    *)
(* document is a sequence of nodes headed by a sentinel; deleting a         *)
(* character only sets its tombstone.  An engine is a record               *)
(*                                                                         *)
(*     [clock |-> the Lamport clock clock_, seq |-> the node list seq_]     *)
(*                                                                         *)
(* index_ maps the identifier of every node of seq_ to its place, and      *)
(* every method that adds a node to one adds it to the other, so it is     *)
(* derived here: Ids is its key set and Idx a lookup.  The character a     *)
(* node carries is fixed by its identifier and left out.                   *)
(***************************************************************************)
EXTENDS Integers, Sequences, FiniteSets, SequencesExt

CharID == [clock : Nat, site : Nat]

SENTINEL_ID == [clock |-> 0, site |-> 0]

\* Mutant of Less: no tie-break by site.
Less_ClockOnly(a, b) == a.clock < b.clock

\* CharID::operator<: lower clock first, ties broken by the lower site.
Less(a, b) == IF a.clock # b.clock THEN a.clock < b.clock ELSE a.site < b.site

Operation == [type : {"INSERT", "DELETE"}, id : CharID, left : CharID]

InsertOp(id, left) == [type |-> "INSERT", id |-> id, left |-> left]
DeleteOp(id)       == [type |-> "DELETE", id |-> id, left |-> SENTINEL_ID]

Node == [id : CharID, left : CharID, tomb : BOOLEAN]

Engine == [clock : Nat, seq : Seq(Node)]

NewEngine ==
  [clock |-> 0,
   seq   |-> <<[id |-> SENTINEL_ID, left |-> SENTINEL_ID, tomb |-> TRUE]>>]

-----------------------------------------------------------------------------
(* Lookups.                                                                *)

Ids(seq)     == {seq[i].id : i \in DOMAIN seq}
Idx(seq, id) == CHOOSE i \in DOMAIN seq : seq[i].id = id

\* How many visible characters stand before place i.
VisibleBefore(seq, i) == Cardinality({j \in 1 .. i - 1 : ~seq[j].tomb})

VisiblePlaces(seq) == {i \in DOMAIN seq : ~seq[i].tomb}

\* The place of the n-th visible character, counting from 0: one or none.
VisibleIter(seq, n) ==
  {i \in DOMAIN seq : ~seq[i].tomb /\ VisibleBefore(seq, i) = n}

VisibleAt(seq, n) ==
  IF VisibleIter(seq, n) = {} THEN SENTINEL_ID
  ELSE seq[CHOOSE i \in VisibleIter(seq, n) : TRUE].id

\* The elements of a sequence at the places of a set, in their order.
ElementsAt(seq, places) ==
  LET Place(n) == CHOOSE i \in places : Cardinality({j \in places : j <= i}) = n
  IN  [n \in 1 .. Cardinality(places) |-> seq[Place(n)]]

\* The text, as the identifiers of its characters.
GetDocument(seq) ==
  LET visible == ElementsAt(seq, VisiblePlaces(seq))
  IN  [i \in DOMAIN visible |-> visible[i].id]

-----------------------------------------------------------------------------
(* Placing a node.                                                         *)

\* The ancestor of id that is a child of target, or the sentinel when id
\* does not descend from target.
RootAncestor(seq, id, target) ==
  LET Parent(x) == seq[Idx(seq, x)].left
      climb[x \in Ids(seq)] ==
        IF Parent(x) = target THEN x
        ELSE IF Parent(x) = SENTINEL_ID \/ Parent(x) \notin Ids(seq)
             THEN SENTINEL_ID
             ELSE climb[Parent(x)]
  IN  climb[id]

\* Mutant of Skips: passes over the larger siblings, not over their children.
Skips_SiblingsOnly(seq, newID, left, i) ==
  seq[i].left = left /\ Less(newID, seq[i].id)

\* The scan of insertNode passes over the node at place i: it descends from
\* a larger sibling of the new node.
Skips(seq, newID, left, i) ==
  LET root == RootAncestor(seq, seq[i].id, left)
  IN  root # SENTINEL_ID /\ Less(newID, root)

\* Where that scan, which starts just after the left neighbour, stops.
InsertPos(seq, newID, left) ==
  LET first == Idx(seq, left) + 1
  IN  CHOOSE p \in first .. Len(seq) + 1 :
        /\ \A i \in first .. p - 1 : Skips(seq, newID, left, i)
        /\ p <= Len(seq) => ~Skips(seq, newID, left, p)

InsertNode(seq, newID, left) ==
  InsertAt(seq, InsertPos(seq, newID, left),
           [id |-> newID, left |-> left, tomb |-> FALSE])

\* Mutant of Tombstone: a second DELETE brings the character back.
Tombstone_Toggles(seq, i) == [seq EXCEPT ![i].tomb = ~@]

Tombstone(seq, i) == [seq EXCEPT ![i].tomb = TRUE]

-----------------------------------------------------------------------------
(* The operations of the class.  A local edit returns the engine it leaves *)
(* and the operation to broadcast.                                         *)

\* Mutant of LocalInsert: the clock is read but not advanced.
LocalInsert_NoTick(e, site, pos) ==
  LET left == VisibleAt(e.seq, pos - 1)
      id   == [clock |-> e.clock + 1, site |-> site]
  IN  [engine |-> [clock |-> e.clock, seq |-> InsertNode(e.seq, id, left)],
       op     |-> InsertOp(id, left)]

\* A position past the end falls back on the sentinel: the character is put
\* at the front of the text and nothing is thrown.
LocalInsert(e, site, pos) ==
  LET left == VisibleAt(e.seq, pos - 1)
      id   == [clock |-> e.clock + 1, site |-> site]
  IN  [engine |-> [clock |-> e.clock + 1, seq |-> InsertNode(e.seq, id, left)],
       op     |-> InsertOp(id, left)]

\* The clock is advanced before the position is looked up.
LocalDelete(e, pos) ==
  LET i == CHOOSE j \in VisibleIter(e.seq, pos) : TRUE
  IN  [engine |-> [clock |-> e.clock + 1, seq |-> Tombstone(e.seq, i)],
       op     |-> DeleteOp(e.seq[i].id)]

\* Mutant of LocalDeleteThrows: takes back more than it advanced.
LocalDeleteThrows_Undo(e) == [e EXCEPT !.clock = @ - 1]

\* What a localDelete that throws std::out_of_range leaves behind.
LocalDeleteThrows(e) == [e EXCEPT !.clock = @ + 1]

CanApply(e, op) == op.type = "DELETE" \/ op.left \in Ids(e.seq)

\* Mutant of ApplyRemote: the clock counts local edits only.
ApplyRemote_NoClock(e, op) ==
  [e EXCEPT !.seq =
     IF op.type = "INSERT"
     THEN IF op.id \in Ids(@) THEN @ ELSE InsertNode(@, op.id, op.left)
     ELSE IF op.id \in Ids(@) THEN Tombstone(@, Idx(@, op.id)) ELSE @]

ApplyRemote(e, op) ==
  [clock |-> IF op.id.clock >= e.clock THEN op.id.clock + 1 ELSE e.clock,
   seq   |-> IF op.type = "INSERT"
             THEN IF op.id \in Ids(e.seq) THEN e.seq
                  ELSE InsertNode(e.seq, op.id, op.left)
             ELSE IF op.id \in Ids(e.seq)
                  THEN Tombstone(e.seq, Idx(e.seq, op.id))
                  ELSE e.seq]
=============================================================================
