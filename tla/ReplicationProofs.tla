------------------------ MODULE ReplicationProofs ------------------------
(***************************************************************************)
(* Safety of Replication for any sites, any number of operations and any   *)
(* behaviour of the network: no CharID is issued twice; all sites have one *)
(* order of the characters; drains are complete; what is delivered is not  *)
(* lost and ends in one text; what is typed appears where it was typed;    *)
(* and nothing is undone.                                                  *)
(***************************************************************************)
EXTENDS Replication, SequenceTheorems, FiniteSetTheorems, WellFoundedInduction, TLAPS

-----------------------------------------------------------------------------
(* Natural numbers.                                                        *)

\* Every nonempty set of naturals has a least element.
LEMMA NatLeast ==
  ASSUME NEW T, T \subseteq Nat, T # {}
  PROVE  \E m \in T : \A n \in T : m <= n
<1>1. PICK m \in T : \A n \in T : ~(<<n, m>> \in OpToRel(<, Nat))
  BY NatLessThanWellFounded, WFMin
<1>2. \A n \in T : ~(n < m)
  BY <1>1 DEF OpToRel
<1> QED
  BY <1>2

\* Induction on the naturals, for a set of numbers.
LEMMA NatInductionSet ==
  ASSUME NEW T, 0 \in T, \A n \in Nat : n \in T => n + 1 \in T
  PROVE  Nat \subseteq T
<1> SUFFICES ASSUME Nat \ T # {} PROVE FALSE
  OBVIOUS
<1>1. PICK m \in Nat \ T : \A n \in Nat \ T : m <= n
  BY NatLeast
<1>2. m # 0 /\ m - 1 \in Nat
  BY <1>1
<1>3. m - 1 \in T
  BY <1>1, <1>2
<1>4. (m - 1) + 1 \in T
  BY <1>2, <1>3
<1> QED
  BY <1>1, <1>4

\* Iterating a function from a start value yields a sequence of values: first
\* for every number of steps, then for all of them.
IteratesTo(g, n, start, F) ==
  g[0] = start /\ \A k \in 0 .. n - 1 : g[k + 1] = F[g[k]]

IsIteration(f, S, start, F) ==
  f \in [Nat -> S] /\ f[0] = start /\ \A n \in Nat : f[n + 1] = F[f[n]]

LEMMA IterationExists ==
  ASSUME NEW S, NEW start, start \in S, NEW F, F \in [S -> S]
  PROVE  \E f : IsIteration(f, S, start, F)
<1> DEFINE T == {n \in Nat : \E g \in [0 .. n -> S] : IteratesTo(g, n, start, F)}
<1>1. 0 \in T
  <2> DEFINE g == [k \in 0 .. 0 |-> start]
  <2>1. g \in [0 .. 0 -> S] /\ IteratesTo(g, 0, start, F)
    BY DEF IteratesTo
  <2> QED
    BY <2>1
<1>2. ASSUME NEW n \in Nat, n \in T PROVE n + 1 \in T
  <2>1. PICK g \in [0 .. n -> S] : IteratesTo(g, n, start, F)
    BY <1>2
  <2> DEFINE h == [k \in 0 .. n + 1 |-> IF k = n + 1 THEN F[g[n]] ELSE g[k]]
  <2>2. h \in [0 .. n + 1 -> S]
    BY <2>1
  <2>3. h[0] = start
    BY <2>1 DEF IteratesTo
  <2>4. ASSUME NEW k \in 0 .. (n + 1) - 1 PROVE h[k + 1] = F[h[k]]
    BY <2>1 DEF IteratesTo
  <2>5. IteratesTo(h, n + 1, start, F)
    BY <2>3, <2>4 DEF IteratesTo
  <2> HIDE DEF h
  <2> QED
    BY <2>2, <2>5
<1>3. Nat \subseteq T
  <2> HIDE DEF T
  <2> QED
    BY <1>1, <1>2, NatInductionSet
<1> DEFINE A(n) == CHOOSE g \in [0 .. n -> S] : IteratesTo(g, n, start, F)
<1>4. \A n \in Nat : A(n) \in [0 .. n -> S] /\ IteratesTo(A(n), n, start, F)
  BY <1>3
<1> HIDE DEF A, T
<1>5. ASSUME NEW m \in Nat, NEW n \in Nat, m <= n PROVE A(m)[m] = A(n)[m]
  <2> DEFINE K == {k \in Nat : k <= m => A(m)[k] = A(n)[k]}
  <2>1. 0 \in K
    BY <1>4 DEF IteratesTo
  <2>2. ASSUME NEW k \in Nat, k \in K PROVE k + 1 \in K
    <3> SUFFICES ASSUME k + 1 <= m PROVE A(m)[k + 1] = A(n)[k + 1]
      OBVIOUS
    <3>1. k \in 0 .. m - 1 /\ k \in 0 .. n - 1
      BY <1>5
    <3>2. A(m)[k + 1] = F[A(m)[k]] /\ A(n)[k + 1] = F[A(n)[k]]
      BY <3>1, <1>4 DEF IteratesTo
    <3> QED
      BY <3>1, <3>2, <2>2
  <2>3. Nat \subseteq K
    <3> HIDE DEF K
    <3> QED
      BY <2>1, <2>2, NatInductionSet
  <2> QED
    BY <2>3
<1> DEFINE f == [n \in Nat |-> A(n)[n]]
<1>6. f \in [Nat -> S]
  BY <1>4
<1>7. f[0] = start
  BY <1>4 DEF IteratesTo
<1>8. ASSUME NEW n \in Nat PROVE f[n + 1] = F[f[n]]
  <2>1. A(n + 1)[n + 1] = F[A(n + 1)[n]]
    BY <1>4, n \in 0 .. (n + 1) - 1 DEF IteratesTo
  <2>2. A(n)[n] = A(n + 1)[n]
    BY <1>5
  <2> QED
    BY <2>1, <2>2
<1> QED
  BY <1>6, <1>7, <1>8 DEF IsIteration

-----------------------------------------------------------------------------
(* Lists of nodes.                                                         *)

SentinelFirst(seq) ==
  /\ seq # <<>>
  /\ seq[1].id = SENTINEL_ID /\ seq[1].left = SENTINEL_ID /\ seq[1].tomb

NoDuplicates(seq) == \A i, j \in DOMAIN seq : seq[i].id = seq[j].id => i = j

LeftBefore(seq) ==
  \A i \in 2 .. Len(seq) :
    \E j \in 1 .. i - 1 :
      seq[j].id = seq[i].left /\ Less(seq[j].id, seq[i].id)

\* Whatever stands between a node and its left neighbour is larger than the
\* node: its left neighbour is the nearest smaller node before it.  So the
\* order of a list follows from its identifiers and left neighbours alone.
NearestSmaller(seq) ==
  \A i \in 2 .. Len(seq) : \A j \in 1 .. i - 1 :
    seq[j].id = seq[i].left =>
      \A k \in j + 1 .. i - 1 : Less(seq[i].id, seq[k].id)

WellFormed(seq) ==
  /\ seq \in Seq(Node)
  /\ SentinelFirst(seq)
  /\ NoDuplicates(seq)
  /\ LeftBefore(seq)
  /\ NearestSmaller(seq)

\* Looking up an identifier of the list finds the node that carries it.
LEMMA IdxIsPlace ==
  ASSUME NEW seq \in Seq(Node), NEW id \in Ids(seq)
  PROVE  Idx(seq, id) \in 1 .. Len(seq) /\ seq[Idx(seq, id)].id = id
BY DEF Ids, Idx

\* The scan of insertNode stops, to the right of the left neighbour and at
\* the end of the list at the latest.
LEMMA InsertPosRange ==
  ASSUME NEW seq \in Seq(Node), NEW newID, NEW left \in Ids(seq),
         NEW pos, pos = InsertPos(seq, newID, left)
  PROVE  /\ pos \in Idx(seq, left) + 1 .. Len(seq) + 1
         /\ \A i \in Idx(seq, left) + 1 .. pos - 1 : Skips(seq, newID, left, i)
         /\ pos <= Len(seq) => ~Skips(seq, newID, left, pos)
<1> DEFINE first == Idx(seq, left) + 1
           Stops(p) == p <= Len(seq) => ~Skips(seq, newID, left, p)
           T == {p \in first .. Len(seq) + 1 : Stops(p)}
<1>1. Idx(seq, left) \in 1 .. Len(seq) /\ Len(seq) \in Nat
  BY IdxIsPlace
<1>2. T \subseteq Nat /\ Len(seq) + 1 \in T
  BY <1>1
<1>3. PICK m \in T : \A p \in T : m <= p
  BY <1>2, NatLeast
<1>4. \A i \in first .. m - 1 : Skips(seq, newID, left, i)
  BY <1>1, <1>3
<1>5. /\ m \in first .. Len(seq) + 1
      /\ \A i \in first .. m - 1 : Skips(seq, newID, left, i)
      /\ m <= Len(seq) => ~Skips(seq, newID, left, m)
  BY <1>3, <1>4
<1> QED
  BY <1>5 DEF InsertPos

(* The order of identifiers and the scan of insertNode.                    *)

LEMMA LessOrder ==
  ASSUME NEW a \in CharID, NEW b \in CharID, NEW c \in CharID
  PROVE  /\ ~Less(a, a)
         /\ ~(Less(a, b) /\ Less(b, a))
         /\ a = b \/ Less(a, b) \/ Less(b, a)
         /\ Less(a, b) /\ Less(b, c) => Less(a, c)
<1>1. a.clock \in Nat /\ a.site \in Nat /\ a = [clock |-> a.clock, site |-> a.site]
  BY DEF CharID
<1>2. b.clock \in Nat /\ b.site \in Nat /\ b = [clock |-> b.clock, site |-> b.site]
  BY DEF CharID
<1>3. c.clock \in Nat /\ c.site \in Nat
  BY DEF CharID
<1> QED
  BY <1>1, <1>2, <1>3 DEF Less

LEMMA IdsAreCharIDs ==
  ASSUME NEW seq, WellFormed(seq)
  PROVE  /\ \A i \in 1 .. Len(seq) : seq[i].id \in CharID /\ seq[i].left \in CharID
         /\ Ids(seq) \subseteq CharID
         /\ SENTINEL_ID \in CharID
         /\ Len(seq) \in Nat /\ DOMAIN seq = 1 .. Len(seq) /\ 1 \in DOMAIN seq
<1>1. seq \in Seq(Node) /\ Len(seq) \in Nat /\ DOMAIN seq = 1 .. Len(seq) /\ seq # <<>>
  BY DEF WellFormed, SentinelFirst
<1>2. \A i \in 1 .. Len(seq) : seq[i] \in Node
  BY <1>1, ElementOfSeq
<1>3. 1 \in DOMAIN seq
  BY <1>1, EmptySeq
<1> QED
  BY <1>1, <1>2, <1>3 DEF Ids, Node, CharID, SENTINEL_ID

LEMMA IdxOfPlace ==
  ASSUME NEW seq, WellFormed(seq), NEW i \in 1 .. Len(seq)
  PROVE  seq[i].id \in Ids(seq) /\ Idx(seq, seq[i].id) = i
<1>1. i \in DOMAIN seq /\ seq \in Seq(Node)
  BY DEF WellFormed
<1>2. seq[i].id \in Ids(seq)
  BY <1>1 DEF Ids
<1>3. Idx(seq, seq[i].id) \in DOMAIN seq /\ seq[Idx(seq, seq[i].id)].id = seq[i].id
  BY <1>1, <1>2, IdxIsPlace
<1> QED
  BY <1>1, <1>2, <1>3 DEF WellFormed, NoDuplicates

\* Every node but the sentinel has its left neighbour before it, and only
\* larger nodes in between.
LEMMA LeftPlace ==
  ASSUME NEW seq, WellFormed(seq), NEW i \in 2 .. Len(seq),
         NEW j, j = Idx(seq, seq[i].left)
  PROVE  /\ seq[i].left \in Ids(seq)
         /\ j \in 1 .. i - 1 /\ seq[j].id = seq[i].left
         /\ Less(seq[j].id, seq[i].id)
         /\ \A k \in j + 1 .. i - 1 : Less(seq[i].id, seq[k].id)
<1>1. Len(seq) \in Nat /\ DOMAIN seq = 1 .. Len(seq)
  BY IdsAreCharIDs
<1>2. PICK m \in 1 .. i - 1 : seq[m].id = seq[i].left /\ Less(seq[m].id, seq[i].id)
  BY DEF WellFormed, LeftBefore
<1>3. m \in 1 .. Len(seq)
  BY <1>1
<1>4. m = j /\ seq[i].left \in Ids(seq)
  BY <1>2, <1>3, IdxOfPlace
<1>5. \A k \in j + 1 .. i - 1 : Less(seq[i].id, seq[k].id)
  BY <1>2, <1>4 DEF WellFormed, NearestSmaller
<1> QED
  BY <1>2, <1>4, <1>5

\* The climb of rootAncestor ends, and does what its loop says.
LEMMA RootAncestorStep ==
  ASSUME NEW seq, WellFormed(seq), NEW target, NEW n \in 1 .. Len(seq)
  PROVE  RootAncestor(seq, seq[n].id, target) =
           IF seq[n].left = target THEN seq[n].id
           ELSE IF seq[n].left = SENTINEL_ID THEN SENTINEL_ID
           ELSE RootAncestor(seq, seq[n].left, target)
<1> DEFINE Parent(x) == seq[Idx(seq, x)].left
           Body(g, x) == IF Parent(x) = target THEN x
                         ELSE IF Parent(x) = SENTINEL_ID \/ Parent(x) \notin Ids(seq)
                              THEN SENTINEL_ID
                              ELSE g[Parent(x)]
           Climbs(g) == g = [x \in Ids(seq) |-> Body(g, x)]
           climb == CHOOSE g : Climbs(g)
<1>1. /\ Len(seq) \in Nat /\ DOMAIN seq = 1 .. Len(seq) /\ Ids(seq) \subseteq CharID
      /\ SENTINEL_ID \in CharID
      /\ \A i \in 1 .. Len(seq) : seq[i].id \in Ids(seq) /\ Idx(seq, seq[i].id) = i
  BY IdsAreCharIDs, IdxOfPlace
<1>2. \A i \in 1 .. Len(seq) : Parent(seq[i].id) = seq[i].left
  BY <1>1
\* The parent of a node lies before it, or is the sentinel.
<1>3. ASSUME NEW i \in 1 .. Len(seq), seq[i].left # SENTINEL_ID
      PROVE  seq[i].left \in Ids(seq) /\ \A m \in i .. Len(seq) : seq[i].left # seq[m].id
  <2>1. i # 1
    BY <1>3 DEF WellFormed, SentinelFirst
  <2>2. i \in 2 .. Len(seq)
    BY <1>1, <2>1
  <2>3. seq[i].left \in Ids(seq) /\ Idx(seq, seq[i].left) \in 1 .. i - 1
    BY <2>2, LeftPlace
  <2>4. ASSUME NEW m \in i .. Len(seq), seq[i].left = seq[m].id
        PROVE  FALSE
    BY <1>1, <2>3, <2>4
  <2> QED
    BY <2>3, <2>4
<1> DEFINE Good(g, m) == /\ g \in [Ids(seq) -> CharID]
                         /\ \A i \in 1 .. Len(seq) :
                              i <= m => g[seq[i].id] = Body(g, seq[i].id)
           T == {m \in Nat : \E g : Good(g, m)}
<1>4. 0 \in T
  <2>1. Good([x \in Ids(seq) |-> SENTINEL_ID], 0)
    BY <1>1
  <2> QED
    BY <2>1
<1>5. ASSUME NEW m \in Nat, m \in T
      PROVE  m + 1 \in T
  <2>1. PICK g : Good(g, m)
    BY <1>5
  <2>2. CASE m + 1 > Len(seq)
    <3>1. Good(g, m + 1)
      BY <1>1, <2>1, <2>2
    <3> QED
      BY <3>1
  <2>3. CASE m + 1 <= Len(seq)
    <3> DEFINE y == seq[m + 1].id
               h == [g EXCEPT ![y] = Body(g, y)]
    <3>1. m + 1 \in 1 .. Len(seq)
      BY <1>1, <2>3
    <3>2. Body(g, y) \in CharID
      BY <1>1, <2>1, <3>1
    <3>3. /\ h \in [Ids(seq) -> CharID]
          /\ h[y] = Body(g, y)
          /\ \A x \in Ids(seq) : x # y => h[x] = g[x]
      <4> HIDE DEF Body
      <4>1. y \in Ids(seq)
        BY <1>1, <3>1
      <4> QED
        BY <2>1, <3>2, <4>1
    <3>4. ASSUME NEW i \in 1 .. Len(seq), i <= m + 1
          PROVE  Body(h, seq[i].id) = Body(g, seq[i].id)
      <4>1. seq[i].left # SENTINEL_ID => seq[i].left \in Ids(seq) /\ seq[i].left # y
        BY <1>3, <3>1, <3>4, m + 1 \in i .. Len(seq)
      <4> HIDE DEF h, y
      <4> QED
        BY <1>2, <3>3, <4>1
    <3>5. ASSUME NEW i \in 1 .. Len(seq), i <= m + 1
          PROVE  h[seq[i].id] = Body(h, seq[i].id)
      <4>1. CASE i = m + 1
        BY <3>3, <3>4, <3>5, <4>1
      <4>2. CASE i <= m
        <5>1. seq[i].id # y /\ seq[i].id \in Ids(seq)
          BY <1>1, <3>1, <4>2
        <5>2. g[seq[i].id] = Body(g, seq[i].id)
          BY <2>1, <4>2
        <5> HIDE DEF Body, h, y
        <5> QED
          BY <3>3, <3>4, <3>5, <5>1, <5>2
      <4>3. i = m + 1 \/ i <= m
        BY <3>5
      <4> HIDE DEF h, y, Body
      <4> QED
        BY <4>1, <4>2, <4>3
    <3>6. Good(h, m + 1)
      <4> HIDE DEF h, Body
      <4> QED
        BY <3>3, <3>5
    <3> HIDE DEF h, Good
    <3> QED
      BY <3>6
  <2> QED
    BY <1>1, <2>2, <2>3
<1>6. Nat \subseteq T
  <2> HIDE DEF T
  <2> QED
    BY <1>4, <1>5, NatInductionSet
<1>7. PICK g : Good(g, Len(seq))
  BY <1>1, <1>6
<1>8. \A x \in Ids(seq) : \E i \in 1 .. Len(seq) : x = seq[i].id
  BY <1>1 DEF Ids
<1>9. Climbs(g)
  <2> HIDE DEF Body
  <2>1. \A x \in Ids(seq) : g[x] = Body(g, x)
    BY <1>7, <1>8
  <2> QED
    BY <1>7, <2>1
<1>10. Climbs(climb)
  <2> HIDE DEF Climbs
  <2> QED
    BY <1>9
<1>11. \A x \in Ids(seq) : RootAncestor(seq, x, target) = climb[x]
  BY DEF RootAncestor
<1> HIDE DEF climb
<1>12. climb[seq[n].id] = Body(climb, seq[n].id)
  BY <1>1, <1>10
<1> QED
  BY <1>1, <1>2, <1>3, <1>11, <1>12

\* What inserting one element does to a sequence.
LEMMA InsertAtShape ==
  ASSUME NEW S, NEW seq \in Seq(S), NEW p \in 1 .. Len(seq) + 1, NEW e \in S
  PROVE  /\ InsertAt(seq, p, e) \in Seq(S)
         /\ Len(InsertAt(seq, p, e)) = Len(seq) + 1
         /\ \A i \in 1 .. Len(seq) + 1 :
              InsertAt(seq, p, e)[i] = IF i < p THEN seq[i]
                                       ELSE IF i = p THEN e ELSE seq[i - 1]
<1> DEFINE a == SubSeq(seq, 1, p - 1)
           b == SubSeq(seq, p, Len(seq))
<1>1. Len(seq) \in Nat
  OBVIOUS
<1>2. /\ a \in Seq(S)
      /\ Len(a) = p - 1
      /\ \A i \in 1 .. p - 1 : a[i] = seq[i]
  <2>1. \A i \in 1 .. p - 1 : seq[i] \in S
    BY <1>1, ElementOfSeq
  <2> QED
    BY <1>1, <2>1, SubSeqProperties
<1>3. /\ b \in Seq(S)
      /\ Len(b) = Len(seq) - p + 1
      /\ \A i \in 1 .. Len(seq) - p + 1 : b[i] = seq[p + i - 1]
  <2>1. \A i \in p .. Len(seq) : seq[i] \in S
    BY <1>1, ElementOfSeq
  <2> QED
    BY <1>1, <2>1, SubSeqProperties
<1>4. <<e>> \in Seq(S) /\ Len(<<e>>) = 1 /\ <<e>>[1] = e
  OBVIOUS
<1> HIDE DEF a, b
<1>5. /\ a \o <<e>> \in Seq(S)
      /\ Len(a \o <<e>>) = p
      /\ \A i \in 1 .. p : (a \o <<e>>)[i] = IF i < p THEN seq[i] ELSE e
  BY <1>1, <1>2, <1>4, ConcatProperties
<1> DEFINE ae == a \o <<e>>
<1> HIDE DEF ae
<1>6. /\ ae \in Seq(S) 
      /\ Len(ae) = p
      /\ \A i \in 1 .. p : ae[i] = IF i < p THEN seq[i] ELSE e
  BY <1>5 DEF ae
<1>7. /\ ae \o b \in Seq(S)
      /\ Len(ae \o b) = Len(seq) + 1
      /\ \A i \in 1 .. Len(seq) + 1 :
           (ae \o b)[i] = IF i <= p THEN ae[i] ELSE b[i - p]
  <2>1. ae \in Seq(S) /\ b \in Seq(S)
    BY <1>3, <1>6
  <2>2. /\ ae \o b \in Seq(S)
        /\ Len(ae \o b) = Len(ae) + Len(b)
        /\ \A i \in 1 .. Len(ae) + Len(b) :
             (ae \o b)[i] = IF i <= Len(ae) THEN ae[i] ELSE b[i - Len(ae)]
    BY <2>1, ConcatProperties
  <2>3. Len(ae) = p /\ Len(ae) + Len(b) = Len(seq) + 1
    BY <1>1, <1>3, <1>6
  <2> QED
    BY <2>2, <2>3
<1>8. \A i \in 1 .. Len(seq) + 1 : i > p => b[i - p] = seq[i - 1]
  BY <1>1, <1>3
<1>9. InsertAt(seq, p, e) = ae \o b
  BY DEF InsertAt, ae, a, b
<1> QED
  BY <1>1, <1>6, <1>7, <1>8, <1>9

\* A sequence loses an element: what is left are elements of the sequence.
LEMMA RemoveAtShape ==
  ASSUME NEW S, NEW seq \in Seq(S), NEW p \in 1 .. Len(seq)
  PROVE  /\ RemoveAt(seq, p) \in Seq(S)
         /\ Len(RemoveAt(seq, p)) = Len(seq) - 1
         /\ \A i \in 1 .. Len(seq) - 1 :
              RemoveAt(seq, p)[i] = IF i < p THEN seq[i] ELSE seq[i + 1]
<1> DEFINE a == SubSeq(seq, 1, p - 1)
           b == SubSeq(seq, p + 1, Len(seq))
<1>1. Len(seq) \in Nat /\ \A i \in 1 .. Len(seq) : seq[i] \in S
  BY ElementOfSeq
<1>2. /\ a \in Seq(S)
      /\ Len(a) = p - 1
      /\ \A i \in 1 .. p - 1 : a[i] = seq[i]
  <2>1. \A i \in 1 .. p - 1 : seq[i] \in S
    BY <1>1
  <2> QED
    BY <1>1, <2>1, SubSeqProperties
<1>3. /\ b \in Seq(S)
      /\ Len(b) = Len(seq) - p
      /\ \A i \in 1 .. Len(seq) - p : b[i] = seq[p + i]
  <2>1. \A i \in p + 1 .. Len(seq) : seq[i] \in S
    BY <1>1
  <2> QED
    BY <1>1, <2>1, SubSeqProperties
<1>4. RemoveAt(seq, p) = a \o b
  BY DEF RemoveAt
<1> HIDE DEF a, b
<1>5. /\ a \o b \in Seq(S)
      /\ Len(a \o b) = Len(a) + Len(b)
      /\ \A i \in 1 .. Len(a) + Len(b) :
           (a \o b)[i] = IF i <= Len(a) THEN a[i] ELSE b[i - Len(a)]
  BY <1>2, <1>3, ConcatProperties
<1>6. ASSUME NEW i \in 1 .. Len(seq) - 1
      PROVE  (a \o b)[i] = IF i < p THEN seq[i] ELSE seq[i + 1]
  <2>1. (a \o b)[i] = IF i <= p - 1 THEN a[i] ELSE b[i - (p - 1)]
    BY <1>1, <1>2, <1>3, <1>5
  <2>2. CASE i < p
    BY <1>1, <1>2, <2>1, <2>2
  <2>3. CASE ~(i < p)
    <3>1. i - (p - 1) \in 1 .. Len(seq) - p /\ p + (i - (p - 1)) = i + 1
      BY <1>1, <2>3
    <3> QED
      BY <1>1, <1>3, <2>1, <2>3, <3>1
  <2> QED
    BY <2>2, <2>3
<1> QED
  BY <1>1, <1>2, <1>3, <1>4, <1>5, <1>6

\* insertNode adds one node, to the right of its left neighbour, and shifts
\* the nodes behind it.
LEMMA InsertNodeShape ==
  ASSUME NEW seq \in Seq(Node), NEW newID \in CharID, NEW left \in Ids(seq),
         NEW new, new = InsertNode(seq, newID, left),
         NEW p, p = InsertPos(seq, newID, left)
  PROVE  /\ new \in Seq(Node)
         /\ Len(new) = Len(seq) + 1
         /\ p \in 2 .. Len(seq) + 1
         /\ Idx(seq, left) \in 1 .. p - 1
         /\ \A i \in 1 .. p - 1 : new[i] = seq[i]
         /\ new[p] = [id |-> newID, left |-> left, tomb |-> FALSE]
         /\ \A i \in p .. Len(seq) : new[i + 1] = seq[i]
<1> DEFINE node == [id |-> newID, left |-> left, tomb |-> FALSE]
<1>1. /\ Idx(seq, left) \in 1 .. Len(seq)
      /\ p \in Idx(seq, left) + 1 .. Len(seq) + 1
      /\ Len(seq) \in Nat
  BY IdxIsPlace, InsertPosRange
<1>2. left \in CharID
  <2>1. \A i \in 1 .. Len(seq) : seq[i] \in Node
    BY ElementOfSeq
  <2> QED
    BY <2>1 DEF Ids, Node
<1>3. node \in Node
  BY <1>2 DEF Node
<1>4. p \in 1 .. Len(seq) + 1
  BY <1>1
<1> HIDE DEF node
<1>5. /\ InsertAt(seq, p, node) \in Seq(Node)
      /\ Len(InsertAt(seq, p, node)) = Len(seq) + 1
      /\ \A i \in 1 .. Len(seq) + 1 :
           InsertAt(seq, p, node)[i] = IF i < p THEN seq[i]
                                       ELSE IF i = p THEN node ELSE seq[i - 1]
  BY <1>3, <1>4, InsertAtShape, SMTT(60)
<1>6. new = InsertAt(seq, p, node)
  BY DEF InsertNode, node
<1>7. /\ new \in Seq(Node)
      /\ Len(new) = Len(seq) + 1
      /\ \A i \in 1 .. Len(seq) + 1 :
           new[i] = IF i < p THEN seq[i] ELSE IF i = p THEN node ELSE seq[i - 1]
  BY <1>5, <1>6
<1>8. p \in 2 .. Len(seq) + 1 /\ Idx(seq, left) \in 1 .. p - 1
  BY <1>1
<1>9. \A i \in 1 .. p - 1 : new[i] = seq[i]
  BY <1>1, <1>7, <1>8
<1>10. new[p] = [id |-> newID, left |-> left, tomb |-> FALSE]
  BY <1>4, <1>7 DEF node
<1>11. ASSUME NEW i \in p .. Len(seq) PROVE new[i + 1] = seq[i]
  <2>1. i + 1 \in 1 .. Len(seq) + 1 /\ ~(i + 1 < p) /\ i + 1 # p /\ (i + 1) - 1 = i
    BY <1>1, <1>8
  <2> QED
    BY <1>7, <2>1
<1> QED
  BY <1>7, <1>8, <1>9, <1>10, <1>11

\* The identifiers of a list after an insertion.
LEMMA InsertNodeIds ==
  ASSUME NEW seq \in Seq(Node), NEW newID \in CharID, NEW left \in Ids(seq)
  PROVE  Ids(InsertNode(seq, newID, left)) = Ids(seq) \cup {newID}
<1> DEFINE new == InsertNode(seq, newID, left)
           p == InsertPos(seq, newID, left)
<1> HIDE DEF new, p
<1>1. /\ new \in Seq(Node)
      /\ Len(new) = Len(seq) + 1
      /\ p \in 2 .. Len(seq) + 1
      /\ \A i \in 1 .. p - 1 : new[i] = seq[i]
      /\ new[p] = [id |-> newID, left |-> left, tomb |-> FALSE]
      /\ \A i \in p .. Len(seq) : new[i + 1] = seq[i]
  BY InsertNodeShape DEF new, p
<1>2. DOMAIN new = 1 .. Len(seq) + 1 /\ DOMAIN seq = 1 .. Len(seq) /\ Len(seq) \in Nat
  BY <1>1
<1>3. \A i \in 1 .. Len(seq) + 1 : i < p \/ i = p \/ i - 1 \in p .. Len(seq)
  BY <1>1, <1>2
<1>4. ASSUME NEW i \in 1 .. Len(seq) + 1 PROVE new[i].id \in Ids(seq) \cup {newID}
  <2>1. CASE i < p
    <3>1. new[i] = seq[i] /\ i \in DOMAIN seq
      BY <1>1, <1>2, <2>1
    <3> QED
      BY <3>1 DEF Ids
  <2>2. CASE i = p
    BY <1>1, <2>2
  <2>3. CASE i - 1 \in p .. Len(seq)
    <3>1. new[(i - 1) + 1] = seq[i - 1]
      BY <1>1, <2>3
    <3>2. (i - 1) + 1 = i /\ i - 1 \in DOMAIN seq
      BY <1>1, <1>2, <2>3
    <3> QED
      BY <3>1, <3>2 DEF Ids
  <2> QED
    BY <1>3, <2>1, <2>2, <2>3
<1>5. ASSUME NEW i \in 1 .. Len(seq) PROVE seq[i].id \in Ids(new)
  <2>1. CASE i < p
    <3>1. new[i] = seq[i] /\ i \in DOMAIN new
      BY <1>1, <1>2, <2>1
    <3> QED
      BY <3>1 DEF Ids
  <2>2. CASE i >= p
    <3>1. new[i + 1] = seq[i] /\ i + 1 \in DOMAIN new
      BY <1>1, <1>2, <2>2
    <3> QED
      BY <3>1 DEF Ids
  <2> QED
    BY <1>1, <2>1, <2>2
<1>6. newID \in Ids(new)
  <2>1. p \in DOMAIN new /\ new[p].id = newID
    BY <1>1, <1>2
  <2> QED
    BY <2>1 DEF Ids
<1> QED
  BY <1>2, <1>4, <1>5, <1>6 DEF Ids, new

\* No node up to the left neighbour itself descends from it.
LEMMA NoneBeforeDescends ==
  ASSUME NEW seq, WellFormed(seq), NEW left \in Ids(seq),
         NEW i \in 1 .. Idx(seq, left)
  PROVE  RootAncestor(seq, seq[i].id, left) = SENTINEL_ID
<1> DEFINE L == Idx(seq, left)
           T == {n \in Nat : \A k \in 1 .. L :
                   k <= n => RootAncestor(seq, seq[k].id, left) = SENTINEL_ID}
<1>1. /\ Len(seq) \in Nat /\ L \in 1 .. Len(seq) /\ seq[L].id = left
      /\ \A k \in 1 .. Len(seq) : Idx(seq, seq[k].id) = k
  BY IdsAreCharIDs, IdxIsPlace, IdxOfPlace DEF WellFormed
<1> HIDE DEF L
<1>2. 0 \in T
  BY <1>1
<1>3. ASSUME NEW n \in Nat, n \in T
      PROVE  n + 1 \in T
  <2> SUFFICES ASSUME n + 1 \in 1 .. L
               PROVE  RootAncestor(seq, seq[n + 1].id, left) = SENTINEL_ID
    BY <1>1, <1>3
  <2>1. CASE n = 0
    <3>1. seq[1].left = SENTINEL_ID /\ seq[1].id = SENTINEL_ID /\ 1 \in 1 .. Len(seq)
      BY <1>1 DEF WellFormed, SentinelFirst
    <3>2. RootAncestor(seq, seq[1].id, left) = SENTINEL_ID
      BY <3>1, RootAncestorStep
    <3>3. n + 1 = 1
      BY <2>1
    <3> QED
      BY <3>2, <3>3
  <2>2. CASE n # 0
    <3> DEFINE j == Idx(seq, seq[n + 1].left)
    <3>1. n + 1 \in 2 .. Len(seq)
      BY <1>1, <2>2
    <3>2. j \in 1 .. n /\ seq[j].id = seq[n + 1].left
      BY <3>1, LeftPlace
    <3>3. seq[n + 1].left # left
      BY <1>1, <3>2
    <3>4. RootAncestor(seq, seq[j].id, left) = SENTINEL_ID
      BY <1>1, <1>3, <3>2
    <3> QED
      BY <3>1, <3>2, <3>3, <3>4, RootAncestorStep
  <2> QED
    BY <2>1, <2>2
<1>4. Nat \subseteq T
  <2> HIDE DEF T
  <2> QED
    BY <1>2, <1>3, NatInductionSet
<1>5. i \in 1 .. L /\ i \in T
  BY <1>1, <1>4 DEF L
<1> QED
  BY <1>5

\* What the scan has passed over is larger than the new node.
LEMMA SkippedAreLarger ==
  ASSUME NEW seq, WellFormed(seq), NEW newID \in CharID,
         NEW left \in Ids(seq), Less(left, newID),
         NEW last \in Idx(seq, left) .. Len(seq),
         \A i \in Idx(seq, left) + 1 .. last : Skips(seq, newID, left, i)
  PROVE  \A i \in Idx(seq, left) + 1 .. last : Less(newID, seq[i].id)
<1> DEFINE L == Idx(seq, left)
           T == {n \in Nat : \A k \in L + 1 .. last : k <= n => Less(newID, seq[k].id)}
<1>1. /\ Len(seq) \in Nat /\ L \in 1 .. Len(seq) /\ seq[L].id = left
      /\ \A k \in 1 .. Len(seq) : seq[k].id \in CharID /\ Idx(seq, seq[k].id) = k
  BY IdsAreCharIDs, IdxIsPlace, IdxOfPlace DEF WellFormed
<1>2. \A i \in L + 1 .. last : Skips(seq, newID, left, i)
  OBVIOUS
<1>3. last \in L .. Len(seq)
  OBVIOUS
<1>4. \A k \in 1 .. L : RootAncestor(seq, seq[k].id, left) = SENTINEL_ID
  BY NoneBeforeDescends
<1> HIDE DEF L
<1>5. 0 \in T
  BY <1>1
<1>6. ASSUME NEW n \in Nat, n \in T
      PROVE  n + 1 \in T
  <2> SUFFICES ASSUME n + 1 \in L + 1 .. last
               PROVE  Less(newID, seq[n + 1].id)
    BY <1>1, <1>6
  <2> DEFINE i == n + 1
             j == Idx(seq, seq[i].left)
             root == RootAncestor(seq, seq[i].id, left)
  <2>1. i \in 2 .. Len(seq) /\ i \in L + 1 .. last
    BY <1>1, <1>3
  <2>2. root # SENTINEL_ID /\ Less(newID, root)
    BY <1>2 DEF Skips
  <2>3. root = IF seq[i].left = left THEN seq[i].id
               ELSE IF seq[i].left = SENTINEL_ID THEN SENTINEL_ID
               ELSE RootAncestor(seq, seq[i].left, left)
    BY <2>1, RootAncestorStep
  <2>4. /\ j \in 1 .. i - 1 /\ seq[j].id = seq[i].left
        /\ Less(seq[j].id, seq[i].id)
    BY <2>1, LeftPlace
  <2> HIDE DEF root, j
  <2>5. CASE seq[i].left = left
    BY <2>2, <2>3, <2>5
  <2>6. CASE seq[i].left # left
    <3>1. RootAncestor(seq, seq[j].id, left) = root
      BY <2>2, <2>3, <2>4, <2>6
    <3>2. j \in L + 1 .. last /\ j <= n
      BY <1>1, <1>4, <2>1, <2>2, <2>4, <3>1
    <3>3. Less(newID, seq[j].id)
      BY <1>6, <3>2
    <3>4. seq[j].id \in CharID /\ seq[i].id \in CharID
      BY <1>1, <2>1, <2>4
    <3> HIDE DEF i
    <3> QED
      BY <2>4, <3>3, <3>4, LessOrder DEF i
  <2> QED
    BY <2>5, <2>6
<1>7. Nat \subseteq T
  <2> HIDE DEF T
  <2> QED
    BY <1>5, <1>6, NatInductionSet
<1>8. \A i \in L + 1 .. last : i \in T
  BY <1>1, <1>3, <1>7
<1> QED
  BY <1>1, <1>8 DEF L

\* Where the scan stops, the next node is smaller than the new one.
LEMMA StopIsSmaller ==
  ASSUME NEW seq, WellFormed(seq), NEW newID \in CharID, newID \notin Ids(seq),
         NEW left \in Ids(seq), Less(left, newID),
         NEW p \in Idx(seq, left) + 1 .. Len(seq),
         \A i \in Idx(seq, left) + 1 .. p - 1 : Skips(seq, newID, left, i),
         ~Skips(seq, newID, left, p)
  PROVE  Less(seq[p].id, newID)
<1> DEFINE L == Idx(seq, left)
           j == Idx(seq, seq[p].left)
<1>1. /\ Len(seq) \in Nat /\ L \in 1 .. Len(seq) /\ seq[L].id = left
      /\ \A k \in 1 .. Len(seq) : /\ seq[k].id \in CharID /\ Idx(seq, seq[k].id) = k
                                 /\ seq[k].id \in Ids(seq)
  BY IdsAreCharIDs, IdxIsPlace, IdxOfPlace DEF WellFormed
<1>2. p \in L + 1 .. Len(seq) /\ p \in 2 .. Len(seq)
  BY <1>1
<1>3. seq[p].id \in CharID /\ seq[p].id # newID /\ left \in CharID
  BY <1>1, <1>2
<1> SUFFICES ASSUME Less(newID, seq[p].id)
             PROVE  FALSE
  BY <1>3, LessOrder
<1>4. Less(left, seq[p].id)
  BY <1>3, LessOrder
<1>5. /\ j \in 1 .. p - 1 /\ seq[j].id = seq[p].left
      /\ \A k \in j + 1 .. p - 1 : Less(seq[p].id, seq[k].id)
  BY <1>2, LeftPlace
<1>6. RootAncestor(seq, seq[p].id, left) =
        IF seq[p].left = left THEN seq[p].id
        ELSE IF seq[p].left = SENTINEL_ID THEN SENTINEL_ID
        ELSE RootAncestor(seq, seq[p].left, left)
  <2>1. p \in 1 .. Len(seq)
    BY <1>1, <1>2
  <2> QED
    BY <2>1, RootAncestorStep
<1>7. seq[1].id = SENTINEL_ID
  BY DEF WellFormed, SentinelFirst
<1>8. \A i \in L + 1 .. p - 1 : Skips(seq, newID, left, i)
  OBVIOUS
<1> HIDE DEF L, j
<1>9. CASE j < L
  <2>1. Less(seq[p].id, left)
    BY <1>1, <1>2, <1>5, <1>9
  <2> QED
    BY <1>3, <1>4, <2>1, LessOrder
<1>10. CASE j = L
  <2>1. seq[p].id # SENTINEL_ID
    BY <1>1, <1>2, <1>7
  <2> QED
    BY <1>1, <1>5, <1>6, <1>10, <2>1 DEF Skips
<1>11. CASE j > L
  <2>1. seq[p].left # left /\ seq[p].left # SENTINEL_ID
    BY <1>1, <1>2, <1>5, <1>7, <1>11, SMTT(30)
  <2>2. Skips(seq, newID, left, j)
    BY <1>1, <1>2, <1>5, <1>8, <1>11
  <2> QED
    BY <1>5, <1>6, <2>1, <2>2 DEF Skips
<1> QED
  BY <1>1, <1>2, <1>5, <1>9, <1>10, <1>11

\* Inserting a new, younger identifier keeps a list well formed.
LEMMA InsertNodeWellFormed ==
  ASSUME NEW seq, WellFormed(seq),
         NEW newID \in CharID, newID \notin Ids(seq),
         NEW left \in Ids(seq), Less(left, newID)
  PROVE  WellFormed(InsertNode(seq, newID, left))
<1> DEFINE new == InsertNode(seq, newID, left)
           p == InsertPos(seq, newID, left)
           node == [id |-> newID, left |-> left, tomb |-> FALSE]
<1> HIDE DEF new, p, node
<1>1. seq \in Seq(Node) /\ Len(seq) \in Nat /\ DOMAIN seq = 1 .. Len(seq)
  BY DEF WellFormed
<1>2. /\ new \in Seq(Node)
      /\ Len(new) = Len(seq) + 1
      /\ p \in 2 .. Len(seq) + 1
      /\ Idx(seq, left) \in 1 .. p - 1
      /\ \A i \in 1 .. p - 1 : new[i] = seq[i]
      /\ new[p] = node
      /\ \A i \in p .. Len(seq) : new[i + 1] = seq[i]
  BY <1>1, InsertNodeShape DEF new, p, node
<1>3. DOMAIN new = 1 .. Len(seq) + 1
  BY <1>1, <1>2
<1> DEFINE Old(i) == IF i < p THEN i ELSE i - 1
<1>4. ASSUME NEW i \in 1 .. Len(seq) + 1, i # p
      PROVE  Old(i) \in 1 .. Len(seq) /\ new[i] = seq[Old(i)]
  <2>1. CASE i < p
    BY <1>1, <1>2, <2>1
  <2>2. CASE i > p
    <3>1. i - 1 \in p .. Len(seq) /\ (i - 1) + 1 = i
      BY <1>1, <1>2, <2>2
    <3>2. new[(i - 1) + 1] = seq[i - 1]
      BY <1>2, <3>1
    <3>3. Old(i) = i - 1 /\ i - 1 \in 1 .. Len(seq)
      BY <1>1, <1>2, <2>2
    <3> QED
      BY <3>1, <3>2, <3>3
  <2> QED
    BY <1>2, <1>4, <2>1, <2>2
<1>5. node.id = newID /\ node.left = left
  BY DEF node
<1>6. SentinelFirst(new)
  <2>1. /\ seq # <<>> /\ seq[1].id = SENTINEL_ID
        /\ seq[1].left = SENTINEL_ID /\ seq[1].tomb
    BY DEF WellFormed, SentinelFirst
  <2>2. new[1] = seq[1] /\ new # <<>>
    BY <1>1, <1>2
  <2> QED
    BY <2>1, <2>2 DEF SentinelFirst
<1>7. NoDuplicates(new)
  <2> SUFFICES ASSUME NEW i \in 1 .. Len(seq) + 1, NEW j \in 1 .. Len(seq) + 1,
                      new[i].id = new[j].id
               PROVE  i = j
    BY <1>3 DEF NoDuplicates
  <2>1. \A k \in 1 .. Len(seq) : seq[k].id # newID
    BY <1>1 DEF Ids
  <2>2. CASE i = p /\ j = p
    BY <2>2
  <2>3. CASE i = p /\ j # p
    BY <1>2, <1>4, <1>5, <2>1, <2>3
  <2>4. CASE i # p /\ j = p
    BY <1>2, <1>4, <1>5, <2>1, <2>4
  <2>5. CASE i # p /\ j # p
    <3>1. seq[Old(i)].id = seq[Old(j)].id
      BY <1>4, <2>5
    <3>2. Old(i) = Old(j)
      BY <1>1, <1>4, <2>5, <3>1 DEF WellFormed, NoDuplicates
    <3> QED
      BY <1>1, <1>2, <2>5, <3>2
  <2> QED
    BY <2>2, <2>3, <2>4, <2>5
<1>8. LeftBefore(new)
  <2> SUFFICES ASSUME NEW i \in 2 .. Len(seq) + 1
               PROVE  \E j \in 1 .. i - 1 :
                        new[j].id = new[i].left /\ Less(new[j].id, new[i].id)
    BY <1>2 DEF LeftBefore
  <2>1. CASE i = p
    <3>1. Idx(seq, left) \in 1 .. p - 1 /\ seq[Idx(seq, left)].id = left
      BY <1>1, <1>2, IdxIsPlace
    <3>2. new[Idx(seq, left)].id = left
      BY <1>2, <3>1
    <3> QED
      BY <1>2, <1>5, <2>1, <3>1, <3>2
  <2>2. CASE i # p
    <3>1. Old(i) \in 2 .. Len(seq) /\ new[i] = seq[Old(i)]
      BY <1>1, <1>2, <1>4, <2>2
    <3>2. PICK j \in 1 .. Old(i) - 1 :
            seq[j].id = seq[Old(i)].left /\ Less(seq[j].id, seq[Old(i)].id)
      BY <3>1 DEF WellFormed, LeftBefore
    <3>3. CASE j < p
      <4>1. new[j] = seq[j] /\ j \in 1 .. i - 1
        BY <1>1, <1>2, <3>1, <3>2, <3>3
      <4> QED
        BY <3>1, <3>2, <4>1
    <3>4. CASE j >= p
      <4>1. new[j + 1] = seq[j] /\ j + 1 \in 1 .. i - 1
        BY <1>1, <1>2, <3>1, <3>2, <3>4
      <4> QED
        BY <3>1, <3>2, <4>1
    <3> QED
      BY <1>2, <3>2, <3>3, <3>4
  <2> QED
    BY <2>1, <2>2
<1>9. NearestSmaller(new)
  <2>1. /\ \A k \in Idx(seq, left) + 1 .. p - 1 : Less(newID, seq[k].id)
        /\ p <= Len(seq) => Less(seq[p].id, newID)
    <3>1. /\ p \in Idx(seq, left) + 1 .. Len(seq) + 1
          /\ \A i \in Idx(seq, left) + 1 .. p - 1 : Skips(seq, newID, left, i)
          /\ p <= Len(seq) => ~Skips(seq, newID, left, p)
      BY <1>1, InsertPosRange DEF p
    <3>2. Idx(seq, left) \in 1 .. Len(seq)
      BY <1>1, IdxIsPlace
    <3>3. p - 1 \in Idx(seq, left) .. Len(seq)
      BY <1>1, <3>1, <3>2
    <3>4. p <= Len(seq) => p \in Idx(seq, left) + 1 .. Len(seq)
      BY <1>1, <3>1, <3>2
    <3> QED
      BY <3>1, <3>3, <3>4, SkippedAreLarger, StopIsSmaller
  <2>2. \A k \in 1 .. Len(seq) : seq[k].id \in CharID /\ seq[k].id # newID
    BY <1>1, IdsAreCharIDs DEF Ids
  <2> SUFFICES ASSUME NEW i \in 2 .. Len(seq) + 1, NEW j \in 1 .. i - 1,
                      new[j].id = new[i].left, NEW k \in j + 1 .. i - 1
               PROVE  Less(new[i].id, new[k].id)
    BY <1>2 DEF NearestSmaller
  <2>3. CASE i = p
    <3>1. j < p /\ k < p /\ j \in 1 .. Len(seq) /\ k \in 1 .. Len(seq)
      BY <1>1, <1>2, <2>3
    <3>2. seq[j].id = left /\ new[k] = seq[k]
      BY <1>2, <1>5, <2>3, <3>1
    <3>3. j = Idx(seq, left)
      BY <3>1, <3>2, IdxOfPlace
    <3> QED
      BY <1>2, <1>5, <2>1, <2>3, <3>2, <3>3
  <2>4. CASE i # p
    <3> DEFINE m == Old(i)
    <3>1. m \in 2 .. Len(seq) /\ new[i] = seq[m]
      BY <1>1, <1>2, <1>4, <2>4
    <3> DEFINE n == Idx(seq, seq[m].left)
    <3>2. /\ n \in 1 .. m - 1 /\ seq[n].id = seq[m].left
          /\ \A q \in n + 1 .. m - 1 : Less(seq[m].id, seq[q].id)
      BY <3>1, LeftPlace
    <3>3. n \in 1 .. Len(seq) /\ j \in 1 .. Len(seq) + 1
      BY <1>1, <3>1, <3>2
    <3>4. j # p
      BY <1>2, <1>5, <2>2, <3>1, <3>2, <3>3
    <3>5. Old(j) = n
      <4>1. Old(j) \in 1 .. Len(seq) /\ seq[Old(j)].id = seq[n].id
        BY <1>4, <3>1, <3>2, <3>3, <3>4
      <4> QED
        BY <1>1, <3>3, <4>1 DEF WellFormed, NoDuplicates
    <3> HIDE DEF n
    <3>6. CASE k # p
      <4>1. new[k] = seq[Old(k)]
        BY <1>1, <1>4, <3>6
      <4>2. Old(k) \in n + 1 .. m - 1
        BY <1>1, <1>2, <2>4, <3>4, <3>5, <3>6
      <4> QED
        BY <3>1, <3>2, <4>1, <4>2
    <3>7. CASE k = p
      <4>1. p <= m /\ n < p /\ p <= Len(seq)
        BY <1>1, <1>2, <2>4, <3>1, <3>4, <3>5, <3>7
      <4>2. Less(seq[m].id, newID)
        <5>1. CASE m = p
          BY <2>1, <4>1, <5>1
        <5>2. CASE m # p
          <6>1. p \in n + 1 .. m - 1 /\ p \in 1 .. Len(seq) /\ m \in 1 .. Len(seq)
            BY <1>2, <3>1, <3>3, <4>1, <5>2
          <6>2. Less(seq[m].id, seq[p].id) /\ Less(seq[p].id, newID)
            BY <2>1, <3>2, <4>1, <6>1
          <6> HIDE DEF m
          <6> QED
            BY <2>2, <6>1, <6>2, LessOrder
        <5> QED
          BY <5>1, <5>2
      <4> QED
        BY <1>2, <1>5, <3>1, <3>7, <4>2
    <3> QED
      BY <3>6, <3>7
  <2> QED
    BY <2>3, <2>4
<1> QED
  BY <1>2, <1>6, <1>7, <1>8, <1>9 DEF WellFormed, new

\* A tombstone changes no identifier, no left neighbour and no place.
LEMMA TombstoneWellFormed ==
  ASSUME NEW seq, WellFormed(seq), NEW i \in DOMAIN seq
  PROVE  /\ WellFormed(Tombstone(seq, i))
         /\ Ids(Tombstone(seq, i)) = Ids(seq)
<1> DEFINE new == Tombstone(seq, i)
<1>1. seq \in Seq(Node) /\ Len(seq) \in Nat /\ DOMAIN seq = 1 .. Len(seq)
  BY DEF WellFormed
<1>2. seq[i] \in Node
  BY <1>1, ElementOfSeq
<1> DEFINE node == [seq[i] EXCEPT !.tomb = TRUE]
<1>3. /\ node \in Node
      /\ node.id = seq[i].id /\ node.left = seq[i].left /\ node.tomb = TRUE
  BY <1>2 DEF Node
<1> HIDE DEF node
<1>4. new = [seq EXCEPT ![i] = node]
  BY <1>1, <1>2 DEF Tombstone, node
<1> HIDE DEF new
<1>5. /\ new \in Seq(Node)
      /\ Len(new) = Len(seq)
      /\ \A j \in 1 .. Len(seq) : new[j] = IF j = i THEN node ELSE seq[j]
  BY <1>1, <1>3, <1>4, ExceptSeq
<1>6. \A j \in 1 .. Len(seq) : /\ new[j].id = seq[j].id
                               /\ new[j].left = seq[j].left
                               /\ seq[j].tomb => new[j].tomb
  BY <1>3, <1>5
<1>7. DOMAIN new = 1 .. Len(seq)
  BY <1>5
<1>8. SentinelFirst(new)
  BY <1>1, <1>5, <1>6 DEF WellFormed, SentinelFirst
<1>9. NoDuplicates(new)
  BY <1>1, <1>6, <1>7 DEF WellFormed, NoDuplicates
<1>10. LeftBefore(new)
  <2> SUFFICES ASSUME NEW k \in 2 .. Len(seq)
               PROVE  \E j \in 1 .. k - 1 :
                        new[j].id = new[k].left /\ Less(new[j].id, new[k].id)
    BY <1>5 DEF LeftBefore
  <2>1. PICK j \in 1 .. k - 1 :
          seq[j].id = seq[k].left /\ Less(seq[j].id, seq[k].id)
    BY DEF WellFormed, LeftBefore
  <2> QED
    BY <1>1, <1>6, <2>1
<1>11. Ids(new) = Ids(seq)
  BY <1>1, <1>6, <1>7 DEF Ids
<1>12. NearestSmaller(new)
  <2> SUFFICES ASSUME NEW k \in 2 .. Len(seq), NEW j \in 1 .. k - 1,
                      new[j].id = new[k].left, NEW m \in j + 1 .. k - 1
               PROVE  Less(new[k].id, new[m].id)
    BY <1>5 DEF NearestSmaller
  <2>1. seq[j].id = seq[k].left
    BY <1>1, <1>6
  <2>2. Less(seq[k].id, seq[m].id)
    BY <2>1 DEF WellFormed, NearestSmaller
  <2> QED
    BY <1>1, <1>6, <2>2
<1> QED
  BY <1>5, <1>8, <1>9, <1>10, <1>11, <1>12 DEF WellFormed, new

-----------------------------------------------------------------------------
(* Two lists with nodes in common.                                         *)

\* Both lists know the same left neighbour of every node they share.
SameLefts(p, q) ==
  \A i \in 2 .. Len(p) : \A j \in 2 .. Len(q) :
    p[i].id = q[j].id => p[i].left = q[j].left

LEMMA IdHasPlace ==
  ASSUME NEW seq, WellFormed(seq), NEW x \in Ids(seq)
  PROVE  /\ x \in CharID
         /\ Idx(seq, x) \in 1 .. Len(seq) /\ Idx(seq, x) \in Nat
         /\ seq[Idx(seq, x)].id = x
         /\ Idx(seq, x) = 1 <=> x = SENTINEL_ID
<1>1. /\ Idx(seq, x) \in 1 .. Len(seq) /\ seq[Idx(seq, x)].id = x
      /\ Len(seq) \in Nat /\ 1 \in 1 .. Len(seq)
  BY IdxIsPlace, IdsAreCharIDs DEF WellFormed
<1>2. seq[1].id = SENTINEL_ID /\ Idx(seq, seq[1].id) = 1
  BY <1>1, IdxOfPlace DEF WellFormed, SentinelFirst
<1> QED
  BY <1>1, <1>2, IdsAreCharIDs

\* The left neighbour of a shared node is shared, stands before the node in
\* both lists, and only larger nodes stand in between.
LEMMA SharedLeft ==
  ASSUME NEW p, WellFormed(p), NEW q, WellFormed(q), SameLefts(p, q),
         NEW x \in Ids(p) \cap Ids(q), x # SENTINEL_ID
  PROVE  \E l \in Ids(p) \cap Ids(q) :
           /\ Idx(p, l) < Idx(p, x) /\ Idx(q, l) < Idx(q, x)
           /\ \A y \in Ids(p) : Idx(p, l) < Idx(p, y) /\ Idx(p, y) < Idx(p, x) => Less(x, y)
           /\ \A y \in Ids(q) : Idx(q, l) < Idx(q, y) /\ Idx(q, y) < Idx(q, x) => Less(x, y)
<1> DEFINE i == Idx(p, x)
           j == Idx(q, x)
<1>1. /\ Len(p) \in Nat /\ Len(q) \in Nat
      /\ i \in 2 .. Len(p) /\ p[i].id = x
      /\ j \in 2 .. Len(q) /\ q[j].id = x
  BY IdHasPlace, IdsAreCharIDs
<1> HIDE DEF i, j
<1>2. p[i].left = q[j].left
  BY <1>1 DEF SameLefts
<1> DEFINE l == p[i].left
           m == Idx(p, l)
           n == Idx(q, l)
<1>3. /\ l \in Ids(p) /\ m \in 1 .. i - 1
      /\ \A k \in m + 1 .. i - 1 : Less(p[i].id, p[k].id)
  BY <1>1, LeftPlace
<1>4. /\ l \in Ids(q) /\ n \in 1 .. j - 1
      /\ \A k \in n + 1 .. j - 1 : Less(q[j].id, q[k].id)
  BY <1>1, <1>2, LeftPlace
<1> HIDE DEF l, m, n
<1>5. ASSUME NEW y \in Ids(p), m < Idx(p, y), Idx(p, y) < i
      PROVE  Less(x, y)
  <2>1. Idx(p, y) \in Nat /\ p[Idx(p, y)].id = y
    BY IdHasPlace
  <2> QED
    BY <1>1, <1>3, <1>5, <2>1
<1>6. ASSUME NEW y \in Ids(q), n < Idx(q, y), Idx(q, y) < j
      PROVE  Less(x, y)
  <2>1. Idx(q, y) \in Nat /\ q[Idx(q, y)].id = y
    BY IdHasPlace
  <2> QED
    BY <1>1, <1>4, <1>6, <2>1
<1>7. m < i /\ n < j
  BY <1>1, <1>3, <1>4
<1> QED
  BY <1>3, <1>4, <1>5, <1>6, <1>7 DEF i, j, m, n

\* Two lists never order two nodes differently: of all pairs that they did,
\* take one as far to the left as can be; the left neighbour of its larger
\* node would make one further to the left.
LEMMA SameOrder ==
  ASSUME NEW p, WellFormed(p), NEW q, WellFormed(q), SameLefts(p, q),
         NEW x \in Ids(p) \cap Ids(q), NEW y \in Ids(p) \cap Ids(q),
         Idx(p, x) < Idx(p, y)
  PROVE  Idx(q, x) < Idx(q, y)
<1> DEFINE Common == Ids(p) \cap Ids(q)
           Inverted(a, b) == Idx(p, a) < Idx(p, b) /\ Idx(q, b) < Idx(q, a)
           T == {n \in Nat : \E a, b \in Common :
                              Inverted(a, b) /\ n = Idx(p, a) + Idx(p, b)}
<1>1. \A a \in Common : /\ a \in CharID
                        /\ Idx(p, a) \in 1 .. Len(p) /\ Idx(q, a) \in 1 .. Len(q)
                        /\ Idx(p, a) \in Nat /\ Idx(q, a) \in Nat
                        /\ p[Idx(p, a)].id = a /\ q[Idx(q, a)].id = a
                        /\ a = SENTINEL_ID => Idx(p, a) = 1 /\ Idx(q, a) = 1
  BY IdHasPlace
<1>2. \A a \in Common : a # SENTINEL_ID =>
        \E l \in Common :
          /\ Idx(p, l) < Idx(p, a) /\ Idx(q, l) < Idx(q, a)
          /\ \A b \in Ids(p) : Idx(p, l) < Idx(p, b) /\ Idx(p, b) < Idx(p, a) => Less(a, b)
          /\ \A b \in Ids(q) : Idx(q, l) < Idx(q, b) /\ Idx(q, b) < Idx(q, a) => Less(a, b)
  BY SharedLeft
<1>3. ASSUME T # {}
      PROVE  FALSE
  <2>1. PICK m \in T : \A n \in T : m <= n
    <3>1. T \subseteq Nat
      OBVIOUS
    <3> HIDE DEF T
    <3> QED
      BY <1>3, <3>1, NatLeast
  <2>2. PICK a \in Common, b \in Common : Inverted(a, b) /\ m = Idx(p, a) + Idx(p, b)
    BY <2>1
  <2>3. \A c, d \in Common : Inverted(c, d) => Idx(p, a) + Idx(p, b) <= Idx(p, c) + Idx(p, d)
    <3> SUFFICES ASSUME NEW c \in Common, NEW d \in Common, Inverted(c, d)
                 PROVE  Idx(p, a) + Idx(p, b) <= Idx(p, c) + Idx(p, d)
      OBVIOUS
    <3>1. Idx(p, c) + Idx(p, d) \in T
      <4>1. Idx(p, c) + Idx(p, d) \in Nat
        <5>1. Idx(p, c) \in Nat /\ Idx(p, d) \in Nat
          BY <1>1
        <5> QED
          BY <5>1
      <4> HIDE DEF Inverted, Common
      <4> QED
        BY <4>1
    <3> HIDE DEF T
    <3> QED
      BY <2>1, <2>2, <3>1
  <2> HIDE DEF T
  <2>4. /\ Idx(p, a) < Idx(p, b) /\ Idx(q, b) < Idx(q, a)
        /\ a \in CharID /\ b \in CharID /\ a # b
    BY <1>1, <2>2
  <2>5. CASE Less(a, b)
    <3>1. b # SENTINEL_ID
      BY <1>1, <2>4
    <3>2. PICK l \in Common :
            /\ Idx(p, l) < Idx(p, b) /\ Idx(q, l) < Idx(q, b)
            /\ \A c \in Ids(p) : Idx(p, l) < Idx(p, c) /\ Idx(p, c) < Idx(p, b) => Less(b, c)
      BY <1>2, <3>1
    <3>3. ~(Idx(p, l) < Idx(p, a))
      BY <2>4, <2>5, <3>2, LessOrder
    <3>4. l # a
      BY <1>1, <2>4, <3>2
    <3>5. Idx(p, l) # Idx(p, a)
      BY <1>1, <3>4
    <3>6. Inverted(a, l) /\ Idx(p, a) + Idx(p, l) < Idx(p, a) + Idx(p, b)
      BY <1>1, <2>4, <3>2, <3>3, <3>5
    <3> HIDE DEF Inverted
    <3> QED
      BY <1>1, <2>3, <3>6
  <2>6. CASE Less(b, a)
    <3>1. a # SENTINEL_ID
      BY <1>1, <2>4
    <3>2. PICK l \in Common :
            /\ Idx(p, l) < Idx(p, a) /\ Idx(q, l) < Idx(q, a)
            /\ \A c \in Ids(q) : Idx(q, l) < Idx(q, c) /\ Idx(q, c) < Idx(q, a) => Less(a, c)
      BY <1>2, <3>1
    <3>3. ~(Idx(q, l) < Idx(q, b))
      BY <2>4, <2>6, <3>2, LessOrder
    <3>4. l # b
      BY <1>1, <2>4, <3>2
    <3>5. Idx(q, l) # Idx(q, b)
      BY <1>1, <3>4
    <3>6. Inverted(l, b) /\ Idx(p, l) + Idx(p, b) < Idx(p, a) + Idx(p, b)
      BY <1>1, <2>4, <3>2, <3>3, <3>5
    <3> HIDE DEF Inverted
    <3> QED
      BY <1>1, <2>3, <3>6
  <2> QED
    BY <2>4, <2>5, <2>6, LessOrder
<1>4. ~Inverted(x, y)
  <2> SUFFICES ASSUME Inverted(x, y) PROVE FALSE
    OBVIOUS
  <2>1. Idx(p, x) + Idx(p, y) \in T
    BY <1>1
  <2> HIDE DEF T
  <2> QED
    BY <1>3, <2>1
<1>5. Idx(q, x) # Idx(q, y)
  BY <1>1
<1> QED
  BY <1>1, <1>4, <1>5

\* A list of places that goes up is never below its index.
LEMMA RisingIsAbove ==
  ASSUME NEW n \in Nat, NEW f, \A i \in 1 .. n : f[i] \in Nat \ {0},
         \A i \in 1 .. n : \A j \in 1 .. n : i < j => f[i] < f[j],
         NEW k \in 1 .. n
  PROVE  k <= f[k]
<1> DEFINE T == {m \in Nat : m \in 1 .. n => m <= f[m]}
<1>1. 0 \in T
  OBVIOUS
<1>2. ASSUME NEW m \in Nat, m \in T
      PROVE  m + 1 \in T
  <2> SUFFICES ASSUME m + 1 \in 1 .. n
               PROVE  m + 1 <= f[m + 1]
    OBVIOUS
  <2>1. CASE m = 0
    <3>1. f[m + 1] \in Nat \ {0}
      OBVIOUS
    <3> QED
      BY <2>1, <3>1
  <2>2. CASE m # 0
    <3>1. m \in 1 .. n /\ m < m + 1
      BY <2>2
    <3>2. f[m] < f[m + 1] /\ f[m] \in Nat /\ f[m + 1] \in Nat
      BY <3>1
    <3>3. m <= f[m]
      BY <1>2, <3>1
    <3> QED
      BY <3>2, <3>3
  <2> QED
    BY <2>1, <2>2
<1>3. Nat \subseteq T
  <2> HIDE DEF T
  <2> QED
    BY <1>1, <1>2, NatInductionSet
<1> QED
  BY <1>3

\* Two lists of the same nodes have them at the same places.
LEMMA SamePlaces ==
  ASSUME NEW p, WellFormed(p), NEW q, WellFormed(q), SameLefts(p, q), SameLefts(q, p),
         Ids(p) = Ids(q)
  PROVE  Len(p) = Len(q) /\ \A i \in 1 .. Len(p) : p[i].id = q[i].id /\ p[i].left = q[i].left
<1> DEFINE f == [i \in 1 .. Len(p) |-> Idx(q, p[i].id)]
           g == [i \in 1 .. Len(q) |-> Idx(p, q[i].id)]
<1>1. Len(p) \in Nat /\ Len(q) \in Nat
  BY IdsAreCharIDs
<1>2. \A i \in 1 .. Len(p) : p[i].id \in Ids(p) /\ Idx(p, p[i].id) = i
  BY IdxOfPlace
<1>3. \A i \in 1 .. Len(q) : q[i].id \in Ids(p) /\ Idx(q, q[i].id) = i
  BY IdxOfPlace
<1>4. \A x \in Ids(p) : /\ Idx(p, x) \in 1 .. Len(p) /\ p[Idx(p, x)].id = x
                        /\ Idx(q, x) \in 1 .. Len(q) /\ q[Idx(q, x)].id = x
  BY IdHasPlace
<1>5. /\ \A i \in 1 .. Len(p) : f[i] \in 1 .. Len(q) /\ g[f[i]] = i
      /\ \A i \in 1 .. Len(q) : g[i] \in 1 .. Len(p) /\ f[g[i]] = i
  BY <1>2, <1>3, <1>4
<1>6. \A i \in 1 .. Len(p) : \A j \in 1 .. Len(p) : i < j => f[i] < f[j]
  BY <1>2, SameOrder
<1>7. \A i \in 1 .. Len(q) : \A j \in 1 .. Len(q) : i < j => g[i] < g[j]
  BY <1>3, SameOrder
<1>8. \A i \in 1 .. Len(p) : q[f[i]].id = p[i].id
  BY <1>2, <1>4
<1> HIDE DEF f, g
<1>9. \A k \in 1 .. Len(p) : k <= f[k]
  <2>1. \A i \in 1 .. Len(p) : f[i] \in Nat \ {0}
    BY <1>1, <1>5
  <2> QED
    BY <1>1, <1>6, <2>1, RisingIsAbove
<1>10. \A k \in 1 .. Len(q) : k <= g[k]
  <2>1. \A i \in 1 .. Len(q) : g[i] \in Nat \ {0}
    BY <1>1, <1>5
  <2> QED
    BY <1>1, <1>7, <2>1, RisingIsAbove
<1>11. \A k \in 1 .. Len(p) : f[k] = k
  BY <1>1, <1>5, <1>9, <1>10
<1>12. \A k \in 1 .. Len(q) : g[k] = k
  BY <1>1, <1>5, <1>9, <1>10
<1>13. Len(p) = Len(q)
  <2>1. 1 \in 1 .. Len(p) /\ 1 \in 1 .. Len(q)
    BY IdsAreCharIDs
  <2>2. Len(p) \in 1 .. Len(q)
    BY <1>1, <1>5, <1>11, <2>1
  <2>3. Len(q) \in 1 .. Len(p)
    BY <1>1, <1>5, <1>12, <2>1
  <2> QED
    BY <1>1, <2>2, <2>3
<1>14. \A i \in 1 .. Len(p) : p[i].id = q[i].id
  BY <1>8, <1>11
<1>15. \A i \in 1 .. Len(p) : p[i].left = q[i].left
  <2>1. p[1].left = SENTINEL_ID /\ q[1].left = SENTINEL_ID
    BY DEF WellFormed, SentinelFirst
  <2>2. ASSUME NEW i \in 2 .. Len(p)
        PROVE  p[i].left = q[i].left
    <3>1. i \in 1 .. Len(p) /\ i \in 2 .. Len(q)
      BY <1>1, <1>13, <2>2
    <3> QED
      BY <1>14, <3>1 DEF SameLefts
  <2>3. \A i \in 1 .. Len(p) : i = 1 \/ i \in 2 .. Len(p)
    BY <1>1
  <2> QED
    BY <2>1, <2>2, <2>3
<1> QED
  BY <1>13, <1>14, <1>15

-----------------------------------------------------------------------------
(* Engines.                                                                *)

\* The clock is at least that of every identifier in the list.
EngineOK(e) ==
  /\ e \in Engine
  /\ WellFormed(e.seq)
  /\ \A x \in Ids(e.seq) : x.clock <= e.clock

\* An INSERT names a left neighbour that was there when it was issued.
OpOK(op) == op \in Operation /\ (op.type = "INSERT" => Less(op.left, op.id))

LEMMA EngineFields ==
  ASSUME NEW e, EngineOK(e)
  PROVE  /\ e.clock \in Nat
         /\ e.seq \in Seq(Node)
         /\ Ids(e.seq) \subseteq CharID
         /\ SENTINEL_ID \in Ids(e.seq)
<1>1. e.clock \in Nat /\ e.seq \in Seq(Node)
  BY DEF EngineOK, Engine
<1>2. \A i \in DOMAIN e.seq : e.seq[i] \in Node
  BY <1>1, ElementOfSeq
<1>3. Ids(e.seq) \subseteq CharID
  BY <1>2 DEF Ids, Node
<1>4. 1 \in DOMAIN e.seq /\ e.seq[1].id = SENTINEL_ID
  BY <1>1, EmptySeq DEF EngineOK, WellFormed, SentinelFirst
<1> QED
  BY <1>1, <1>3, <1>4 DEF Ids

\* The constructor.
LEMMA NewEngineOK == EngineOK(NewEngine) /\ Ids(NewEngine.seq) = {SENTINEL_ID}
<1> DEFINE node == [id |-> SENTINEL_ID, left |-> SENTINEL_ID, tomb |-> TRUE]
<1>1. /\ node \in Node
      /\ node.id = SENTINEL_ID /\ node.left = SENTINEL_ID /\ node.tomb = TRUE
  BY DEF Node, CharID, SENTINEL_ID
<1> HIDE DEF node
<1>2. NewEngine = [clock |-> 0, seq |-> <<node>>]
  BY DEF NewEngine, node
<1>3. /\ <<node>> \in Seq(Node) /\ Len(<<node>>) = 1 /\ <<node>>[1] = node
      /\ DOMAIN <<node>> = {1}
  BY <1>1
<1>4. WellFormed(<<node>>)
  BY <1>1, <1>3 DEF WellFormed, SentinelFirst, NoDuplicates, LeftBefore, NearestSmaller
<1>5. Ids(<<node>>) = {SENTINEL_ID}
  BY <1>1, <1>3 DEF Ids
<1>6. NewEngine.seq = <<node>> /\ NewEngine.clock = 0 /\ NewEngine \in Engine
  BY <1>2, <1>3 DEF Engine
<1>7. SENTINEL_ID.clock = 0
  BY DEF SENTINEL_ID
<1> QED
  BY <1>4, <1>5, <1>6, <1>7 DEF EngineOK

\* The left neighbour of a new character is a node of the list.
LEMMA VisibleAtInList ==
  ASSUME NEW e, EngineOK(e), NEW n
  PROVE  VisibleAt(e.seq, n) \in Ids(e.seq)
<1>1. CASE VisibleIter(e.seq, n) = {}
  BY <1>1, EngineFields DEF VisibleAt
<1>2. CASE VisibleIter(e.seq, n) # {}
  <2> DEFINE i == CHOOSE j \in VisibleIter(e.seq, n) : TRUE
  <2>1. i \in DOMAIN e.seq
    BY <1>2 DEF VisibleIter
  <2>2. VisibleAt(e.seq, n) = e.seq[i].id
    BY <1>2 DEF VisibleAt
  <2> QED
    BY <2>1, <2>2 DEF Ids
<1> QED
  BY <1>1, <1>2

\* An identifier with a later clock is larger.
LEMMA LaterIsLarger ==
  ASSUME NEW a \in CharID, NEW b \in CharID, a.clock < b.clock
  PROVE  Less(a, b)
BY DEF Less, CharID

LEMMA LocalInsertOK ==
  ASSUME NEW e, EngineOK(e), NEW site \in Nat, NEW pos,
         NEW r, r = LocalInsert(e, site, pos)
  PROVE  /\ EngineOK(r.engine)
         /\ OpOK(r.op)
         /\ r.op.id = [clock |-> e.clock + 1, site |-> site]
         /\ r.engine.clock = e.clock + 1
         /\ Ids(r.engine.seq) = Ids(e.seq) \cup {r.op.id}
<1> DEFINE left == VisibleAt(e.seq, pos - 1)
           id == [clock |-> e.clock + 1, site |-> site]
           new == InsertNode(e.seq, id, left)
<1>1. /\ e.clock \in Nat /\ e.seq \in Seq(Node) /\ WellFormed(e.seq)
      /\ left \in Ids(e.seq) /\ Ids(e.seq) \subseteq CharID
      /\ \A x \in Ids(e.seq) : x.clock <= e.clock
  BY EngineFields, VisibleAtInList DEF EngineOK
<1>2. id \in CharID /\ id.clock = e.clock + 1
  BY <1>1 DEF CharID
<1> HIDE DEF left
<1>3. r = [engine |-> [clock |-> e.clock + 1, seq |-> new], op |-> InsertOp(id, left)]
  BY DEF LocalInsert, left
<1>4. InsertOp(id, left).id = id /\ InsertOp(id, left).left = left
  BY DEF InsertOp
<1> HIDE DEF id
<1>5. \A x \in Ids(e.seq) : x.clock < id.clock /\ x \in CharID
  <2> SUFFICES ASSUME NEW x \in Ids(e.seq) PROVE x.clock < id.clock /\ x \in CharID
    OBVIOUS
  <2>1. x \in CharID /\ x.clock <= e.clock
    BY <1>1
  <2>2. x.clock \in Nat
    BY <2>1 DEF CharID
  <2> QED
    BY <1>1, <1>2, <2>1, <2>2
<1>6. left \in CharID /\ Less(left, id) /\ id \notin Ids(e.seq)
  <2>1. left \in CharID /\ left.clock < id.clock
    BY <1>1, <1>5
  <2>2. id \notin Ids(e.seq)
    BY <1>1, <1>2, <1>5
  <2> QED
    BY <1>2, <2>1, <2>2, LaterIsLarger
<1>7. WellFormed(new) /\ Ids(new) = Ids(e.seq) \cup {id}
  BY <1>1, <1>2, <1>6, InsertNodeWellFormed, InsertNodeIds
<1> HIDE DEF new
<1>8. new \in Seq(Node)
  BY <1>7 DEF WellFormed
<1>9. [clock |-> e.clock + 1, seq |-> new] \in Engine
  BY <1>1, <1>8 DEF Engine
<1>10. \A x \in Ids(new) : x.clock <= e.clock + 1
  <2> SUFFICES ASSUME NEW x \in Ids(new) PROVE x.clock <= e.clock + 1
    OBVIOUS
  <2>1. CASE x = id
    BY <1>1, <1>2, <2>1
  <2>2. CASE x \in Ids(e.seq)
    <3>1. x.clock \in Nat /\ x.clock <= e.clock
      BY <1>1, <2>2 DEF CharID
    <3> QED
      BY <1>1, <3>1
  <2> QED
    BY <1>7, <2>1, <2>2
<1>11. EngineOK([clock |-> e.clock + 1, seq |-> new])
  BY <1>7, <1>9, <1>10 DEF EngineOK
<1>12. OpOK(InsertOp(id, left))
  BY <1>2, <1>6 DEF OpOK, InsertOp, Operation
<1> QED
  BY <1>3, <1>4, <1>7, <1>11, <1>12 DEF id

\* What localInsert at `site` makes of engine e: r is its engine and operation.
LocalInserted(e, site, r) ==
  /\ EngineOK(r.engine)
  /\ OpOK(r.op)
  /\ r.op.id = [clock |-> e.clock + 1, site |-> site]
  /\ r.engine.clock = e.clock + 1
  /\ Ids(r.engine.seq) = Ids(e.seq) \cup {r.op.id}

\* The same for an edit at any position, in the form the steps cite.
LEMMA LocalInsertFacts ==
  ASSUME NEW e, EngineOK(e), NEW site \in Nat, NEW pos
  PROVE  LocalInserted(e, site, LocalInsert(e, site, pos))
<1> DEFINE r == LocalInsert(e, site, pos)
<1>1. r = LocalInsert(e, site, pos)
  OBVIOUS
<1> HIDE DEF r
<1>2. /\ EngineOK(r.engine)
      /\ OpOK(r.op)
      /\ r.op.id = [clock |-> e.clock + 1, site |-> site]
      /\ r.engine.clock = e.clock + 1
      /\ Ids(r.engine.seq) = Ids(e.seq) \cup {r.op.id}
  BY <1>1, LocalInsertOK
<1>3. LocalInserted(e, site, r)
  BY <1>2 DEF LocalInserted
<1> QED
  BY <1>1, <1>3

\* Advancing the clock alone: a localDelete that throws.
LEMMA LaterClockOK ==
  ASSUME NEW e, EngineOK(e), NEW c \in Nat, e.clock <= c,
         NEW seq, WellFormed(seq), Ids(seq) = Ids(e.seq)
  PROVE  EngineOK([clock |-> c, seq |-> seq])
<1>1. [clock |-> c, seq |-> seq] \in Engine
  BY DEF Engine, WellFormed
<1>2. \A x \in Ids(seq) : x.clock \in Nat /\ x.clock <= e.clock
  BY EngineFields DEF EngineOK, CharID
<1>3. \A x \in Ids(seq) : x.clock <= c
  BY <1>2, EngineFields
<1> QED
  BY <1>1, <1>3 DEF EngineOK

LEMMA LocalDeleteThrowsOK ==
  ASSUME NEW e, EngineOK(e), NEW new, new = LocalDeleteThrows(e)
  PROVE  /\ EngineOK(new)
         /\ new.clock = e.clock + 1
         /\ new.seq = e.seq
<1>1. new = [clock |-> e.clock + 1, seq |-> e.seq]
  BY DEF LocalDeleteThrows, EngineOK, Engine
<1>2. e.clock \in Nat /\ e.clock + 1 \in Nat /\ e.clock <= e.clock + 1 /\ WellFormed(e.seq)
  BY EngineFields DEF EngineOK
<1> QED
  BY <1>1, <1>2, LaterClockOK

LEMMA LocalDeleteOK ==
  ASSUME NEW e, EngineOK(e), NEW pos, VisibleIter(e.seq, pos) # {},
         NEW r, r = LocalDelete(e, pos)
  PROVE  /\ EngineOK(r.engine)
         /\ OpOK(r.op)
         /\ r.op.id \in Ids(e.seq) \ {SENTINEL_ID}
         /\ r.engine.clock = e.clock + 1
         /\ Ids(r.engine.seq) = Ids(e.seq)
<1> DEFINE i == CHOOSE j \in VisibleIter(e.seq, pos) : TRUE
<1>1. i \in DOMAIN e.seq /\ ~e.seq[i].tomb
  BY DEF VisibleIter
<1> HIDE DEF i
<1>2. WellFormed(e.seq) /\ e.clock \in Nat /\ Ids(e.seq) \subseteq CharID
  BY EngineFields DEF EngineOK
<1>3. e.seq[i].id \in Ids(e.seq)
  BY <1>1 DEF Ids
<1>4. e.seq[i].id # SENTINEL_ID
  <2> SUFFICES ASSUME e.seq[i].id = SENTINEL_ID PROVE FALSE
    OBVIOUS
  <2>1. /\ 1 \in DOMAIN e.seq
        /\ e.seq[1].id = SENTINEL_ID /\ e.seq[1].tomb
    BY <1>2, EmptySeq DEF WellFormed, SentinelFirst
  <2>2. i = 1
    BY <1>1, <1>2, <2>1 DEF WellFormed, NoDuplicates
  <2> QED
    BY <1>1, <2>1, <2>2
<1> DEFINE new == Tombstone(e.seq, i)
           op == DeleteOp(e.seq[i].id)
<1>5. WellFormed(new) /\ Ids(new) = Ids(e.seq)
  BY <1>1, <1>2, TombstoneWellFormed
<1>6. r = [engine |-> [clock |-> e.clock + 1, seq |-> new], op |-> op]
  BY DEF LocalDelete, i
<1>7. OpOK(op) /\ op.id = e.seq[i].id
  BY <1>2, <1>3, EngineFields DEF OpOK, DeleteOp, Operation, EngineOK
<1> HIDE DEF new, op
<1>8. EngineOK([clock |-> e.clock + 1, seq |-> new])
  BY <1>2, <1>5, LaterClockOK
<1> QED
  BY <1>3, <1>4, <1>5, <1>6, <1>7, <1>8

\* applyRemote adds at most the identifier of an INSERT.
LEMMA ApplyRemoteOK ==
  ASSUME NEW e, EngineOK(e), NEW op, OpOK(op), CanApply(e, op),
         NEW new, new = ApplyRemote(e, op)
  PROVE  /\ EngineOK(new)
         /\ e.clock <= new.clock
         /\ Ids(e.seq) \subseteq Ids(new.seq)
         /\ Ids(new.seq) \subseteq Ids(e.seq) \cup {op.id}
<1> DEFINE c == IF op.id.clock >= e.clock THEN op.id.clock + 1 ELSE e.clock
<1>1. /\ e.clock \in Nat /\ e.seq \in Seq(Node) /\ WellFormed(e.seq)
      /\ Ids(e.seq) \subseteq CharID
      /\ \A x \in Ids(e.seq) : x.clock <= e.clock
  BY EngineFields DEF EngineOK
<1>2. op.id \in CharID /\ op.left \in CharID /\ op.id.clock \in Nat
  BY DEF OpOK, Operation, CharID
<1>3. c \in Nat /\ e.clock <= c /\ op.id.clock <= c
  BY <1>1, <1>2
<1>4. new.clock = c
  BY DEF ApplyRemote
<1> HIDE DEF c
<1>5. CASE new.seq = e.seq
  <2>1. new = [clock |-> c, seq |-> e.seq]
    BY <1>4, <1>5 DEF ApplyRemote
  <2> QED
    BY <1>1, <1>3, <1>4, <1>5, <2>1, LaterClockOK
<1>6. CASE op.type = "INSERT" /\ op.id \notin Ids(e.seq)
  <2> DEFINE seq == InsertNode(e.seq, op.id, op.left)
  <2>1. op.left \in Ids(e.seq) /\ Less(op.left, op.id)
    BY <1>6 DEF CanApply, OpOK
  <2>2. WellFormed(seq) /\ Ids(seq) = Ids(e.seq) \cup {op.id}
    BY <1>1, <1>2, <1>6, <2>1, InsertNodeWellFormed, InsertNodeIds
  <2>3. new = [clock |-> c, seq |-> seq]
    BY <1>6, <1>4 DEF ApplyRemote
  <2> HIDE DEF seq
  <2>4. [clock |-> c, seq |-> seq] \in Engine
    BY <1>3, <2>2 DEF Engine, WellFormed
  <2>5. ASSUME NEW x \in Ids(seq) PROVE x.clock <= c
    <3>1. CASE x = op.id
      BY <1>3, <3>1
    <3>2. CASE x \in Ids(e.seq)
      <4>1. x.clock \in Nat /\ x.clock <= e.clock
        BY <1>1, <3>2 DEF CharID
      <4> QED
        BY <1>1, <1>3, <4>1
    <3> QED
      BY <2>2, <3>1, <3>2
  <2>6. EngineOK([clock |-> c, seq |-> seq])
    BY <2>2, <2>4, <2>5 DEF EngineOK
  <2> QED
    BY <1>3, <2>2, <2>3, <2>6
<1>7. CASE op.type # "INSERT" /\ op.id \in Ids(e.seq)
  <2> DEFINE i == Idx(e.seq, op.id)
             seq == Tombstone(e.seq, i)
  <2>1. i \in DOMAIN e.seq
    BY <1>1, <1>7, IdxIsPlace
  <2>2. WellFormed(seq) /\ Ids(seq) = Ids(e.seq)
    BY <1>1, <2>1, TombstoneWellFormed
  <2>3. new = [clock |-> c, seq |-> seq]
    BY <1>7, <1>4 DEF ApplyRemote
  <2> HIDE DEF seq
  <2> QED
    BY <1>3, <2>2, <2>3, LaterClockOK
<1> QED
  BY <1>5, <1>6, <1>7 DEF ApplyRemote

-----------------------------------------------------------------------------
(* The operations a list has taken in.                                     *)

\* The nodes of a list are those of the INSERTs among ops.
Holds(seq, ops) ==
  /\ \A i \in 2 .. Len(seq) : InsertOp(seq[i].id, seq[i].left) \in ops
  /\ \A op \in ops : op.type = "INSERT" => op.id \in Ids(seq)

\* Its tombstones are those of the DELETEs among ops, of which none was lost
\* on a character that was not there.
Deleted(seq, ops) ==
  /\ \A i \in 2 .. Len(seq) : seq[i].tomb <=> DeleteOp(seq[i].id) \in ops
  /\ \A op \in ops : op.type = "DELETE" => op.id \in Ids(seq)

LEMMA InsertNodePlaces ==
  ASSUME NEW seq, WellFormed(seq), NEW newID \in CharID, NEW left \in Ids(seq),
         NEW new, new = InsertNode(seq, newID, left)
  PROVE  /\ \A i \in 2 .. Len(new) :
              \/ new[i] = [id |-> newID, left |-> left, tomb |-> FALSE]
              \/ \E k \in 2 .. Len(seq) : new[i] = seq[k]
         /\ Ids(new) = Ids(seq) \cup {newID}
<1> DEFINE p == InsertPos(seq, newID, left)
<1>1. seq \in Seq(Node) /\ Len(seq) \in Nat
  BY DEF WellFormed
<1>2. /\ Len(new) = Len(seq) + 1
      /\ p \in 2 .. Len(seq) + 1
      /\ \A i \in 1 .. p - 1 : new[i] = seq[i]
      /\ new[p] = [id |-> newID, left |-> left, tomb |-> FALSE]
      /\ \A i \in p .. Len(seq) : new[i + 1] = seq[i]
  BY <1>1, InsertNodeShape
<1> HIDE DEF p
<1>3. ASSUME NEW i \in 2 .. Len(new), i # p
      PROVE  \E k \in 2 .. Len(seq) : new[i] = seq[k]
  <2>1. CASE i < p
    BY <1>1, <1>2, <2>1
  <2>2. CASE i > p
    <3>1. i - 1 \in p .. Len(seq) /\ i - 1 \in 2 .. Len(seq) /\ (i - 1) + 1 = i
      BY <1>1, <1>2, <2>2
    <3>2. new[(i - 1) + 1] = seq[i - 1]
      BY <1>2, <3>1
    <3> QED
      BY <3>1, <3>2
  <2> QED
    BY <1>2, <1>3, <2>1, <2>2
<1>4. Ids(new) = Ids(seq) \cup {newID}
  BY <1>1, InsertNodeIds
<1> QED
  BY <1>2, <1>3, <1>4

LEMMA InsertNodeHolds ==
  ASSUME NEW seq, WellFormed(seq), NEW newID \in CharID, NEW left \in Ids(seq),
         NEW new, new = InsertNode(seq, newID, left), NEW ops
  PROVE  /\ Holds(seq, ops) => Holds(new, ops \cup {InsertOp(newID, left)})
         /\ Deleted(seq, ops) /\ newID \notin Ids(seq) =>
              Deleted(new, ops \cup {InsertOp(newID, left)})
<1> DEFINE op == InsertOp(newID, left)
<1>1. /\ \A i \in 2 .. Len(new) :
           \/ new[i] = [id |-> newID, left |-> left, tomb |-> FALSE]
           \/ \E k \in 2 .. Len(seq) : new[i] = seq[k]
      /\ Ids(new) = Ids(seq) \cup {newID}
  BY InsertNodePlaces
<1>2. op.id = newID /\ op.left = left /\ op.type = "INSERT"
  BY DEF InsertOp
<1>3. ASSUME Holds(seq, ops)
      PROVE  Holds(new, ops \cup {op})
  <2>1. ASSUME NEW i \in 2 .. Len(new)
        PROVE  InsertOp(new[i].id, new[i].left) \in ops \cup {op}
    <3>1. CASE new[i] = [id |-> newID, left |-> left, tomb |-> FALSE]
      BY <3>1
    <3>2. CASE \E k \in 2 .. Len(seq) : new[i] = seq[k]
      BY <1>3, <3>2 DEF Holds
    <3> QED
      BY <1>1, <3>1, <3>2
  <2> HIDE DEF op
  <2> QED
    BY <1>1, <1>2, <1>3, <2>1 DEF Holds
<1>4. ASSUME Deleted(seq, ops), newID \notin Ids(seq)
      PROVE  Deleted(new, ops \cup {op})
  <2>1. \A id : DeleteOp(id) \in ops \cup {op} <=> DeleteOp(id) \in ops
    <3>1. \A id : DeleteOp(id).type = "DELETE" /\ DeleteOp(id).id = id
      BY DEF DeleteOp
    <3> QED
      BY <1>2, <3>1
  <2>2. DeleteOp(newID) \notin ops
    <3>1. DeleteOp(newID).type = "DELETE" /\ DeleteOp(newID).id = newID
      BY DEF DeleteOp
    <3> QED
      BY <1>4, <3>1 DEF Deleted
  <2> HIDE DEF op
  <2>3. ASSUME NEW i \in 2 .. Len(new)
        PROVE  new[i].tomb <=> DeleteOp(new[i].id) \in ops \cup {op}
    <3>1. CASE new[i] = [id |-> newID, left |-> left, tomb |-> FALSE]
      BY <2>1, <2>2, <3>1
    <3>2. CASE \E k \in 2 .. Len(seq) : new[i] = seq[k]
      BY <1>4, <2>1, <3>2 DEF Deleted
    <3> QED
      BY <1>1, <3>1, <3>2
  <2> QED
    BY <1>1, <1>2, <1>4, <2>3 DEF Deleted
<1> QED
  BY <1>3, <1>4

\* A DELETE of a character that is there.
LEMMA TombstoneHolds ==
  ASSUME NEW seq, WellFormed(seq), NEW i \in DOMAIN seq,
         NEW new, new = Tombstone(seq, i), NEW ops,
         NEW op, op = DeleteOp(seq[i].id)
  PROVE  /\ Holds(seq, ops) => Holds(new, ops \cup {op})
         /\ Deleted(seq, ops) => Deleted(new, ops \cup {op})
<1>1. seq \in Seq(Node) /\ Len(seq) \in Nat /\ DOMAIN seq = 1 .. Len(seq)
  BY DEF WellFormed
<1>2. seq[i] \in Node
  BY <1>1, ElementOfSeq
<1> DEFINE node == [seq[i] EXCEPT !.tomb = TRUE]
<1>3. /\ node \in Node
      /\ node.id = seq[i].id /\ node.left = seq[i].left /\ node.tomb = TRUE
  BY <1>2 DEF Node
<1> HIDE DEF node
<1>4. new = [seq EXCEPT ![i] = node]
  BY <1>1, <1>2 DEF Tombstone, node
<1>5. /\ Len(new) = Len(seq)
      /\ \A j \in 1 .. Len(seq) : new[j] = IF j = i THEN node ELSE seq[j]
  BY <1>1, <1>3, <1>4, ExceptSeq
<1>6. \A j \in 1 .. Len(seq) : /\ new[j].id = seq[j].id
                               /\ new[j].left = seq[j].left
                               /\ new[j].tomb = IF j = i THEN TRUE ELSE seq[j].tomb
  BY <1>3, <1>5
<1>7. Ids(new) = Ids(seq) /\ seq[i].id \in Ids(seq)
  <2>1. Ids(Tombstone(seq, i)) = Ids(seq)
    BY TombstoneWellFormed
  <2>2. seq[i].id \in Ids(seq)
    BY DEF Ids
  <2> QED
    BY <2>1, <2>2
<1>8. \A j \in 2 .. Len(seq) : j \in 1 .. Len(seq)
  BY <1>1
<1>9. op.type = "DELETE" /\ op.id = seq[i].id
  BY DEF DeleteOp
<1>10. Holds(seq, ops) => Holds(new, ops \cup {op})
  BY <1>5, <1>6, <1>7, <1>8, <1>9 DEF Holds
<1>11. ASSUME Deleted(seq, ops)
       PROVE  Deleted(new, ops \cup {op})
  <2>1. ASSUME NEW j \in 2 .. Len(seq)
        PROVE  new[j].tomb <=> DeleteOp(new[j].id) \in ops \cup {op}
    <3>1. CASE j = i
      BY <1>6, <1>8, <3>1
    <3>2. CASE j # i
      <4>1. seq[j].id # seq[i].id
        BY <1>1, <1>8, <3>2 DEF WellFormed, NoDuplicates
      <4>2. DeleteOp(seq[j].id).id = seq[j].id
        BY DEF DeleteOp
      <4>3. DeleteOp(seq[j].id) # op
        BY <1>9, <4>1, <4>2
      <4>4. new[j].tomb = seq[j].tomb /\ new[j].id = seq[j].id
        BY <1>6, <1>8, <3>2
      <4>5. seq[j].tomb <=> DeleteOp(seq[j].id) \in ops
        BY <1>11 DEF Deleted
      <4> QED
        BY <4>3, <4>4, <4>5
    <3> QED
      BY <3>1, <3>2
  <2> QED
    BY <1>5, <1>7, <1>9, <1>11, <2>1 DEF Deleted
<1> QED
  BY <1>10, <1>11

LEMMA LocalInsertHolds ==
  ASSUME NEW e, EngineOK(e), NEW site \in Nat, NEW pos,
         NEW r, r = LocalInsert(e, site, pos), NEW ops
  PROVE  /\ Holds(e.seq, ops) => Holds(r.engine.seq, ops \cup {r.op})
         /\ Deleted(e.seq, ops) => Deleted(r.engine.seq, ops \cup {r.op})
         /\ r.op = InsertOp(r.op.id, r.op.left)
         /\ r.op.left \in Ids(e.seq)
         /\ r.op.left.clock < r.op.id.clock
<1> DEFINE left == VisibleAt(e.seq, pos - 1)
           id == [clock |-> e.clock + 1, site |-> site]
<1>1. /\ e.clock \in Nat /\ WellFormed(e.seq) /\ left \in Ids(e.seq)
      /\ \A x \in Ids(e.seq) : x \in CharID /\ x.clock <= e.clock
  BY EngineFields, VisibleAtInList DEF EngineOK
<1>2. id \in CharID /\ id.clock = e.clock + 1
  BY <1>1 DEF CharID
<1> HIDE DEF left, id
<1>3. /\ r.engine.seq = InsertNode(e.seq, id, left)
      /\ r.op = InsertOp(id, left)
  BY DEF LocalInsert, left, id
<1>4. r.op.id = id /\ r.op.left = left
  BY <1>3 DEF InsertOp
<1>5. left \in CharID /\ left.clock \in Nat /\ left.clock < id.clock
  BY <1>1, <1>2 DEF CharID
<1>6. id \notin Ids(e.seq)
  BY <1>1, <1>2
<1> QED
  BY <1>1, <1>2, <1>3, <1>4, <1>5, <1>6, InsertNodeHolds

LEMMA LocalDeleteHolds ==
  ASSUME NEW e, EngineOK(e), NEW pos, VisibleIter(e.seq, pos) # {},
         NEW r, r = LocalDelete(e, pos), NEW ops
  PROVE  /\ Holds(e.seq, ops) => Holds(r.engine.seq, ops \cup {r.op})
         /\ Deleted(e.seq, ops) => Deleted(r.engine.seq, ops \cup {r.op})
         /\ r.op = DeleteOp(r.op.id)
<1> DEFINE i == CHOOSE j \in VisibleIter(e.seq, pos) : TRUE
<1>1. i \in DOMAIN e.seq
  BY DEF VisibleIter
<1> HIDE DEF i
<1>2. WellFormed(e.seq)
  BY DEF EngineOK
<1>3. /\ r.engine.seq = Tombstone(e.seq, i)
      /\ r.op = DeleteOp(e.seq[i].id)
  BY DEF LocalDelete, i
<1>4. r.op.id = e.seq[i].id
  BY <1>3 DEF DeleteOp
<1> QED
  BY <1>1, <1>2, <1>3, <1>4, TombstoneHolds

\* What an operation is, besides well typed.
Canonical(op) ==
  op = IF op.type = "INSERT" THEN InsertOp(op.id, op.left) ELSE DeleteOp(op.id)

LEMMA ApplyRemoteHolds ==
  ASSUME NEW e, EngineOK(e), NEW op, OpOK(op), CanApply(e, op), Canonical(op),
         NEW new, new = ApplyRemote(e, op), NEW ops
  PROVE  /\ Holds(e.seq, ops) => Holds(new.seq, ops \cup {op})
         /\ Deleted(e.seq, ops) /\ (op.type = "DELETE" => op.id \in Ids(e.seq)) =>
              Deleted(new.seq, ops \cup {op})
<1>1. WellFormed(e.seq) /\ op.id \in CharID /\ op.type \in {"INSERT", "DELETE"}
  BY DEF EngineOK, OpOK, Operation
<1>2. CASE op.type = "INSERT" /\ op.id \notin Ids(e.seq)
  <2>1. op.left \in Ids(e.seq) /\ op = InsertOp(op.id, op.left)
    BY <1>2 DEF CanApply, Canonical
  <2>2. new.seq = InsertNode(e.seq, op.id, op.left)
    BY <1>2 DEF ApplyRemote
  <2> QED
    BY <1>1, <1>2, <2>1, <2>2, InsertNodeHolds
<1>3. CASE op.type = "INSERT" /\ op.id \in Ids(e.seq)
  <2>1. new.seq = e.seq
    BY <1>3 DEF ApplyRemote
  <2>2. \A id : DeleteOp(id) # op
    BY <1>3 DEF DeleteOp
  <2> QED
    BY <1>3, <2>1, <2>2 DEF Holds, Deleted
<1>4. CASE op.type = "DELETE" /\ op.id \in Ids(e.seq)
  <2> DEFINE i == Idx(e.seq, op.id)
  <2>1. i \in DOMAIN e.seq /\ e.seq[i].id = op.id
    BY <1>1, <1>4, IdxIsPlace DEF WellFormed
  <2>2. new.seq = Tombstone(e.seq, i)
    BY <1>4 DEF ApplyRemote
  <2>3. op = DeleteOp(op.id)
    BY <1>4 DEF Canonical
  <2> HIDE DEF i
  <2> QED
    BY <1>1, <2>1, <2>2, <2>3, TombstoneHolds
<1>5. CASE op.type = "DELETE" /\ op.id \notin Ids(e.seq)
  <2>1. new.seq = e.seq
    BY <1>5 DEF ApplyRemote
  <2> QED
    BY <1>5, <2>1 DEF Holds
<1> QED
  BY <1>1, <1>2, <1>3, <1>4, <1>5

\* Lists that have taken in the same operations are the same, whatever the
\* order in which they did, if an identifier is given once.
LEMMA SameOperationsSameList ==
  ASSUME NEW p, WellFormed(p), NEW q, WellFormed(q), NEW ops,
         Holds(p, ops), Holds(q, ops), Deleted(p, ops), Deleted(q, ops),
         SameLefts(p, q), SameLefts(q, p)
  PROVE  p = q
<1>1. /\ p \in Seq(Node) /\ Len(p) \in Nat /\ DOMAIN p = 1 .. Len(p)
      /\ q \in Seq(Node) /\ Len(q) \in Nat /\ DOMAIN q = 1 .. Len(q)
  BY DEF WellFormed
<1>2. ASSUME NEW a, WellFormed(a), Holds(a, ops), NEW b, WellFormed(b), Holds(b, ops),
             NEW x \in Ids(a)
      PROVE  x \in Ids(b)
  <2>1. PICK i \in 1 .. Len(a) : a[i].id = x
    BY <1>2, IdHasPlace
  <2>2. CASE i = 1
    <3>1. x = SENTINEL_ID
      BY <1>2, <2>1, <2>2 DEF WellFormed, SentinelFirst
    <3>2. 1 \in DOMAIN b /\ b[1].id = SENTINEL_ID
      BY <1>2, IdsAreCharIDs DEF WellFormed, SentinelFirst
    <3> QED
      BY <3>1, <3>2 DEF Ids
  <2>3. CASE i # 1
    <3>1. i \in 2 .. Len(a)
      BY <2>1, <2>3
    <3>2. InsertOp(x, a[i].left) \in ops
      BY <1>2, <2>1, <3>1 DEF Holds
    <3>3. InsertOp(x, a[i].left).type = "INSERT" /\ InsertOp(x, a[i].left).id = x
      BY DEF InsertOp
    <3> QED
      BY <1>2, <3>2, <3>3 DEF Holds
  <2> QED
    BY <2>2, <2>3
<1>3. Ids(p) = Ids(q)
  BY <1>2
<1>4. Len(p) = Len(q) /\ \A i \in 1 .. Len(p) : p[i].id = q[i].id /\ p[i].left = q[i].left
  BY <1>3, SamePlaces
<1>5. \A i \in 1 .. Len(p) : p[i].tomb = q[i].tomb
  <2>1. ASSUME NEW i \in 1 .. Len(p)
        PROVE  p[i].tomb = q[i].tomb
    <3>1. p[i].tomb \in BOOLEAN /\ q[i].tomb \in BOOLEAN
      <4>1. p[i] \in Node /\ q[i] \in Node
        BY <1>1, <1>4, ElementOfSeq
      <4> QED
        BY <4>1 DEF Node
    <3>2. CASE i = 1
      BY <3>1, <3>2 DEF WellFormed, SentinelFirst
    <3>3. CASE i # 1
      <4>1. i \in 2 .. Len(p) /\ i \in 2 .. Len(q)
        BY <1>1, <1>4, <3>3
      <4> QED
        BY <1>4, <3>1, <4>1 DEF Deleted
    <3> QED
      BY <3>2, <3>3
  <2> QED
    BY <2>1
<1>6. \A i \in 1 .. Len(p) : p[i] = q[i]
  <2>1. ASSUME NEW i \in 1 .. Len(p)
        PROVE  p[i] = q[i]
    <3>1. p[i] \in Node /\ q[i] \in Node
      BY <1>1, <1>4, ElementOfSeq
    <3>2. /\ p[i] = [id |-> p[i].id, left |-> p[i].left, tomb |-> p[i].tomb]
          /\ q[i] = [id |-> q[i].id, left |-> q[i].left, tomb |-> q[i].tomb]
      BY <3>1 DEF Node
    <3> QED
      BY <1>4, <1>5, <3>2
  <2> QED
    BY <2>1
<1> QED
  BY <1>1, <1>4, <1>6, SeqEqual

-----------------------------------------------------------------------------
(* What a list becomes.                                                    *)

\* A later list has the nodes of an earlier one, in their order, none before
\* the place it had and none deleted that is not deleted any more.
Grows(old, new) ==
  /\ \A i \in DOMAIN old : \E k \in i .. Len(new) :
       new[k].id = old[i].id /\ (old[i].tomb => new[k].tomb)
  /\ \A i, j \in DOMAIN old :
       i < j => Idx(new, old[i].id) < Idx(new, old[j].id)

\* It is enough to know where the nodes of the old list have gone.
LEMMA GrowsBy ==
  ASSUME NEW old, WellFormed(old), NEW new, WellFormed(new), NEW f,
         \A i \in 1 .. Len(old) :
           /\ f[i] \in i .. Len(new)
           /\ new[f[i]].id = old[i].id /\ (old[i].tomb => new[f[i]].tomb),
         \A i, j \in 1 .. Len(old) : i < j => f[i] < f[j]
  PROVE  Grows(old, new)
<1>1. DOMAIN old = 1 .. Len(old) /\ Len(new) \in Nat /\ Len(old) \in Nat
  BY IdsAreCharIDs
<1>2. \A i \in DOMAIN old : \E k \in i .. Len(new) :
        new[k].id = old[i].id /\ (old[i].tomb => new[k].tomb)
  BY <1>1
<1>3. ASSUME NEW i \in 1 .. Len(old) PROVE Idx(new, old[i].id) = f[i]
  <2>1. f[i] \in 1 .. Len(new) /\ new[f[i]].id = old[i].id
    BY <1>1
  <2> QED
    BY <2>1, IdxOfPlace
<1> QED
  BY <1>1, <1>2, <1>3 DEF Grows

LEMMA GrowsItself ==
  ASSUME NEW seq, WellFormed(seq)
  PROVE  Grows(seq, seq)
<1> DEFINE f == [i \in 1 .. Len(seq) |-> i]
<1>1. Len(seq) \in Nat
  BY IdsAreCharIDs
<1>2. \A i \in 1 .. Len(seq) : f[i] \in i .. Len(seq) /\ f[i] = i
  BY <1>1
<1> HIDE DEF f
<1> QED
  BY <1>2, GrowsBy

LEMMA GrowsOn ==
  ASSUME NEW a, WellFormed(a), NEW b, WellFormed(b), NEW c, WellFormed(c),
         Grows(a, b), Grows(b, c)
  PROVE  Grows(a, c)
<1>1. /\ DOMAIN a = 1 .. Len(a) /\ DOMAIN b = 1 .. Len(b) /\ DOMAIN c = 1 .. Len(c)
      /\ Len(a) \in Nat /\ Len(b) \in Nat /\ Len(c) \in Nat
  BY IdsAreCharIDs
<1>2. ASSUME NEW i \in DOMAIN a
      PROVE  \E k \in i .. Len(c) : c[k].id = a[i].id /\ (a[i].tomb => c[k].tomb)
  <2>1. PICK j \in i .. Len(b) : b[j].id = a[i].id /\ (a[i].tomb => b[j].tomb)
    BY DEF Grows
  <2>2. j \in DOMAIN b
    BY <1>1, <2>1
  <2>3. PICK k \in j .. Len(c) : c[k].id = b[j].id /\ (b[j].tomb => c[k].tomb)
    BY <2>2 DEF Grows
  <2>4. k \in i .. Len(c)
    BY <1>1, <2>1, <2>3
  <2> QED
    BY <2>1, <2>3, <2>4
<1>3. ASSUME NEW i \in DOMAIN a
      PROVE  Idx(b, a[i].id) \in DOMAIN b /\ b[Idx(b, a[i].id)].id = a[i].id
  <2>1. PICK j \in i .. Len(b) : b[j].id = a[i].id
    BY DEF Grows
  <2>2. j \in 1 .. Len(b)
    BY <1>1, <2>1
  <2> QED
    BY <1>1, <2>1, <2>2, IdxOfPlace
<1>4. ASSUME NEW i \in DOMAIN a, NEW j \in DOMAIN a, i < j
      PROVE  Idx(c, a[i].id) < Idx(c, a[j].id)
  <2> DEFINE x == Idx(b, a[i].id)
             y == Idx(b, a[j].id)
  <2>1. x < y
    BY <1>4 DEF Grows
  <2>2. x \in DOMAIN b /\ y \in DOMAIN b /\ b[x].id = a[i].id /\ b[y].id = a[j].id
    BY <1>3
  <2> HIDE DEF x, y
  <2>3. Idx(c, b[x].id) < Idx(c, b[y].id)
    BY <2>1, <2>2 DEF Grows
  <2> QED
    BY <2>2, <2>3
<1> QED
  BY <1>2, <1>4 DEF Grows

LEMMA InsertNodeGrows ==
  ASSUME NEW seq, WellFormed(seq), NEW newID \in CharID, newID \notin Ids(seq),
         NEW left \in Ids(seq), Less(left, newID),
         NEW new, new = InsertNode(seq, newID, left)
  PROVE  Grows(seq, new)
<1> DEFINE p == InsertPos(seq, newID, left)
           f == [i \in 1 .. Len(seq) |-> IF i < p THEN i ELSE i + 1]
<1>1. seq \in Seq(Node) /\ Len(seq) \in Nat
  BY DEF WellFormed
<1>2. /\ Len(new) = Len(seq) + 1
      /\ p \in 2 .. Len(seq) + 1
      /\ \A i \in 1 .. p - 1 : new[i] = seq[i]
      /\ new[p] = [id |-> newID, left |-> left, tomb |-> FALSE]
      /\ \A i \in p .. Len(seq) : new[i + 1] = seq[i]
  BY <1>1, InsertNodeShape
<1> HIDE DEF p
<1>3. WellFormed(new)
  BY InsertNodeWellFormed
<1>4. ASSUME NEW i \in 1 .. Len(seq)
      PROVE  /\ f[i] \in i .. Len(new)
             /\ new[f[i]].id = seq[i].id /\ (seq[i].tomb => new[f[i]].tomb)
  <2>1. CASE i < p
    <3>1. i \in 1 .. p - 1 /\ f[i] = i
      BY <1>1, <1>2, <2>1
    <3> QED
      BY <1>1, <1>2, <3>1
  <2>2. CASE ~(i < p)
    <3>1. i \in p .. Len(seq) /\ f[i] = i + 1
      BY <1>1, <1>2, <2>2
    <3> QED
      BY <1>1, <1>2, <3>1
  <2> QED
    BY <2>1, <2>2
<1>5. \A i, j \in 1 .. Len(seq) : i < j => f[i] < f[j]
  BY <1>1, <1>2
<1> HIDE DEF f
<1> QED
  BY <1>3, <1>4, <1>5, GrowsBy

\* Setting tomb leaves the identifier alone.
LEMMA DeadNode ==
  ASSUME NEW x \in Node, NEW y, y = [x EXCEPT !.tomb = TRUE]
  PROVE  y.id = x.id /\ y.tomb
BY DEF Node

LEMMA TombstoneGrows ==
  ASSUME NEW seq, WellFormed(seq), NEW i \in DOMAIN seq,
         NEW new, new = Tombstone(seq, i)
  PROVE  Grows(seq, new)
<1> DEFINE f == [k \in 1 .. Len(seq) |-> k]
<1>1. seq \in Seq(Node) /\ Len(seq) \in Nat /\ DOMAIN seq = 1 .. Len(seq)
  BY DEF WellFormed
<1>2. WellFormed(new)
  BY TombstoneWellFormed
<1>3. Len(new) = Len(seq)
  BY <1>1 DEF Tombstone
<1>4. ASSUME NEW k \in 1 .. Len(seq)
      PROVE  new[k].id = seq[k].id /\ (seq[k].tomb => new[k].tomb)
  <2>1. seq[k] \in Node
    BY <1>1, ElementOfSeq
  <2>2. new[k] = IF k = i THEN [seq[k] EXCEPT !.tomb = TRUE] ELSE seq[k]
    BY <1>1 DEF Tombstone
  <2>3. CASE k = i
    <3>1. new[k] = [seq[k] EXCEPT !.tomb = TRUE]
      BY <2>2, <2>3
    <3> QED
      BY <2>1, <3>1, DeadNode
  <2>4. CASE k # i
    BY <2>2, <2>4
  <2> QED
    BY <2>3, <2>4
<1>5. \A k \in 1 .. Len(seq) : f[k] \in k .. Len(new) /\ f[k] = k
  BY <1>1, <1>3
<1> HIDE DEF f
<1> QED
  BY <1>2, <1>4, <1>5, GrowsBy, SMTT(60)

LEMMA LocalInsertGrows ==
  ASSUME NEW e, EngineOK(e), NEW site \in Nat, NEW pos,
         NEW r, r = LocalInsert(e, site, pos)
  PROVE  Grows(e.seq, r.engine.seq)
<1> DEFINE left == VisibleAt(e.seq, pos - 1)
           id == [clock |-> e.clock + 1, site |-> site]
           new == InsertNode(e.seq, id, left)
<1>1. r = [engine |-> [clock |-> e.clock + 1, seq |-> new], op |-> InsertOp(id, left)]
  BY DEF LocalInsert
<1>2. left \in Ids(e.seq)
  BY VisibleAtInList
<1>3. r.op = InsertOp(id, left) /\ r.engine.seq = new
  BY <1>1
<1>4. id \in CharID /\ Less(left, id)
  <2>0. LocalInserted(e, site, r)
    BY LocalInsertFacts
  <2>1. OpOK(r.op)
    BY <2>0 DEF LocalInserted
  <2> HIDE DEF id, left, new
  <2> QED
    BY <1>3, <2>1 DEF OpOK, InsertOp, Operation
<1>5. id \notin Ids(e.seq)
  <2>1. \A x \in Ids(e.seq) : x.clock <= e.clock
    BY DEF EngineOK
  <2>2. id.clock = e.clock + 1 /\ e.clock \in Nat
    BY EngineFields
  <2> HIDE DEF id
  <2> QED
    BY <2>1, <2>2
<1>6. WellFormed(e.seq)
  BY DEF EngineOK
<1> HIDE DEF left, id
<1>7. Grows(e.seq, new)
  BY <1>2, <1>4, <1>5, <1>6, InsertNodeGrows
<1> QED
  BY <1>3, <1>7

LEMMA LocalDeleteGrows ==
  ASSUME NEW e, EngineOK(e), NEW pos, VisibleIter(e.seq, pos) # {},
         NEW r, r = LocalDelete(e, pos)
  PROVE  Grows(e.seq, r.engine.seq)
<1> DEFINE i == CHOOSE j \in VisibleIter(e.seq, pos) : TRUE
<1>1. i \in DOMAIN e.seq
  BY DEF VisibleIter
<1>2. r.engine.seq = Tombstone(e.seq, i)
  BY DEF LocalDelete
<1> HIDE DEF i
<1> QED
  BY <1>1, <1>2, TombstoneGrows DEF EngineOK

LEMMA ApplyRemoteGrows ==
  ASSUME NEW e, EngineOK(e), NEW op, OpOK(op), CanApply(e, op),
         NEW new, new = ApplyRemote(e, op)
  PROVE  Grows(e.seq, new.seq)
<1>1. WellFormed(e.seq) /\ e.seq \in Seq(Node)
  BY DEF EngineOK, WellFormed
<1>2. CASE new.seq = e.seq
  BY <1>1, <1>2, GrowsItself
<1>3. CASE op.type = "INSERT" /\ op.id \notin Ids(e.seq)
  <2>1. new.seq = InsertNode(e.seq, op.id, op.left)
    BY <1>3 DEF ApplyRemote
  <2>2. op.id \in CharID /\ op.left \in Ids(e.seq) /\ Less(op.left, op.id)
    BY <1>3 DEF OpOK, Operation, CanApply
  <2> QED
    BY <1>1, <1>3, <2>1, <2>2, InsertNodeGrows
<1>4. CASE op.type # "INSERT" /\ op.id \in Ids(e.seq)
  <2>1. new.seq = Tombstone(e.seq, Idx(e.seq, op.id))
    BY <1>4 DEF ApplyRemote
  <2>2. Idx(e.seq, op.id) \in DOMAIN e.seq
    BY <1>1, <1>4, IdxIsPlace
  <2> QED
    BY <1>1, <2>1, <2>2, TombstoneGrows
<1> QED
  BY <1>2, <1>3, <1>4 DEF ApplyRemote

-----------------------------------------------------------------------------
(* The visible characters of a list.                                       *)

LEMMA OneMoreOrLess ==
  ASSUME NEW S, IsFiniteSet(S), NEW x
  PROVE  /\ Cardinality(S) \in Nat
         /\ Cardinality(S \cup {x}) <= Cardinality(S) + 1
         /\ x \notin S => Cardinality(S \cup {x}) = Cardinality(S) + 1
         /\ Cardinality(S) - 1 <= Cardinality(S \ {x})
<1>1. Cardinality(S) \in Nat
  BY FS_CardinalityType
<1>2. Cardinality(S \cup {x}) = IF x \in S THEN Cardinality(S) ELSE Cardinality(S) + 1
  BY FS_AddElement
<1>3. Cardinality(S \ {x}) = IF x \in S THEN Cardinality(S) - 1 ELSE Cardinality(S)
  BY FS_RemoveElement
<1> QED
  BY <1>1, <1>2, <1>3

LEMMA PlacesFinite ==
  ASSUME NEW seq \in Seq(Node)
  PROVE  /\ IsFiniteSet(VisiblePlaces(seq))
         /\ Cardinality(VisiblePlaces(seq)) \in Nat
<1>1. IsFiniteSet(1 .. Len(seq))
  BY FS_Interval
<1>2. VisiblePlaces(seq) \in SUBSET (1 .. Len(seq))
  BY DEF VisiblePlaces
<1> QED
  BY <1>1, <1>2, FS_Subset, FS_CardinalityType

\* A list without an n-th visible character has at most n of them.
LEMMA NoNthPlace ==
  ASSUME NEW seq \in Seq(Node), NEW n \in Nat, VisibleIter(seq, n) = {}
  PROVE  Cardinality(VisiblePlaces(seq)) <= n
<1> DEFINE B(k) == {j \in 1 .. k : ~seq[j].tomb}
           T == {k \in 0 .. Len(seq) : Cardinality(B(k)) > n}
<1>1. \A k \in 0 .. Len(seq) : IsFiniteSet(B(k)) /\ Cardinality(B(k)) \in Nat
  <2> SUFFICES ASSUME NEW k \in 0 .. Len(seq)
               PROVE  IsFiniteSet(B(k)) /\ Cardinality(B(k)) \in Nat
    OBVIOUS
  <2>1. IsFiniteSet(1 .. k) /\ B(k) \in SUBSET (1 .. k)
    BY FS_Interval
  <2> QED
    BY <2>1, FS_Subset, FS_CardinalityType
<1>2. B(Len(seq)) = VisiblePlaces(seq)
  BY DEF VisiblePlaces
<1>3. SUFFICES ASSUME Cardinality(VisiblePlaces(seq)) > n PROVE FALSE
  BY PlacesFinite
<1>4. Len(seq) \in T
  <2>1. Cardinality(VisiblePlaces(seq)) > n
    BY <1>3, PlacesFinite
  <2>2. Len(seq) \in 0 .. Len(seq)
    OBVIOUS
  <2> HIDE DEF B
  <2> QED
    BY <1>2, <2>1, <2>2
<1>5. PICK m \in T : \A k \in T : m <= k
  <2>1. T \subseteq Nat /\ T # {}
    <3> HIDE DEF B
    <3> QED
      BY <1>4
  <2> HIDE DEF T
  <2> QED
    BY <2>1, NatLeast
<1>6. m # 0
  <2>1. Cardinality(B(0)) = 0
    <3>1. B(0) = {}
      OBVIOUS
    <3> QED
      BY <3>1, FS_EmptySet
  <2> HIDE DEF B
  <2> QED
    BY <1>5, <2>1
<1>7. m - 1 \in 0 .. Len(seq) /\ m \in 1 .. Len(seq) /\ m - 1 \notin T
  BY <1>5, <1>6
<1>8. /\ Cardinality(B(m - 1)) <= n /\ Cardinality(B(m)) > n
      /\ IsFiniteSet(B(m - 1))
      /\ Cardinality(B(m - 1)) \in Nat /\ Cardinality(B(m)) \in Nat
  <2> HIDE DEF B
  <2>1. IsFiniteSet(B(m - 1)) /\ Cardinality(B(m - 1)) \in Nat
    BY <1>1, <1>7
  <2>2. Cardinality(B(m)) \in Nat /\ Cardinality(B(m)) > n
    BY <1>1, <1>5
  <2>3. ~(Cardinality(B(m - 1)) > n)
    BY <1>7
  <2> QED
    BY <2>1, <2>2, <2>3
<1>9. B(m) = IF seq[m].tomb THEN B(m - 1) ELSE B(m - 1) \cup {m}
  BY <1>7
<1>10. ~seq[m].tomb /\ Cardinality(B(m)) <= Cardinality(B(m - 1)) + 1
  <2>1. ~seq[m].tomb
    BY <1>1, <1>7, <1>8, <1>9
  <2>2. B(m) = B(m - 1) \cup {m}
    BY <1>9, <2>1
  <2> HIDE DEF B
  <2>3. Cardinality(B(m - 1) \cup {m}) <= Cardinality(B(m - 1)) + 1
    BY <1>8, OneMoreOrLess
  <2> QED
    BY <2>1, <2>2, <2>3
<1>11. VisibleBefore(seq, m) = n
  <2>1. VisibleBefore(seq, m) = Cardinality(B(m - 1))
    BY DEF VisibleBefore
  <2> HIDE DEF B
  <2> QED
    BY <1>8, <1>10, <2>1
<1>12. m \in VisibleIter(seq, n)
  BY <1>7, <1>10, <1>11 DEF VisibleIter
<1> QED
  BY <1>12

-----------------------------------------------------------------------------
(* The elements of a sequence at some places.                              *)

Rank(places, i) == Cardinality({j \in places : j <= i})

LEMMA RankCounts ==
  ASSUME NEW N \in Nat, NEW places, places \subseteq 1 .. N
  PROVE  /\ IsFiniteSet(places) /\ Cardinality(places) \in Nat
         /\ \A i \in places : Rank(places, i) \in 1 .. Cardinality(places)
         /\ \A i, j \in places : i < j => Rank(places, i) < Rank(places, j)
<1> DEFINE L(i) == {j \in places : j <= i}
<1>1. IsFiniteSet(places) /\ Cardinality(places) \in Nat
  <2>1. IsFiniteSet(1 .. N)
    BY FS_Interval
  <2> QED
    BY <2>1, FS_Subset, FS_CardinalityType
<1>2. \A i : /\ IsFiniteSet(L(i)) /\ Cardinality(L(i)) \in Nat
             /\ Cardinality(L(i)) <= Cardinality(places)
  BY <1>1, FS_Subset, FS_CardinalityType
<1>3. ASSUME NEW i \in places PROVE Rank(places, i) \in 1 .. Cardinality(places)
  <2>1. i \in L(i)
    OBVIOUS
  <2>2. Cardinality(L(i)) # 0
    BY <1>2, <2>1, FS_EmptySet
  <2>3. Rank(places, i) = Cardinality(L(i))
    BY DEF Rank
  <2> HIDE DEF L
  <2> QED
    BY <1>1, <1>2, <2>2, <2>3
<1>4. ASSUME NEW i \in places, NEW j \in places, i < j
      PROVE  Rank(places, i) < Rank(places, j)
  <2>0. i \in 1 .. N /\ j \in 1 .. N /\ \A k \in places : k \in 1 .. N
    OBVIOUS
  <2>1. L(i) \subseteq L(j) /\ j \in L(j) /\ j \notin L(i)
    <3>1. \A k \in 1 .. N : k <= i => k <= j
      BY <1>4, <2>0
    <3>2. j <= j /\ ~(j <= i)
      BY <1>4, <2>0
    <3> QED
      BY <2>0, <3>1, <3>2
  <2>2. Rank(places, i) = Cardinality(L(i)) /\ Rank(places, j) = Cardinality(L(j))
    BY DEF Rank
  <2> HIDE DEF L
  <2>3. /\ Cardinality(L(i)) <= Cardinality(L(j))
        /\ Cardinality(L(j)) = Cardinality(L(i)) => L(j) = L(i)
    BY <1>2, <2>1, FS_Subset
  <2> QED
    BY <1>2, <2>1, <2>2, <2>3
<1> QED
  BY <1>1, <1>3, <1>4

\* f lists the places in their order.
Enumerates(f, m, places) ==
  /\ f \in [1 .. m -> places]
  /\ \A n, k \in 1 .. m : n < k => f[n] < f[k]
  /\ \A i \in places : \E n \in 1 .. m : f[n] = i

LEMMA PlacesInOrder ==
  ASSUME NEW N \in Nat, NEW places, places \subseteq 1 .. N
  PROVE  \E f : Enumerates(f, Cardinality(places), places)
<1> DEFINE m == Cardinality(places)
           r == [i \in places |-> Rank(places, i)]
           f == [n \in 1 .. m |-> CHOOSE i \in places : r[i] = n]
<1>1. /\ m \in Nat /\ IsFiniteSet(places)
      /\ \A i \in places : r[i] \in 1 .. m
      /\ \A i, j \in places : i < j => r[i] < r[j]
  BY RankCounts
<1>2. \A i, j \in places : i < j \/ j < i \/ i = j
  OBVIOUS
<1>3. r \in [places -> 1 .. m]
  BY <1>1
<1> HIDE DEF r, m
<1>4. \A i, j \in places : r[i] = r[j] => i = j
  BY <1>1, <1>2
<1>5. r \in Injection(places, 1 .. m)
  BY <1>3, <1>4 DEF Injection, IsInjective
<1>6. IsFiniteSet(1 .. m) /\ Cardinality(1 .. m) = m
  BY <1>1, FS_Interval
<1>7. r \in Surjection(places, 1 .. m)
  BY <1>5, <1>6, FS_Injection DEF m
<1>8. \A n \in 1 .. m : \E i \in places : r[i] = n
  BY <1>7 DEF Surjection
<1>9. \A n \in 1 .. m : f[n] \in places /\ r[f[n]] = n
  BY <1>8
<1>10. f \in [1 .. m -> places]
  BY <1>9
<1> HIDE DEF f
<1>11. ASSUME NEW n \in 1 .. m, NEW k \in 1 .. m, n < k PROVE f[n] < f[k]
  <2>1. f[n] \in places /\ f[k] \in places /\ r[f[n]] = n /\ r[f[k]] = k
    BY <1>9
  <2>2. f[k] < f[n] => k < n
    BY <1>1, <2>1
  <2>3. ~(k < n) /\ n # k
    BY <1>11
  <2> QED
    BY <1>2, <2>1, <2>2, <2>3
<1>12. ASSUME NEW i \in places PROVE \E n \in 1 .. m : f[n] = i
  BY <1>1, <1>4, <1>9
<1> QED
  BY <1>10, <1>11, <1>12 DEF Enumerates, m

Ranked(f, m, places) ==
  Cardinality(places) = m /\ \A n \in 1 .. m : Rank(places, f[n]) = n

\* So they are as many as f has, and f[n] is the n-th of them.
LEMMA PlacesRanked ==
  ASSUME NEW N \in Nat, NEW places, places \subseteq 1 .. N, NEW m \in Nat,
         NEW f, Enumerates(f, m, places)
  PROVE  Ranked(f, m, places)
<1>1. /\ f \in [1 .. m -> places]
      /\ \A n, k \in 1 .. m : n < k => f[n] < f[k]
      /\ \A i \in places : \E n \in 1 .. m : f[n] = i
  BY DEF Enumerates
<1>2. ASSUME NEW n \in 1 .. m, NEW k \in 1 .. m
      PROVE  (f[n] = f[k] => n = k) /\ (f[n] <= f[k] <=> n <= k)
  <2>1. f[n] \in 1 .. N /\ f[k] \in 1 .. N
    <3>1. f[n] \in places /\ f[k] \in places
      BY <1>1
    <3> QED
      BY <3>1
  <2>2. (n < k => f[n] < f[k]) /\ (k < n => f[k] < f[n])
    BY <1>1
  <2> QED
    BY <2>1, <2>2
<1>3. Cardinality(places) = m
  <2>1. f \in Bijection(1 .. m, places)
    BY <1>1, <1>2 DEF Bijection, Injection, IsInjective, Surjection
  <2> QED
    BY <2>1, FS_CountingElements DEF ExistsBijection
<1>4. ASSUME NEW n \in 1 .. m PROVE Rank(places, f[n]) = n
  <2> DEFINE L == {j \in places : j <= f[n]}
             g == [k \in 1 .. n |-> f[k]]
  <2>1. \A k \in 1 .. n : k \in 1 .. m /\ g[k] = f[k]
    OBVIOUS
  <2>2. g \in [1 .. n -> L]
    BY <1>1, <1>2, <2>1
  <2>3. \A j \in L : \E k \in 1 .. n : g[k] = j
    <3> SUFFICES ASSUME NEW j \in L PROVE \E k \in 1 .. n : g[k] = j
      OBVIOUS
    <3>1. PICK k \in 1 .. m : f[k] = j
      BY <1>1
    <3>2. k \in 1 .. n
      BY <1>2, <3>1
    <3> QED
      BY <2>1, <3>1, <3>2
  <2>4. \A a, b \in 1 .. n : g[a] = g[b] => a = b
    BY <1>2, <2>1
  <2> HIDE DEF g
  <2>5. g \in Bijection(1 .. n, L)
    BY <2>2, <2>3, <2>4 DEF Bijection, Injection, IsInjective, Surjection
  <2>6. Cardinality(L) = n
    <3> HIDE DEF L
    <3>1. n \in Nat
      OBVIOUS
    <3> QED
      BY <2>5, <3>1, FS_CountingElements DEF ExistsBijection
  <2> QED
    BY <2>6 DEF Rank
<1> QED
  BY <1>3, <1>4 DEF Ranked

ElementsBy(seq, f, m) == [n \in 1 .. m |-> seq[f[n]]]

\* The elements at the places come in the order of f.
LEMMA ElementsInOrder ==
  ASSUME NEW N \in Nat, NEW places, places \subseteq 1 .. N, NEW m \in Nat,
         NEW f, Enumerates(f, m, places), NEW seq
  PROVE  ElementsAt(seq, places) = ElementsBy(seq, f, m)
<1> DEFINE Place(n) == CHOOSE i \in places : Cardinality({j \in places : j <= i}) = n
<1>1. /\ f \in [1 .. m -> places]
      /\ \A i \in places : \E n \in 1 .. m : f[n] = i
  BY DEF Enumerates
<1>2. Cardinality(places) = m /\ \A n \in 1 .. m : Rank(places, f[n]) = n
  <2>1. Ranked(f, m, places)
    BY PlacesRanked
  <2> QED
    BY <2>1 DEF Ranked
<1>3. ASSUME NEW n \in 1 .. m PROVE Place(n) = f[n]
  <2>1. f[n] \in places /\ Cardinality({j \in places : j <= f[n]}) = n
    BY <1>1, <1>2 DEF Rank
  <2>2. Place(n) \in places /\ Cardinality({j \in places : j <= Place(n)}) = n
    BY <2>1
  <2> HIDE DEF Place
  <2>3. PICK k \in 1 .. m : f[k] = Place(n)
    BY <1>1, <2>2
  <2>4. k = n
    BY <1>2, <2>2, <2>3 DEF Rank
  <2> QED
    BY <2>3, <2>4
<1>4. ElementsAt(seq, places) = [n \in 1 .. m |-> seq[Place(n)]]
  BY <1>2 DEF ElementsAt
<1> HIDE DEF Place
<1> QED
  BY <1>3, <1>4 DEF ElementsBy

-----------------------------------------------------------------------------
(* What is typed appears where it was typed.                               *)

TextBy(seq, f, m) == [n \in 1 .. m |-> seq[f[n]].id]

LEMMA TextInOrder ==
  ASSUME NEW seq \in Seq(Node), NEW m \in Nat, NEW f,
         Enumerates(f, m, VisiblePlaces(seq))
  PROVE  GetDocument(seq) = TextBy(seq, f, m)
<1> DEFINE places == VisiblePlaces(seq)
           N == Len(seq)
<1>1. N \in Nat /\ places \subseteq 1 .. N /\ Enumerates(f, m, places)
  BY DEF VisiblePlaces
<1> HIDE DEF places, N
<1>2. ElementsAt(seq, places) = ElementsBy(seq, f, m)
  BY <1>1, ElementsInOrder, ZenonT(60)
<1>3. ElementsAt(seq, places) = [n \in 1 .. m |-> seq[f[n]]]
  BY <1>2 DEF ElementsBy
<1>4. GetDocument(seq) = [i \in DOMAIN ElementsAt(seq, places) |-> ElementsAt(seq, places)[i].id]
  BY DEF GetDocument, places
<1> QED
  BY <1>3, <1>4 DEF TextBy

\* A visible character at place i is preceded by one less than its rank.
LEMMA VisibleRank ==
  ASSUME NEW seq \in Seq(Node), NEW i \in VisiblePlaces(seq)
  PROVE  /\ VisibleBefore(seq, i) \in Nat
         /\ Rank(VisiblePlaces(seq), i) = VisibleBefore(seq, i) + 1
<1> DEFINE B == {j \in 1 .. i - 1 : ~seq[j].tomb}
           L == {j \in VisiblePlaces(seq) : j <= i}
<1>1. i \in 1 .. Len(seq) /\ ~seq[i].tomb /\ Len(seq) \in Nat
  BY DEF VisiblePlaces
<1>2. L = B \cup {i}
  <2>1. \A j \in L : j \in 1 .. Len(seq) /\ ~seq[j].tomb /\ j <= i
    BY DEF VisiblePlaces
  <2>2. \A j \in B : j \in 1 .. Len(seq) /\ ~seq[j].tomb /\ j <= i
    BY <1>1
  <2>3. \A j \in 1 .. Len(seq) : j <= i => j = i \/ j \in 1 .. i - 1
    BY <1>1
  <2>4. L \subseteq B \cup {i}
    BY <2>1, <2>3
  <2>5. B \cup {i} \subseteq L
    BY <1>1, <2>2 DEF VisiblePlaces
  <2> QED
    BY <2>4, <2>5
<1>3. i \notin B
  BY <1>1
<1>4. IsFiniteSet(B)
  <2>1. IsFiniteSet(1 .. i - 1)
    BY <1>1, FS_Interval
  <2>2. B \in SUBSET (1 .. i - 1)
    OBVIOUS
  <2> QED
    BY <2>1, <2>2, FS_Subset
<1>5. VisibleBefore(seq, i) = Cardinality(B) /\ Rank(VisiblePlaces(seq), i) = Cardinality(L)
  BY DEF VisibleBefore, Rank
<1> HIDE DEF B, L
<1> QED
  BY <1>2, <1>3, <1>4, <1>5, OneMoreOrLess

\* The place of the n-th visible character, counting from 0, is f[n + 1].
LEMMA NthPlace ==
  ASSUME NEW seq \in Seq(Node), NEW m \in Nat, NEW f,
         Enumerates(f, m, VisiblePlaces(seq))
  PROVE  /\ VisibleIter(seq, -1) = {}
         /\ \A k \in 1 .. m : VisibleIter(seq, k - 1) = {f[k]}
<1> DEFINE places == VisiblePlaces(seq)
           N == Len(seq)
<1>1. N \in Nat /\ places \subseteq 1 .. N /\ Enumerates(f, m, places)
  BY DEF VisiblePlaces
<1>2. Ranked(f, m, places)
  <2> HIDE DEF places, N
  <2> QED
    BY <1>1, PlacesRanked
<1>3. \A n : VisibleIter(seq, n) = {i \in places : VisibleBefore(seq, i) = n}
  BY DEF VisibleIter, VisiblePlaces
<1>4. \A i \in places : VisibleBefore(seq, i) \in Nat /\ Rank(places, i) = VisibleBefore(seq, i) + 1
  BY VisibleRank
<1>5. /\ \A n \in 1 .. m : f[n] \in places
      /\ \A i \in places : \E n \in 1 .. m : f[n] = i
  BY <1>1 DEF Enumerates
<1>6. \A n \in 1 .. m : Rank(places, f[n]) = n
  BY <1>2 DEF Ranked
<1> HIDE DEF places
<1>7. VisibleIter(seq, -1) = {}
  BY <1>3, <1>4
<1>8. ASSUME NEW k \in 1 .. m PROVE VisibleIter(seq, k - 1) = {f[k]}
  <2>1. f[k] \in places /\ VisibleBefore(seq, f[k]) = k - 1
    BY <1>4, <1>5, <1>6, SMTT(60)
  <2>2. ASSUME NEW i \in places, VisibleBefore(seq, i) = k - 1 PROVE i = f[k]
    <3>1. PICK n \in 1 .. m : f[n] = i
      BY <1>5
    <3>2. VisibleBefore(seq, i) = n - 1
      BY <1>4, <1>6, <3>1
    <3>3. n = k
      BY <2>2, <3>2
    <3> QED
      BY <3>1, <3>3
  <2> QED
    BY <1>3, <2>1, <2>2
<1> QED
  BY <1>7, <1>8

\* A node larger than all of the list is placed right after its left neighbour:
\* the scan has nothing to pass over.
LEMMA NewestFollows ==
  ASSUME NEW seq, WellFormed(seq), NEW newID \in CharID, NEW left \in Ids(seq),
         \A x \in Ids(seq) : Less(x, newID)
  PROVE  InsertPos(seq, newID, left) = Idx(seq, left) + 1
<1> DEFINE p == InsertPos(seq, newID, left)
           last == p - 1
           L == Idx(seq, left)
<1>1. /\ seq \in Seq(Node) /\ Len(seq) \in Nat
      /\ \A i \in 1 .. Len(seq) : seq[i].id \in CharID /\ seq[i].id \in Ids(seq)
  BY IdsAreCharIDs, IdxOfPlace DEF WellFormed
<1>2. L \in 1 .. Len(seq)
  BY <1>1, IdxIsPlace
<1>3. p \in L + 1 .. Len(seq) + 1 /\ \A i \in L + 1 .. last : Skips(seq, newID, left, i)
  BY <1>1, InsertPosRange
<1>4. last \in L .. Len(seq) /\ Less(left, newID)
  BY <1>1, <1>2, <1>3
<1> HIDE DEF p, last
<1>5. \A i \in L + 1 .. last : Less(newID, seq[i].id)
  BY <1>3, <1>4, SkippedAreLarger
<1>6. ~(L + 1 \in L + 1 .. last)
  <2> SUFFICES ASSUME L + 1 \in L + 1 .. last PROVE FALSE
    OBVIOUS
  <2>1. L + 1 \in 1 .. Len(seq)
    BY <1>1, <1>2, <1>4
  <2>2. seq[L + 1].id \in CharID /\ Less(seq[L + 1].id, newID) /\ Less(newID, seq[L + 1].id)
    BY <1>1, <1>5, <2>1
  <2> QED
    BY <2>2, LessOrder
<1>7. last = L
  BY <1>2, <1>4, <1>6
<1> QED
  BY <1>2, <1>3, <1>7 DEF p, last

\* The visible places of a list that has a new character at p, after pos others.
PlacesAfter(f, m, pos, p) ==
  [n \in 1 .. m + 1 |-> IF n <= pos THEN f[n] ELSE IF n = pos + 1 THEN p ELSE f[n - 1] + 1]

LEMMA PlacesAfterInOrder ==
  ASSUME NEW seq \in Seq(Node), NEW new \in Seq(Node), Len(new) = Len(seq) + 1,
         NEW p \in 1 .. Len(seq) + 1,
         \A i \in 1 .. p - 1 : new[i] = seq[i],
         ~new[p].tomb,
         \A i \in p .. Len(seq) : new[i + 1] = seq[i],
         NEW m \in Nat, NEW f, Enumerates(f, m, VisiblePlaces(seq)),
         NEW pos \in 0 .. m,
         \A n \in 1 .. m : f[n] < p <=> n <= pos
  PROVE  Enumerates(PlacesAfter(f, m, pos, p), m + 1, VisiblePlaces(new))
<1> DEFINE g == PlacesAfter(f, m, pos, p)
           N == Len(seq)
<1>1. N \in Nat /\ DOMAIN seq = 1 .. N /\ DOMAIN new = 1 .. N + 1 /\ p \in 1 .. N + 1
  OBVIOUS
<1>2. /\ \A n \in 1 .. m : f[n] \in 1 .. N /\ ~seq[f[n]].tomb
      /\ \A n, k \in 1 .. m : n < k => f[n] < f[k]
      /\ \A i \in 1 .. N : ~seq[i].tomb => \E n \in 1 .. m : f[n] = i
  BY <1>1 DEF Enumerates, VisiblePlaces
<1>3. \A n \in 1 .. m + 1 :
        /\ n <= pos => g[n] = f[n] /\ n \in 1 .. m /\ f[n] < p
        /\ n = pos + 1 => g[n] = p
        /\ n > pos + 1 => g[n] = f[n - 1] + 1 /\ n - 1 \in 1 .. m /\ f[n - 1] >= p
  <2> SUFFICES ASSUME NEW n \in 1 .. m + 1
               PROVE  /\ n <= pos => g[n] = f[n] /\ n \in 1 .. m /\ f[n] < p
                      /\ n = pos + 1 => g[n] = p
                      /\ n > pos + 1 => g[n] = f[n - 1] + 1 /\ n - 1 \in 1 .. m
                                        /\ f[n - 1] >= p
    OBVIOUS
  <2>1. g[n] = IF n <= pos THEN f[n] ELSE IF n = pos + 1 THEN p ELSE f[n - 1] + 1
    BY DEF PlacesAfter
  <2>2. n <= pos => n \in 1 .. m /\ f[n] < p
    OBVIOUS
  <2>3. n > pos + 1 => n - 1 \in 1 .. m /\ ~(n - 1 <= pos)
    OBVIOUS
  <2>4. n > pos + 1 => f[n - 1] >= p
    BY <1>1, <1>2, <2>3
  <2> HIDE DEF g
  <2> QED
    BY <2>1, <2>2, <2>3, <2>4
<1> HIDE DEF g
<1>4. ASSUME NEW n \in 1 .. m + 1 PROVE g[n] \in 1 .. N + 1 /\ ~new[g[n]].tomb
  <2>1. CASE n <= pos
    <3>1. g[n] = f[n] /\ f[n] \in 1 .. p - 1 /\ f[n] \in 1 .. N /\ ~seq[f[n]].tomb
      BY <1>1, <1>2, <1>3, <2>1
    <3> QED
      BY <1>1, <3>1
  <2>2. CASE n = pos + 1
    BY <1>1, <1>3, <2>2
  <2>3. CASE n > pos + 1
    <3>1. g[n] = f[n - 1] + 1 /\ f[n - 1] \in p .. N /\ ~seq[f[n - 1]].tomb
      BY <1>1, <1>2, <1>3, <2>3
    <3>2. new[f[n - 1] + 1] = seq[f[n - 1]]
      BY <3>1
    <3> QED
      BY <1>1, <3>1, <3>2
  <2> QED
    BY <2>1, <2>2, <2>3
<1>5. ASSUME NEW n \in 1 .. m + 1, NEW k \in 1 .. m + 1, n < k PROVE g[n] < g[k]
  <2>1. /\ n <= pos => g[n] = f[n] /\ n \in 1 .. m /\ f[n] < p /\ f[n] \in 1 .. N
        /\ n = pos + 1 => g[n] = p
        /\ n > pos + 1 => g[n] = f[n - 1] + 1 /\ n - 1 \in 1 .. m /\ f[n - 1] >= p
                          /\ f[n - 1] \in 1 .. N
    BY <1>2, <1>3
  <2>2. /\ k <= pos => g[k] = f[k] /\ k \in 1 .. m /\ f[k] < p /\ f[k] \in 1 .. N
        /\ k = pos + 1 => g[k] = p
        /\ k > pos + 1 => g[k] = f[k - 1] + 1 /\ k - 1 \in 1 .. m /\ f[k - 1] >= p
                          /\ f[k - 1] \in 1 .. N
    BY <1>2, <1>3
  <2>3. CASE k <= pos
    <3>1. n <= pos /\ f[n] < f[k]
      BY <1>2, <1>5, <2>1, <2>2, <2>3
    <3> QED
      BY <2>1, <2>2, <2>3, <3>1
  <2>4. CASE n > pos + 1
    <3>1. k > pos + 1 /\ n - 1 < k - 1
      BY <1>5, <2>4
    <3>2. f[n - 1] < f[k - 1]
      BY <1>2, <2>1, <2>2, <2>4, <3>1
    <3> QED
      BY <2>1, <2>2, <2>4, <3>1, <3>2, SMTT(60)
  <2>5. CASE n <= pos + 1 /\ k > pos
    <3>1. g[n] <= p /\ (n <= pos => g[n] < p) /\ g[n] \in Int
      BY <1>1, <2>1, <2>5
    <3>2. g[k] >= p /\ (k > pos + 1 => g[k] > p) /\ g[k] \in Int
      BY <1>1, <2>2, <2>5
    <3> QED
      BY <1>1, <1>5, <2>5, <3>1, <3>2
  <2> QED
    BY <1>5, <2>3, <2>4, <2>5
<1>6. ASSUME NEW i \in 1 .. N + 1, ~new[i].tomb PROVE \E n \in 1 .. m + 1 : g[n] = i
  <2>1. CASE i < p
    <3>1. i \in 1 .. N /\ ~seq[i].tomb
      BY <1>1, <1>6, <2>1
    <3>2. PICK n \in 1 .. m : f[n] = i
      BY <1>2, <3>1
    <3>3. n <= pos /\ n \in 1 .. m + 1
      BY <2>1, <3>2
    <3> QED
      BY <1>3, <3>2, <3>3
  <2>2. CASE i = p
    <3>1. pos + 1 \in 1 .. m + 1
      OBVIOUS
    <3> QED
      BY <1>3, <2>2, <3>1
  <2>3. CASE i > p
    <3>1. i - 1 \in p .. N /\ (i - 1) + 1 = i
      BY <1>1, <2>3
    <3>2. ~seq[i - 1].tomb /\ i - 1 \in 1 .. N
      BY <1>1, <1>6, <3>1
    <3>3. PICK n \in 1 .. m : f[n] = i - 1
      BY <1>2, <3>2
    <3>4. ~(n <= pos) /\ n + 1 \in 1 .. m + 1 /\ (n + 1) - 1 = n /\ n + 1 > pos + 1
      BY <1>1, <3>1, <3>3
    <3>5. g[n + 1] = f[(n + 1) - 1] + 1
      BY <1>3, <3>4
    <3> QED
      BY <3>1, <3>3, <3>4, <3>5
  <2> QED
    BY <1>1, <2>1, <2>2, <2>3
<1>7. VisiblePlaces(new) = {i \in 1 .. N + 1 : ~new[i].tomb}
  BY <1>1 DEF VisiblePlaces
<1>8. g \in [1 .. m + 1 -> VisiblePlaces(new)]
  <2>1. \A n \in 1 .. m + 1 : g[n] \in VisiblePlaces(new)
    BY <1>4, <1>7
  <2> QED
    BY <2>1 DEF g, PlacesAfter
<1>9. \A i \in VisiblePlaces(new) : \E n \in 1 .. m + 1 : g[n] = i
  BY <1>6, <1>7
<1>10. Enumerates(g, m + 1, VisiblePlaces(new))
  BY <1>5, <1>8, <1>9 DEF Enumerates
<1> QED
  BY <1>10 DEF g

\* A text with one more character after its first o.
Widened(T, U, o) ==
  /\ T \in Seq(CharID) /\ U \in Seq(CharID)
  /\ o \in 0 .. Len(T) /\ Len(U) = Len(T) + 1
  /\ \A n \in 1 .. o : U[n] = T[n]
  /\ \A n \in o + 1 .. Len(T) : U[n + 1] = T[n]

\* A list with one more visible node, at p.
NodeAdded(seq, new, p) ==
  /\ seq \in Seq(Node) /\ new \in Seq(Node)
  /\ Len(new) = Len(seq) + 1 /\ p \in 1 .. Len(seq) + 1
  /\ \A i \in 1 .. p - 1 : new[i] = seq[i]
  /\ ~new[p].tomb
  /\ \A i \in p .. Len(seq) : new[i + 1] = seq[i]

\* Its text has one more character, after as many as stand before p.
StandBefore(f, m, p, pos) == \A n \in 1 .. m : f[n] < p <=> n <= pos
TextGrows(seq, new, p, pos) ==
  /\ Widened(GetDocument(seq), GetDocument(new), pos)
  /\ GetDocument(new)[pos + 1] = new[p].id
  /\ VisibleBefore(new, p) = pos

LEMMA InsertedText ==
  ASSUME NEW seq, NEW new, NEW p, NodeAdded(seq, new, p),
         NEW m \in Nat, NEW f, Enumerates(f, m, VisiblePlaces(seq)),
         NEW pos \in 0 .. m, StandBefore(f, m, p, pos)
  PROVE  TextGrows(seq, new, p, pos) /\ Len(GetDocument(seq)) = m
<1> DEFINE g == PlacesAfter(f, m, pos, p)
           T == TextBy(seq, f, m)
           U == TextBy(new, g, m + 1)
<1>0. \A n \in 1 .. m : f[n] < p <=> n <= pos
  BY DEF StandBefore
<1>1. /\ seq \in Seq(Node) /\ new \in Seq(Node)
      /\ Len(seq) \in Nat /\ Len(new) = Len(seq) + 1 /\ p \in 1 .. Len(seq) + 1
      /\ \A i \in 1 .. p - 1 : new[i] = seq[i]
      /\ ~new[p].tomb
      /\ \A i \in p .. Len(seq) : new[i + 1] = seq[i]
  BY DEF NodeAdded
<1>2. Enumerates(g, m + 1, VisiblePlaces(new))
  BY <1>0, <1>1, PlacesAfterInOrder
<1>3. GetDocument(seq) = T /\ GetDocument(new) = U
  <2> HIDE DEF g
  <2>1. m + 1 \in Nat
    OBVIOUS
  <2> QED
    BY <1>1, <1>2, <2>1, TextInOrder
<1>4. \A n \in 1 .. m : f[n] \in 1 .. Len(seq) /\ seq[f[n]].id \in CharID
  <2>1. \A n \in 1 .. m : f[n] \in VisiblePlaces(seq)
    BY DEF Enumerates
  <2>2. \A n \in 1 .. m : f[n] \in 1 .. Len(seq)
    BY <1>1, <2>1 DEF VisiblePlaces
  <2>3. \A i \in 1 .. Len(seq) : seq[i].id \in CharID
    <3>1. \A i \in 1 .. Len(seq) : seq[i] \in Node
      BY <1>1, ElementOfSeq
    <3> QED
      BY <3>1 DEF Node
  <2> QED
    BY <2>2, <2>3
<1>5. \A n \in 1 .. m + 1 : g[n] \in 1 .. Len(new) /\ new[g[n]].id \in CharID
  <2> HIDE DEF g
  <2>1. \A n \in 1 .. m + 1 : g[n] \in VisiblePlaces(new)
    BY <1>2 DEF Enumerates
  <2>2. \A n \in 1 .. m + 1 : g[n] \in 1 .. Len(new)
    BY <1>1, <2>1 DEF VisiblePlaces
  <2>3. \A i \in 1 .. Len(new) : new[i].id \in CharID
    <3>1. \A i \in 1 .. Len(new) : new[i] \in Node
      BY <1>1, ElementOfSeq
    <3> QED
      BY <3>1 DEF Node
  <2> QED
    BY <2>2, <2>3
<1>6. /\ \A n \in 1 .. pos : g[n] = f[n]
      /\ g[pos + 1] = p
      /\ \A n \in pos + 1 .. m : g[n + 1] = f[n] + 1
  BY DEF PlacesAfter
<1>7. /\ T \in Seq(CharID) /\ Len(T) = m
      /\ \A n \in 1 .. m : T[n] = seq[f[n]].id
  BY <1>4 DEF TextBy
<1> HIDE DEF g
<1>8. /\ U \in Seq(CharID) /\ Len(U) = m + 1
      /\ \A n \in 1 .. m + 1 : U[n] = new[g[n]].id
  BY <1>5 DEF TextBy
<1> HIDE DEF T, U
<1>9. ASSUME NEW n \in 1 .. pos PROVE U[n] = T[n]
  <2>1. n \in 1 .. m /\ n \in 1 .. m + 1 /\ n <= pos
    OBVIOUS
  <2>2. f[n] \in 1 .. p - 1
    BY <1>0, <1>1, <1>4, <2>1
  <2>3. new[f[n]] = seq[f[n]]
    BY <1>1, <2>2
  <2> QED
    BY <1>6, <1>7, <1>8, <2>1, <2>3
<1>10. ASSUME NEW n \in pos + 1 .. m PROVE U[n + 1] = T[n]
  <2>1. n \in 1 .. m /\ n + 1 \in 1 .. m + 1 /\ ~(n <= pos)
    OBVIOUS
  <2>2. f[n] \in p .. Len(seq)
    BY <1>0, <1>1, <1>4, <2>1
  <2>3. new[f[n] + 1] = seq[f[n]]
    BY <1>1, <2>2
  <2>4. g[n + 1] = f[n] + 1
    BY <1>6
  <2> QED
    BY <1>7, <1>8, <2>1, <2>3, <2>4
<1>11. pos + 1 \in 1 .. m + 1
  OBVIOUS
<1>12. Widened(T, U, pos)
  BY <1>7, <1>8, <1>9, <1>10 DEF Widened
<1>13. VisibleBefore(new, p) = pos
  <2> DEFINE places == VisiblePlaces(new)
  <2>1. places \subseteq 1 .. Len(new) /\ Len(new) \in Nat /\ m + 1 \in Nat
    BY <1>1 DEF VisiblePlaces
  <2>2. p \in VisiblePlaces(new)
    BY <1>1 DEF VisiblePlaces
  <2>3. Ranked(g, m + 1, places)
    <3> HIDE DEF places
    <3>1. Enumerates(g, m + 1, places)
      BY <1>2 DEF places
    <3> QED
      BY <2>1, <3>1, PlacesRanked
  <2>4. Rank(places, g[pos + 1]) = pos + 1
    BY <1>11, <2>3 DEF Ranked
  <2>5. VisibleBefore(new, p) \in Nat /\ Rank(places, p) = VisibleBefore(new, p) + 1
    BY <1>1, <2>2, VisibleRank
  <2> QED
    BY <1>6, <2>4, <2>5
<1> QED
  BY <1>3, <1>6, <1>7, <1>8, <1>11, <1>12, <1>13 DEF TextGrows

LEMMA WidenedIsInsertAt ==
  ASSUME NEW T, NEW U, NEW o, Widened(T, U, o), NEW x, U[o + 1] = x
  PROVE  U = InsertAt(T, o + 1, x)
<1> DEFINE at == o + 1
<1>1. /\ T \in Seq(CharID) /\ U \in Seq(CharID) /\ Len(T) \in Nat
      /\ o \in 0 .. Len(T) /\ Len(U) = Len(T) + 1
      /\ \A n \in 1 .. o : U[n] = T[n]
      /\ \A n \in o + 1 .. Len(T) : U[n + 1] = T[n]
  BY DEF Widened
<1>2. at \in 1 .. Len(T) + 1 /\ at \in 1 .. Len(U)
  BY <1>1
<1>3. x \in CharID
  BY <1>1, <1>2, ElementOfSeq
<1> DEFINE V == InsertAt(T, at, x)
<1>4. ASSUME NEW n \in 1 .. Len(T) + 1
      PROVE  U[n] = IF n < at THEN T[n] ELSE IF n = at THEN x ELSE T[n - 1]
  <2>1. CASE n < at
    BY <1>1, <2>1
  <2>2. CASE n = at
    BY <1>1, <2>2
  <2>3. CASE n > at
    <3>1. n - 1 \in o + 1 .. Len(T) /\ (n - 1) + 1 = n
      BY <1>1, <2>3
    <3>2. U[(n - 1) + 1] = T[n - 1]
      BY <1>1, <3>1
    <3> QED
      BY <1>1, <2>3, <3>1, <3>2
  <2> QED
    BY <1>1, <2>1, <2>2, <2>3
<1> HIDE DEF at
<1>5. /\ V \in Seq(CharID)
      /\ Len(V) = Len(T) + 1
      /\ \A n \in 1 .. Len(T) + 1 :
           V[n] = IF n < at THEN T[n] ELSE IF n = at THEN x ELSE T[n - 1]
  BY <1>1, <1>2, <1>3, InsertAtShape, SMTT(60)
<1> HIDE DEF V
<1>6. U = V
  BY <1>1, <1>4, <1>5, SeqEqual
<1> QED
  BY <1>6 DEF V, at

\* localInsert puts the character before the one that was at pos.
LEMMA TypedInPlace ==
  ASSUME NEW e, EngineOK(e), NEW site \in Nat,
         NEW pos \in 0 .. Len(GetDocument(e.seq)),
         NEW id, id = [clock |-> e.clock + 1, site |-> site]
  PROVE  GetDocument(LocalInsert(e, site, pos).engine.seq)
           = InsertAt(GetDocument(e.seq), pos + 1, id)
<1> DEFINE seq == e.seq
           N == Len(seq)
           left == VisibleAt(seq, pos - 1)
           L == Idx(seq, left)
           p == InsertPos(seq, id, left)
           new == InsertNode(seq, id, left)
           m == Cardinality(VisiblePlaces(seq))
           text == GetDocument(seq)
<1>1. /\ WellFormed(seq) /\ seq \in Seq(Node) /\ N \in Nat
      /\ e.clock \in Nat /\ Ids(seq) \subseteq CharID /\ left \in Ids(seq)
      /\ \A x \in Ids(seq) : x.clock <= e.clock
  BY EngineFields, VisibleAtInList DEF EngineOK
<1>2. LocalInsert(e, site, pos).engine.seq = new
  BY DEF LocalInsert
<1>3. m \in Nat /\ VisiblePlaces(seq) \subseteq 1 .. N
  <2>1. VisiblePlaces(seq) \subseteq 1 .. N
    BY <1>1 DEF VisiblePlaces
  <2>2. m \in Nat
    BY <1>1, PlacesFinite
  <2> QED
    BY <2>1, <2>2
<1>4. PICK f : Enumerates(f, m, VisiblePlaces(seq))
  BY <1>1, <1>3, PlacesInOrder
<1>4a. \A n \in 1 .. m : f[n] \in 1 .. N /\ ~seq[f[n]].tomb
  <2>1. \A n \in 1 .. m : f[n] \in VisiblePlaces(seq)
    BY <1>4 DEF Enumerates
  <2> QED
    BY <1>3, <2>1 DEF VisiblePlaces
<1>5. text = TextBy(seq, f, m)
  BY <1>1, <1>3, <1>4, TextInOrder
<1>6. Len(text) = m /\ pos \in 0 .. m
  BY <1>3, <1>5 DEF TextBy
<1>7. id \in CharID /\ id.clock = e.clock + 1
  BY <1>1 DEF CharID
<1>8. \A x \in Ids(seq) : Less(x, id)
  <2> SUFFICES ASSUME NEW x \in Ids(seq) PROVE Less(x, id)
    OBVIOUS
  <2>1. x \in CharID /\ x.clock \in Nat /\ x.clock <= e.clock
    BY <1>1 DEF CharID
  <2> QED
    BY <1>1, <1>7, <2>1, LaterIsLarger
<1> HIDE DEF text, m, left
<1>9. p = L + 1
  BY <1>1, <1>7, <1>8, NewestFollows
<1>9a. p = InsertPos(seq, id, left) /\ new = InsertNode(seq, id, left)
  OBVIOUS
<1> HIDE DEF p, new, seq
<1>10. /\ new \in Seq(Node)
       /\ Len(new) = Len(seq) + 1
       /\ p \in 2 .. Len(seq) + 1
       /\ Idx(seq, left) \in 1 .. p - 1
       /\ \A i \in 1 .. p - 1 : new[i] = seq[i]
       /\ new[p] = [id |-> id, left |-> left, tomb |-> FALSE]
       /\ \A i \in p .. Len(seq) : new[i + 1] = seq[i]
  BY <1>1, <1>7, <1>9a, InsertNodeShape, SMTT(60)
<1>11. \A n \in 1 .. m : f[n] < p <=> n <= pos
  <2>1. /\ \A n \in 1 .. m : f[n] \in 2 .. N
        /\ \A n, k \in 1 .. m : n < k => f[n] < f[k]
    <3>2. seq[1].tomb
      BY <1>1 DEF WellFormed, SentinelFirst
    <3> QED
      BY <1>1, <1>4, <1>4a, <3>2 DEF Enumerates
  <2>2. /\ VisibleIter(seq, -1) = {}
        /\ \A k \in 1 .. m : VisibleIter(seq, k - 1) = {f[k]}
    BY <1>1, <1>3, <1>4, NthPlace
  <2>3. CASE pos = 0
    <3>1. left = SENTINEL_ID
      BY <2>2, <2>3 DEF left, VisibleAt
    <3>2. seq[1].id = SENTINEL_ID /\ 1 \in 1 .. Len(seq)
      BY <1>1, IdsAreCharIDs DEF WellFormed, SentinelFirst
    <3>3. L = 1
      BY <1>1, <3>1, <3>2, IdxOfPlace
    <3> QED
      BY <1>1, <1>9, <2>1, <2>3, <3>3
  <2>4. CASE pos # 0
    <3>1. pos \in 1 .. m
      BY <1>3, <1>6, <2>4
    <3>2. VisibleIter(seq, pos - 1) = {f[pos]}
      BY <2>2, <3>1
    <3>3. left = seq[f[pos]].id
      BY <3>2 DEF left, VisibleAt
    <3>4. L = f[pos]
      BY <1>1, <2>1, <3>1, <3>3, IdxOfPlace
    <3>5. \A n \in 1 .. m : /\ n < pos => f[n] < f[pos]
                            /\ pos < n => f[pos] < f[n]
      BY <2>1, <3>1
    <3>6. ASSUME NEW n \in 1 .. m PROVE f[n] < p <=> n <= pos
      <4>1. n < pos \/ n = pos \/ pos < n
        BY <1>3, <3>1
      <4>2. f[n] \in 2 .. N /\ f[pos] \in 2 .. N
        BY <2>1, <3>1
      <4> QED
        BY <1>1, <1>9, <3>1, <3>4, <3>5, <4>1, <4>2
    <3> QED
      BY <3>6
  <2> QED
    BY <2>3, <2>4, SMTT(30)
<1>12. NodeAdded(seq, new, p)
  BY <1>1, <1>10 DEF NodeAdded
<1>13. /\ Widened(text, GetDocument(new), pos)
       /\ GetDocument(new)[pos + 1] = id
  <2>1. text = GetDocument(seq)
    BY DEF text, seq
  <2>2. new[p].id = id
    BY <1>10
  <2>3. m \in Nat /\ pos \in 0 .. m
    BY <1>3, <1>6
  <2>4. StandBefore(f, m, p, pos)
    BY <1>11 DEF StandBefore
  <2>5. TextGrows(seq, new, p, pos)
    BY <1>4, <1>12, <2>3, <2>4, InsertedText
  <2> QED
    BY <2>1, <2>2, <2>5 DEF TextGrows
<1> QED
  <2>1. GetDocument(new) = InsertAt(text, pos + 1, id)
    BY <1>13, WidenedIsInsertAt
  <2> QED
    BY <1>2, <1>6, <1>7, <2>1 DEF text, seq, new

\* The visible places of a list can be counted off.
LEMMA PlacesEnumerated ==
  ASSUME NEW seq \in Seq(Node), NEW m, m = Cardinality(VisiblePlaces(seq))
  PROVE  /\ m \in Nat
         /\ \E f : Enumerates(f, m, VisiblePlaces(seq))
<1>1. Len(seq) \in Nat /\ VisiblePlaces(seq) \subseteq 1 .. Len(seq)
  BY DEF VisiblePlaces
<1>2. m \in Nat
  BY PlacesFinite
<1> QED
  BY <1>1, <1>2, PlacesInOrder

\* A text has an identifier of the list for each visible node, and none twice.
LEMMA TextFacts ==
  ASSUME NEW seq, WellFormed(seq), NEW T, T = GetDocument(seq)
  PROVE  /\ T \in Seq(CharID) /\ Len(T) \in Nat
         /\ Len(T) = Cardinality(VisiblePlaces(seq))
         /\ \A n \in 1 .. Len(T) : T[n] \in Ids(seq)
         /\ \A n, k \in 1 .. Len(T) : T[n] = T[k] => n = k
<1> DEFINE m == Cardinality(VisiblePlaces(seq))
<1>1. seq \in Seq(Node)
  BY DEF WellFormed
<1>2. PICK f : Enumerates(f, m, VisiblePlaces(seq))
  BY <1>1, PlacesEnumerated
<1>3. m \in Nat
  BY <1>1, PlacesEnumerated
<1> HIDE DEF m
<1>4. \A n \in 1 .. m : f[n] \in 1 .. Len(seq)
  <2>1. \A n \in 1 .. m : f[n] \in VisiblePlaces(seq)
    BY <1>2 DEF Enumerates
  <2> QED
    BY <1>1, <2>1 DEF VisiblePlaces
<1>5. T = TextBy(seq, f, m)
  BY <1>1, <1>2, <1>3, TextInOrder
<1>6. \A n \in 1 .. m : /\ seq[f[n]].id \in CharID /\ seq[f[n]].id \in Ids(seq)
                        /\ Idx(seq, seq[f[n]].id) = f[n]
  BY <1>4, IdsAreCharIDs, IdxOfPlace
<1>7. \A n \in 1 .. m : T[n] = seq[f[n]].id
  BY <1>5 DEF TextBy
<1>8. T \in Seq(CharID) /\ Len(T) = m
  BY <1>3, <1>5, <1>6 DEF TextBy
<1>9. ASSUME NEW n \in 1 .. m, NEW k \in 1 .. m, T[n] = T[k] PROVE n = k
  <2>1. f[n] = f[k]
    BY <1>6, <1>7, <1>9
  <2>2. \A a, b \in 1 .. m : a < b => f[a] < f[b]
    BY <1>2 DEF Enumerates
  <2>3. f[n] \in Nat /\ f[k] \in Nat
    BY <1>4
  <2>4. ~(n < k) /\ ~(k < n)
    BY <2>1, <2>2, <2>3
  <2> QED
    BY <1>3, <2>4
<1> QED
  BY <1>3, <1>6, <1>7, <1>8, <1>9 DEF m

\* Wherever a visible node is put in, its character is in the text there.
LEMMA InsertedSomewhere ==
  ASSUME NEW seq, NEW new, NEW p, NodeAdded(seq, new, p)
  PROVE  \E pos \in Nat :
           /\ Widened(GetDocument(seq), GetDocument(new), pos)
           /\ GetDocument(new)[pos + 1] = new[p].id
           /\ VisibleBefore(new, p) = pos
<1> DEFINE m == Cardinality(VisiblePlaces(seq))
<1>1. seq \in Seq(Node) /\ p \in 1 .. Len(seq) + 1
  BY DEF NodeAdded
<1>2. PICK f : Enumerates(f, m, VisiblePlaces(seq))
  BY <1>1, PlacesEnumerated
<1>3. m \in Nat
  BY <1>1, PlacesEnumerated
<1> HIDE DEF m
<1>4. /\ \A n \in 1 .. m : f[n] \in 1 .. Len(seq)
      /\ \A n, k \in 1 .. m : n < k => f[n] < f[k]
  <2>1. \A n \in 1 .. m : f[n] \in VisiblePlaces(seq)
    BY <1>2 DEF Enumerates
  <2>2. \A n \in 1 .. m : f[n] \in 1 .. Len(seq)
    BY <1>1, <2>1 DEF VisiblePlaces
  <2> QED
    BY <1>2, <2>2 DEF Enumerates
<1> DEFINE After == {n \in 1 .. m + 1 : n = m + 1 \/ f[n] >= p}
<1>5. m + 1 \in After /\ After \subseteq Nat
  BY <1>3
<1>6. PICK k \in After : \A n \in After : k <= n
  BY <1>5, NatLeast
<1> DEFINE pos == k - 1
<1>7. k \in 1 .. m + 1 /\ pos \in 0 .. m /\ pos \in Nat
  BY <1>3, <1>6
<1>8. ASSUME NEW n \in 1 .. m PROVE f[n] < p <=> n <= pos
  <2>1. f[n] \in Nat /\ p \in Nat /\ n \in Nat
    BY <1>1, <1>4
  <2>2. CASE n < k
    <3>1. n \notin After
      BY <1>6, <1>7, <2>1, <2>2
    <3>2. ~(f[n] >= p)
      BY <1>3, <3>1
    <3> QED
      BY <1>7, <2>1, <2>2, <3>2
  <2>3. CASE ~(n < k)
    <3>1. k \in 1 .. m
      BY <1>3, <1>7, <2>1, <2>3
    <3>2. f[k] >= p /\ f[k] \in Nat
      BY <1>3, <1>4, <1>6, <3>1
    <3>3. k < n => f[k] < f[n]
      BY <1>4, <3>1
    <3> QED
      BY <1>7, <2>1, <2>3, <3>2, <3>3
  <2> QED
    BY <2>2, <2>3
<1> HIDE DEF pos
<1>9. /\ Widened(GetDocument(seq), GetDocument(new), pos)
      /\ GetDocument(new)[pos + 1] = new[p].id
      /\ VisibleBefore(new, p) = pos
  <2>1. StandBefore(f, m, p, pos)
    BY <1>8 DEF StandBefore
  <2>2. pos \in 0 .. m
    BY <1>7
  <2> HIDE DEF After
  <2>3. TextGrows(seq, new, p, pos)
    BY <1>2, <1>3, <2>1, <2>2, InsertedText
  <2> QED
    BY <2>3 DEF TextGrows
<1> QED
  BY <1>7, <1>9

\* The visible places without the k-th.
PlacesWithout(f, m, k) == [n \in 1 .. m - 1 |-> IF n < k THEN f[n] ELSE f[n + 1]]

LEMMA PlacesWithoutInOrder ==
  ASSUME NEW m \in Nat, NEW places, places \subseteq Nat,
         NEW f, Enumerates(f, m, places), NEW k \in 1 .. m
  PROVE  Enumerates(PlacesWithout(f, m, k), m - 1, places \ {f[k]})
<1> DEFINE h == PlacesWithout(f, m, k)
<1>1. /\ \A n \in 1 .. m : f[n] \in places /\ f[n] \in Nat
      /\ \A n, j \in 1 .. m : n < j => f[n] < f[j]
      /\ \A i \in places : \E n \in 1 .. m : f[n] = i
  BY DEF Enumerates
<1>2. \A n \in 1 .. m - 1 : /\ n \in 1 .. m /\ n + 1 \in 1 .. m
                            /\ h[n] = IF n < k THEN f[n] ELSE f[n + 1]
  BY DEF PlacesWithout
<1>3. ASSUME NEW n \in 1 .. m - 1 PROVE h[n] \in places \ {f[k]}
  <2>1. CASE n < k
    <3>1. h[n] = f[n] /\ f[n] < f[k] /\ f[n] \in places
      BY <1>1, <1>2, <2>1
    <3> QED
      BY <1>1, <1>2, <3>1
  <2>2. CASE ~(n < k)
    <3>1. h[n] = f[n + 1] /\ k < n + 1
      BY <1>2, <2>2
    <3>2. f[k] < f[n + 1] /\ f[n + 1] \in places
      BY <1>1, <1>2, <3>1
    <3> QED
      BY <1>1, <1>2, <3>1, <3>2
  <2> QED
    BY <2>1, <2>2
<1>4. ASSUME NEW n \in 1 .. m - 1, NEW j \in 1 .. m - 1, n < j PROVE h[n] < h[j]
  <2> DEFINE a == IF n < k THEN n ELSE n + 1
             b == IF j < k THEN j ELSE j + 1
  <2>1. a \in 1 .. m /\ b \in 1 .. m /\ a < b
    BY <1>4
  <2>2. h[n] = f[a] /\ h[j] = f[b]
    BY <1>2
  <2> HIDE DEF a, b
  <2> QED
    BY <1>1, <2>1, <2>2
<1>5. ASSUME NEW i \in places \ {f[k]} PROVE \E n \in 1 .. m - 1 : h[n] = i
  <2>1. PICK n \in 1 .. m : f[n] = i
    BY <1>1
  <2>2. n # k
    BY <2>1
  <2>3. CASE n < k
    <3>1. n \in 1 .. m - 1 /\ h[n] = f[n]
      BY <1>2, <2>3
    <3> QED
      BY <2>1, <3>1
  <2>4. CASE n > k
    <3>1. n - 1 \in 1 .. m - 1 /\ ~(n - 1 < k) /\ (n - 1) + 1 = n
      BY <2>4
    <3>2. h[n - 1] = f[(n - 1) + 1]
      BY <1>2, <3>1
    <3> QED
      BY <2>1, <3>1, <3>2
  <2> QED
    BY <2>2, <2>3, <2>4
<1>6. h \in [1 .. m - 1 -> places \ {f[k]}]
  <2>1. h = [n \in 1 .. m - 1 |-> IF n < k THEN f[n] ELSE f[n + 1]]
    BY DEF PlacesWithout
  <2>2. h = [n \in 1 .. m - 1 |-> h[n]]
    BY <1>2, <2>1
  <2> HIDE DEF h
  <2> QED
    BY <1>3, <2>2
<1> HIDE DEF h
<1>7. Enumerates(h, m - 1, places \ {f[k]})
  BY <1>4, <1>5, <1>6 DEF Enumerates
<1> QED
  BY <1>7 DEF h

\* Deleting a visible node takes its character out of the text.
LEMMA DeletedText ==
  ASSUME NEW seq \in Seq(Node), NEW i \in VisiblePlaces(seq),
         NEW new, new = Tombstone(seq, i)
  PROVE  /\ VisibleBefore(new, i) = VisibleBefore(seq, i)
         /\ Widened(GetDocument(new), GetDocument(seq), VisibleBefore(seq, i))
<1> DEFINE m == Cardinality(VisiblePlaces(seq))
<1>1. /\ Len(seq) \in Nat /\ i \in 1 .. Len(seq) /\ ~seq[i].tomb
      /\ VisiblePlaces(seq) = {j \in 1 .. Len(seq) : ~seq[j].tomb}
  BY DEF VisiblePlaces
<1> DEFINE node == [seq[i] EXCEPT !.tomb = TRUE]
<1>2. node \in Node /\ node.id = seq[i].id /\ node.tomb
  <2>1. seq[i] \in Node
    BY <1>1, ElementOfSeq
  <2> QED
    BY <2>1 DEF Node
<1>3. new = [seq EXCEPT ![i] = node]
  BY DEF Tombstone
<1> HIDE DEF node
<1>4. /\ new \in Seq(Node) /\ Len(new) = Len(seq)
      /\ \A j \in 1 .. Len(seq) : new[j] = IF j = i THEN node ELSE seq[j]
  BY <1>1, <1>2, <1>3, ExceptSeq
<1>5. VisiblePlaces(new) = VisiblePlaces(seq) \ {i}
  <2>1. VisiblePlaces(new) = {j \in 1 .. Len(seq) : ~new[j].tomb}
    BY <1>4 DEF VisiblePlaces
  <2> QED
    BY <1>1, <1>2, <1>4, <2>1
<1>6. VisibleBefore(new, i) = VisibleBefore(seq, i)
  <2>1. {j \in 1 .. i - 1 : ~new[j].tomb} = {j \in 1 .. i - 1 : ~seq[j].tomb}
    BY <1>1, <1>4
  <2> QED
    BY <2>1 DEF VisibleBefore
<1>7. PICK f : Enumerates(f, m, VisiblePlaces(seq))
  BY PlacesEnumerated
<1>8. m \in Nat
  BY PlacesEnumerated
<1> HIDE DEF m
<1>9. PICK k \in 1 .. m : f[k] = i
  BY <1>7 DEF Enumerates
<1>10. VisibleBefore(seq, i) = k - 1
  <2> DEFINE places == VisiblePlaces(seq)
  <2>1. Ranked(f, m, places)
    <3>1. places \subseteq 1 .. Len(seq) /\ Enumerates(f, m, places)
      BY <1>1, <1>7
    <3> HIDE DEF places
    <3> QED
      BY <1>1, <1>8, <3>1, PlacesRanked
  <2>2. Rank(places, f[k]) = k
    BY <2>1 DEF Ranked
  <2>3. VisibleBefore(seq, i) \in Nat /\ Rank(places, i) = VisibleBefore(seq, i) + 1
    BY VisibleRank
  <2> QED
    BY <1>9, <2>2, <2>3
<1> DEFINE h == PlacesWithout(f, m, k)
           T == TextBy(new, h, m - 1)
           U == TextBy(seq, f, m)
<1>11. \A n \in 1 .. m - 1 : h[n] = IF n < k THEN f[n] ELSE f[n + 1]
  BY DEF PlacesWithout
<1>12. Enumerates(h, m - 1, VisiblePlaces(new))
  <2>1. VisiblePlaces(seq) \subseteq Nat
    BY <1>1
  <2>2. Enumerates(h, m - 1, VisiblePlaces(seq) \ {f[k]})
    BY <1>7, <1>8, <2>1, PlacesWithoutInOrder
  <2> QED
    BY <1>5, <1>9, <2>2
<1> HIDE DEF h
<1>13. GetDocument(new) = T /\ GetDocument(seq) = U
  <2>1. m - 1 \in Nat
    BY <1>8
  <2> QED
    BY <1>4, <1>7, <1>8, <1>12, <2>1, TextInOrder
<1>14. \A n \in 1 .. m : f[n] \in 1 .. Len(seq) /\ seq[f[n]].id \in CharID
  <2>1. \A n \in 1 .. m : f[n] \in VisiblePlaces(seq)
    BY <1>7 DEF Enumerates
  <2>2. \A j \in 1 .. Len(seq) : seq[j] \in Node
    BY <1>1, ElementOfSeq
  <2>3. \A j \in 1 .. Len(seq) : seq[j].id \in CharID
    BY <2>2 DEF Node
  <2> QED
    BY <1>1, <2>1, <2>3
<1>15. /\ U \in Seq(CharID) /\ Len(U) = m
       /\ \A n \in 1 .. m : U[n] = seq[f[n]].id
  BY <1>8, <1>14 DEF TextBy
<1>16. ASSUME NEW n \in 1 .. m - 1
       PROVE  new[h[n]].id = IF n < k THEN U[n] ELSE U[n + 1]
  <2>1. n \in 1 .. m /\ n + 1 \in 1 .. m
    BY <1>8
  <2>2. \A j \in 1 .. Len(seq) : new[j].id = seq[j].id
    BY <1>1, <1>2, <1>4
  <2> HIDE DEF U, h
  <2>3. CASE n < k
    <3>1. h[n] = f[n]
      BY <1>11, <2>3
    <3>2. new[f[n]].id = seq[f[n]].id /\ U[n] = seq[f[n]].id
      BY <1>14, <1>15, <2>1, <2>2
    <3> QED
      BY <2>3, <3>1, <3>2
  <2>4. CASE ~(n < k)
    <3>1. h[n] = f[n + 1]
      BY <1>11, <2>4
    <3>2. new[f[n + 1]].id = seq[f[n + 1]].id /\ U[n + 1] = seq[f[n + 1]].id
      BY <1>14, <1>15, <2>1, <2>2
    <3> QED
      BY <2>4, <3>1, <3>2
  <2> QED
    BY <2>3, <2>4
<1> HIDE DEF U
<1>17. /\ T \in Seq(CharID) /\ Len(T) = m - 1
       /\ \A n \in 1 .. m - 1 : T[n] = IF n < k THEN U[n] ELSE U[n + 1]
  <2>1. \A n \in 1 .. m - 1 : new[h[n]].id \in CharID
    <3>1. \A n \in 1 .. m : U[n] \in CharID
      BY <1>15, ElementOfSeq
    <3> QED
      BY <1>8, <1>16, <3>1
  <2>2. m - 1 \in Nat
    BY <1>8
  <2> QED
    BY <1>16, <2>1, <2>2 DEF TextBy
<1> HIDE DEF T
<1>18. Widened(T, U, k - 1)
  <2>1. /\ T \in Seq(CharID) /\ U \in Seq(CharID)
        /\ Len(T) = m - 1 /\ Len(U) = m /\ k - 1 \in 0 .. m - 1
    BY <1>8, <1>15, <1>17
  <2>2. \A n \in 1 .. k - 1 : U[n] = T[n]
    BY <1>8, <1>17
  <2>3. \A n \in k .. m - 1 : U[n + 1] = T[n]
    BY <1>8, <1>17
  <2> QED
    BY <1>8, <2>1, <2>2, <2>3 DEF Widened
<1> QED
  BY <1>6, <1>10, <1>13, <1>18

-----------------------------------------------------------------------------
(* The inductive invariant.                                                *)

KnownIds(ops) == {SENTINEL_ID} \cup {op.id : op \in ops}

\* Every engine is well formed and holds only characters that were issued.
EnginesInv ==
  \A s \in Sites : EngineOK(crdt[s]) /\ Ids(crdt[s].seq) \subseteq KnownIds(Issued)

\* An operation comes after its left neighbour, and after no clock value its
\* site has yet to use.
IssuedInv ==
  \A op \in Issued :
    OpOK(op) /\ \A s \in Sites : op.id.site = s => op.id.clock <= crdt[s].clock

\* The network and the pending queues make nothing up.
TransitInv ==
  \A s \in Sites : DOMAIN net[s] \subseteq Issued /\ pending[s] \in Seq(Issued)

IInv == TypeOK /\ EnginesInv /\ IssuedInv /\ TransitInv

-----------------------------------------------------------------------------
(* drainPending.                                                           *)

\* What holds between two steps of the scan, over operations taken from ops.
DrainStates(ops, floor) ==
  {d \in Scan :
     /\ d.pending \in Seq(ops)
     /\ d.notified \subseteq ops
     /\ EngineOK(d.crdt)
     /\ floor <= d.crdt.clock
     /\ Ids(d.crdt.seq) \subseteq KnownIds(ops)}

LEMMA DrainStateFields ==
  ASSUME NEW ops, NEW floor, NEW d \in DrainStates(ops, floor)
  PROVE  /\ d \in Scan
         /\ d.pending \in Seq(ops) /\ d.at \in Nat \ {0}
         /\ d.progress \in BOOLEAN /\ d.notified \subseteq ops
         /\ EngineOK(d.crdt) /\ floor <= d.crdt.clock
         /\ Ids(d.crdt.seq) \subseteq KnownIds(ops)
         /\ d = [crdt |-> d.crdt, pending |-> d.pending, at |-> d.at,
                 progress |-> d.progress, notified |-> d.notified]
BY DEF DrainStates, Scan

LEMMA DrainStateIntro ==
  ASSUME NEW ops, ops \subseteq Operation, NEW floor,
         NEW e, EngineOK(e), floor <= e.clock, Ids(e.seq) \subseteq KnownIds(ops),
         NEW queue \in Seq(ops), NEW at \in Nat \ {0},
         NEW progress \in BOOLEAN, NEW done, done \subseteq ops
  PROVE  [crdt |-> e, pending |-> queue, at |-> at,
          progress |-> progress, notified |-> done] \in DrainStates(ops, floor)
<1> DEFINE d == [crdt |-> e, pending |-> queue, at |-> at,
                 progress |-> progress, notified |-> done]
<1>1. queue \in Seq(Operation)
  BY SeqMonotonic
<1>2. e \in Engine /\ done \in SUBSET Operation
  BY DEF EngineOK
<1>3. d \in Scan
  BY <1>1, <1>2 DEF Scan
<1>4. d.pending = queue /\ d.notified = done /\ d.crdt = e
  OBVIOUS
<1> HIDE DEF d
<1>5. d \in DrainStates(ops, floor)
  BY <1>3, <1>4 DEF DrainStates
<1> QED
  BY <1>5 DEF d

LEMMA ScanStepOK ==
  ASSUME NEW ops, \A op \in ops : OpOK(op),
         NEW floor \in Nat, NEW d \in DrainStates(ops, floor)
  PROVE  ScanStep[d] \in DrainStates(ops, floor)
<1>1. /\ d \in Scan
      /\ d.pending \in Seq(ops) /\ d.at \in Nat \ {0}
      /\ d.progress \in BOOLEAN /\ d.notified \subseteq ops
      /\ EngineOK(d.crdt) /\ floor <= d.crdt.clock
      /\ Ids(d.crdt.seq) \subseteq KnownIds(ops)
      /\ d = [crdt |-> d.crdt, pending |-> d.pending, at |-> d.at,
              progress |-> d.progress, notified |-> d.notified]
  BY DrainStateFields
<1>2. ops \subseteq Operation
  BY DEF OpOK
<1>3. CASE d.at <= Len(d.pending) /\ CanApply(d.crdt, d.pending[d.at])
  <2> DEFINE op == d.pending[d.at]
             e == ApplyRemote(d.crdt, op)
             rest == RemoveAt(d.pending, d.at)
             done == d.notified \cup {op}
  <2>1. ScanStep[d] = [crdt |-> e, pending |-> rest, at |-> d.at,
                       progress |-> TRUE, notified |-> done]
    BY <1>1, <1>3 DEF ScanStep
  <2>2. d.at \in 1 .. Len(d.pending) /\ op \in ops /\ OpOK(op)
    BY <1>1, <1>3, ElementOfSeq
  <2>3. rest \in Seq(ops)
    BY <1>1, <2>2, RemoveAtShape
  <2>4. /\ EngineOK(e) /\ d.crdt.clock <= e.clock
        /\ Ids(e.seq) \subseteq Ids(d.crdt.seq) \cup {op.id}
    BY <1>1, <1>3, <2>2, ApplyRemoteOK
  <2>5. done \subseteq ops
    BY <1>1, <2>2
  <2> HIDE DEF op, e, rest, done
  <2>6. floor <= e.clock
    BY <1>1, <2>4, EngineFields
  <2>7. Ids(e.seq) \subseteq KnownIds(ops)
    BY <1>1, <2>2, <2>4 DEF KnownIds
  <2>8. [crdt |-> e, pending |-> rest, at |-> d.at,
         progress |-> TRUE, notified |-> done] \in DrainStates(ops, floor)
    BY <1>1, <1>2, <2>3, <2>4, <2>5, <2>6, <2>7, TRUE \in BOOLEAN, DrainStateIntro
  <2> QED
    BY <2>1, <2>8
<1>4. CASE d.at <= Len(d.pending) /\ ~CanApply(d.crdt, d.pending[d.at])
  <2>1. ScanStep[d] = [d EXCEPT !.at = @ + 1]
    BY <1>1, <1>4 DEF ScanStep
  <2>2. [d EXCEPT !.at = @ + 1] =
        [crdt |-> d.crdt, pending |-> d.pending, at |-> d.at + 1,
         progress |-> d.progress, notified |-> d.notified]
    BY <1>1
  <2>3. d.at + 1 \in Nat \ {0}
    BY <1>1
  <2> QED
    BY <1>1, <1>2, <2>1, <2>2, <2>3, DrainStateIntro
<1>5. CASE ~(d.at <= Len(d.pending))
  <2>1. ScanStep[d] = IF d.progress
                      THEN [crdt |-> d.crdt, pending |-> d.pending, at |-> 1,
                            progress |-> FALSE, notified |-> d.notified]
                      ELSE d
    BY <1>1, <1>5 DEF ScanStep
  <2>2. [crdt |-> d.crdt, pending |-> d.pending, at |-> 1,
         progress |-> FALSE, notified |-> d.notified] \in DrainStates(ops, floor)
    BY <1>1, <1>2, 1 \in Nat \ {0}, FALSE \in BOOLEAN, DrainStateIntro
  <2> QED
    BY <2>1, <2>2
<1> QED
  BY <1>3, <1>4, <1>5

\* A step applies and erases an operation, or leaves list and queue alone.
LEMMA ScanStepCases ==
  ASSUME NEW ops, NEW floor, NEW d \in DrainStates(ops, floor),
         NEW new, new = ScanStep[d]
  PROVE  \/ \E op \in ops :
              /\ d.at \in 1 .. Len(d.pending) /\ op = d.pending[d.at]
              /\ CanApply(d.crdt, op)
              /\ new.crdt = ApplyRemote(d.crdt, op)
              /\ new.pending = RemoveAt(d.pending, d.at)
              /\ new.notified = d.notified \cup {op}
         \/ /\ new.crdt = d.crdt
            /\ new.pending = d.pending
            /\ new.notified = d.notified
<1>1. /\ d \in Scan /\ d.pending \in Seq(ops) /\ d.at \in Nat \ {0}
      /\ d = [crdt |-> d.crdt, pending |-> d.pending, at |-> d.at,
              progress |-> d.progress, notified |-> d.notified]
  BY DrainStateFields
<1>2. CASE d.at <= Len(d.pending) /\ CanApply(d.crdt, d.pending[d.at])
  <2> DEFINE op == d.pending[d.at]
             e == ApplyRemote(d.crdt, op)
             rest == RemoveAt(d.pending, d.at)
             done == d.notified \cup {op}
  <2>1. new = [crdt |-> e, pending |-> rest, at |-> d.at,
               progress |-> TRUE, notified |-> done]
    BY <1>1, <1>2 DEF ScanStep
  <2>2. d.at \in 1 .. Len(d.pending)
    BY <1>1, <1>2
  <2>3. op \in ops
    BY <1>1, <2>2, ElementOfSeq
  <2> HIDE DEF e, rest, done
  <2>4. new.crdt = e /\ new.pending = rest /\ new.notified = done
    BY <2>1
  <2> QED
    BY <1>2, <2>2, <2>3, <2>4 DEF e, rest, done
<1>3. CASE ~(d.at <= Len(d.pending) /\ CanApply(d.crdt, d.pending[d.at]))
  <2>1. new.crdt = d.crdt /\ new.pending = d.pending /\ new.notified = d.notified
    BY <1>1, <1>3 DEF ScanStep
  <2> QED
    BY <2>1
<1> QED
  BY <1>2, <1>3

\* What n steps are, as a recursion.
LEMMA IterationFacts ==
  ASSUME NEW S, NEW start \in S, NEW step, \A x \in S : step[x] \in S
  PROVE  LET scan[n \in Nat] == IF n = 0 THEN start ELSE step[scan[n - 1]]
         IN  /\ scan[0] = start
             /\ \A n \in Nat : scan[n] \in S /\ scan[n + 1] = step[scan[n]]
<1> DEFINE F == [x \in S |-> step[x]]
           Scans(g) == g = [n \in Nat |-> IF n = 0 THEN start ELSE step[g[n - 1]]]
           scan == CHOOSE g : Scans(g)
<1>1. F \in [S -> S]
  OBVIOUS
<1>2. \E g : Scans(g)
  <2> HIDE DEF F
  <2>1. PICK f : IsIteration(f, S, start, F)
    BY <1>1, IterationExists
  <2>2. f \in [Nat -> S] /\ f[0] = start /\ \A n \in Nat : f[n + 1] = step[f[n]]
    BY <2>1 DEF F, IsIteration
  <2>3. \A n \in Nat : f[n] = IF n = 0 THEN start ELSE step[f[n - 1]]
    <3> SUFFICES ASSUME NEW n \in Nat, n # 0 PROVE f[n] = step[f[n - 1]]
      BY <2>2
    <3>1. n - 1 \in Nat /\ (n - 1) + 1 = n
      OBVIOUS
    <3> QED
      BY <2>2, <3>1
  <2>4. f = [n \in Nat |-> IF n = 0 THEN start ELSE step[f[n - 1]]]
    BY <2>2, <2>3
  <2> QED
    BY <2>4
<1>3. Scans(scan)
  BY <1>2
<1> HIDE DEF scan, F
<1>4. scan[0] = start /\ \A n \in Nat : scan[n + 1] = step[scan[n]]
  <2>1. scan[0] = start
    BY <1>3
  <2>2. ASSUME NEW n \in Nat PROVE scan[n + 1] = step[scan[n]]
    <3>1. n + 1 \in Nat /\ n + 1 # 0 /\ (n + 1) - 1 = n
      OBVIOUS
    <3> QED
      BY <1>3, <3>1
  <2> QED
    BY <2>1, <2>2
<1> DEFINE T == {n \in Nat : scan[n] \in S}
<1>5. 0 \in T
  BY <1>4
<1>6. ASSUME NEW n \in Nat, n \in T PROVE n + 1 \in T
  <2>1. scan[n] \in S
    BY <1>6
  <2>2. scan[n + 1] \in S
    BY <1>4, <2>1, Zenon
  <2> QED
    BY <2>2
<1>7. Nat \subseteq T
  <2> HIDE DEF T
  <2> QED
    BY <1>5, <1>6, NatInductionSet
<1>8. \A n \in Nat : scan[n] \in S /\ scan[n + 1] = step[scan[n]]
  BY <1>4, <1>7
<1>9. scan[0] = start
  BY <1>4
<1> QED
  BY <1>8, <1>9 DEF scan

\* Whatever a step preserves, any number of steps preserves.
LEMMA IteratesStay ==
  ASSUME NEW S, NEW start \in S, NEW step, \A x \in S : step[x] \in S, NEW N \in Nat
  PROVE  LET scan[n \in Nat] == IF n = 0 THEN start ELSE step[scan[n - 1]]
         IN  scan[N] \in S
<1> DEFINE scan[n \in Nat] == IF n = 0 THEN start ELSE step[scan[n - 1]]
<1>1. \A n \in Nat : scan[n] \in S /\ scan[n + 1] = step[scan[n]]
  BY IterationFacts
<1> HIDE DEF scan
<1>2. scan[N] \in S
  BY <1>1
<1> QED
  BY <1>2 DEF scan

\* A step stays in S, decreases the measure until the end is reached, and
\* never leaves the end.
LeadsTo(S, step, mu, End) ==
  \A x \in S : /\ step[x] \in S
               /\ mu[x] \in Nat
               /\ step[x] \in End \/ (x \notin End /\ mu[step[x]] < mu[x])

\* More steps than the measure of the start reach the end.
LEMMA IteratesEnd ==
  ASSUME NEW S, NEW start \in S, NEW step, NEW mu, NEW End,
         LeadsTo(S, step, mu, End), NEW N \in Nat, mu[start] < N
  PROVE  LET scan[n \in Nat] == IF n = 0 THEN start ELSE step[scan[n - 1]]
         IN  scan[N] \in End
<1> DEFINE scan[n \in Nat] == IF n = 0 THEN start ELSE step[scan[n - 1]]
<1>0. \A x \in S : /\ step[x] \in S
                   /\ mu[x] \in Nat
                   /\ step[x] \in End \/ (x \notin End /\ mu[step[x]] < mu[x])
  BY DEF LeadsTo
<1>1. /\ scan[0] = start
      /\ \A n \in Nat : scan[n] \in S /\ scan[n + 1] = step[scan[n]]
  BY <1>0, IterationFacts
<1> HIDE DEF scan
<1> DEFINE T == {n \in Nat : scan[n] \in End \/ mu[scan[n]] + n <= mu[start]}
<1>2. 0 \in T
  <2>1. mu[scan[0]] + 0 <= mu[start]
    BY <1>0, <1>1
  <2> QED
    BY <2>1
<1>3. ASSUME NEW n \in Nat, n \in T PROVE n + 1 \in T
  <2>1. /\ scan[n] \in S /\ scan[n + 1] \in S /\ scan[n + 1] = step[scan[n]]
        /\ start \in S
    BY <1>1
  <2>2. mu[scan[n]] \in Nat /\ mu[scan[n + 1]] \in Nat /\ mu[start] \in Nat
    BY <1>0, <2>1
  <2>3. \/ scan[n + 1] \in End
        \/ scan[n] \notin End /\ mu[scan[n + 1]] < mu[scan[n]]
    BY <1>0, <2>1
  <2>4. scan[n] \in End \/ mu[scan[n]] + n <= mu[start]
    BY <1>3
  <2>5. scan[n + 1] \in End \/ mu[scan[n + 1]] + (n + 1) <= mu[start]
    BY <2>2, <2>3, <2>4
  <2> QED
    BY <2>5
<1>4. N \in T
  <2> HIDE DEF T
  <2> QED
    BY <1>2, <1>3, NatInductionSet
<1>5. mu[scan[N]] \in Nat /\ mu[start] \in Nat
  BY <1>0, <1>1
<1>6. scan[N] \in End
  BY <1>4, <1>5
<1> QED
  BY <1>6 DEF scan

\* Whatever a step of the scan preserves, the whole drain preserves.
LEMMA DrainInvariant ==
  ASSUME NEW S, S \subseteq Scan, \A d \in S : ScanStep[d] \in S,
         NEW e, NEW queue, Len(queue) \in Nat, NEW done,
         [crdt |-> e, pending |-> queue, at |-> 1,
          progress |-> FALSE, notified |-> done] \in S
  PROVE  DrainPending(e, queue, done) \in S
<1>1. StartScan(e, queue, done) \in S /\ (Len(queue) + 1) * (Len(queue) + 1) \in Nat
  BY DEF StartScan
<1> QED
  BY <1>1, IteratesStay DEF DrainPending

-----------------------------------------------------------------------------
(* The steps.                                                              *)

LEMMA InitOK == ASSUME Init PROVE IInv
<1>1. Issued = {}
  BY DEF Init, Issued
<1>2. EngineOK(NewEngine) /\ NewEngine \in Engine /\ Ids(NewEngine.seq) = {SENTINEL_ID}
  BY NewEngineOK DEF EngineOK
<1>3. <<>> \in Seq(Operation) /\ <<>> \in Seq(Issued)
  OBVIOUS
<1>4. DOMAIN EmptyBag = {}
  BY DEF EmptyBag, SetToBag
<1>5. TypeOK
  BY <1>2, <1>3, <1>4 DEF Init, TypeOK
<1>6. EnginesInv
  BY <1>2 DEF Init, EnginesInv, KnownIds
<1>7. IssuedInv
  BY <1>1 DEF IssuedInv
<1>8. TransitInv
  BY <1>3, <1>4 DEF Init, TransitInv
<1> QED
  BY <1>5, <1>6, <1>7, <1>8 DEF IInv

\* What is in transit once op is on its way: what was, and op.
LEMMA BroadcastContents ==
  ASSUME NEW s \in Sites, NEW op, Broadcast(s, op)
  PROVE  \A d \in Sites : DOMAIN net'[d] \subseteq DOMAIN net[d] \cup {op}
<1>1. PICK copies \in [Sites \ {s} -> MinCopies .. MaxCopies] :
        net' = [d \in Sites |-> IF d = s THEN net[d]
                                ELSE AddCopies(net[d], op, copies[d])]
  BY DEF Broadcast
<1>2. \A bag, n : DOMAIN AddCopies(bag, op, n) \subseteq DOMAIN bag \cup {op}
  BY DEF AddCopies, (+)
<1> QED
  BY <1>1, <1>2

\* Both local edits: the site's engine moves on and one operation is added.
LEMMA CommitOK ==
  ASSUME IInv, NEW s \in Sites, NEW edit, Commit(s, edit),
         EngineOK(edit.engine), OpOK(edit.op),
         crdt[s].clock <= edit.engine.clock,
         Ids(edit.engine.seq) \subseteq Ids(crdt[s].seq) \cup {edit.op.id},
         edit.op.id.site = s => edit.op.id.clock <= edit.engine.clock,
         \A t \in Sites \ {s} :
           edit.op.id.site = t => edit.op.id.clock <= crdt[t].clock
  PROVE  IInv'
<1> DEFINE op == edit.op
           e == edit.engine
<1>1. /\ crdt' = [crdt EXCEPT ![s] = e]
      /\ applied' = [applied EXCEPT ![s] = @ \cup {op}]
      /\ pending' = pending
      /\ Broadcast(s, op)
  BY DEF Commit
<1>2. /\ crdt \in [Sites -> Engine]
      /\ pending \in [Sites -> Seq(Operation)]
      /\ applied \in [Sites -> SUBSET Operation]
      /\ \A d \in Sites : DOMAIN net[d] \subseteq Operation
  BY DEF IInv, TypeOK
<1>3. e \in Engine /\ op \in Operation
  BY DEF EngineOK, OpOK
<1> HIDE DEF op, e
<1>4. \A d \in Sites : DOMAIN net'[d] \subseteq DOMAIN net[d] \cup {op}
  BY <1>1, BroadcastContents
<1>5. Issued' = Issued \cup {op}
  BY <1>1, <1>2 DEF Issued
<1>6. TypeOK'
  BY <1>1, <1>2, <1>3, <1>4 DEF TypeOK
<1>7. crdt'[s] = e /\ \A t \in Sites \ {s} : crdt'[t] = crdt[t]
  BY <1>1, <1>2
<1>8. EnginesInv'
  <2> SUFFICES ASSUME NEW t \in Sites
               PROVE  EngineOK(crdt'[t]) /\ Ids(crdt'[t].seq) \subseteq KnownIds(Issued')
    BY DEF EnginesInv
  <2>1. KnownIds(Issued') = KnownIds(Issued) \cup {op.id}
    BY <1>5 DEF KnownIds
  <2>2. EngineOK(crdt[t]) /\ Ids(crdt[t].seq) \subseteq KnownIds(Issued)
    BY DEF IInv, EnginesInv
  <2>3. CASE t = s
    BY <1>7, <2>1, <2>2, <2>3 DEF op, e
  <2>4. CASE t # s
    BY <1>7, <2>1, <2>2, <2>4
  <2> QED
    BY <2>3, <2>4
<1>9. \A t \in Sites : crdt[t].clock \in Nat /\ crdt'[t].clock \in Nat
                       /\ crdt[t].clock <= crdt'[t].clock
  <2> SUFFICES ASSUME NEW t \in Sites
               PROVE  crdt[t].clock \in Nat /\ crdt'[t].clock \in Nat
                      /\ crdt[t].clock <= crdt'[t].clock
    OBVIOUS
  <2>1. crdt[t].clock \in Nat /\ crdt'[t].clock \in Nat
    BY <1>8, EngineFields DEF IInv, EnginesInv
  <2> QED
    BY <1>7, <2>1 DEF e
<1>10. IssuedInv'
  <2> SUFFICES ASSUME NEW o \in Issued', NEW t \in Sites
               PROVE  OpOK(o) /\ (o.id.site = t => o.id.clock <= crdt'[t].clock)
    BY DEF IssuedInv
  <2>1. CASE o = op
    BY <1>7, <2>1 DEF op, e
  <2>2. CASE o \in Issued
    <3>1. OpOK(o) /\ (o.id.site = t => o.id.clock <= crdt[t].clock)
      BY <2>2 DEF IInv, IssuedInv
    <3>2. o.id.clock \in Nat
      BY <3>1 DEF OpOK, Operation, CharID
    <3> QED
      BY <1>9, <3>1, <3>2
  <2> QED
    BY <1>5, <2>1, <2>2
<1>11. TransitInv'
  <2> SUFFICES ASSUME NEW t \in Sites
               PROVE  DOMAIN net'[t] \subseteq Issued' /\ pending'[t] \in Seq(Issued')
    BY DEF TransitInv
  <2>1. DOMAIN net[t] \subseteq Issued /\ pending[t] \in Seq(Issued)
    BY DEF IInv, TransitInv
  <2>2. pending[t] \in Seq(Issued')
    BY <1>5, <2>1, SeqMonotonic
  <2> QED
    BY <1>1, <1>4, <1>5, <2>1, <2>2
<1> QED
  BY <1>6, <1>8, <1>10, <1>11 DEF IInv

LEMMA InsertOK ==
  ASSUME IInv, NEW s \in Sites, NEW pos, Insert(s, pos)
  PROVE  IInv'
<1> DEFINE edit == LocalInsert(crdt[s], s, pos)
<1>1. Commit(s, edit)
  BY DEF Insert
<1>2. EngineOK(crdt[s]) /\ s \in Nat /\ crdt[s].clock \in Nat
  BY SitesAssumption, EngineFields DEF IInv, EnginesInv
<1> HIDE DEF edit
<1>2a. LocalInserted(crdt[s], s, edit)
  BY <1>2, LocalInsertFacts DEF edit
<1>3. /\ EngineOK(edit.engine)
      /\ OpOK(edit.op)
      /\ edit.op.id = [clock |-> crdt[s].clock + 1, site |-> s]
      /\ edit.engine.clock = crdt[s].clock + 1
      /\ Ids(edit.engine.seq) = Ids(crdt[s].seq) \cup {edit.op.id}
  BY <1>2a DEF LocalInserted
<1>4. edit.op.id.site = s /\ edit.op.id.clock = edit.engine.clock
      /\ edit.engine.clock \in Nat
  BY <1>2, <1>3
<1>5. crdt[s].clock <= edit.engine.clock
  BY <1>2, <1>3
<1> QED
  BY <1>1, <1>3, <1>4, <1>5, CommitOK

LEMMA DeleteOK ==
  ASSUME IInv, NEW s \in Sites, NEW pos, Delete(s, pos)
  PROVE  IInv'
<1> DEFINE edit == LocalDelete(crdt[s], pos)
<1>1. Commit(s, edit) /\ VisibleIter(crdt[s].seq, pos) # {}
  BY DEF Delete
<1>2. /\ EngineOK(crdt[s]) /\ crdt[s].clock \in Nat
      /\ Ids(crdt[s].seq) \subseteq KnownIds(Issued)
  BY EngineFields DEF IInv, EnginesInv
<1> HIDE DEF edit
<1>3. /\ EngineOK(edit.engine)
      /\ OpOK(edit.op)
      /\ edit.op.id \in Ids(crdt[s].seq) \ {SENTINEL_ID}
      /\ edit.engine.clock = crdt[s].clock + 1
      /\ Ids(edit.engine.seq) = Ids(crdt[s].seq)
  BY <1>1, <1>2, LocalDeleteOK DEF edit
<1>4. PICK op \in Issued : edit.op.id = op.id
  BY <1>2, <1>3 DEF KnownIds
<1>5. \A t \in Sites : edit.op.id.site = t => edit.op.id.clock <= crdt[t].clock
  BY <1>4 DEF IInv, IssuedInv
<1>6. edit.op.id.clock \in Nat
  BY <1>3 DEF OpOK, Operation, CharID
<1>7. crdt[s].clock <= edit.engine.clock
  BY <1>2, <1>3
<1>8. edit.op.id.site = s => edit.op.id.clock <= edit.engine.clock
  BY <1>2, <1>3, <1>5, <1>6
<1> QED
  BY <1>1, <1>3, <1>5, <1>7, <1>8, CommitOK

\* A step that issues nothing: one engine and its queue move on, over the
\* operations already issued, and nothing is added to the network.
LEMMA ReceiverOK ==
  ASSUME IInv, NEW s \in Sites, NEW e, NEW queue, NEW done,
         crdt' = [crdt EXCEPT ![s] = e],
         pending' = [pending EXCEPT ![s] = queue],
         applied' = [applied EXCEPT ![s] = @ \cup done],
         \A d \in Sites : DOMAIN net'[d] \subseteq DOMAIN net[d],
         EngineOK(e), Ids(e.seq) \subseteq KnownIds(Issued),
         crdt[s].clock <= e.clock,
         queue \in Seq(Issued), done \subseteq Issued
  PROVE  IInv'
<1>1. /\ crdt \in [Sites -> Engine]
      /\ pending \in [Sites -> Seq(Operation)]
      /\ applied \in [Sites -> SUBSET Operation]
      /\ \A d \in Sites : DOMAIN net[d] \subseteq Operation
  BY DEF IInv, TypeOK
<1>2. Issued \subseteq Operation
  BY <1>1 DEF Issued
<1>3. Issued' = Issued
  BY <1>1 DEF Issued
<1>4. TypeOK'
  <2>1. queue \in Seq(Operation)
    BY <1>2, SeqMonotonic
  <2>2. e \in Engine /\ done \subseteq Operation
    BY <1>2 DEF EngineOK
  <2> QED
    BY <1>1, <2>1, <2>2 DEF TypeOK
<1>5. \A t \in Sites : /\ crdt'[t] = IF t = s THEN e ELSE crdt[t]
                       /\ pending'[t] = IF t = s THEN queue ELSE pending[t]
  BY <1>1
<1>6. EnginesInv'
  BY <1>3, <1>5 DEF IInv, EnginesInv
<1>7. IssuedInv'
  <2> SUFFICES ASSUME NEW o \in Issued, NEW t \in Sites
               PROVE  OpOK(o) /\ (o.id.site = t => o.id.clock <= crdt'[t].clock)
    BY <1>3 DEF IssuedInv
  <2>1. OpOK(o) /\ (o.id.site = t => o.id.clock <= crdt[t].clock)
    BY DEF IInv, IssuedInv
  <2>2. o.id.clock \in Nat /\ crdt[t].clock \in Nat /\ crdt'[t].clock \in Nat
    BY <1>6, <2>1, EngineFields DEF IInv, EnginesInv, OpOK, Operation, CharID
  <2>3. crdt[t].clock <= crdt'[t].clock
    BY <1>5, <2>2
  <2> QED
    BY <2>1, <2>2, <2>3
<1>8. TransitInv'
  BY <1>3, <1>5 DEF IInv, TransitInv
<1> QED
  BY <1>4, <1>6, <1>7, <1>8 DEF IInv

LEMMA DeleteOutOfRangeOK ==
  ASSUME IInv, NEW s \in Sites, NEW pos, DeleteOutOfRange(s, pos)
  PROVE  IInv'
<1> DEFINE e == LocalDeleteThrows(crdt[s])
<1>1. /\ crdt' = [crdt EXCEPT ![s] = e]
      /\ pending' = pending /\ net' = net /\ applied' = applied
  BY DEF DeleteOutOfRange
<1>2. /\ EngineOK(crdt[s]) /\ crdt[s].clock \in Nat
      /\ Ids(crdt[s].seq) \subseteq KnownIds(Issued)
      /\ pending[s] \in Seq(Issued)
  BY EngineFields DEF IInv, EnginesInv, TransitInv
<1> HIDE DEF e
<1>3. EngineOK(e) /\ e.clock = crdt[s].clock + 1 /\ e.seq = crdt[s].seq
  BY <1>2, LocalDeleteThrowsOK DEF e
<1> DEFINE queue == pending[s]
           done == {}
<1>4. /\ pending' = [pending EXCEPT ![s] = queue]
      /\ applied' = [applied EXCEPT ![s] = @ \cup done]
  BY <1>1 DEF IInv, TypeOK
<1>5. /\ crdt[s].clock <= e.clock
      /\ Ids(e.seq) \subseteq KnownIds(Issued)
      /\ queue \in Seq(Issued) /\ done \subseteq Issued
      /\ \A d \in Sites : DOMAIN net'[d] \subseteq DOMAIN net[d]
  BY <1>1, <1>2, <1>3
<1> HIDE DEF queue, done
<1> QED
  BY <1>1, <1>3, <1>4, <1>5, ReceiverOK

\* Where the drain starts from once a received operation has been applied.
LEMMA ApplyStarts ==
  ASSUME IInv, NEW s \in Sites, NEW op \in Issued, CanApply(crdt[s], op)
  PROVE  [crdt |-> ApplyRemote(crdt[s], op), pending |-> pending[s], at |-> 1,
          progress |-> FALSE, notified |-> {op}] \in DrainStates(Issued, crdt[s].clock)
<1> DEFINE e == ApplyRemote(crdt[s], op)
<1>1. /\ EngineOK(crdt[s]) /\ crdt[s].clock \in Nat
      /\ Ids(crdt[s].seq) \subseteq KnownIds(Issued)
      /\ pending[s] \in Seq(Issued)
      /\ \A o \in Issued : OpOK(o)
  BY EngineFields DEF IInv, EnginesInv, TransitInv, IssuedInv
<1>2. /\ EngineOK(e) /\ crdt[s].clock <= e.clock
      /\ Ids(e.seq) \subseteq Ids(crdt[s].seq) \cup {op.id}
  BY <1>1, ApplyRemoteOK
<1> HIDE DEF e
<1>3. Ids(e.seq) \subseteq KnownIds(Issued)
  BY <1>1, <1>2 DEF KnownIds
<1>4. Issued \subseteq Operation /\ {op} \subseteq Issued
  BY <1>1 DEF OpOK
<1>5. [crdt |-> e, pending |-> pending[s], at |-> 1, progress |-> FALSE,
       notified |-> {op}] \in DrainStates(Issued, crdt[s].clock)
  BY <1>1, <1>2, <1>3, <1>4, 1 \in Nat \ {0}, FALSE \in BOOLEAN, DrainStateIntro
<1> QED
  BY <1>5 DEF e

LEMMA ReceiveOK ==
  ASSUME IInv, NEW s \in Sites, Receive(s)
  PROVE  IInv'
<1>1. PICK op \in BagToSet(net[s]) : Arrives(s, op) /\ (Park(s, op) \/ Apply(s, op))
  BY DEF Receive
<1>2. op \in Issued /\ OpOK(op)
  BY <1>1 DEF IInv, TransitInv, IssuedInv, BagToSet
<1>3. \A d \in Sites : DOMAIN net'[d] \subseteq DOMAIN net[d]
  <2>1. net' = [net EXCEPT ![s] = @ (-) SetToBag({op})]
    BY <1>1 DEF Arrives
  <2>2. \A bag : DOMAIN (bag (-) SetToBag({op})) \subseteq DOMAIN bag
    BY DEF (-)
  <2> SUFFICES ASSUME NEW d \in Sites PROVE DOMAIN net'[d] \subseteq DOMAIN net[d]
    OBVIOUS
  <2>3. net'[d] = net[d] \/ net'[d] = net[d] (-) SetToBag({op})
    BY <2>1
  <2> QED
    BY <2>2, <2>3
<1>4. /\ EngineOK(crdt[s]) /\ crdt[s].clock \in Nat
      /\ Ids(crdt[s].seq) \subseteq KnownIds(Issued)
      /\ pending[s] \in Seq(Issued)
  BY EngineFields DEF IInv, EnginesInv, TransitInv
<1>5. CASE Park(s, op)
  <2> DEFINE e == crdt[s]
             queue == Append(pending[s], op)
             done == {}
  <2>1. /\ crdt' = [crdt EXCEPT ![s] = e]
        /\ pending' = [pending EXCEPT ![s] = queue]
        /\ applied' = [applied EXCEPT ![s] = @ \cup done]
    BY <1>5 DEF Park, IInv, TypeOK
  <2>2. /\ EngineOK(e) /\ crdt[s].clock <= e.clock
        /\ Ids(e.seq) \subseteq KnownIds(Issued)
        /\ queue \in Seq(Issued) /\ done \subseteq Issued
    BY <1>2, <1>4
  <2> HIDE DEF e, queue, done
  <2> QED
    BY <1>3, <2>1, <2>2, ReceiverOK
<1>6. CASE Apply(s, op)
  <2> DEFINE e == ApplyRemote(crdt[s], op)
             d == DrainPending(e, pending[s], {op})
             S == DrainStates(Issued, crdt[s].clock)
  <2>1. /\ crdt' = [crdt EXCEPT ![s] = d.crdt]
        /\ pending' = [pending EXCEPT ![s] = d.pending]
        /\ applied' = [applied EXCEPT ![s] = @ \cup d.notified]
        /\ CanApply(crdt[s], op)
    BY <1>6 DEF Apply
  <2> HIDE DEF d
  <2>4. [crdt |-> e, pending |-> pending[s], at |-> 1,
         progress |-> FALSE, notified |-> {op}] \in S
    BY <1>2, <2>1, ApplyStarts
  <2> HIDE DEF e
  <2>5. \A x \in S : ScanStep[x] \in S
    BY <1>4, ScanStepOK DEF IInv, IssuedInv
  <2>6. d \in S
    <3> HIDE DEF S
    <3>1. Len(pending[s]) \in Nat
      BY <1>4
    <3>2. S \subseteq Scan
      BY DrainStateFields DEF S
    <3> QED
      BY <2>4, <2>5, <3>1, <3>2, DrainInvariant DEF d
  <2>7. /\ EngineOK(d.crdt) /\ crdt[s].clock <= d.crdt.clock
        /\ Ids(d.crdt.seq) \subseteq KnownIds(Issued)
        /\ d.pending \in Seq(Issued) /\ d.notified \subseteq Issued
    BY <2>6, DrainStateFields
  <2> QED
    BY <1>3, <2>1, <2>7, ReceiverOK
<1> QED
  BY <1>1, <1>5, <1>6

LEMMA NextOK == ASSUME IInv, [Next]_vars PROVE IInv'
<1>1. CASE UNCHANGED vars
  <2>1. Issued' = Issued
    BY <1>1 DEF vars, Issued
  <2> QED
    BY <1>1, <2>1 DEF vars, IInv, TypeOK, EnginesInv, IssuedInv, TransitInv
<1>2. ASSUME NEW s \in Sites, NEW pos \in Positions(s), Insert(s, pos) PROVE IInv'
  BY <1>2, InsertOK
<1>3. ASSUME NEW s \in Sites, NEW pos \in Positions(s), Delete(s, pos) PROVE IInv'
  BY <1>3, DeleteOK
<1>4. ASSUME NEW s \in Sites, NEW pos \in Positions(s), DeleteOutOfRange(s, pos)
      PROVE IInv'
  BY <1>4, DeleteOutOfRangeOK
<1>5. ASSUME NEW s \in Sites, Receive(s) PROVE IInv'
  BY <1>5, ReceiveOK
<1> QED
  BY <1>1, <1>2, <1>3, <1>4, <1>5 DEF Next

-----------------------------------------------------------------------------
(* Where the nodes of a list come from.                                    *)

Inserts(ops) == {op \in ops : op.type = "INSERT"}

\* A list has taken in the operations its site has issued or applied.  If no
\* DELETE comes ahead of its INSERT, that goes for the tombstones as well.
ListsInv ==
  \A s \in Sites :
    /\ Holds(crdt[s].seq, applied[s])
    /\ DeletesInOrder => Deleted(crdt[s].seq, applied[s])

\* The left neighbour of an INSERT was issued before, by an INSERT that, as
\* every other, is the only one of its identifier.
OriginsInv ==
  /\ \A op \in Issued :
       /\ Canonical(op)
       /\ op.type = "INSERT" =>
            /\ op.left.clock < op.id.clock
            /\ op.left = SENTINEL_ID \/ \E o \in Inserts(Issued) : o.id = op.left
  /\ \A o1, o2 \in Inserts(Issued) : o1.id = o2.id => o1 = o2

\* Only an INSERT may have to wait.
PendingInv == \A s \in Sites : pending[s] \in Seq(Inserts(Issued))

HistoryInv == ListsInv /\ OriginsInv /\ PendingInv

\* The list of a site that had taken in the operations of before, and what the
\* drain has added; inOrder says that no DELETE came ahead of its INSERT.
HoldingStates(ops, floor, before, inOrder) ==
  {d \in DrainStates(ops, floor) :
     /\ d.pending \in Seq(Inserts(ops))
     /\ Holds(d.crdt.seq, before \cup d.notified)
     /\ inOrder => Deleted(d.crdt.seq, before \cup d.notified)}

LEMMA HoldingStateFields ==
  ASSUME NEW ops, NEW floor, NEW before, NEW inOrder, NEW d \in HoldingStates(ops, floor, before, inOrder)
  PROVE  /\ d \in DrainStates(ops, floor)
         /\ d.pending \in Seq(Inserts(ops))
         /\ Holds(d.crdt.seq, before \cup d.notified)
         /\ inOrder => Deleted(d.crdt.seq, before \cup d.notified)
BY DEF HoldingStates

LEMMA ScanStepHolds ==
  ASSUME NEW ops, \A op \in ops : OpOK(op) /\ Canonical(op),
         NEW floor \in Nat, NEW before, NEW inOrder, NEW d \in HoldingStates(ops, floor, before, inOrder)
  PROVE  ScanStep[d] \in HoldingStates(ops, floor, before, inOrder)
<1> DEFINE new == ScanStep[d]
<1>1. /\ d \in DrainStates(ops, floor)
      /\ d.pending \in Seq(Inserts(ops))
      /\ Holds(d.crdt.seq, before \cup d.notified)
      /\ inOrder => Deleted(d.crdt.seq, before \cup d.notified)
  BY HoldingStateFields
<1>2. new \in DrainStates(ops, floor)
  BY <1>1, ScanStepOK
<1>3. EngineOK(d.crdt)
  BY <1>1, DrainStateFields
<1>4. \/ \E op \in ops :
           /\ d.at \in 1 .. Len(d.pending) /\ op = d.pending[d.at]
           /\ CanApply(d.crdt, op)
           /\ new.crdt = ApplyRemote(d.crdt, op)
           /\ new.pending = RemoveAt(d.pending, d.at)
           /\ new.notified = d.notified \cup {op}
      \/ /\ new.crdt = d.crdt
         /\ new.pending = d.pending
         /\ new.notified = d.notified
  BY <1>1, ScanStepCases, SMTT(30)
<1> SUFFICES new \in HoldingStates(ops, floor, before, inOrder)
  OBVIOUS
<1> HIDE DEF new
<1>5. CASE ~(new.crdt = d.crdt /\ new.pending = d.pending /\ new.notified = d.notified)
  <2>1. PICK op \in ops :
           /\ d.at \in 1 .. Len(d.pending) /\ op = d.pending[d.at]
           /\ CanApply(d.crdt, op)
           /\ new.crdt = ApplyRemote(d.crdt, op)
           /\ new.pending = RemoveAt(d.pending, d.at)
           /\ new.notified = d.notified \cup {op}
    BY <1>4, <1>5
  <2>2. op \in Inserts(ops)
    BY <1>1, <2>1, ElementOfSeq
  <2>3. op.type = "INSERT" /\ OpOK(op) /\ Canonical(op)
    BY <2>2 DEF Inserts
  <2>4. new.pending \in Seq(Inserts(ops))
    BY <1>1, <2>1, RemoveAtShape
  <2>5. /\ Holds(new.crdt.seq, (before \cup d.notified) \cup {op})
        /\ inOrder => Deleted(new.crdt.seq, (before \cup d.notified) \cup {op})
    BY <1>1, <1>3, <2>1, <2>3, ApplyRemoteHolds
  <2>6. (before \cup d.notified) \cup {op} = before \cup new.notified
    BY <2>1
  <2>7. /\ Holds(new.crdt.seq, before \cup new.notified)
        /\ inOrder => Deleted(new.crdt.seq, before \cup new.notified)
    BY <2>5, <2>6
  <2> QED
    BY <1>2, <2>4, <2>7 DEF HoldingStates
<1>6. CASE new.crdt = d.crdt /\ new.pending = d.pending /\ new.notified = d.notified
  BY <1>1, <1>2, <1>6 DEF HoldingStates
<1> QED
  BY <1>5, <1>6

\* A local edit adds its operation to what was issued.
LEMMA CommitHistory ==
  ASSUME IInv, HistoryInv, NEW s \in Sites, NEW edit, Commit(s, edit),
         EngineOK(crdt[s]), OpOK(edit.op), Canonical(edit.op),
         Holds(edit.engine.seq, applied[s] \cup {edit.op}),
         DeletesInOrder => Deleted(edit.engine.seq, applied[s] \cup {edit.op}),
         edit.op.type = "INSERT" =>
           /\ edit.op.id = NextID(s)
           /\ edit.op.left \in Ids(crdt[s].seq)
           /\ edit.op.left.clock < edit.op.id.clock
  PROVE  HistoryInv'
<1> DEFINE op == edit.op
           e == edit.engine
<1>1. /\ crdt' = [crdt EXCEPT ![s] = e]
      /\ applied' = [applied EXCEPT ![s] = @ \cup {op}]
      /\ pending' = pending
  BY DEF Commit
<1>2. /\ crdt \in [Sites -> Engine]
      /\ applied \in [Sites -> SUBSET Operation]
  BY DEF IInv, TypeOK
<1>3. /\ Canonical(op)
      /\ Holds(e.seq, applied[s] \cup {op})
      /\ DeletesInOrder => Deleted(e.seq, applied[s] \cup {op})
      /\ op.type = "INSERT" => /\ op.id = NextID(s)
                              /\ op.left \in Ids(crdt[s].seq)
                              /\ op.left.clock < op.id.clock
  OBVIOUS
<1> HIDE DEF op, e
<1>4. Issued' = Issued \cup {op} /\ applied[s] \subseteq Issued
  BY <1>1, <1>2 DEF Issued
<1>5. ListsInv'
  <2>1. \A t \in Sites : /\ crdt'[t] = (IF t = s THEN e ELSE crdt[t])
                         /\ applied'[t] = (IF t = s THEN applied[s] \cup {op} ELSE applied[t])
    BY <1>1, <1>2
  <2> QED
    BY <1>3, <2>1 DEF HistoryInv, ListsInv
<1>6. Inserts(Issued) \subseteq Inserts(Issued')
  BY <1>4 DEF Inserts
<1>7. PendingInv'
  <2>1. \A t \in Sites : pending'[t] \in Seq(Inserts(Issued))
    BY <1>1 DEF HistoryInv, PendingInv
  <2> HIDE DEF Inserts
  <2> QED
    BY <1>6, <2>1, SeqMonotonic DEF PendingInv
<1>8. op.type = "INSERT" => op.left = SENTINEL_ID \/ \E o \in Inserts(Issued) : o.id = op.left
  <2> SUFFICES ASSUME op.type = "INSERT", op.left # SENTINEL_ID
               PROVE  \E o \in Inserts(Issued) : o.id = op.left
    OBVIOUS
  <2> DEFINE i == Idx(crdt[s].seq, op.left)
  <2>1. i \in 1 .. Len(crdt[s].seq) /\ i # 1 /\ crdt[s].seq[i].id = op.left
    BY <1>3, IdHasPlace DEF EngineOK
  <2>2. i \in 2 .. Len(crdt[s].seq)
    BY <2>1
  <2>3. InsertOp(op.left, crdt[s].seq[i].left) \in applied[s]
    BY <2>1, <2>2 DEF HistoryInv, ListsInv, Holds
  <2> DEFINE o == InsertOp(op.left, crdt[s].seq[i].left)
  <2>4. o \in Inserts(Issued) /\ o.id = op.left
    BY <1>4, <2>3 DEF Inserts, InsertOp
  <2> QED
    BY <2>4
<1>9. ASSUME NEW o \in Issued, op.type = "INSERT"
      PROVE  o.id # op.id
  <2>1. o.id.site = s => o.id.clock <= crdt[s].clock
    BY DEF IInv, IssuedInv
  <2>2. op.id.site = s /\ op.id.clock = crdt[s].clock + 1 /\ crdt[s].clock \in Nat
    BY <1>3, <1>9, EngineFields DEF NextID
  <2>3. ~(op.id.clock <= crdt[s].clock)
    BY <2>2
  <2> QED
    BY <2>1, <2>2, <2>3
<1>10. OriginsInv'
  <2>1. ASSUME NEW o \in Issued'
        PROVE  /\ Canonical(o)
               /\ o.type = "INSERT" =>
                    /\ o.left.clock < o.id.clock
                    /\ o.left = SENTINEL_ID \/ \E x \in Inserts(Issued') : x.id = o.left
    <3>1. CASE o \in Issued
      BY <1>6, <3>1 DEF HistoryInv, OriginsInv
    <3>2. CASE o = op
      BY <1>3, <1>6, <1>8, <3>2
    <3> QED
      BY <1>4, <3>1, <3>2
  <2>2. ASSUME NEW o1 \in Inserts(Issued'), NEW o2 \in Inserts(Issued'), o1.id = o2.id
        PROVE  o1 = o2
    <3>1. /\ (o1 \in Inserts(Issued) \/ (o1 = op /\ op.type = "INSERT"))
          /\ (o2 \in Inserts(Issued) \/ (o2 = op /\ op.type = "INSERT"))
      BY <1>4 DEF Inserts
    <3>2. CASE o1 \in Inserts(Issued) /\ o2 \in Inserts(Issued)
      BY <2>2, <3>2 DEF HistoryInv, OriginsInv
    <3>3. Inserts(Issued) \subseteq Issued
      BY DEF Inserts
    <3> QED
      BY <1>9, <2>2, <3>1, <3>2, <3>3
  <2> QED
    BY <2>1, <2>2 DEF OriginsInv
<1> QED
  BY <1>5, <1>7, <1>10 DEF HistoryInv

\* A step that issues nothing.
LEMMA ReceiverHistory ==
  ASSUME IInv, HistoryInv, NEW s \in Sites, NEW e, NEW queue, NEW done,
         crdt' = [crdt EXCEPT ![s] = e],
         pending' = [pending EXCEPT ![s] = queue],
         applied' = [applied EXCEPT ![s] = @ \cup done],
         done \subseteq Issued, queue \in Seq(Inserts(Issued)),
         Holds(e.seq, applied[s] \cup done),
         DeletesInOrder => Deleted(e.seq, applied[s] \cup done)
  PROVE  HistoryInv'
<1>1. /\ crdt \in [Sites -> Engine]
      /\ pending \in [Sites -> Seq(Operation)]
      /\ applied \in [Sites -> SUBSET Operation]
  BY DEF IInv, TypeOK
<1>2. Issued' = Issued
  BY <1>1 DEF Issued
<1>3. \A t \in Sites : /\ crdt'[t] = (IF t = s THEN e ELSE crdt[t])
                       /\ pending'[t] = (IF t = s THEN queue ELSE pending[t])
                       /\ applied'[t] = (IF t = s THEN applied[s] \cup done ELSE applied[t])
  BY <1>1
<1>4. ListsInv'
  <2> SUFFICES ASSUME NEW t \in Sites
               PROVE  /\ Holds(crdt'[t].seq, applied'[t])
                      /\ DeletesInOrder => Deleted(crdt'[t].seq, applied'[t])
    BY DEF ListsInv
  <2>1. CASE t = s
    <3>1. crdt'[t] = e /\ applied'[t] = applied[s] \cup done
      BY <1>3, <2>1
    <3> QED
      BY <3>1
  <2>2. CASE t # s
    <3>1. crdt'[t] = crdt[t] /\ applied'[t] = applied[t]
      BY <1>3, <2>2
    <3>2. /\ Holds(crdt[t].seq, applied[t])
          /\ DeletesInOrder => Deleted(crdt[t].seq, applied[t])
      BY DEF HistoryInv, ListsInv
    <3> QED
      BY <3>1, <3>2
  <2> QED
    BY <2>1, <2>2
<1>5. PendingInv' /\ OriginsInv'
  BY <1>2, <1>3 DEF HistoryInv, PendingInv, OriginsInv
<1> QED
  BY <1>4, <1>5 DEF HistoryInv

LEMMA InitHistory == ASSUME Init PROVE HistoryInv
<1>1. Issued = {} /\ Inserts(Issued) = {}
  BY DEF Init, Issued, Inserts
<1>2. Len(NewEngine.seq) = 1
  BY DEF NewEngine
<1>3. Holds(NewEngine.seq, {}) /\ Deleted(NewEngine.seq, {})
  BY <1>2 DEF Holds, Deleted
<1>4. ListsInv
  BY <1>3 DEF Init, ListsInv
<1>5. OriginsInv
  BY <1>1 DEF OriginsInv
<1>6. PendingInv
  BY <1>1 DEF Init, PendingInv
<1> QED
  BY <1>4, <1>5, <1>6 DEF HistoryInv

LEMMA InsertHistory ==
  ASSUME IInv, HistoryInv, NEW s \in Sites, NEW pos, Insert(s, pos)
  PROVE  HistoryInv'
<1> DEFINE edit == LocalInsert(crdt[s], s, pos)
<1>1. Commit(s, edit)
  BY DEF Insert
<1>2. /\ EngineOK(crdt[s]) /\ s \in Nat
      /\ Holds(crdt[s].seq, applied[s])
      /\ DeletesInOrder => Deleted(crdt[s].seq, applied[s])
  BY SitesAssumption DEF IInv, EnginesInv, HistoryInv, ListsInv
<1> HIDE DEF edit
<1>2a. LocalInserted(crdt[s], s, edit)
  BY <1>2, LocalInsertFacts DEF edit
<1>3. OpOK(edit.op) /\ edit.op.id = NextID(s)
  BY <1>2a DEF LocalInserted, NextID
<1>4. /\ Holds(crdt[s].seq, applied[s]) => Holds(edit.engine.seq, applied[s] \cup {edit.op})
      /\ Deleted(crdt[s].seq, applied[s]) => Deleted(edit.engine.seq, applied[s] \cup {edit.op})
      /\ edit.op = InsertOp(edit.op.id, edit.op.left)
      /\ edit.op.left \in Ids(crdt[s].seq)
      /\ edit.op.left.clock < edit.op.id.clock
  BY <1>2, LocalInsertHolds DEF edit
<1>5. edit.op.type = "INSERT"
  BY <1>4 DEF InsertOp
<1>6. Canonical(edit.op)
  BY <1>4, <1>5 DEF Canonical
<1> QED
  BY <1>1, <1>2, <1>3, <1>4, <1>6, CommitHistory

LEMMA DeleteHistory ==
  ASSUME IInv, HistoryInv, NEW s \in Sites, NEW pos, Delete(s, pos)
  PROVE  HistoryInv'
<1> DEFINE edit == LocalDelete(crdt[s], pos)
<1>1. Commit(s, edit) /\ VisibleIter(crdt[s].seq, pos) # {}
  BY DEF Delete
<1>2. /\ EngineOK(crdt[s])
      /\ Holds(crdt[s].seq, applied[s])
      /\ DeletesInOrder => Deleted(crdt[s].seq, applied[s])
  BY DEF IInv, EnginesInv, HistoryInv, ListsInv
<1> HIDE DEF edit
<1>3. OpOK(edit.op)
  BY <1>1, <1>2, LocalDeleteOK DEF edit
<1>4. /\ Holds(crdt[s].seq, applied[s]) => Holds(edit.engine.seq, applied[s] \cup {edit.op})
      /\ Deleted(crdt[s].seq, applied[s]) => Deleted(edit.engine.seq, applied[s] \cup {edit.op})
      /\ edit.op = DeleteOp(edit.op.id)
  BY <1>1, <1>2, LocalDeleteHolds DEF edit
<1>5. edit.op.type # "INSERT"
  BY <1>4 DEF DeleteOp
<1>6. Canonical(edit.op)
  BY <1>4, <1>5 DEF Canonical
<1> QED
  BY <1>1, <1>2, <1>3, <1>4, <1>5, <1>6, CommitHistory

LEMMA DeleteOutOfRangeHistory ==
  ASSUME IInv, HistoryInv, NEW s \in Sites, NEW pos, DeleteOutOfRange(s, pos)
  PROVE  HistoryInv'
<1> DEFINE e == LocalDeleteThrows(crdt[s])
           queue == pending[s]
           done == {}
<1>1. /\ crdt' = [crdt EXCEPT ![s] = e]
      /\ pending' = [pending EXCEPT ![s] = queue]
      /\ applied' = [applied EXCEPT ![s] = @ \cup done]
  BY DEF DeleteOutOfRange, IInv, TypeOK
<1>2. EngineOK(crdt[s])
  BY DEF IInv, EnginesInv
<1>3. e.seq = crdt[s].seq
  BY <1>2, LocalDeleteThrowsOK
<1>4. queue \in Seq(Inserts(Issued)) /\ applied[s] \cup done = applied[s]
  BY DEF HistoryInv, PendingInv
<1>5. /\ Holds(e.seq, applied[s] \cup done)
      /\ DeletesInOrder => Deleted(e.seq, applied[s] \cup done)
  BY <1>3, <1>4 DEF HistoryInv, ListsInv
<1>6. done \subseteq Issued
  OBVIOUS
<1> HIDE DEF e, queue, done
<1> QED
  BY <1>1, <1>4, <1>5, <1>6, ReceiverHistory

\* What applying a received operation, and the drain after it, leave behind.
LEMMA ApplyDrains ==
  ASSUME IInv, HistoryInv, NEW s \in Sites, NEW op \in Issued, CanApply(crdt[s], op),
         NEW inOrder,
         inOrder => /\ Deleted(crdt[s].seq, applied[s])
                    /\ op.type = "DELETE" => op.id \in Ids(crdt[s].seq),
         NEW d, d = DrainPending(ApplyRemote(crdt[s], op), pending[s], {op})
  PROVE  d \in HoldingStates(Issued, crdt[s].clock, applied[s], inOrder)
<1> DEFINE e == ApplyRemote(crdt[s], op)
           S == HoldingStates(Issued, crdt[s].clock, applied[s], inOrder)
<1>1. /\ EngineOK(crdt[s]) /\ crdt[s].clock \in Nat
      /\ Ids(crdt[s].seq) \subseteq KnownIds(Issued)
      /\ pending[s] \in Seq(Issued)
      /\ pending[s] \in Seq(Inserts(Issued))
      /\ Holds(crdt[s].seq, applied[s])
  BY EngineFields DEF IInv, EnginesInv, TransitInv, HistoryInv, ListsInv, PendingInv
<1>2. \A o \in Issued : OpOK(o) /\ Canonical(o)
  BY DEF IInv, IssuedInv, HistoryInv, OriginsInv
<1>3. /\ Holds(crdt[s].seq, applied[s]) => Holds(e.seq, applied[s] \cup {op})
      /\ Deleted(crdt[s].seq, applied[s]) /\ (op.type = "DELETE" => op.id \in Ids(crdt[s].seq)) =>
           Deleted(e.seq, applied[s] \cup {op})
  BY <1>1, <1>2, ApplyRemoteHolds
<1> DEFINE first == [crdt |-> e, pending |-> pending[s], at |-> 1,
                     progress |-> FALSE, notified |-> {op}]
<1>4. first \in DrainStates(Issued, crdt[s].clock)
  BY ApplyStarts
<1>5. /\ first.crdt = e /\ first.pending = pending[s] /\ first.notified = {op}
  OBVIOUS
<1> HIDE DEF e, first
<1>6. first \in S
  BY <1>1, <1>3, <1>4, <1>5 DEF HoldingStates
<1>7. \A x \in S : ScanStep[x] \in S
  BY <1>1, <1>2, ScanStepHolds
<1>8. S \subseteq Scan
  BY DEF HoldingStates, DrainStates
<1>9. Len(pending[s]) \in Nat
  BY <1>1
<1> HIDE DEF S
<1>10. d \in S
  BY <1>6, <1>7, <1>8, <1>9, DrainInvariant DEF e, first
<1> QED
  BY <1>10 DEF S

LEMMA ReceiveHistory ==
  ASSUME IInv, HistoryInv, NEW s \in Sites, Receive(s)
  PROVE  HistoryInv'
<1>1. PICK op \in BagToSet(net[s]) : Arrives(s, op) /\ (Park(s, op) \/ Apply(s, op))
  BY DEF Receive
<1>2. op \in Issued /\ OpOK(op)
  BY <1>1 DEF IInv, TransitInv, IssuedInv, BagToSet
<1>3. /\ pending[s] \in Seq(Inserts(Issued))
      /\ Holds(crdt[s].seq, applied[s])
      /\ DeletesInOrder => Deleted(crdt[s].seq, applied[s])
  BY DEF HistoryInv, ListsInv, PendingInv
<1>4. CASE Park(s, op)
  <2> DEFINE e == crdt[s]
             queue == Append(pending[s], op)
             done == {}
  <2>1. /\ crdt' = [crdt EXCEPT ![s] = e]
        /\ pending' = [pending EXCEPT ![s] = queue]
        /\ applied' = [applied EXCEPT ![s] = @ \cup done]
    BY <1>4 DEF Park, IInv, TypeOK
  <2>2. op \in Inserts(Issued)
    BY <1>2, <1>4 DEF Park, CanApply, OpOK, Operation, Inserts
  <2>3. queue \in Seq(Inserts(Issued)) /\ done \subseteq Issued
    BY <1>3, <2>2
  <2>4. applied[s] \cup done = applied[s]
    OBVIOUS
  <2>5. /\ Holds(e.seq, applied[s] \cup done)
        /\ DeletesInOrder => Deleted(e.seq, applied[s] \cup done)
    BY <1>3, <2>4
  <2> HIDE DEF e, queue, done
  <2> QED
    BY <2>1, <2>3, <2>5, ReceiverHistory
<1>5. CASE Apply(s, op)
  <2> DEFINE d == DrainPending(ApplyRemote(crdt[s], op), pending[s], {op})
  <2>1. /\ crdt' = [crdt EXCEPT ![s] = d.crdt]
        /\ pending' = [pending EXCEPT ![s] = d.pending]
        /\ applied' = [applied EXCEPT ![s] = @ \cup d.notified]
        /\ CanApply(crdt[s], op)
    BY <1>5 DEF Apply
  <2>2. DeletesInOrder /\ op.type = "DELETE" => op.id \in Ids(crdt[s].seq)
    BY <1>1 DEF Arrives
  <2> HIDE DEF d
  <2>3. d \in HoldingStates(Issued, crdt[s].clock, applied[s], DeletesInOrder)
    BY <1>2, <1>3, <2>1, <2>2, ApplyDrains DEF d
  <2>4. /\ d.pending \in Seq(Inserts(Issued))
        /\ Holds(d.crdt.seq, applied[s] \cup d.notified)
        /\ DeletesInOrder => Deleted(d.crdt.seq, applied[s] \cup d.notified)
        /\ d \in DrainStates(Issued, crdt[s].clock)
    BY <2>3, HoldingStateFields
  <2>5. d.notified \subseteq Issued
    BY <2>4, DrainStateFields
  <2> QED
    BY <2>1, <2>4, <2>5, ReceiverHistory
<1> QED
  BY <1>1, <1>4, <1>5

LEMMA NextHistory == ASSUME IInv, HistoryInv, [Next]_vars PROVE HistoryInv'
<1>1. CASE UNCHANGED vars
  <2>1. Issued' = Issued
    BY <1>1 DEF vars, Issued
  <2> QED
    BY <1>1, <2>1 DEF vars, HistoryInv, ListsInv, OriginsInv, PendingInv
<1>2. ASSUME NEW s \in Sites, NEW pos \in Positions(s), Insert(s, pos) PROVE HistoryInv'
  BY <1>2, InsertHistory
<1>3. ASSUME NEW s \in Sites, NEW pos \in Positions(s), Delete(s, pos) PROVE HistoryInv'
  BY <1>3, DeleteHistory
<1>4. ASSUME NEW s \in Sites, NEW pos \in Positions(s), DeleteOutOfRange(s, pos)
      PROVE HistoryInv'
  BY <1>4, DeleteOutOfRangeHistory
<1>5. ASSUME NEW s \in Sites, Receive(s) PROVE HistoryInv'
  BY <1>5, ReceiveHistory
<1> QED
  BY <1>1, <1>2, <1>3, <1>4, <1>5 DEF Next

\* Two sites agree on the left neighbour of every character both hold.
LEMMA ListsAgree ==
  ASSUME IInv, HistoryInv, NEW r \in Sites, NEW s \in Sites
  PROVE  SameLefts(crdt[r].seq, crdt[s].seq)
<1> DEFINE p == crdt[r].seq
           q == crdt[s].seq
<1>1. /\ Holds(p, applied[r]) /\ Holds(q, applied[s])
      /\ applied[r] \subseteq Issued /\ applied[s] \subseteq Issued
  BY DEF HistoryInv, ListsInv, Issued
<1> HIDE DEF p, q
<1>2. ASSUME NEW i \in 2 .. Len(p), NEW j \in 2 .. Len(q), p[i].id = q[j].id
      PROVE  p[i].left = q[j].left
  <2> DEFINE a == InsertOp(p[i].id, p[i].left)
             b == InsertOp(q[j].id, q[j].left)
  <2>1. a \in Issued /\ b \in Issued
    BY <1>1 DEF Holds
  <2>2. a \in Inserts(Issued) /\ b \in Inserts(Issued) /\ a.id = b.id
    BY <1>2, <2>1 DEF InsertOp, Inserts
  <2>3. a = b
    BY <2>2 DEF HistoryInv, OriginsInv
  <2> QED
    BY <2>3 DEF InsertOp
<1> QED
  BY <1>2 DEF SameLefts, p, q

-----------------------------------------------------------------------------
(* drainPending ends, and leaves behind only what cannot be applied.       *)

\* Between two steps of the scan: if nothing was applied since it started
\* over, then everything it passed is blocked.
PassedBlocked(d) ==
  /\ d.at <= Len(d.pending) + 1
  /\ ~d.progress =>
       \A i \in 1 .. d.at - 1 : ~CanApply(d.crdt, d.pending[i])

BlockingStates(ops, floor) == {d \in DrainStates(ops, floor) : PassedBlocked(d)}

ScanEnded(d) == d.at = Len(d.pending) + 1 /\ ~d.progress

\* More than the steps that are left: those of the scan, one to start over,
\* and a whole scan with its restart for each operation that is left.
StepsLeft(d) ==
  Len(d.pending) * Len(d.pending) + (Len(d.pending) + 1 - d.at)
    + (IF d.progress THEN Len(d.pending) + 1 ELSE 0)

LEMMA SquareDrops ==
  ASSUME NEW n \in Nat, n # 0
  PROVE  (n - 1) * (n - 1) + n <= n * n
<1> DEFINE m == n - 1
<1>1. m \in Nat /\ n = m + 1
  OBVIOUS
<1>2. n * n = m * m + 2 * m + 1
  <2> HIDE DEF m
  <2> QED
    BY <1>1
<1>3. m * m \in Nat
  BY <1>1
<1> QED
  BY <1>1, <1>2, <1>3

LEMMA ScanStepBlocks ==
  ASSUME NEW ops, \A op \in ops : OpOK(op),
         NEW floor \in Nat, NEW d \in BlockingStates(ops, floor),
         NEW new, new = ScanStep[d]
  PROVE  /\ new \in BlockingStates(ops, floor)
         /\ StepsLeft(d) \in Nat
         /\ ScanEnded(d) => ScanEnded(new)
         /\ ScanEnded(d) \/ StepsLeft(new) < StepsLeft(d)
<1>1. d \in DrainStates(ops, floor) /\ PassedBlocked(d)
  BY DEF BlockingStates
<1>2. /\ d \in Scan /\ d.at \in Nat \ {0} /\ d.progress \in BOOLEAN
      /\ d.pending \in Seq(ops)
      /\ d = [crdt |-> d.crdt, pending |-> d.pending, at |-> d.at,
              progress |-> d.progress, notified |-> d.notified]
  BY <1>1, DrainStateFields
<1>3. new \in DrainStates(ops, floor)
  BY <1>1, ScanStepOK
<1> DEFINE n == Len(d.pending)
<1>4. n \in Nat /\ n * n \in Nat /\ d.at <= n + 1
  BY <1>1, <1>2 DEF PassedBlocked
<1>5. StepsLeft(d) = n * n + (n + 1 - d.at) + (IF d.progress THEN n + 1 ELSE 0)
  BY DEF StepsLeft
<1>6. StepsLeft(d) \in Nat
  <2> HIDE DEF n
  <2>1. n + 1 - d.at \in Nat
    BY <1>2, <1>4
  <2> DEFINE square == n * n
             ahead == n + 1 - d.at
             again == IF d.progress THEN n + 1 ELSE 0
  <2>2. again \in Nat
    BY <1>2, <1>4
  <2>3. StepsLeft(d) = square + ahead + again /\ square \in Nat /\ ahead \in Nat
    BY <1>4, <1>5, <2>1
  <2> HIDE DEF square, ahead, again
  <2> QED
    BY <2>2, <2>3
<1>7. CASE d.at <= n /\ CanApply(d.crdt, d.pending[d.at])
  <2> DEFINE rest == RemoveAt(d.pending, d.at)
             e == ApplyRemote(d.crdt, d.pending[d.at])
             done == d.notified \cup {d.pending[d.at]}
  <2>1. new = [crdt |-> e, pending |-> rest, at |-> d.at,
               progress |-> TRUE, notified |-> done]
    BY <1>2, <1>7 DEF ScanStep
  <2>2. Len(rest) = n - 1
    BY <1>2, <1>4, <1>7, RemoveAtShape
  <2> HIDE DEF rest, e, done
  <2>3. new.pending = rest /\ new.at = d.at /\ new.progress = TRUE
    BY <2>1
  <2>4. Len(new.pending) = n - 1 /\ n # 0
    BY <1>2, <1>4, <1>7, <2>2, <2>3
  <2>5. PassedBlocked(new)
    BY <1>2, <1>4, <1>7, <2>3, <2>4 DEF PassedBlocked
  <2>6. StepsLeft(new) = (n - 1) * (n - 1) + (n - d.at) + n
    BY <1>2, <1>4, <2>3, <2>4 DEF StepsLeft
  <2>7. (n - 1) * (n - 1) + n <= n * n /\ (n - 1) * (n - 1) \in Nat
    BY <1>4, <2>4, SquareDrops
  <2>8. StepsLeft(new) < StepsLeft(d)
    <3> DEFINE a == (n - 1) * (n - 1)
               b == n * n
    <3>1. a + n <= b /\ a \in Nat /\ b \in Nat /\ StepsLeft(new) = a + (n - d.at) + n
          /\ StepsLeft(d) = b + (n + 1 - d.at) + (IF d.progress THEN n + 1 ELSE 0)
      BY <1>4, <1>5, <2>6, <2>7
    <3> HIDE DEF a, b, n
    <3> QED
      BY <1>2, <1>4, <3>1, SMTT(30)
  <2>9. ~ScanEnded(d)
    BY <1>2, <1>4, <1>7 DEF ScanEnded
  <2> QED
    BY <1>3, <1>6, <2>5, <2>8, <2>9 DEF BlockingStates
<1>8. CASE d.at <= n /\ ~CanApply(d.crdt, d.pending[d.at])
  <2>1. new = [d EXCEPT !.at = @ + 1]
    BY <1>2, <1>8 DEF ScanStep
  <2>2. /\ new.crdt = d.crdt /\ new.pending = d.pending
        /\ new.at = d.at + 1 /\ new.progress = d.progress
    BY <1>2, <2>1
  <2>3. PassedBlocked(new)
    <3>1. new.at <= Len(new.pending) + 1
      BY <1>2, <1>4, <1>8, <2>2
    <3>2. ASSUME ~new.progress, NEW i \in 1 .. new.at - 1
          PROVE  ~CanApply(new.crdt, new.pending[i])
      <4>1. i \in 1 .. d.at - 1 \/ i = d.at
        BY <1>2, <2>2
      <4> QED
        BY <1>1, <1>8, <2>2, <3>2, <4>1 DEF PassedBlocked
    <3> QED
      BY <3>1, <3>2 DEF PassedBlocked
  <2>4. StepsLeft(new) = n * n + (n + 1 - (d.at + 1)) + (IF d.progress THEN n + 1 ELSE 0)
    BY <2>2 DEF StepsLeft
  <2>5. StepsLeft(new) < StepsLeft(d)
    <3> DEFINE b == n * n
               c == IF d.progress THEN n + 1 ELSE 0
    <3>1. b \in Nat /\ c \in Nat /\ StepsLeft(new) = b + (n + 1 - (d.at + 1)) + c
          /\ StepsLeft(d) = b + (n + 1 - d.at) + c
      BY <1>4, <1>5, <2>4
    <3> HIDE DEF b, c, n
    <3> QED
      BY <1>2, <1>4, <3>1, SMTT(30)
  <2>6. ~ScanEnded(d)
    BY <1>2, <1>4, <1>8 DEF ScanEnded
  <2> QED
    BY <1>3, <1>6, <2>3, <2>5, <2>6 DEF BlockingStates
<1>9. CASE ~(d.at <= n) /\ d.progress
  <2>1. new = [crdt |-> d.crdt, pending |-> d.pending, at |-> 1,
               progress |-> FALSE, notified |-> d.notified]
    BY <1>2, <1>9 DEF ScanStep
  <2>2. new.pending = d.pending /\ new.at = 1 /\ new.progress = FALSE
    BY <2>1
  <2>3. PassedBlocked(new)
    BY <1>4, <2>2 DEF PassedBlocked
  <2>4. StepsLeft(new) = n * n + (n + 1 - 1) + 0
    BY <2>2 DEF StepsLeft
  <2>5. d.at = n + 1
    BY <1>2, <1>4, <1>9
  <2>6. StepsLeft(new) < StepsLeft(d)
    <3> DEFINE b == n * n
    <3>1. /\ b \in Nat
          /\ StepsLeft(new) = b + (n + 1 - 1) + 0
          /\ StepsLeft(d) = b + (n + 1 - d.at) + (n + 1)
      BY <1>4, <1>5, <1>9, <2>4
    <3> HIDE DEF b, n
    <3> QED
      BY <1>4, <2>5, <3>1
  <2>7. ~ScanEnded(d)
    BY <1>9 DEF ScanEnded
  <2> QED
    BY <1>3, <1>6, <2>3, <2>6, <2>7 DEF BlockingStates
<1>10. CASE ~(d.at <= n) /\ ~d.progress
  <2>1. new = d
    BY <1>2, <1>10 DEF ScanStep
  <2>2. ScanEnded(d)
    BY <1>2, <1>4, <1>10 DEF ScanEnded
  <2> QED
    BY <1>6, <2>1, <2>2
<1> QED
  BY <1>7, <1>8, <1>9, <1>10

\* As many steps as DrainPending takes are enough for the loop to end.
LEMMA DrainEnds ==
  ASSUME NEW ops, \A op \in ops : OpOK(op), NEW floor \in Nat,
         NEW e, NEW queue \in Seq(ops), NEW done,
         [crdt |-> e, pending |-> queue, at |-> 1,
          progress |-> FALSE, notified |-> done] \in DrainStates(ops, floor),
         NEW d, d = DrainPending(e, queue, done)
  PROVE  \A i \in DOMAIN d.pending : ~CanApply(d.crdt, d.pending[i])
<1> DEFINE start == StartScan(e, queue, done)
           S == BlockingStates(ops, floor)
           mu == [x \in S |-> StepsLeft(x)]
           End == {x \in S : ScanEnded(x)}
           n == Len(queue)
           N == (Len(queue) + 1) * (Len(queue) + 1)
<1>1. n \in Nat
  OBVIOUS
<1>2. /\ start \in DrainStates(ops, floor)
      /\ start.pending = queue /\ start.at = 1 /\ start.progress = FALSE
  BY DEF StartScan
<1> HIDE DEF start
<1>3. start \in S
  BY <1>1, <1>2 DEF PassedBlocked, BlockingStates
<1>4. \A x \in S : /\ ScanStep[x] \in S
                   /\ StepsLeft(x) \in Nat
                   /\ ScanEnded(x) => ScanEnded(ScanStep[x])
                   /\ ScanEnded(x) \/ StepsLeft(ScanStep[x]) < StepsLeft(x)
  BY ScanStepBlocks
<1>5. n * n \in Nat /\ N \in Nat /\ N = n * n + 2 * n + 1
  <2> HIDE DEF n
  <2>1. (n + 1) * (n + 1) = n * n + 2 * n + 1
    BY <1>1
  <2> QED
    BY <1>1, <2>1 DEF n
<1>6. StepsLeft(start) = n * n + (n + 1 - 1) + 0
  BY <1>2 DEF StepsLeft
<1> HIDE DEF S
<1>7. mu[start] < N
  <2>1. mu[start] = n * n + (n + 1 - 1) + 0
    BY <1>3, <1>6
  <2> DEFINE b == n * n
  <2>2. b \in Nat /\ mu[start] = b + (n + 1 - 1) + 0 /\ N = b + 2 * n + 1
    BY <1>5, <2>1
  <2> HIDE DEF mu, N, n, b
  <2> QED
    BY <1>1, <2>2
<1>8. \A x \in S : /\ ScanStep[x] \in S
                   /\ mu[x] \in Nat
                   /\ \/ ScanStep[x] \in End
                      \/ x \notin End /\ mu[ScanStep[x]] < mu[x]
  BY <1>4
<1> HIDE DEF mu, End, N
<1>9. LeadsTo(S, ScanStep, mu, End) /\ N \in Nat
  BY <1>5, <1>8 DEF LeadsTo
<1>10. d \in End
  <2>1. LET scan[k \in Nat] == IF k = 0 THEN start ELSE ScanStep[scan[k - 1]]
        IN  scan[N] \in End
    BY <1>3, <1>7, <1>9, IteratesEnd
  <2> QED
    BY <2>1 DEF DrainPending, start, N
<1>11. d \in DrainStates(ops, floor) /\ PassedBlocked(d) /\ ScanEnded(d)
  BY <1>10 DEF End, S, BlockingStates
<1>12. d.pending \in Seq(ops) /\ d.at = Len(d.pending) + 1 /\ ~d.progress
  BY <1>11, DrainStateFields DEF ScanEnded
<1>13. DOMAIN d.pending = 1 .. d.at - 1
  BY <1>12
<1> QED
  BY <1>11, <1>12, <1>13 DEF PassedBlocked

\* Nothing that a list lacks is added by a local edit: the identifier of the
\* new character is one that no operation refers to yet.
LEMMA EditKeepsBlocked ==
  ASSUME IInv, HistoryInv, NEW s \in Sites, NEW op \in Inserts(Issued),
         ~CanApply(crdt[s], op),
         NEW e, Ids(e.seq) \subseteq Ids(crdt[s].seq) \cup {NextID(s)}
  PROVE  ~CanApply(e, op)
<1>1. op \in Issued /\ op.type = "INSERT" /\ op.left \notin Ids(crdt[s].seq)
  BY DEF Inserts, CanApply
<1>2. EngineOK(crdt[s])
  BY DEF IInv, EnginesInv
<1>3. SENTINEL_ID \in Ids(crdt[s].seq) /\ crdt[s].clock \in Nat
  BY <1>2, EngineFields
<1>4. PICK o \in Inserts(Issued) : o.id = op.left
  BY <1>1, <1>3 DEF HistoryInv, OriginsInv
<1>5. o.id.site = s => o.id.clock <= crdt[s].clock
  BY DEF Inserts, IInv, IssuedInv
<1>6. o.id # NextID(s)
  <2> SUFFICES ASSUME o.id = NextID(s) PROVE FALSE
    OBVIOUS
  <2>1. o.id.site = s /\ o.id.clock = crdt[s].clock + 1
    BY DEF NextID
  <2> QED
    BY <1>3, <1>5, <2>1
<1>7. op.left \notin Ids(e.seq)
  BY <1>1, <1>4, <1>6
<1> QED
  BY <1>1, <1>7 DEF CanApply

\* Between two steps of a site, every operation it keeps is blocked.
LEMMA EditBlocked ==
  ASSUME IInv, HistoryInv, PendingBlocked, NEW s \in Sites, NEW e,
         crdt' = [crdt EXCEPT ![s] = e], pending' = pending,
         Ids(e.seq) \subseteq Ids(crdt[s].seq) \cup {NextID(s)}
  PROVE  PendingBlocked'
<1> SUFFICES ASSUME NEW t \in Sites, NEW i \in DOMAIN pending[t]
             PROVE  ~CanApply(crdt'[t], pending[t][i])
  BY DEF PendingBlocked
<1>1. ~CanApply(crdt[t], pending[t][i])
  BY DEF PendingBlocked
<1>2. crdt \in [Sites -> Engine]
  BY DEF IInv, TypeOK
<1>3. CASE t # s
  BY <1>1, <1>2, <1>3
<1>4. CASE t = s
  <2>1. pending[s] \in Seq(Inserts(Issued)) /\ i \in 1 .. Len(pending[s])
    BY <1>4 DEF HistoryInv, PendingInv
  <2>2. pending[s][i] \in Inserts(Issued)
    BY <2>1, ElementOfSeq
  <2>3. crdt'[s] = e
    BY <1>2
  <2> QED
    BY <1>1, <1>4, <2>2, <2>3, EditKeepsBlocked
<1> QED
  BY <1>3, <1>4

LEMMA InsertBlocked ==
  ASSUME IInv, HistoryInv, PendingBlocked, NEW s \in Sites, NEW pos, Insert(s, pos)
  PROVE  PendingBlocked'
<1> DEFINE edit == LocalInsert(crdt[s], s, pos)
<1>1. crdt' = [crdt EXCEPT ![s] = edit.engine] /\ pending' = pending
  BY DEF Insert, Commit
<1>2. EngineOK(crdt[s]) /\ s \in Nat
  BY SitesAssumption DEF IInv, EnginesInv
<1> HIDE DEF edit
<1>2a. LocalInserted(crdt[s], s, edit)
  BY <1>2, LocalInsertFacts DEF edit
<1>3. /\ edit.op.id = [clock |-> crdt[s].clock + 1, site |-> s]
      /\ Ids(edit.engine.seq) = Ids(crdt[s].seq) \cup {edit.op.id}
  BY <1>2a DEF LocalInserted
<1>4. Ids(edit.engine.seq) = Ids(crdt[s].seq) \cup {NextID(s)}
  BY <1>3 DEF NextID
<1> QED
  BY <1>1, <1>4, EditBlocked

LEMMA DeleteBlocked ==
  ASSUME IInv, HistoryInv, PendingBlocked, NEW s \in Sites, NEW pos,
         Delete(s, pos) \/ DeleteOutOfRange(s, pos)
  PROVE  PendingBlocked'
<1>1. EngineOK(crdt[s])
  BY DEF IInv, EnginesInv
<1>2. CASE Delete(s, pos)
  <2> DEFINE edit == LocalDelete(crdt[s], pos)
  <2>1. /\ crdt' = [crdt EXCEPT ![s] = edit.engine] /\ pending' = pending
        /\ VisibleIter(crdt[s].seq, pos) # {}
    BY <1>2 DEF Delete, Commit
  <2> HIDE DEF edit
  <2>2. Ids(edit.engine.seq) = Ids(crdt[s].seq)
    BY <1>1, <2>1, LocalDeleteOK DEF edit
  <2> QED
    BY <2>1, <2>2, EditBlocked
<1>3. CASE DeleteOutOfRange(s, pos)
  <2> DEFINE e == LocalDeleteThrows(crdt[s])
  <2>1. crdt' = [crdt EXCEPT ![s] = e] /\ pending' = pending
    BY <1>3 DEF DeleteOutOfRange
  <2> HIDE DEF e
  <2>2. e.seq = crdt[s].seq
    BY <1>1, LocalDeleteThrowsOK DEF e
  <2> QED
    BY <2>1, <2>2, EditBlocked
<1> QED
  BY <1>2, <1>3

LEMMA ReceiveBlocked ==
  ASSUME IInv, HistoryInv, PendingBlocked, NEW s \in Sites, Receive(s)
  PROVE  PendingBlocked'
<1>1. PICK op \in BagToSet(net[s]) : Arrives(s, op) /\ (Park(s, op) \/ Apply(s, op))
  BY DEF Receive
<1>2. op \in Issued
  BY <1>1 DEF IInv, TransitInv, BagToSet
<1>3. crdt \in [Sites -> Engine] /\ pending \in [Sites -> Seq(Operation)]
  BY DEF IInv, TypeOK
<1> SUFFICES ASSUME NEW t \in Sites, NEW i \in DOMAIN pending'[t]
             PROVE  ~CanApply(crdt'[t], pending'[t][i])
  BY DEF PendingBlocked
<1>4. CASE Park(s, op)
  <2>1. ~CanApply(crdt[s], op) /\ crdt' = crdt
        /\ pending' = [pending EXCEPT ![s] = Append(@, op)]
    BY <1>4 DEF Park
  <2>2. CASE t # s
    BY <1>3, <2>1, <2>2 DEF PendingBlocked
  <2>3. CASE t = s
    <3> DEFINE queue == pending[s]
    <3>1. pending'[t] = Append(queue, op) /\ queue \in Seq(Operation)
      BY <1>3, <2>1, <2>3
    <3> HIDE DEF queue
    <3>2. i \in 1 .. Len(queue) + 1
      BY <3>1
    <3>3. CASE i = Len(queue) + 1
      BY <2>1, <2>3, <3>1, <3>3
    <3>4. CASE i \in 1 .. Len(queue)
      <4>1. pending'[t][i] = queue[i] /\ i \in DOMAIN queue
        BY <3>1, <3>4
      <4> QED
        BY <2>1, <2>3, <4>1 DEF PendingBlocked, queue
    <3> QED
      BY <3>1, <3>2, <3>3, <3>4
  <2> QED
    BY <2>2, <2>3
<1>5. CASE Apply(s, op)
  <2> DEFINE e == ApplyRemote(crdt[s], op)
             d == DrainPending(e, pending[s], {op})
             first == [crdt |-> e, pending |-> pending[s], at |-> 1,
                       progress |-> FALSE, notified |-> {op}]
  <2>1. /\ crdt' = [crdt EXCEPT ![s] = d.crdt]
        /\ pending' = [pending EXCEPT ![s] = d.pending]
        /\ CanApply(crdt[s], op)
    BY <1>5 DEF Apply
  <2>2. /\ EngineOK(crdt[s]) /\ crdt[s].clock \in Nat
        /\ Ids(crdt[s].seq) \subseteq KnownIds(Issued)
        /\ pending[s] \in Seq(Issued)
        /\ \A o \in Issued : OpOK(o)
    BY EngineFields DEF IInv, EnginesInv, TransitInv, IssuedInv
  <2> HIDE DEF d
  <2>3. first \in DrainStates(Issued, crdt[s].clock)
    BY <1>2, <2>1, ApplyStarts
  <2> HIDE DEF e
  <2>4. \A j \in DOMAIN d.pending : ~CanApply(d.crdt, d.pending[j])
    BY <2>2, <2>3, DrainEnds DEF d
  <2>5. CASE t # s
    BY <1>3, <2>1, <2>5 DEF PendingBlocked
  <2>6. CASE t = s
    BY <1>3, <2>1, <2>4, <2>6
  <2> QED
    BY <2>5, <2>6
<1> QED
  BY <1>1, <1>4, <1>5

-----------------------------------------------------------------------------
(* Where the operations are, on a network that loses none.                 *)

Kept(queue) == {queue[i] : i \in DOMAIN queue}

BagsInv == \A s \in Sites : \A op \in DOMAIN net[s] : net[s][op] \in Nat \ {0}

\* Every operation is on its way to a site, kept there or applied there.
AccountedInv ==
  \A s \in Sites : Issued \subseteq DOMAIN net[s] \cup Kept(pending[s]) \cup applied[s]

DeliveryInv == BagsInv /\ AccountedInv

LEMMA RemoveAtKeeps ==
  ASSUME NEW S, NEW seq \in Seq(S), NEW p \in 1 .. Len(seq)
  PROVE  Kept(seq) \subseteq Kept(RemoveAt(seq, p)) \cup {seq[p]}
<1> DEFINE rest == RemoveAt(seq, p)
<1>1. /\ rest \in Seq(S) /\ Len(rest) = Len(seq) - 1 /\ Len(seq) \in Nat
      /\ \A i \in 1 .. Len(seq) - 1 : rest[i] = IF i < p THEN seq[i] ELSE seq[i + 1]
  BY RemoveAtShape
<1> HIDE DEF rest
<1>2. DOMAIN seq = 1 .. Len(seq) /\ DOMAIN rest = 1 .. Len(seq) - 1
  BY <1>1
<1> SUFFICES ASSUME NEW i \in 1 .. Len(seq), i # p
             PROVE  \E j \in DOMAIN rest : rest[j] = seq[i]
  BY <1>2 DEF Kept, rest
<1>3. CASE i < p
  <2>1. i \in 1 .. Len(seq) - 1
    BY <1>1, <1>3
  <2> QED
    BY <1>1, <1>2, <1>3, <2>1
<1>4. CASE p < i
  <2>1. i - 1 \in 1 .. Len(seq) - 1 /\ ~(i - 1 < p) /\ (i - 1) + 1 = i
    BY <1>1, <1>4
  <2>2. rest[i - 1] = seq[i]
    BY <1>1, <2>1
  <2> QED
    BY <1>2, <2>1, <2>2
<1> QED
  BY <1>3, <1>4

\* The drain loses none of the operations that were pending.
KeepingStates(ops, floor, all) ==
  {d \in DrainStates(ops, floor) : all \subseteq Kept(d.pending) \cup d.notified}

LEMMA ScanStepKeeps ==
  ASSUME NEW ops, \A op \in ops : OpOK(op),
         NEW floor \in Nat, NEW all, NEW d \in KeepingStates(ops, floor, all)
  PROVE  ScanStep[d] \in KeepingStates(ops, floor, all)
<1> DEFINE new == ScanStep[d]
<1>1. d \in DrainStates(ops, floor) /\ all \subseteq Kept(d.pending) \cup d.notified
  BY DEF KeepingStates
<1>2. new \in DrainStates(ops, floor)
  BY <1>1, ScanStepOK
<1>3. d.pending \in Seq(ops)
  BY <1>1, DrainStateFields
<1>4. \/ \E op \in ops :
           /\ d.at \in 1 .. Len(d.pending) /\ op = d.pending[d.at]
           /\ new.pending = RemoveAt(d.pending, d.at)
           /\ new.notified = d.notified \cup {op}
      \/ new.pending = d.pending /\ new.notified = d.notified
  BY <1>1, ScanStepCases
<1> SUFFICES new \in KeepingStates(ops, floor, all)
  OBVIOUS
<1> HIDE DEF new
<1>5. all \subseteq Kept(new.pending) \cup new.notified
  BY <1>1, <1>3, <1>4, RemoveAtKeeps
<1> QED
  BY <1>2, <1>5 DEF KeepingStates

LEMMA KeptAppended ==
  ASSUME NEW S, NEW queue \in Seq(S), NEW op
  PROVE  Kept(Append(queue, op)) = Kept(queue) \cup {op}
<1> DEFINE new == Append(queue, op)
<1>1. /\ Len(queue) \in Nat /\ DOMAIN queue = 1 .. Len(queue)
      /\ DOMAIN new = 1 .. Len(queue) + 1
      /\ \A i \in 1 .. Len(queue) : new[i] = queue[i]
      /\ new[Len(queue) + 1] = op
  OBVIOUS
<1> HIDE DEF new
<1>2. \A i \in 1 .. Len(queue) + 1 : i \in 1 .. Len(queue) \/ i = Len(queue) + 1
  BY <1>1
<1>3. 1 .. Len(queue) \subseteq 1 .. Len(queue) + 1 /\ Len(queue) + 1 \in 1 .. Len(queue) + 1
  BY <1>1
<1>4. Kept(new) \subseteq Kept(queue) \cup {op}
  BY <1>1, <1>2 DEF Kept
<1>5. Kept(queue) \cup {op} \subseteq Kept(new)
  BY <1>1, <1>3 DEF Kept
<1> QED
  BY <1>4, <1>5 DEF new

\* A datagram that at least one copy of reaches every peer.
LEMMA BroadcastReaches ==
  ASSUME BagsInv, NEW s \in Sites, NEW op, Broadcast(s, op), MinCopies # 0
  PROVE  /\ BagsInv' /\ net'[s] = net[s]
         /\ \A d \in Sites \ {s} : DOMAIN net'[d] = DOMAIN net[d] \cup {op}
<1>1. PICK copies \in [Sites \ {s} -> MinCopies .. MaxCopies] :
        net' = [d \in Sites |-> IF d = s THEN net[d]
                                ELSE AddCopies(net[d], op, copies[d])]
  BY DEF Broadcast
<1>2. net'[s] = net[s]
  BY <1>1
<1>3. ASSUME NEW d \in Sites, d # s
      PROVE  /\ DOMAIN net'[d] = DOMAIN net[d] \cup {op}
             /\ \A o \in DOMAIN net'[d] : net'[d][o] \in Nat \ {0}
  <2> DEFINE n == copies[d]
             B == net[d]
  <2>1. n \in Nat \ {0}
    BY <1>3, CopiesAssumption
  <2>2. net'[d] = B (+) [o \in {op} |-> n]
    BY <1>1, <1>3, <2>1 DEF AddCopies
  <2>3. \A o \in DOMAIN B : B[o] \in Nat \ {0}
    BY DEF BagsInv
  <2> HIDE DEF n, B
  <2>4. DOMAIN net'[d] = DOMAIN B \cup {op}
    BY <2>2 DEF (+)
  <2>5. \A o \in DOMAIN B \cup {op} :
          net'[d][o] = (IF o \in DOMAIN B THEN B[o] ELSE 0) + (IF o = op THEN n ELSE 0)
    BY <2>2 DEF (+)
  <2>6. \A o \in DOMAIN B \cup {op} : net'[d][o] \in Nat \ {0}
    BY <2>1, <2>3, <2>5
  <2> QED
    BY <2>4, <2>6 DEF B
<1> QED
  BY <1>2, <1>3 DEF BagsInv

\* One copy is taken out of one bag.
LEMMA ArrivalTakesOne ==
  ASSUME BagsInv, NEW s \in Sites, NEW op, Arrives(s, op)
  PROVE  /\ BagsInv'
         /\ \A t \in Sites : /\ DOMAIN net[t] \subseteq DOMAIN net'[t] \cup {op}
                             /\ DOMAIN net'[t] \subseteq DOMAIN net[t]
                             /\ t # s => DOMAIN net'[t] = DOMAIN net[t]
<1>1. net' = [net EXCEPT ![s] = @ (-) SetToBag({op})]
  BY DEF Arrives
<1>2. ASSUME NEW t \in Sites
      PROVE  /\ \A o \in DOMAIN net'[t] : net'[t][o] \in Nat \ {0}
             /\ DOMAIN net[t] \subseteq DOMAIN net'[t] \cup {op}
             /\ DOMAIN net'[t] \subseteq DOMAIN net[t]
             /\ t # s => DOMAIN net'[t] = DOMAIN net[t]
  <2> DEFINE B == net[t]
  <2>1. \A o \in DOMAIN B : B[o] \in Nat \ {0}
    BY DEF BagsInv
  <2>2. net'[t] = B \/ (t = s /\ net'[t] = B (-) SetToBag({op}))
    BY <1>1
  <2> HIDE DEF B
  <2>3. CASE net'[t] = B (-) SetToBag({op}) /\ t = s
    <3> DEFINE R == [o \in DOMAIN B |-> IF o \in {op} THEN B[o] - 1 ELSE B[o]]
    <3>1. net'[t] = [o \in {x \in DOMAIN B : R[x] > 0} |-> R[o]]
      BY <2>3 DEF (-), SetToBag
    <3>2. \A o \in DOMAIN B : /\ R[o] \in Nat
                              /\ o # op => R[o] > 0
      BY <2>1
    <3> HIDE DEF R
    <3>3. /\ \A o \in DOMAIN net'[t] : net'[t][o] \in Nat \ {0}
          /\ DOMAIN B \subseteq DOMAIN net'[t] \cup {op}
          /\ DOMAIN net'[t] \subseteq DOMAIN B
      BY <3>1, <3>2
    <3> QED
      BY <2>3, <3>3 DEF B
  <2>4. CASE net'[t] = B
    BY <2>1, <2>4 DEF B
  <2> QED
    BY <2>2, <2>3, <2>4
<1> QED
  BY <1>2 DEF BagsInv

\* Both local edits, when at least one copy reaches every peer.
LEMMA CommitDelivers ==
  ASSUME IInv, DeliveryInv, NEW s \in Sites, NEW edit, Commit(s, edit), MinCopies # 0
  PROVE  DeliveryInv'
<1> DEFINE op == edit.op
<1>1. /\ applied' = [applied EXCEPT ![s] = @ \cup {op}]
      /\ pending' = pending
      /\ Broadcast(s, op)
  BY DEF Commit
<1> HIDE DEF op
<1>2. applied \in [Sites -> SUBSET Operation]
  BY DEF IInv, TypeOK
<1>3. BagsInv
  BY DEF DeliveryInv
<1>4. BagsInv' /\ net'[s] = net[s]
  BY <1>1, <1>3, BroadcastReaches
<1>5. \A d \in Sites : d # s => DOMAIN net'[d] = DOMAIN net[d] \cup {op}
  BY <1>1, <1>3, BroadcastReaches
<1>6. BagsInv'
  BY <1>4
<1>7. Issued' = Issued \cup {op}
  BY <1>1, <1>2 DEF Issued
<1>8. AccountedInv'
  <2> SUFFICES ASSUME NEW t \in Sites, NEW o \in Issued'
               PROVE  o \in DOMAIN net'[t] \cup Kept(pending'[t]) \cup applied'[t]
    BY DEF AccountedInv
  <2>1. applied[t] \subseteq applied'[t] /\ op \in applied'[s]
    BY <1>1, <1>2
  <2>2. CASE o = op
    BY <1>5, <2>1, <2>2
  <2>3. CASE o \in Issued
    <3>1. o \in DOMAIN net[t] \cup Kept(pending[t]) \cup applied[t]
      BY <2>3 DEF DeliveryInv, AccountedInv
    <3>2. DOMAIN net[t] \subseteq DOMAIN net'[t]
      BY <1>4, <1>5
    <3> QED
      BY <1>1, <2>1, <3>1, <3>2
  <2> QED
    BY <1>7, <2>2, <2>3
<1> QED
  BY <1>6, <1>8 DEF DeliveryInv

LEMMA ReceiveDelivers ==
  ASSUME IInv, DeliveryInv, NEW s \in Sites, Receive(s)
  PROVE  DeliveryInv'
<1>1. PICK op \in BagToSet(net[s]) : Arrives(s, op) /\ (Park(s, op) \/ Apply(s, op))
  BY DEF Receive
<1>2. op \in Issued
  BY <1>1 DEF IInv, TransitInv, BagToSet
<1>3. /\ crdt \in [Sites -> Engine] /\ pending \in [Sites -> Seq(Operation)]
      /\ applied \in [Sites -> SUBSET Operation]
  BY DEF IInv, TypeOK
<1>4. BagsInv
  BY DEF DeliveryInv
<1>5. \A t \in Sites : /\ DOMAIN net[t] \subseteq DOMAIN net'[t] \cup {op}
                       /\ t # s => DOMAIN net'[t] = DOMAIN net[t]
  BY <1>1, <1>4, ArrivalTakesOne
<1>6. BagsInv'
  BY <1>1, <1>4, ArrivalTakesOne
<1>7. CASE Park(s, op)
  <2>1. /\ pending' = [pending EXCEPT ![s] = Append(@, op)]
        /\ applied' = applied
    BY <1>7 DEF Park
  <2>2. Issued' = Issued
    BY <2>1 DEF Issued
  <2>3. Kept(pending'[s]) = Kept(pending[s]) \cup {op}
    <3> DEFINE queue == pending[s]
    <3>1. pending'[s] = Append(queue, op) /\ queue \in Seq(Operation)
      BY <1>3, <2>1
    <3> HIDE DEF queue
    <3> QED
      BY <3>1, KeptAppended DEF queue
  <2>4. AccountedInv'
    <3> SUFFICES ASSUME NEW t \in Sites, NEW o \in Issued
                 PROVE  o \in DOMAIN net'[t] \cup Kept(pending'[t]) \cup applied'[t]
      BY <2>2 DEF AccountedInv
    <3>1. o \in DOMAIN net[t] \cup Kept(pending[t]) \cup applied[t]
      BY DEF DeliveryInv, AccountedInv
    <3>2. CASE t = s
      BY <1>5, <2>1, <2>3, <3>1, <3>2
    <3>3. CASE t # s
      <4>1. pending'[t] = pending[t]
        BY <1>3, <2>1, <3>3
      <4> QED
        BY <1>5, <2>1, <3>1, <3>3, <4>1
    <3> QED
      BY <3>2, <3>3
  <2> QED
    BY <1>6, <2>4 DEF DeliveryInv
<1>8. CASE Apply(s, op)
  <2> DEFINE e == ApplyRemote(crdt[s], op)
             d == DrainPending(e, pending[s], {op})
             all == Kept(pending[s]) \cup {op}
             S == KeepingStates(Issued, crdt[s].clock, all)
             first == [crdt |-> e, pending |-> pending[s], at |-> 1,
                       progress |-> FALSE, notified |-> {op}]
  <2>1. /\ pending' = [pending EXCEPT ![s] = d.pending]
        /\ applied' = [applied EXCEPT ![s] = @ \cup d.notified]
        /\ CanApply(crdt[s], op)
    BY <1>8 DEF Apply
  <2>2. /\ EngineOK(crdt[s]) /\ crdt[s].clock \in Nat
        /\ Ids(crdt[s].seq) \subseteq KnownIds(Issued)
        /\ pending[s] \in Seq(Issued) /\ Len(pending[s]) \in Nat
        /\ \A o \in Issued : OpOK(o)
    BY EngineFields DEF IInv, EnginesInv, TransitInv, IssuedInv
  <2> HIDE DEF d
  <2>3. first \in DrainStates(Issued, crdt[s].clock)
    BY <1>2, <2>1, ApplyStarts
  <2>4. first.pending = pending[s] /\ first.notified = {op}
    OBVIOUS
  <2> HIDE DEF e, first
  <2>5. first \in S
    BY <2>3, <2>4 DEF KeepingStates
  <2>6. \A x \in S : ScanStep[x] \in S
    BY <2>2, ScanStepKeeps
  <2>7. S \subseteq Scan
    BY DEF KeepingStates, DrainStates
  <2> HIDE DEF S
  <2>8. d \in S
    BY <2>2, <2>5, <2>6, <2>7, DrainInvariant DEF d, first
  <2>9. all \subseteq Kept(d.pending) \cup d.notified /\ d.notified \subseteq Issued
    BY <2>8 DEF S, KeepingStates, DrainStates
  <2>10. Issued' = Issued
    BY <1>3, <2>1, <2>9 DEF Issued
  <2>11. AccountedInv'
    <3> SUFFICES ASSUME NEW t \in Sites, NEW o \in Issued
                 PROVE  o \in DOMAIN net'[t] \cup Kept(pending'[t]) \cup applied'[t]
      BY <2>10 DEF AccountedInv
    <3>1. o \in DOMAIN net[t] \cup Kept(pending[t]) \cup applied[t]
      BY DEF DeliveryInv, AccountedInv
    <3>2. CASE t = s
      <4>1. pending'[t] = d.pending /\ applied'[t] = applied[t] \cup d.notified
        BY <1>3, <2>1, <3>2
      <4> QED
        BY <1>5, <2>9, <3>1, <3>2, <4>1
    <3>3. CASE t # s
      <4>1. pending'[t] = pending[t] /\ applied'[t] = applied[t]
        BY <1>3, <2>1, <3>3
      <4> QED
        BY <1>5, <3>1, <3>3, <4>1
    <3> QED
      BY <3>2, <3>3
  <2> QED
    BY <1>6, <2>11 DEF DeliveryInv
<1> QED
  BY <1>1, <1>7, <1>8

\* With nothing on its way, nothing is pending: of what is, the oldest has
\* nothing to wait for.
LEMMA NothingToWaitFor ==
  ASSUME IInv, HistoryInv, PendingBlocked, AccountedInv,
         NEW s \in Sites, net[s] = EmptyBag
  PROVE  pending[s] = <<>> /\ applied[s] = Issued
<1> DEFINE queue == pending[s]
<1>1. /\ queue \in Seq(Inserts(Issued)) /\ Len(queue) \in Nat
      /\ DOMAIN queue = 1 .. Len(queue)
  BY DEF HistoryInv, PendingInv
<1>2. DOMAIN net[s] = {}
  BY DEF EmptyBag, SetToBag
<1>3. Issued \subseteq Kept(queue) \cup applied[s]
  BY <1>2 DEF AccountedInv
<1>4. applied[s] \subseteq Issued
  BY DEF Issued
<1>5. EngineOK(crdt[s]) /\ SENTINEL_ID \in Ids(crdt[s].seq)
  BY EngineFields DEF IInv, EnginesInv
<1>6. Len(queue) = 0
  <2> SUFFICES ASSUME Len(queue) # 0 PROVE FALSE
    OBVIOUS
  <2> DEFINE clocks == {queue[i].id.clock : i \in 1 .. Len(queue)}
  <2>1. \A i \in 1 .. Len(queue) :
          /\ queue[i] \in Inserts(Issued) /\ queue[i] \in Issued /\ queue[i].type = "INSERT"
          /\ OpOK(queue[i])
    <3>1. \A i \in 1 .. Len(queue) : queue[i] \in Inserts(Issued)
      BY <1>1, ElementOfSeq
    <3>2. \A o \in Inserts(Issued) : o \in Issued /\ o.type = "INSERT"
      BY DEF Inserts
    <3> QED
      BY <3>1, <3>2 DEF IInv, IssuedInv
  <2>2. clocks \subseteq Nat
    BY <2>1 DEF OpOK, Operation, CharID
  <2>3. clocks # {}
    <3>1. 1 \in 1 .. Len(queue)
      BY <1>1
    <3> QED
      BY <3>1
  <2>4. PICK m \in clocks : \A n \in clocks : m <= n
    BY <2>2, <2>3, NatLeast
  <2>5. PICK i \in 1 .. Len(queue) : queue[i].id.clock = m
    BY <2>4
  <2>6. ~CanApply(crdt[s], queue[i])
    BY <1>1 DEF PendingBlocked
  <2>7. queue[i].left \notin Ids(crdt[s].seq)
    BY <2>6 DEF CanApply
  <2>8. queue[i].left.clock < queue[i].id.clock
    BY <2>1 DEF HistoryInv, OriginsInv
  <2>9. PICK o \in Inserts(Issued) : o.id = queue[i].left
    BY <1>5, <2>1, <2>7 DEF HistoryInv, OriginsInv
  <2>10. o \in Issued /\ o.type = "INSERT"
    BY DEF Inserts
  <2>11. o \notin applied[s]
    BY <2>7, <2>9, <2>10 DEF HistoryInv, ListsInv, Holds
  <2>12. PICK j \in 1 .. Len(queue) : queue[j] = o
    BY <1>1, <1>3, <2>10, <2>11 DEF Kept
  <2>13. o.id.clock \in clocks
    BY <2>12
  <2>14. m <= o.id.clock /\ o.id.clock \in Nat /\ m \in Nat
    BY <2>2, <2>4, <2>13
  <2> QED
    BY <2>5, <2>8, <2>9, <2>14
<1>7. queue = <<>>
  BY <1>1, <1>6
<1>8. Kept(queue) = {}
  BY <1>1, <1>6 DEF Kept
<1> QED
  BY <1>3, <1>4, <1>7, <1>8

-----------------------------------------------------------------------------
(* What a step does to a list.                                             *)

GrowingStates(ops, floor, base) ==
  {d \in DrainStates(ops, floor) : Grows(base, d.crdt.seq)}

LEMMA ScanStepGrows ==
  ASSUME NEW ops, \A op \in ops : OpOK(op), NEW floor \in Nat,
         NEW base, WellFormed(base), NEW d \in GrowingStates(ops, floor, base)
  PROVE  ScanStep[d] \in GrowingStates(ops, floor, base)
<1> DEFINE new == ScanStep[d]
<1>1. d \in DrainStates(ops, floor) /\ Grows(base, d.crdt.seq)
  BY DEF GrowingStates
<1>2. new \in DrainStates(ops, floor)
  BY <1>1, ScanStepOK
<1>3. EngineOK(d.crdt) /\ EngineOK(new.crdt)
  BY <1>1, <1>2, DrainStateFields
<1>4. \/ \E op \in ops : CanApply(d.crdt, op) /\ new.crdt = ApplyRemote(d.crdt, op)
      \/ new.crdt = d.crdt
  BY <1>1, ScanStepCases
<1> SUFFICES new \in GrowingStates(ops, floor, base)
  OBVIOUS
<1> HIDE DEF new
<1>5. Grows(d.crdt.seq, new.crdt.seq)
  BY <1>3, <1>4, ApplyRemoteGrows, GrowsItself DEF EngineOK
<1>6. Grows(base, new.crdt.seq)
  BY <1>1, <1>3, <1>5, GrowsOn DEF EngineOK
<1> QED
  BY <1>2, <1>6 DEF GrowingStates

\* The engine of a site moves on: its clock does not go back, its list grows.
MovesOn(e, new) == e.clock <= new.clock /\ Grows(e.seq, new.seq)

LEMMA ApplyMovesOn ==
  ASSUME IInv, NEW s \in Sites, NEW op \in Issued, Apply(s, op)
  PROVE  \E e : crdt' = [crdt EXCEPT ![s] = e] /\ MovesOn(crdt[s], e)
<1> DEFINE e == ApplyRemote(crdt[s], op)
           d == DrainPending(e, pending[s], {op})
           S == GrowingStates(Issued, crdt[s].clock, crdt[s].seq)
           first == [crdt |-> e, pending |-> pending[s], at |-> 1,
                     progress |-> FALSE, notified |-> {op}]
<1>1. crdt' = [crdt EXCEPT ![s] = d.crdt] /\ CanApply(crdt[s], op)
  BY DEF Apply
<1>2. /\ EngineOK(crdt[s]) /\ crdt[s].clock \in Nat /\ WellFormed(crdt[s].seq)
      /\ Len(pending[s]) \in Nat
      /\ \A o \in Issued : OpOK(o)
  BY EngineFields DEF IInv, EnginesInv, TransitInv, IssuedInv, EngineOK
<1> HIDE DEF d
<1>3. first \in DrainStates(Issued, crdt[s].clock)
  BY <1>1, ApplyStarts
<1>4. Grows(crdt[s].seq, e.seq) /\ first.crdt = e
  BY <1>1, <1>2, ApplyRemoteGrows
<1> HIDE DEF e, first
<1>5. first \in S
  BY <1>3, <1>4 DEF GrowingStates
<1>6. \A x \in S : ScanStep[x] \in S
  BY <1>2, ScanStepGrows
<1>7. S \subseteq Scan
  BY DEF GrowingStates, DrainStates
<1> HIDE DEF S
<1>8. d \in S
  BY <1>2, <1>5, <1>6, <1>7, DrainInvariant DEF d, first
<1>9. MovesOn(crdt[s], d.crdt)
  BY <1>8 DEF S, GrowingStates, DrainStates, MovesOn
<1> QED
  BY <1>1, <1>9

LEMMA EditMovesOn ==
  ASSUME IInv, NEW s \in Sites, NEW pos,
         Insert(s, pos) \/ Delete(s, pos) \/ DeleteOutOfRange(s, pos)
  PROVE  \E e : crdt' = [crdt EXCEPT ![s] = e] /\ MovesOn(crdt[s], e)
<1>1. EngineOK(crdt[s]) /\ s \in Nat /\ crdt[s].clock \in Nat /\ WellFormed(crdt[s].seq)
  BY SitesAssumption, EngineFields DEF IInv, EnginesInv, EngineOK
<1>2. CASE Insert(s, pos)
  <2> DEFINE r == LocalInsert(crdt[s], s, pos)
  <2>1. crdt' = [crdt EXCEPT ![s] = r.engine]
    BY <1>2 DEF Insert, Commit
  <2> HIDE DEF r
  <2>2a. LocalInserted(crdt[s], s, r)
    BY <1>1, LocalInsertFacts DEF r
  <2>2. /\ r.op.id = [clock |-> crdt[s].clock + 1, site |-> s]
        /\ r.engine.clock = crdt[s].clock + 1
    BY <2>2a DEF LocalInserted
  <2>3. Grows(crdt[s].seq, r.engine.seq)
    BY <1>1, LocalInsertGrows DEF r
  <2>4. MovesOn(crdt[s], r.engine)
    BY <1>1, <2>2, <2>3 DEF MovesOn
  <2> QED
    BY <2>1, <2>4
<1>3. CASE Delete(s, pos)
  <2> DEFINE r == LocalDelete(crdt[s], pos)
  <2>1. crdt' = [crdt EXCEPT ![s] = r.engine] /\ VisibleIter(crdt[s].seq, pos) # {}
    BY <1>3 DEF Delete, Commit
  <2> HIDE DEF r
  <2>2. r.engine.clock = crdt[s].clock + 1 /\ Grows(crdt[s].seq, r.engine.seq)
    BY <1>1, <2>1, LocalDeleteOK, LocalDeleteGrows DEF r
  <2>3. MovesOn(crdt[s], r.engine)
    BY <1>1, <2>2 DEF MovesOn
  <2> QED
    BY <2>1, <2>3
<1>4. CASE DeleteOutOfRange(s, pos)
  <2> DEFINE e == LocalDeleteThrows(crdt[s])
  <2>1. crdt' = [crdt EXCEPT ![s] = e]
    BY <1>4 DEF DeleteOutOfRange
  <2> HIDE DEF e
  <2>2. e.clock = crdt[s].clock + 1 /\ e.seq = crdt[s].seq
    BY <1>1, LocalDeleteThrowsOK DEF e
  <2>3. MovesOn(crdt[s], e)
    BY <1>1, <2>2, GrowsItself DEF MovesOn
  <2> QED
    BY <2>1, <2>3
<1> QED
  BY <1>2, <1>3, <1>4

LEMMA ReceiveMovesOn ==
  ASSUME IInv, NEW s \in Sites, Receive(s)
  PROVE  \E e : crdt' = [crdt EXCEPT ![s] = e] /\ MovesOn(crdt[s], e)
<1>1. PICK op \in BagToSet(net[s]) : Park(s, op) \/ Apply(s, op)
  BY DEF Receive
<1>2. op \in Issued
  BY <1>1 DEF IInv, TransitInv, BagToSet
<1>3. CASE Park(s, op)
  <2>1. crdt' = [crdt EXCEPT ![s] = crdt[s]]
    BY <1>3 DEF Park, IInv, TypeOK
  <2>2. MovesOn(crdt[s], crdt[s])
    BY EngineFields, GrowsItself DEF MovesOn, IInv, EnginesInv, EngineOK
  <2> QED
    BY <2>1, <2>2
<1>4. CASE Apply(s, op)
  BY <1>2, <1>4, ApplyMovesOn
<1> QED
  BY <1>1, <1>3, <1>4

\* When one site moves on and the others do nothing, all move on.
LEMMA OneMovesOn ==
  ASSUME IInv, NEW t \in Sites,
         \E e : crdt' = [crdt EXCEPT ![t] = e] /\ MovesOn(crdt[t], e)
  PROVE  \A s \in Sites : MovesOn(crdt[s], crdt'[s])
<1> SUFFICES ASSUME NEW s \in Sites PROVE MovesOn(crdt[s], crdt'[s])
  OBVIOUS
<1>1. MovesOn(crdt[s], crdt[s])
  BY EngineFields, GrowsItself DEF MovesOn, IInv, EnginesInv, EngineOK
<1>2. crdt \in [Sites -> Engine]
  BY DEF IInv, TypeOK
<1>3. CASE s = t
  BY <1>2, <1>3
<1>4. CASE s # t
  BY <1>1, <1>2, <1>4
<1> QED
  BY <1>3, <1>4

LEMMA NextMovesOn ==
  ASSUME IInv, [Next]_vars
  PROVE  \A s \in Sites : MovesOn(crdt[s], crdt'[s])
<1>1. CASE UNCHANGED vars
  <2>1. \A s \in Sites : MovesOn(crdt[s], crdt[s])
    BY EngineFields, GrowsItself DEF MovesOn, IInv, EnginesInv, EngineOK
  <2> QED
    BY <1>1, <2>1 DEF vars
<1>2. CASE Next
  <2>1. PICK t \in Sites :
          \/ \E pos : Insert(t, pos) \/ Delete(t, pos) \/ DeleteOutOfRange(t, pos)
          \/ Receive(t)
    BY <1>2 DEF Next
  <2>2. \E e : crdt' = [crdt EXCEPT ![t] = e] /\ MovesOn(crdt[t], e)
    BY <2>1, EditMovesOn, ReceiveMovesOn
  <2> QED
    BY <2>2, OneMovesOn
<1> QED
  BY <1>1, <1>2

-----------------------------------------------------------------------------
(* The theorems.                                                           *)

\* The invariant holds of every reachable state.
THEOREM Invariance == Spec => []IInv
<1>1. Init => IInv
  BY InitOK
<1>2. IInv /\ [Next]_vars => IInv'
  BY NextOK
<1> QED
  BY <1>1, <1>2, PTL DEF Spec

\* The variables keep their types.
THEOREM TypeCorrect == Spec => []TypeOK
<1>1. IInv => TypeOK
  BY DEF IInv
<1> QED
  BY <1>1, Invariance, PTL

\* No site ever gives a character an identifier that names another one.
THEOREM IdentifiersUnique == Spec => []NextIDFresh
<1>1. IInv => NextIDFresh
  <2> SUFFICES ASSUME IInv, NEW s \in Sites, NEW op \in Issued, op.id = NextID(s)
               PROVE  FALSE
    BY DEF NextIDFresh
  <2>1. op.id.site = s /\ op.id.clock = crdt[s].clock + 1
    BY DEF NextID
  <2>2. op.id.clock <= crdt[s].clock
    BY <2>1 DEF IInv, IssuedInv
  <2>3. crdt[s].clock \in Nat
    BY EngineFields DEF IInv, EnginesInv
  <2> QED
    BY <2>1, <2>2, <2>3
<1> QED
  BY <1>1, Invariance, PTL

\* The left neighbour of a node is an older node before it, at every site.
THEOREM LeftNeighborsBefore == Spec => []LeftNeighborBefore
<1>1. IInv => LeftNeighborBefore
  BY DEF IInv, EnginesInv, EngineOK, WellFormed, LeftBefore, LeftNeighborBefore
<1> QED
  BY <1>1, Invariance, PTL

\* What every list, operation and pending queue owes to the operations issued.
THEOREM HistoryInvariance == Spec => []HistoryInv
<1>1. Init => HistoryInv
  BY InitHistory
<1>2. IInv /\ HistoryInv /\ [Next]_vars => HistoryInv'
  BY NextHistory
<1> QED
  BY <1>1, <1>2, Invariance, PTL DEF Spec

\* Any two characters that two editors both hold stand in the same order in
\* both, for any number of editors and operations and on any network.
THEOREM SitesAgreeOnOrder == Spec => []OrderAgreement
<1>1. IInv /\ HistoryInv => OrderAgreement
  <2> SUFFICES ASSUME IInv, HistoryInv, NEW r \in Sites, NEW s \in Sites,
                      NEW x \in Ids(crdt[r].seq) \cap Ids(crdt[s].seq),
                      NEW y \in Ids(crdt[r].seq) \cap Ids(crdt[s].seq),
                      Idx(crdt[r].seq, x) < Idx(crdt[r].seq, y)
               PROVE  Idx(crdt[s].seq, x) < Idx(crdt[s].seq, y)
    BY DEF OrderAgreement
  <2>1. WellFormed(crdt[r].seq) /\ WellFormed(crdt[s].seq)
    BY DEF IInv, EnginesInv, EngineOK
  <2>2. SameLefts(crdt[r].seq, crdt[s].seq)
    BY ListsAgree
  <2> QED
    BY <2>1, <2>2, SameOrder
<1> QED
  BY <1>1, Invariance, HistoryInvariance, PTL

\* Two editors that have applied the same operations show the same text, if
\* the network brings no DELETE ahead of its INSERT (without that it is false:
\* applyRemote drops such a DELETE).
THEOREM SitesConverge == ASSUME DeletesInOrder PROVE Spec => []Convergence
<1>1. IInv /\ HistoryInv => Convergence
  <2> SUFFICES ASSUME IInv, HistoryInv, NEW r \in Sites, NEW s \in Sites,
                      applied[r] = applied[s]
               PROVE  GetDocument(crdt[r].seq) = GetDocument(crdt[s].seq)
    BY DEF Convergence
  <2>1. WellFormed(crdt[r].seq) /\ WellFormed(crdt[s].seq)
    BY DEF IInv, EnginesInv, EngineOK
  <2>2. SameLefts(crdt[r].seq, crdt[s].seq) /\ SameLefts(crdt[s].seq, crdt[r].seq)
    BY ListsAgree
  <2>3. /\ Holds(crdt[r].seq, applied[r]) /\ Deleted(crdt[r].seq, applied[r])
        /\ Holds(crdt[s].seq, applied[r]) /\ Deleted(crdt[s].seq, applied[r])
    BY DEF HistoryInv, ListsInv
  <2>4. crdt[r].seq = crdt[s].seq
    BY <2>1, <2>2, <2>3, SameOperationsSameList
  <2> QED
    BY <2>4
<1> QED
  BY <1>1, Invariance, HistoryInvariance, PTL

\* No drain leaves an operation behind that could be applied, and no later
\* edit makes one of those it left applicable.
THEOREM OnlyBlockedArePending == Spec => []PendingBlocked
<1>1. Init => PendingBlocked
  BY DEF Init, PendingBlocked
<1>2. ASSUME IInv, HistoryInv, PendingBlocked, [Next]_vars PROVE PendingBlocked'
  <2>1. CASE UNCHANGED vars
    BY <1>2, <2>1 DEF vars, PendingBlocked
  <2>2. ASSUME NEW s \in Sites, NEW pos \in Positions(s), Insert(s, pos)
        PROVE  PendingBlocked'
    BY <1>2, <2>2, InsertBlocked
  <2>3. ASSUME NEW s \in Sites, NEW pos \in Positions(s),
               Delete(s, pos) \/ DeleteOutOfRange(s, pos)
        PROVE  PendingBlocked'
    BY <1>2, <2>3, DeleteBlocked
  <2>4. ASSUME NEW s \in Sites, Receive(s) PROVE PendingBlocked'
    BY <1>2, <2>4, ReceiveBlocked
  <2> QED
    BY <1>2, <2>1, <2>2, <2>3, <2>4 DEF Next
<1> QED
  BY <1>1, <1>2, Invariance, HistoryInvariance, PTL DEF Spec

\* On a network that loses nothing, every operation is on its way to a site,
\* kept there or applied there.
THEOREM NoOperationLost == ASSUME MinCopies # 0 PROVE Spec => []DeliveryInv
<1>1. Init => DeliveryInv
  <2> SUFFICES ASSUME Init PROVE DeliveryInv
    OBVIOUS
  <2>1. Issued = {} /\ \A s \in Sites : DOMAIN net[s] = {}
    BY DEF Init, Issued, EmptyBag, SetToBag
  <2> QED
    BY <2>1 DEF DeliveryInv, BagsInv, AccountedInv
<1>2. ASSUME IInv, DeliveryInv, [Next]_vars PROVE DeliveryInv'
  <2>1. CASE UNCHANGED vars
    <3>1. Issued' = Issued
      BY <2>1 DEF vars, Issued
    <3> QED
      BY <1>2, <2>1, <3>1 DEF vars, DeliveryInv, BagsInv, AccountedInv
  <2>2. ASSUME NEW s \in Sites, NEW pos \in Positions(s), Insert(s, pos) \/ Delete(s, pos)
        PROVE  DeliveryInv'
    <3>1. \E edit : Commit(s, edit)
      BY <2>2 DEF Insert, Delete
    <3> QED
      BY <1>2, <3>1, CommitDelivers
  <2>3. ASSUME NEW s \in Sites, NEW pos \in Positions(s), DeleteOutOfRange(s, pos)
        PROVE  DeliveryInv'
    <3>1. pending' = pending /\ net' = net /\ applied' = applied
      BY <2>3 DEF DeleteOutOfRange
    <3>2. Issued' = Issued
      BY <3>1 DEF Issued
    <3> QED
      BY <1>2, <3>1, <3>2 DEF DeliveryInv, BagsInv, AccountedInv
  <2>4. ASSUME NEW s \in Sites, Receive(s) PROVE DeliveryInv'
    BY <1>2, <2>4, ReceiveDelivers
  <2> QED
    BY <1>2, <2>1, <2>2, <2>3, <2>4 DEF Next
<1> QED
  BY <1>1, <1>2, Invariance, PTL DEF Spec

\* Once every datagram has been taken in, and none was lost or came ahead of
\* its INSERT, nobody has anything pending and all editors show the same text.
THEOREM DeliveryEndsInSameText ==
  ASSUME MinCopies # 0, DeletesInOrder
  PROVE  Spec => []DeliveredSameText
<1>1. IInv /\ HistoryInv /\ PendingBlocked /\ DeliveryInv /\ Convergence
        => DeliveredSameText
  <2> SUFFICES ASSUME IInv, HistoryInv, PendingBlocked, DeliveryInv, Convergence,
                      \A s \in Sites : net[s] = EmptyBag,
                      NEW r \in Sites, NEW s \in Sites
               PROVE  /\ pending[s] = <<>>
                      /\ GetDocument(crdt[r].seq) = GetDocument(crdt[s].seq)
    BY DEF DeliveredSameText
  <2>1. /\ pending[s] = <<>> /\ applied[s] = Issued
        /\ applied[r] = Issued
    BY NothingToWaitFor DEF DeliveryInv
  <2> QED
    BY <2>1 DEF Convergence
<1> QED
  BY <1>1, Invariance, HistoryInvariance, OnlyBlockedArePending, NoOperationLost,
     SitesConverge, PTL

\* No step takes a node out of a list, moves one before another it stood
\* behind, or brings a deleted character back; and no clock goes back.
THEOREM NothingIsUndone == Spec => NothingUndone
<1>1. IInv /\ [Next]_vars =>
        [\A s \in Sites : LET old == crdt[s].seq  new == crdt'[s].seq IN
           /\ crdt[s].clock <= crdt'[s].clock
           /\ \A i \in DOMAIN old : \E k \in i .. Len(new) :
                new[k].id = old[i].id /\ (old[i].tomb => new[k].tomb)
           /\ \A i, j \in DOMAIN old :
                i < j => Idx(new, old[i].id) < Idx(new, old[j].id)]_vars
  BY NextMovesOn DEF MovesOn, Grows
<1> QED
  BY <1>1, Invariance, PTL DEF Spec, NothingUndone

\* What the user types appears exactly where it was typed, among tombstones and
\* characters of other sites, in a text of any length (rga.cpp:31-36).
THEOREM TypedWhereMeant == Spec => InsertIntent
<1>1. IInv => \A s \in Sites : LET text == GetDocument(crdt[s].seq) IN
                \A pos \in 0 .. Len(text) :
                  Insert(s, pos) =>
                    GetDocument(crdt'[s].seq) = InsertAt(text, pos + 1, NextID(s))
  <2> SUFFICES ASSUME IInv, NEW s \in Sites,
                      NEW pos \in 0 .. Len(GetDocument(crdt[s].seq)), Insert(s, pos)
               PROVE  GetDocument(crdt'[s].seq)
                        = InsertAt(GetDocument(crdt[s].seq), pos + 1, NextID(s))
    OBVIOUS
  <2> DEFINE e == crdt[s]
             edit == LocalInsert(e, s, pos)
             id == [clock |-> e.clock + 1, site |-> s]
  <2>1. crdt' = [crdt EXCEPT ![s] = edit.engine]
    BY DEF Insert, Commit
  <2> HIDE DEF edit
  <2>2. crdt'[s] = edit.engine
    BY <2>1 DEF IInv, TypeOK
  <2>3. EngineOK(e) /\ s \in Nat /\ pos \in 0 .. Len(GetDocument(e.seq))
    BY SitesAssumption DEF IInv, EnginesInv
  <2>4. id = NextID(s)
    BY DEF NextID
  <2>5. id = [clock |-> e.clock + 1, site |-> s]
    OBVIOUS
  <2> HIDE DEF e, id
  <2>6. GetDocument(LocalInsert(e, s, pos).engine.seq)
          = InsertAt(GetDocument(e.seq), pos + 1, id)
    BY <2>3, <2>5, TypedInPlace
  <2> QED
    BY <2>2, <2>4, <2>6 DEF edit, e
<1>2. IInv /\ [Next]_vars =>
        [\A s \in Sites : LET text == GetDocument(crdt[s].seq) IN
           \A pos \in 0 .. Len(text) :
             Insert(s, pos) =>
               GetDocument(crdt'[s].seq) = InsertAt(text, pos + 1, NextID(s))]_vars
  BY <1>1
<1> QED
  BY <1>2, Invariance, PTL DEF Spec, InsertIntent
=============================================================================
