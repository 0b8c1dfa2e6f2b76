-------------------------- MODULE ExperimentProofs --------------------------
(***************************************************************************)
(* Proofs about Experiment: what the delays and drops that the scripts      *)
(* compute from the logs have to do with what happened, for any number of   *)
(* peers, clocks that differ by any constant, and any network.              *)
(***************************************************************************)
EXTENDS Experiment, FiniteSetTheorems, NaturalsInduction, WellFoundedInduction,
        SequenceTheorems, TLAPS

Keys == Peers \X Nat
Ops == [type : {"INSERT", "DELETE"}, key : Keys]
LogLine == [event : {"SEND", "APPLY"}, key : Keys, ts : Nat, unit : {"us", "ms"},
            type : {"INSERT", "DELETE", "LOAD"}, at : Nat]

TypeInv ==
  /\ now \in Nat
  /\ skew \in [Peers -> Nat]
  /\ unit \in {"us", "ms"}
  /\ up \subseteq Peers
  /\ nodes \in [Peers -> SUBSET Keys] /\ \A p \in Peers : IsFiniteSet(nodes[p])
  /\ tombs \in [Peers -> SUBSET Keys]
  /\ outgoing \in [Peers -> Seq(Ops)]
  /\ DOMAIN net = Peers /\ \A p \in Peers : BagToSet(net[p]) \subseteq Ops
  /\ log \in [Peers -> Seq(LogLine)]

\* A peer that has not started has sent and logged nothing.
Silent == \A p \in Peers \ up : outgoing[p] = <<>> /\ log[p] = <<>>

\* A line has the time of its peer's clock, and the lines of a log are in order.
StampAt(p, at) == IF unit = "us" THEN at + skew[p] ELSE (at + skew[p]) \div 1000
Stamped ==
  \A p \in Peers : \A i \in DOMAIN log[p] :
    /\ log[p][i].unit = unit
    /\ log[p][i].ts = StampAt(p, log[p][i].at)
    /\ log[p][i].at <= now
InOrder ==
  \A p \in Peers : \A i, j \in DOMAIN log[p] : i <= j => log[p][i].at <= log[p][j].at

\* No INSERT is received before it was sent.
SentBy(logs, key, at) ==
  \E p \in Peers : \E i \in DOMAIN logs[p] :
    logs[p][i].event = "SEND" /\ logs[p][i].key = key /\ logs[p][i].at <= at
InsertsSent ==
  \A q \in Peers : \A op \in BagToSet(net[q]) : op.type = "INSERT" => SentBy(log, op.key, now)
AppliesSent ==
  \A q \in Peers : \A i \in DOMAIN log[q] :
    log[q][i].event = "APPLY" /\ log[q][i].type = "INSERT"
      => SentBy(log, log[q][i].key, log[q][i].at)

LogInv == /\ TypeInv /\ Silent /\ Stamped /\ InOrder /\ InsertsSent /\ AppliesSent

-----------------------------------------------------------------------------
(* The invariant.                                                          *)

LEMMA InitInv == ASSUME Init PROVE LogInv
<1>1. skew \in [Peers -> Nat] /\ unit \in {"us", "ms"}
  BY ClocksAssumption DEF Init
<1>2. \A p \in Peers : nodes[p] = {} /\ log[p] = <<>> /\ outgoing[p] = <<>> /\ net[p] = EmptyBag
  BY DEF Init
<1>3. BagToSet(EmptyBag) = {}
  BY DEF BagToSet, EmptyBag, SetToBag
<1>4. TypeInv
  <2>1. now \in Nat /\ up \subseteq Peers
    BY DEF Init
  <2>2. /\ nodes \in [Peers -> SUBSET Keys] /\ tombs \in [Peers -> SUBSET Keys]
        /\ outgoing \in [Peers -> Seq(Ops)] /\ log \in [Peers -> Seq(LogLine)]
        /\ DOMAIN net = Peers
    BY DEF Init
  <2>3. \A p \in Peers : IsFiniteSet(nodes[p]) /\ BagToSet(net[p]) \subseteq Ops
    BY <1>2, <1>3, FS_EmptySet
  <2> QED
    BY <1>1, <2>1, <2>2, <2>3 DEF TypeInv
<1>5. \A p \in Peers : DOMAIN log[p] = {}
  BY <1>2
<1> QED
  BY <1>2, <1>3, <1>4, <1>5 DEF LogInv, Silent, Stamped, InOrder, InsertsSent, AppliesSent

LEMMA LineFacts ==
  ASSUME LogInv, NEW p \in Peers, NEW event \in {"SEND", "APPLY"}, NEW key \in Keys,
         NEW type \in {"INSERT", "DELETE", "LOAD"},
         NEW line, line = Line(p, event, key, type)
  PROVE  /\ line \in LogLine
         /\ line.event = event /\ line.key = key /\ line.type = type
         /\ line.unit = unit /\ line.ts = StampAt(p, now) /\ line.at = now
<1>1. /\ now \in Nat /\ skew[p] \in Nat /\ unit \in {"us", "ms"}
  BY DEF LogInv, TypeInv
<1>2. Stamp(p) = StampAt(p, now) /\ Stamp(p) \in Nat
  BY <1>1 DEF Stamp, StampAt
<1>3. line = [event |-> event, key |-> key, ts |-> Stamp(p), unit |-> unit,
              type |-> type, at |-> now]
  BY DEF Line
<1> QED
  BY <1>1, <1>2, <1>3 DEF LogLine

\* A line more in one log.
LEMMA AppendLine ==
  ASSUME LogInv, NEW p \in Peers, p \in up, NEW line \in LogLine,
         line.unit = unit, line.ts = StampAt(p, now), line.at = now,
         (line.event = "APPLY" /\ line.type = "INSERT") => SentBy(log, line.key, now),
         log' = [log EXCEPT ![p] = Append(@, line)],
         UNCHANGED <<now, skew, unit, up>>
  PROVE  /\ log' \in [Peers -> Seq(LogLine)]
         /\ \A q \in Peers \ up : log'[q] = log[q]
         /\ Stamped' /\ InOrder' /\ AppliesSent'
         /\ \A key, at : SentBy(log, key, at) => SentBy(log', key, at)
         /\ line.event = "SEND" => SentBy(log', line.key, now)
<1>1. /\ log \in [Peers -> Seq(LogLine)] /\ log[p] \in Seq(LogLine) /\ Len(log[p]) \in Nat
      /\ now \in Nat
  BY DEF LogInv, TypeInv
<1> DEFINE m == Len(log[p]) + 1
           new == Append(log[p], line)
<1>2. /\ new \in Seq(LogLine) /\ Len(new) = m /\ DOMAIN new = 1 .. m /\ m \in DOMAIN new /\ new[m] = line
      /\ DOMAIN log[p] = 1 .. m - 1 /\ \A i \in DOMAIN log[p] : i \in DOMAIN new /\ new[i] = log[p][i]
      /\ m \in Nat /\ \A i \in DOMAIN new : i = m \/ i \in DOMAIN log[p]
  BY <1>1
<1>3. \A q \in Peers : log'[q] = IF q = p THEN new ELSE log[q]
  BY <1>1
<1>4. log' \in [Peers -> Seq(LogLine)]
  BY <1>1, <1>2
<1> HIDE DEF new, m
<1>5. \A q \in Peers : \A i \in DOMAIN log[q] : i \in DOMAIN log'[q] /\ log'[q][i] = log[q][i]
  BY <1>2, <1>3
<1>6. \A q \in Peers : \A i \in DOMAIN log'[q] :
        (i \in DOMAIN log[q] /\ log'[q][i] = log[q][i]) \/ (q = p /\ i = m /\ log'[q][i] = line)
  BY <1>2, <1>3
<1>7. Stamped'
  <2> SUFFICES ASSUME NEW q \in Peers, NEW i \in DOMAIN log'[q]
               PROVE  /\ log'[q][i].unit = unit
                      /\ log'[q][i].ts = StampAt(q, log'[q][i].at)
                      /\ log'[q][i].at <= now
    BY DEF Stamped, StampAt
  <2>1. CASE i \in DOMAIN log[q] /\ log'[q][i] = log[q][i]
    BY <2>1 DEF LogInv, Stamped
  <2>2. CASE q = p /\ i = m /\ log'[q][i] = line
    BY <1>1, <2>2
  <2> QED
    BY <1>6, <2>1, <2>2
<1>8. InOrder'
  <2> SUFFICES ASSUME NEW q \in Peers, NEW i \in DOMAIN log'[q], NEW j \in DOMAIN log'[q], i <= j
               PROVE  log'[q][i].at <= log'[q][j].at
    BY DEF InOrder
  <2>1. CASE j \in DOMAIN log[q] /\ log'[q][j] = log[q][j]
    <3>1. i \in DOMAIN log[q]
      <4>1. log[q] \in Seq(LogLine)
        BY <1>1
      <4>2. log'[q] \in Seq(LogLine)
        BY <1>4
      <4> QED
        BY <2>1, <4>1, <4>2
    <3>2. log'[q][i] = log[q][i]
      BY <1>5, <3>1
    <3> QED
      BY <2>1, <3>1, <3>2 DEF LogInv, InOrder
  <2>2. CASE q = p /\ j = m /\ log'[q][j] = line
    <3>1. CASE i \in DOMAIN log[q] /\ log'[q][i] = log[q][i]
      BY <2>2, <3>1 DEF LogInv, Stamped
    <3>2. CASE i = m /\ log'[q][i] = line
      BY <1>1, <2>2, <3>2
    <3> QED
      BY <1>6, <3>1, <3>2
  <2> QED
    BY <1>6, <2>1, <2>2
<1>9. \A key, at : SentBy(log, key, at) => SentBy(log', key, at)
  BY <1>5 DEF SentBy
<1>10. AppliesSent'
  <2> SUFFICES ASSUME NEW q \in Peers, NEW i \in DOMAIN log'[q],
                      log'[q][i].event = "APPLY", log'[q][i].type = "INSERT"
               PROVE  SentBy(log', log'[q][i].key, log'[q][i].at)
    BY DEF AppliesSent, SentBy
  <2>1. CASE i \in DOMAIN log[q] /\ log'[q][i] = log[q][i]
    BY <1>9, <2>1 DEF LogInv, AppliesSent
  <2>2. CASE q = p /\ i = m /\ log'[q][i] = line
    BY <1>9, <2>2
  <2> QED
    BY <1>6, <2>1, <2>2
<1>11. line.event = "SEND" => SentBy(log', line.key, now)
  <2>1. m \in DOMAIN log'[p] /\ log'[p][m] = line
    BY <1>2, <1>3
  <2> QED
    BY <1>1, <2>1 DEF SentBy
<1>12. \A q \in Peers \ up : log'[q] = log[q]
  BY <1>3
<1> QED
  BY <1>4, <1>7, <1>8, <1>9, <1>10, <1>11, <1>12

LEMMA TickInv == ASSUME LogInv, Tick PROVE LogInv'
<1>1. /\ now' \in Nat /\ now <= now'
      /\ skew' = skew /\ unit' = unit /\ up' = up /\ nodes' = nodes /\ tombs' = tombs
      /\ outgoing' = outgoing /\ net' = net /\ log' = log
  BY ClocksAssumption DEF Tick, LogInv, TypeInv
<1>2. TypeInv' /\ Silent' /\ InOrder' /\ AppliesSent'
  BY <1>1 DEF LogInv, TypeInv, Silent, InOrder, AppliesSent
<1>3. log \in [Peers -> Seq(LogLine)] /\ now \in Nat
  BY DEF LogInv, TypeInv
<1>4. \A p \in Peers : \A i \in DOMAIN log[p] : log[p][i].at \in Nat
  <2> SUFFICES ASSUME NEW p \in Peers, NEW i \in DOMAIN log[p] PROVE log[p][i].at \in Nat
    OBVIOUS
  <2>1. log[p] \in Seq(LogLine)
    BY <1>3
  <2>2. log[p][i] \in LogLine
    BY <2>1
  <2> QED
    BY <2>2 DEF LogLine
<1>5. Stamped'
  BY <1>1, <1>3, <1>4 DEF LogInv, Stamped, StampAt
<1>6. \A key : SentBy(log, key, now) => SentBy(log', key, now')
  BY <1>1, <1>3, <1>4 DEF SentBy
<1>7. InsertsSent'
  BY <1>1, <1>6 DEF LogInv, InsertsSent
<1> QED
  BY <1>2, <1>5, <1>7 DEF LogInv

\* A key pressed changes the document and the queue of its peer alone.
LEMMA EditInv ==
  ASSUME LogInv, NEW p \in up, NEW keys \in SUBSET Keys, NEW dead \in SUBSET Keys,
         NEW op \in Ops, IsFiniteSet(keys),
         nodes' = [nodes EXCEPT ![p] = keys],
         tombs' = [tombs EXCEPT ![p] = dead],
         outgoing' = [outgoing EXCEPT ![p] = Append(@, op)],
         UNCHANGED <<now, skew, unit, up, net, log>>
  PROVE  LogInv'
<1>1. /\ p \in Peers /\ outgoing \in [Peers -> Seq(Ops)]
      /\ nodes \in [Peers -> SUBSET Keys] /\ tombs \in [Peers -> SUBSET Keys]
      /\ \A q \in Peers : IsFiniteSet(nodes[q])
  BY DEF LogInv, TypeInv
<1>2. outgoing' \in [Peers -> Seq(Ops)]
  BY <1>1
<1>3. nodes' \in [Peers -> SUBSET Keys] /\ tombs' \in [Peers -> SUBSET Keys]
  BY <1>1
<1>4. \A q \in Peers : IsFiniteSet(nodes'[q])
  BY <1>1
<1>5. TypeInv'
  BY <1>2, <1>3, <1>4 DEF LogInv, TypeInv
<1>6. Silent'
  <2>1. \A q \in Peers \ up : outgoing'[q] = outgoing[q]
    BY <1>1
  <2> QED
    BY <2>1 DEF LogInv, Silent
<1>7. Stamped' /\ InOrder'
  BY DEF LogInv, Stamped, StampAt, InOrder
<1>8. InsertsSent' /\ AppliesSent'
  BY DEF LogInv, InsertsSent, AppliesSent
<1> QED
  BY <1>5, <1>6, <1>7, <1>8 DEF LogInv

LEMMA InsertInv == ASSUME LogInv, NEW p \in Peers, Insert(p) PROVE LogInv'
<1> DEFINE own == {k \in nodes[p] : k[1] = p}
           key == <<p, Cardinality(own) + 1>>
           keys == nodes[p] \cup {key}
           dead == tombs[p]
           op == [type |-> "INSERT", key |-> key]
<1>1. p \in up
  BY DEF Insert, MayEdit
<1>2. nodes[p] \in SUBSET Keys /\ IsFiniteSet(nodes[p]) /\ dead \in SUBSET Keys
      /\ tombs \in [Peers -> SUBSET Keys]
  BY DEF LogInv, TypeInv
<1>3. Cardinality(own) \in Nat
  <2>1. IsFiniteSet(own)
    <3>1. own \in SUBSET nodes[p]
      OBVIOUS
    <3> HIDE DEF own
    <3> QED
      BY <1>2, <3>1, FS_Subset
  <2> HIDE DEF own
  <2> QED
    BY <2>1, FS_CardinalityType
<1>4. nodes' = [nodes EXCEPT ![p] = keys]
      /\ outgoing' = [outgoing EXCEPT ![p] = Append(@, op)]
      /\ UNCHANGED <<now, skew, unit, up, tombs, net, log>>
  BY DEF Insert
<1>5. tombs' = [tombs EXCEPT ![p] = dead]
  BY <1>2, <1>4
<1> HIDE DEF own
<1>6. key \in Keys
  BY <1>3 DEF Keys
<1> HIDE DEF key
<1>7. op \in Ops
  BY <1>6 DEF Ops
<1>8. keys \in SUBSET Keys /\ IsFiniteSet(keys)
  BY <1>2, <1>6, FS_AddElement
<1> HIDE DEF keys, dead, op
<1> QED
  BY <1>1, <1>2, <1>4, <1>5, <1>7, <1>8, EditInv

LEMMA DeleteInv == ASSUME LogInv, NEW p \in Peers, Delete(p) PROVE LogInv'
<1>1. p \in up
  BY DEF Delete, MayEdit
<1>2. /\ nodes \in [Peers -> SUBSET Keys] /\ IsFiniteSet(nodes[p]) /\ tombs[p] \in SUBSET Keys
      /\ nodes[p] \in SUBSET Keys
  BY DEF LogInv, TypeInv
<1>3. PICK key \in nodes[p] \ tombs[p] :
        /\ tombs' = [tombs EXCEPT ![p] = @ \cup {key}]
        /\ outgoing' = [outgoing EXCEPT ![p] = Append(@, [type |-> "DELETE", key |-> key])]
  BY DEF Delete
<1> DEFINE op == [type |-> "DELETE", key |-> key]
           dead == tombs[p] \cup {key}
           keys == nodes[p]
<1>4. UNCHANGED <<now, skew, unit, up, nodes, net, log>>
  BY DEF Delete
<1>5. op \in Ops /\ dead \in SUBSET Keys /\ keys \in SUBSET Keys /\ IsFiniteSet(keys)
  BY <1>2 DEF Ops
<1>6. /\ nodes' = [nodes EXCEPT ![p] = keys]
      /\ tombs' = [tombs EXCEPT ![p] = dead]
      /\ outgoing' = [outgoing EXCEPT ![p] = Append(@, op)]
  BY <1>2, <1>3, <1>4
<1> HIDE DEF op, dead, keys
<1> QED
  BY <1>1, <1>4, <1>5, <1>6, EditInv

LEMMA SendInv == ASSUME LogInv, NEW p \in Peers, Send(p) PROVE LogInv'
<1> DEFINE op == Head(outgoing[p])
           line == Line(p, "SEND", op.key, op.type)
<1>1. /\ outgoing \in [Peers -> Seq(Ops)] /\ outgoing[p] \in Seq(Ops) /\ outgoing[p] # <<>>
      /\ now \in Nat
  BY DEF Send, LogInv, TypeInv
<1>2. p \in up
  BY <1>1 DEF LogInv, Silent
<1>3. op \in Ops
  BY <1>1
<1>4. /\ log' = [log EXCEPT ![p] = Append(@, line)]
      /\ net' = [q \in Peers |-> IF q = p THEN net[q] ELSE net[q] (+) [o \in {op} |-> Copies[q]]]
      /\ outgoing' = [outgoing EXCEPT ![p] = Tail(@)]
      /\ UNCHANGED <<now, skew, unit, up, nodes, tombs>>
  BY DEF Send
<1> HIDE DEF op
<1>5. op.key \in Keys /\ op.type \in {"INSERT", "DELETE"}
  BY <1>3 DEF Ops
<1>6. /\ line \in LogLine
      /\ line.event = "SEND" /\ line.key = op.key
      /\ line.unit = unit /\ line.ts = StampAt(p, now) /\ line.at = now
  <2>1. "SEND" \in {"SEND", "APPLY"} /\ op.type \in {"INSERT", "DELETE", "LOAD"}
    BY <1>5
  <2> QED
    BY <1>5, <2>1, LineFacts
<1> HIDE DEF line
<1>7. /\ log' \in [Peers -> Seq(LogLine)]
      /\ \A q \in Peers \ up : log'[q] = log[q]
      /\ Stamped' /\ InOrder' /\ AppliesSent'
      /\ \A key, at : SentBy(log, key, at) => SentBy(log', key, at)
      /\ SentBy(log', op.key, now)
  BY <1>2, <1>4, <1>6, AppendLine
<1>8. \A q \in Peers : BagToSet(net'[q]) \subseteq BagToSet(net[q]) \cup {op}
  <2> SUFFICES ASSUME NEW q \in Peers
               PROVE  BagToSet(net'[q]) \subseteq BagToSet(net[q]) \cup {op}
    OBVIOUS
  <2>1. CASE q = p
    BY <1>4, <2>1
  <2>2. CASE q # p
    <3>1. net'[q] = net[q] (+) [o \in {op} |-> Copies[q]]
      BY <1>4, <2>2
    <3> QED
      BY <3>1 DEF BagToSet, (+)
  <2> QED
    BY <2>1, <2>2
<1>9. DOMAIN net' = Peers
  BY <1>4
<1>10. outgoing' \in [Peers -> Seq(Ops)]
  BY <1>1, <1>4
<1>11. TypeInv'
  <2>1. \A q \in Peers : BagToSet(net'[q]) \subseteq Ops
    BY <1>3, <1>8 DEF LogInv, TypeInv
  <2> QED
    BY <1>4, <1>7, <1>9, <1>10, <2>1 DEF LogInv, TypeInv
<1>12. Silent'
  <2>1. \A q \in Peers \ up : outgoing'[q] = outgoing[q]
    BY <1>1, <1>2, <1>4
  <2> QED
    BY <1>4, <1>7, <2>1 DEF LogInv, Silent
<1>13. InsertsSent'
  <2> SUFFICES ASSUME NEW q \in Peers, NEW o \in BagToSet(net'[q]), o.type = "INSERT"
               PROVE  SentBy(log', o.key, now)
    BY <1>4 DEF InsertsSent
  <2>1. CASE o \in BagToSet(net[q])
    BY <1>7, <2>1 DEF LogInv, InsertsSent
  <2>2. CASE o = op
    BY <1>7, <2>2
  <2> QED
    BY <1>8, <2>1, <2>2
<1> QED
  BY <1>7, <1>11, <1>12, <1>13 DEF LogInv

LEMMA ReceiveInv == ASSUME LogInv, NEW q \in Peers, Receive(q) PROVE LogInv'
<1>1. /\ q \in up /\ now \in Nat /\ DOMAIN net = Peers
      /\ nodes \in [Peers -> SUBSET Keys] /\ \A p \in Peers : IsFiniteSet(nodes[p])
      /\ tombs \in [Peers -> SUBSET Keys]
      /\ nodes[q] \in SUBSET Keys /\ IsFiniteSet(nodes[q]) /\ tombs[q] \in SUBSET Keys
  BY DEF Receive, LogInv, TypeInv
<1>2. PICK op \in BagToSet(net[q]) :
        /\ net' = [net EXCEPT ![q] = @ (-) SetToBag({op})]
        /\ nodes' = IF op.type = "INSERT" THEN [nodes EXCEPT ![q] = @ \cup {op.key}] ELSE nodes
        /\ tombs' = [tombs EXCEPT ![q] = TombsAfter(q, op)]
        /\ log' = [log EXCEPT ![q] = Append(@, Line(q, "APPLY", op.key, op.type))]
  BY DEF Receive
<1>3. UNCHANGED <<now, skew, unit, up, outgoing>>
  BY DEF Receive
<1>4. op \in Ops /\ op.key \in Keys /\ op.type \in {"INSERT", "DELETE"}
  <2>1. op \in Ops
    BY <1>1 DEF LogInv, TypeInv
  <2> QED
    BY <2>1 DEF Ops
<1> DEFINE line == Line(q, "APPLY", op.key, op.type)
<1>5. /\ line \in LogLine
      /\ line.event = "APPLY" /\ line.key = op.key /\ line.type = op.type
      /\ line.unit = unit /\ line.ts = StampAt(q, now) /\ line.at = now
  <2>1. "APPLY" \in {"SEND", "APPLY"} /\ op.type \in {"INSERT", "DELETE", "LOAD"}
    BY <1>4
  <2> QED
    BY <1>4, <2>1, LineFacts
<1>6. log' = [log EXCEPT ![q] = Append(@, line)]
  BY <1>2
<1> HIDE DEF line
<1>7. line.type = "INSERT" => SentBy(log, line.key, now)
  BY <1>5 DEF LogInv, InsertsSent
<1>8. /\ log' \in [Peers -> Seq(LogLine)]
      /\ \A p \in Peers \ up : log'[p] = log[p]
      /\ Stamped' /\ InOrder' /\ AppliesSent'
      /\ \A key, at : SentBy(log, key, at) => SentBy(log', key, at)
  BY <1>1, <1>3, <1>5, <1>6, <1>7, AppendLine
<1>9. /\ DOMAIN net' = Peers
      /\ \A p \in Peers : BagToSet(net'[p]) \subseteq BagToSet(net[p])
  <2>1. DOMAIN net' = Peers /\ net'[q] = net[q] (-) SetToBag({op})
        /\ \A p \in Peers : p # q => net'[p] = net[p]
    BY <1>1, <1>2
  <2>2. BagToSet(net'[q]) \subseteq BagToSet(net[q])
    BY <2>1 DEF BagToSet, (-)
  <2> QED
    BY <2>1, <2>2
<1>10. nodes' \in [Peers -> SUBSET Keys] /\ \A p \in Peers : IsFiniteSet(nodes'[p])
  <2>1. CASE op.type = "INSERT"
    <3>1. nodes' = [nodes EXCEPT ![q] = nodes[q] \cup {op.key}]
      BY <1>2, <2>1
    <3>2. IsFiniteSet(nodes[q] \cup {op.key}) /\ nodes[q] \cup {op.key} \in SUBSET Keys
      BY <1>1, <1>4, FS_AddElement
    <3> QED
      BY <1>1, <3>1, <3>2
  <2>2. CASE op.type # "INSERT"
    BY <1>1, <1>2, <2>2
  <2> QED
    BY <2>1, <2>2
<1>11. tombs' \in [Peers -> SUBSET Keys]
  <2>1. TombsAfter(q, op) \in SUBSET Keys
    BY <1>1 DEF TombsAfter
  <2> QED
    BY <1>1, <1>2, <2>1
<1>12. TypeInv'
  BY <1>3, <1>8, <1>9, <1>10, <1>11 DEF LogInv, TypeInv
<1>13. Silent'
  BY <1>3, <1>8 DEF LogInv, Silent
<1>14. InsertsSent'
  BY <1>3, <1>8, <1>9 DEF LogInv, InsertsSent
<1> QED
  BY <1>8, <1>12, <1>13, <1>14 DEF LogInv

LEMMA ListOfSet ==
  ASSUME NEW S, IsFiniteSet(S)
  PROVE  SetToSeq(S) \in Seq(S)
<1> DEFINE n == Cardinality(S)
<1>1. n \in Nat /\ ExistsBijection(1 .. n, S)
  BY FS_CardinalityType
<1>2. \E f \in [1 .. n -> S] : IsInjective(f)
  BY <1>1 DEF ExistsBijection, Bijection, Injection
<1>3. SetToSeq(S) \in [1 .. n -> S]
  BY <1>2 DEF SetToSeq
<1> QED
  BY <1>1, <1>3

LEMMA JoinInv == ASSUME LogInv, NEW q \in Peers, Join(q) PROVE LogInv'
<1>1. /\ q \notin up /\ up' = up \cup {q}
      /\ UNCHANGED <<now, skew, unit, outgoing, net>>
  BY DEF Join
<1>2. CASE UNCHANGED <<nodes, tombs, log>>
  BY <1>1, <1>2 DEF LogInv, TypeInv, Silent, Stamped, StampAt, InOrder, InsertsSent, AppliesSent
<1>3. ASSUME NEW donor \in up, LoadState(q, donor) PROVE LogInv'
  <2> DEFINE keys == SetToSeq(nodes[donor])
             new == [i \in DOMAIN keys |-> Line(q, "APPLY", keys[i], "LOAD")]
  <2>1. /\ donor \in Peers /\ up \subseteq Peers /\ now \in Nat
        /\ nodes \in [Peers -> SUBSET Keys] /\ \A p \in Peers : IsFiniteSet(nodes[p])
        /\ tombs \in [Peers -> SUBSET Keys] /\ log \in [Peers -> Seq(LogLine)]
    BY DEF LogInv, TypeInv
  <2>2. /\ nodes' = [nodes EXCEPT ![q] = nodes[donor]]
        /\ tombs' = [tombs EXCEPT ![q] = tombs[donor]]
        /\ log' = [log EXCEPT ![q] = new]
    BY <1>3 DEF LoadState
  <2>3. keys \in Seq(nodes[donor])
    BY <2>1, ListOfSet
  <2>4. DOMAIN keys = 1 .. Len(keys) /\ Len(keys) \in Nat
        /\ \A i \in DOMAIN keys : keys[i] \in Keys
    BY <2>1, <2>3
  <2> HIDE DEF keys
  <2>5. \A i \in DOMAIN keys :
          /\ new[i] \in LogLine /\ new[i].type = "LOAD"
          /\ new[i].unit = unit /\ new[i].ts = StampAt(q, now) /\ new[i].at = now
    <3> SUFFICES ASSUME NEW i \in DOMAIN keys
                 PROVE  /\ new[i] \in LogLine /\ new[i].type = "LOAD"
                        /\ new[i].unit = unit /\ new[i].ts = StampAt(q, now) /\ new[i].at = now
      OBVIOUS
    <3> DEFINE line == Line(q, "APPLY", keys[i], "LOAD")
    <3>1. "APPLY" \in {"SEND", "APPLY"} /\ "LOAD" \in {"INSERT", "DELETE", "LOAD"}
          /\ keys[i] \in Keys
      BY <2>4
    <3>2. /\ line \in LogLine /\ line.type = "LOAD"
          /\ line.unit = unit /\ line.ts = StampAt(q, now) /\ line.at = now
      BY <3>1, LineFacts
    <3>3. new[i] = line
      OBVIOUS
    <3> HIDE DEF new, line
    <3> QED
      BY <3>2, <3>3
  <2>6. DOMAIN new = DOMAIN keys
    OBVIOUS
  <2>7. new = [i \in 1 .. Len(keys) |-> new[i]]
    BY <2>4
  <2> HIDE DEF new
  <2>8. new \in Seq(LogLine)
    BY <2>4, <2>5, <2>6, <2>7
  <2>9. log[q] = <<>> /\ DOMAIN log[q] = {}
    BY <1>1 DEF LogInv, Silent
  <2>10. \A p \in Peers : log'[p] = IF p = q THEN new ELSE log[p]
    BY <2>1, <2>2
  <2>11. \A key, at : SentBy(log, key, at) => SentBy(log', key, at)
    <3> SUFFICES ASSUME NEW key, NEW at, SentBy(log, key, at) PROVE SentBy(log', key, at)
      OBVIOUS
    <3>0. PICK p \in Peers : \E i \in DOMAIN log[p] :
            log[p][i].event = "SEND" /\ log[p][i].key = key /\ log[p][i].at <= at
      BY DEF SentBy
    <3>1. PICK i \in DOMAIN log[p] :
            log[p][i].event = "SEND" /\ log[p][i].key = key /\ log[p][i].at <= at
      BY <3>0
    <3>2. p # q
      BY <2>9, <3>1
    <3>3. log'[p] = log[p]
      BY <2>10, <3>2
    <3> QED
      BY <3>1, <3>3 DEF SentBy
  <2>12. TypeInv'
    <3>1. nodes' \in [Peers -> SUBSET Keys] /\ tombs' \in [Peers -> SUBSET Keys]
          /\ log' \in [Peers -> Seq(LogLine)]
      BY <2>1, <2>2, <2>8
    <3>2. \A p \in Peers : IsFiniteSet(nodes'[p])
      BY <2>1, <2>2
    <3> QED
      BY <1>1, <3>1, <3>2 DEF LogInv, TypeInv
  <2>13. Silent'
    BY <1>1, <2>10 DEF LogInv, Silent
  <2>14. Stamped'
    <3> SUFFICES ASSUME NEW p \in Peers, NEW i \in DOMAIN log'[p]
                 PROVE  /\ log'[p][i].unit = unit
                        /\ log'[p][i].ts = StampAt(p, log'[p][i].at)
                        /\ log'[p][i].at <= now
      BY <1>1 DEF Stamped, StampAt
    <3>1. CASE p = q
      BY <2>1, <2>5, <2>6, <2>10, <3>1
    <3>2. CASE p # q
      BY <2>10, <3>2 DEF LogInv, Stamped
    <3> QED
      BY <3>1, <3>2
  <2>15. InOrder'
    <3> SUFFICES ASSUME NEW p \in Peers, NEW i \in DOMAIN log'[p], NEW j \in DOMAIN log'[p], i <= j
                 PROVE  log'[p][i].at <= log'[p][j].at
      BY DEF InOrder
    <3>1. CASE p = q
      BY <2>1, <2>5, <2>6, <2>10, <3>1
    <3>2. CASE p # q
      BY <2>10, <3>2 DEF LogInv, InOrder
    <3> QED
      BY <3>1, <3>2
  <2>16. InsertsSent'
    BY <1>1, <2>11 DEF LogInv, InsertsSent
  <2>17. AppliesSent'
    <3> SUFFICES ASSUME NEW p \in Peers, NEW i \in DOMAIN log'[p],
                        log'[p][i].event = "APPLY", log'[p][i].type = "INSERT"
                 PROVE  SentBy(log', log'[p][i].key, log'[p][i].at)
      BY DEF AppliesSent
    <3>1. p # q
      BY <2>5, <2>6, <2>10
    <3>2. log'[p] = log[p]
      BY <2>10, <3>1
    <3> QED
      BY <2>11, <3>2 DEF LogInv, AppliesSent
  <2> QED
    BY <2>12, <2>13, <2>14, <2>15, <2>16, <2>17 DEF LogInv
<1> QED
  BY <1>2, <1>3 DEF Join

\* What the logs and the network owe to what has been sent holds in every
\* state: stamps are those of the peer's clock, and no INSERT is received
\* before it was sent (pipeline.cpp:100-106, 170-178, 247).
THEOREM LogInvariance == Spec => []LogInv
<1>1. Init => LogInv
  BY InitInv
<1>2. LogInv /\ [Next]_vars => LogInv'
  <2> SUFFICES ASSUME LogInv, [Next]_vars PROVE LogInv'
    OBVIOUS
  <2>1. CASE Tick
    BY <2>1, TickInv
  <2>2. ASSUME NEW p \in Peers, Insert(p) PROVE LogInv'
    BY <2>2, InsertInv
  <2>3. ASSUME NEW p \in Peers, Delete(p) PROVE LogInv'
    BY <2>3, DeleteInv
  <2>4. ASSUME NEW p \in Peers, Send(p) PROVE LogInv'
    BY <2>4, SendInv
  <2>5. ASSUME NEW p \in Peers, Receive(p) PROVE LogInv'
    BY <2>5, ReceiveInv
  <2>6. ASSUME NEW p \in Peers, Join(p) PROVE LogInv'
    BY <2>6, JoinInv
  <2>7. CASE UNCHANGED vars
    BY <2>7 DEF vars, LogInv, TypeInv, Silent, Stamped, StampAt, InOrder, InsertsSent, AppliesSent
  <2> QED
    BY <2>1, <2>2, <2>3, <2>4, <2>5, <2>6, <2>7 DEF Next
<1> QED
  BY <1>1, <1>2, PTL DEF Spec

-----------------------------------------------------------------------------
(* What the scripts load from the logs.                                    *)

LEMMA LeastOfNats ==
  ASSUME NEW T, T \subseteq Nat, T # {}
  PROVE  \E m \in T : \A n \in T : m <= n
<1>1. PICK m \in T : \A n \in T : ~(<<n, m>> \in OpToRel(<, Nat))
  BY NatLessThanWellFounded, WFMin
<1>2. \A n \in T : ~(n < m)
  BY <1>1 DEF OpToRel
<1> QED
  BY <1>2

LEMMA MinFacts ==
  ASSUME NEW T, T \subseteq Nat, T # {}
  PROVE  Min(T) \in T /\ \A n \in T : Min(T) <= n
<1>1. \E m \in T : \A n \in T : m <= n
  BY LeastOfNats
<1> QED
  BY <1>1 DEF Min

LEMMA MaxFacts ==
  ASSUME NEW N \in Nat, NEW T, T \subseteq 0 .. N, T # {}
  PROVE  Max(T) \in T /\ \A n \in T : n <= Max(T)
<1> DEFINE U == {N - n : n \in T}
<1>0. \A n \in T : n \in Nat /\ N - n \in Nat
  OBVIOUS
<1>1. U \subseteq Nat /\ U # {}
  BY <1>0
<1>2. PICK u \in U : \A v \in U : u <= v
  <2> HIDE DEF U
  <2> QED
    BY <1>1, LeastOfNats
<1>3. PICK m \in T : u = N - m
  OBVIOUS
<1>4. \A n \in T : N - m <= N - n
  BY <1>2, <1>3
<1>5. \A n \in T : m >= n
  BY <1>0, <1>4
<1>6. \E x \in T : \A y \in T : x >= y
  BY <1>5
<1> DEFINE x == Max(T)
<1>7. x \in T /\ \A y \in T : x >= y
  BY <1>6 DEF Max
<1> HIDE DEF x
<1>8. \A y \in T : y <= x
  BY <1>7
<1> QED
  BY <1>7, <1>8 DEF x

LEMMA MinIs ==
  ASSUME NEW T, T \subseteq Nat, NEW m \in T, \A n \in T : m <= n
  PROVE  Min(T) = m
<1> DEFINE x == Min(T)
<1>1. x \in T /\ \A n \in T : x <= n
  BY MinFacts
<1> HIDE DEF x
<1>2. x \in Int /\ m \in Int /\ x <= m /\ m <= x
  BY <1>1
<1> QED
  BY <1>2 DEF x

LEMMA MaxIs ==
  ASSUME NEW N \in Nat, NEW T, T \subseteq 0 .. N, N \in T
  PROVE  Max(T) = N
<1> DEFINE x == Max(T)
<1>1. x \in T /\ \A n \in T : n <= x
  BY MaxFacts
<1> HIDE DEF x
<1>2. x \in Int /\ x <= N /\ N <= x
  BY <1>1
<1> QED
  BY <1>2 DEF x

\* The fields of a line, and its stamp in microseconds.
LEMMA LineIsTyped ==
  ASSUME LogInv, NEW p \in Peers, NEW i \in DOMAIN log[p]
  PROVE  /\ log[p] \in Seq(LogLine) /\ DOMAIN log[p] = 1 .. Len(log[p]) /\ Len(log[p]) \in Nat
         /\ log[p][i] \in LogLine
         /\ log[p][i].ts \in Nat /\ log[p][i].at \in Nat /\ log[p][i].key \in Keys
         /\ Micros(log[p][i]) \in Nat
<1>1. log[p] \in Seq(LogLine)
  BY DEF LogInv, TypeInv
<1>2. log[p][i] \in LogLine
  BY <1>1
<1>3. log[p][i].ts \in Nat /\ log[p][i].at \in Nat /\ log[p][i].key \in Keys
  BY <1>2 DEF LogLine
<1>4. Micros(log[p][i]) \in Nat
  BY <1>3 DEF Micros
<1> QED
  BY <1>1, <1>2, <1>3, <1>4

\* at is the stamp of a line of the log of p, of the last one of its key.
StampOf(p, event, key, at) ==
  \E i \in LinesOf(log[p], event, key) : at = Micros(log[p][i])
LastStampOf(p, event, key, at) ==
  \E i \in LinesOf(log[p], event, key) :
    at = Micros(log[p][i]) /\ \A j \in LinesOf(log[p], event, key) : j <= i

\* The last line of each key is the one that parse_log keeps.
LEMMA LastStampsFacts ==
  ASSUME LogInv, NEW p \in Peers, NEW event, NEW key \in KeysOf(log[p], event),
         NEW at, at = LastStamps(log[p], event)[key]
  PROVE  LastStampOf(p, event, key, at) /\ StampOf(p, event, key, at) /\ at \in Nat
<1> DEFINE lines == LinesOf(log[p], event, key)
           m == Max(lines)
<1>1. log[p] \in Seq(LogLine)
  BY DEF LogInv, TypeInv
<1>2. lines \subseteq 0 .. Len(log[p]) /\ Len(log[p]) \in Nat
  BY <1>1 DEF LinesOf
<1>3. lines # {}
  BY DEF LinesOf, KeysOf
<1>4. at = Micros(log[p][m])
  BY DEF LastStamps
<1> HIDE DEF lines
<1>5. m \in lines /\ \A j \in lines : j <= m
  BY <1>2, <1>3, MaxFacts
<1> HIDE DEF m
<1>6. LastStampOf(p, event, key, at) /\ StampOf(p, event, key, at)
  BY <1>4, <1>5 DEF lines, LastStampOf, StampOf
<1>7. m \in DOMAIN log[p]
  BY <1>5 DEF lines, LinesOf
<1> QED
  BY <1>4, <1>6, <1>7, LineIsTyped

Files == [i \in 1 .. NPeers |-> log[i - 1]]
SendMaps  == [i \in 1 .. NPeers |-> LastStamps(log[i - 1], "SEND")]
ApplyMaps == [i \in 1 .. NPeers |-> LastStamps(log[i - 1], "APPLY")]

LEMMA LoadedMaps ==
  /\ load_subdir(Dir.logs) = [sends |-> Update(SendMaps), applies |-> Merge(ApplyMaps, Min)]
  /\ load_scalability_subdir(Dir.logs)
       = [sends |-> Update(SendMaps), max_applies |-> Merge(ApplyMaps, Max)]
<1> DEFINE parsed == Parsed(Files, parse_log)
<1>1. Dir.logs = Files
  BY DEF Dir, Files
<1>2. /\ DOMAIN parsed = 1 .. NPeers
      /\ \A i \in 1 .. NPeers : parsed[i] = parse_log(log[i - 1])
  BY DEF Parsed, Files
<1>3. \A i \in 1 .. NPeers : /\ parsed[i].sends = LastStamps(log[i - 1], "SEND")
                             /\ parsed[i].applies = LastStamps(log[i - 1], "APPLY")
  <2> SUFFICES ASSUME NEW i \in 1 .. NPeers
               PROVE  /\ parsed[i].sends = LastStamps(log[i - 1], "SEND")
                      /\ parsed[i].applies = LastStamps(log[i - 1], "APPLY")
    OBVIOUS
  <2> DEFINE one == log[i - 1]
  <2>1. parsed[i] = parse_log(one)
    BY <1>2
  <2> HIDE DEF one, parsed
  <2>2. parse_log(one) = [sends |-> LastStamps(one, "SEND"), applies |-> LastStamps(one, "APPLY")]
    BY DEF parse_log
  <2> QED
    BY <2>1, <2>2 DEF one
<1> HIDE DEF parsed
<1>4. Sends(parsed) = SendMaps /\ Applies(parsed) = ApplyMaps
  BY <1>2, <1>3 DEF Sends, Applies, SendMaps, ApplyMaps
<1>5. load_subdir(Files) = [sends |-> Update(Sends(parsed)), applies |-> Merge(Applies(parsed), Min)]
  BY DEF load_subdir, parsed
<1>6. load_scalability_subdir(Files)
        = [sends |-> Update(Sends(parsed)), max_applies |-> Merge(Applies(parsed), Max)]
  BY DEF load_scalability_subdir, parsed
<1> QED
  BY <1>1, <1>4, <1>5, <1>6

\* all has the keys of the N maps, with a value that one of them has, or the
\* least or the greatest of these values.
OneOf(maps, N, all) ==
  /\ DOMAIN all = UNION {DOMAIN maps[i] : i \in 1 .. N}
  /\ \A key \in DOMAIN all :
       \E i \in 1 .. N : key \in DOMAIN maps[i] /\ all[key] = maps[i][key]
LeastOf(maps, N, all) ==
  /\ OneOf(maps, N, all)
  /\ \A key \in DOMAIN all : \A i \in 1 .. N :
       key \in DOMAIN maps[i] => all[key] <= maps[i][key]
GreatestOf(maps, N, all) ==
  /\ OneOf(maps, N, all)
  /\ \A key \in DOMAIN all : \A i \in 1 .. N :
       key \in DOMAIN maps[i] => maps[i][key] <= all[key]

LEMMA UpdateFacts ==
  ASSUME NEW N \in Nat, NEW maps, DOMAIN maps = 1 .. N
  PROVE  OneOf(maps, N, Update(maps))
<1> DEFINE all == Update(maps)
<1>1. DOMAIN all = UNION {DOMAIN maps[i] : i \in 1 .. N}
  BY DEF Update
<1>2. ASSUME NEW key \in DOMAIN all
      PROVE  \E i \in 1 .. N : key \in DOMAIN maps[i] /\ all[key] = maps[i][key]
  <2> DEFINE having == {i \in DOMAIN maps : key \in DOMAIN maps[i]}
             m == Max(having)
  <2>1. having \subseteq 0 .. N /\ having # {}
    BY <1>1
  <2>2. all[key] = maps[m][key]
    BY DEF Update
  <2>3. m \in having
    <3> HIDE DEF having
    <3> QED
      BY <2>1, MaxFacts
  <2> HIDE DEF m
  <2> QED
    BY <2>2, <2>3
<1> QED
  BY <1>1, <1>2 DEF OneOf

\* The values that the files have for a key.
ValuesOf(maps, key) == {maps[i][key] : i \in {j \in DOMAIN maps : key \in DOMAIN maps[j]}}

LEMMA ValuesFacts ==
  ASSUME NEW N \in Nat, NEW maps, DOMAIN maps = 1 .. N, NEW key,
         \E i \in 1 .. N : key \in DOMAIN maps[i],
         \A i \in 1 .. N : \A k \in DOMAIN maps[i] : maps[i][k] \in Nat
  PROVE  /\ ValuesOf(maps, key) \subseteq Nat /\ ValuesOf(maps, key) # {}
         /\ \A i \in 1 .. N : key \in DOMAIN maps[i] => maps[i][key] \in ValuesOf(maps, key)
         /\ \A v \in ValuesOf(maps, key) :
              \E i \in 1 .. N : key \in DOMAIN maps[i] /\ v = maps[i][key]
BY DEF ValuesOf

LEMMA MergeMinFacts ==
  ASSUME NEW N \in Nat, NEW maps, DOMAIN maps = 1 .. N,
         \A i \in 1 .. N : \A key \in DOMAIN maps[i] : maps[i][key] \in Nat
  PROVE  LeastOf(maps, N, Merge(maps, Min))
<1> DEFINE all == Merge(maps, Min)
<1>1. DOMAIN all = UNION {DOMAIN maps[i] : i \in 1 .. N}
  BY DEF Merge
<1>2. \A key \in DOMAIN all : all[key] = Min(ValuesOf(maps, key))
  BY DEF Merge, ValuesOf
<1> HIDE DEF all
<1>3. ASSUME NEW key \in DOMAIN all
      PROVE  /\ \E i \in 1 .. N : key \in DOMAIN maps[i] /\ all[key] = maps[i][key]
             /\ \A i \in 1 .. N : key \in DOMAIN maps[i] => all[key] <= maps[i][key]
  <2> DEFINE values == ValuesOf(maps, key)
  <2>1. /\ values \subseteq Nat /\ values # {}
        /\ \A i \in 1 .. N : key \in DOMAIN maps[i] => maps[i][key] \in values
        /\ \A v \in values : \E i \in 1 .. N : key \in DOMAIN maps[i] /\ v = maps[i][key]
    <3>1. \E i \in 1 .. N : key \in DOMAIN maps[i]
      BY <1>1
    <3> QED
      BY <3>1, ValuesFacts
  <2>2. all[key] = Min(values)
    BY <1>2
  <2> HIDE DEF values
  <2>3. Min(values) \in values /\ \A v \in values : Min(values) <= v
    BY <2>1, MinFacts
  <2> QED
    BY <2>1, <2>2, <2>3
<1>4. LeastOf(maps, N, all)
  BY <1>1, <1>3 DEF LeastOf, OneOf
<1> QED
  BY <1>4 DEF all

LEMMA MapsFacts ==
  ASSUME LogInv
  PROVE  /\ NPeers \in Nat
         /\ DOMAIN SendMaps = 1 .. NPeers /\ DOMAIN ApplyMaps = 1 .. NPeers
         /\ \A i \in 1 .. NPeers :
              /\ i - 1 \in Peers
              /\ DOMAIN SendMaps[i] = KeysOf(log[i - 1], "SEND")
              /\ DOMAIN ApplyMaps[i] = KeysOf(log[i - 1], "APPLY")
              /\ SendMaps[i] = LastStamps(log[i - 1], "SEND")
              /\ ApplyMaps[i] = LastStamps(log[i - 1], "APPLY")
         /\ \A p \in Peers : p + 1 \in 1 .. NPeers /\ (p + 1) - 1 = p
<1>1. NPeers \in Nat
  BY ClocksAssumption
<1>2. \A i \in 1 .. NPeers : i - 1 \in Peers
  BY <1>1 DEF Peers
<1>3. \A p \in Peers : p + 1 \in 1 .. NPeers /\ (p + 1) - 1 = p
  BY <1>1 DEF Peers
<1>4. \A i \in 1 .. NPeers :
        /\ SendMaps[i] = LastStamps(log[i - 1], "SEND")
        /\ ApplyMaps[i] = LastStamps(log[i - 1], "APPLY")
  BY DEF SendMaps, ApplyMaps
<1>5. \A i \in 1 .. NPeers :
        /\ DOMAIN SendMaps[i] = KeysOf(log[i - 1], "SEND")
        /\ DOMAIN ApplyMaps[i] = KeysOf(log[i - 1], "APPLY")
  BY <1>4 DEF LastStamps
<1>6. DOMAIN SendMaps = 1 .. NPeers /\ DOMAIN ApplyMaps = 1 .. NPeers
  BY DEF SendMaps, ApplyMaps
<1> QED
  BY <1>1, <1>2, <1>3, <1>4, <1>5, <1>6

\* Keys that some log has a line of.
Logged(event) == UNION {KeysOf(log[p], event) : p \in Peers}

LEMMA LoggedKeys ==
  ASSUME LogInv
  PROVE  /\ Logged("SEND") = UNION {DOMAIN SendMaps[i] : i \in 1 .. NPeers}
         /\ Logged("APPLY") = UNION {DOMAIN ApplyMaps[i] : i \in 1 .. NPeers}
<1>1. \A i \in 1 .. NPeers : /\ i - 1 \in Peers
                             /\ DOMAIN SendMaps[i] = KeysOf(log[i - 1], "SEND")
                             /\ DOMAIN ApplyMaps[i] = KeysOf(log[i - 1], "APPLY")
  BY MapsFacts
<1>2. \A p \in Peers : /\ p + 1 \in 1 .. NPeers
                       /\ DOMAIN SendMaps[p + 1] = KeysOf(log[p], "SEND")
                       /\ DOMAIN ApplyMaps[p + 1] = KeysOf(log[p], "APPLY")
  <2> SUFFICES ASSUME NEW p \in Peers
               PROVE  /\ p + 1 \in 1 .. NPeers
                      /\ DOMAIN SendMaps[p + 1] = KeysOf(log[p], "SEND")
                      /\ DOMAIN ApplyMaps[p + 1] = KeysOf(log[p], "APPLY")
    OBVIOUS
  <2> DEFINE i == p + 1
  <2>1. i \in 1 .. NPeers /\ i - 1 = p
    BY MapsFacts
  <2> HIDE DEF i
  <2>2. /\ DOMAIN SendMaps[i] = KeysOf(log[p], "SEND")
        /\ DOMAIN ApplyMaps[i] = KeysOf(log[p], "APPLY")
    BY <1>1, <2>1
  <2> QED
    BY <2>1, <2>2 DEF i
<1>3. Logged("SEND") = UNION {DOMAIN SendMaps[i] : i \in 1 .. NPeers}
  BY <1>1, <1>2 DEF Logged
<1>4. Logged("APPLY") = UNION {DOMAIN ApplyMaps[i] : i \in 1 .. NPeers}
  BY <1>1, <1>2 DEF Logged
<1> QED
  BY <1>3, <1>4

\* What load_subdir has for a key that was sent is the stamp of such a line.
LEMMA SendsLoaded ==
  ASSUME LogInv, NEW sends, sends = load_subdir(Dir.logs).sends
  PROVE  /\ DOMAIN sends = Logged("SEND")
         /\ \A key \in DOMAIN sends : \E p \in Peers : StampOf(p, "SEND", key, sends[key])
<1>1. sends = Update(SendMaps)
  BY LoadedMaps
<1>2. NPeers \in Nat /\ DOMAIN SendMaps = 1 .. NPeers
  BY MapsFacts
<1>3. OneOf(SendMaps, NPeers, sends)
  BY <1>1, <1>2, UpdateFacts
<1>4. /\ DOMAIN sends = UNION {DOMAIN SendMaps[i] : i \in 1 .. NPeers}
      /\ \A key \in DOMAIN sends :
           \E i \in 1 .. NPeers : key \in DOMAIN SendMaps[i] /\ sends[key] = SendMaps[i][key]
  BY <1>3 DEF OneOf
<1>5. DOMAIN sends = Logged("SEND")
  BY <1>4, LoggedKeys
<1>6. ASSUME NEW key \in DOMAIN sends
      PROVE  \E p \in Peers : StampOf(p, "SEND", key, sends[key])
  <2>1. PICK i \in 1 .. NPeers : key \in DOMAIN SendMaps[i] /\ sends[key] = SendMaps[i][key]
    BY <1>4
  <2> DEFINE p == i - 1
  <2>2. /\ p \in Peers /\ key \in KeysOf(log[p], "SEND")
        /\ sends[key] = LastStamps(log[p], "SEND")[key]
    BY <2>1, MapsFacts
  <2> HIDE DEF p
  <2>3. StampOf(p, "SEND", key, sends[key])
    BY <2>2, LastStampsFacts
  <2> QED
    BY <2>2, <2>3
<1> QED
  BY <1>5, <1>6

LEMMA ApplyMapsTyped ==
  ASSUME LogInv, NEW i \in 1 .. NPeers, NEW key \in DOMAIN ApplyMaps[i]
  PROVE  ApplyMaps[i][key] \in Nat
<1> DEFINE p == i - 1
<1>1. /\ p \in Peers /\ key \in KeysOf(log[p], "APPLY")
      /\ ApplyMaps[i][key] = LastStamps(log[p], "APPLY")[key]
  BY MapsFacts
<1> HIDE DEF p
<1> QED
  BY <1>1, LastStampsFacts

\* And for one that was applied it is the earliest over the peers.
LEMMA AppliesLoaded ==
  ASSUME LogInv, NEW applies, applies = load_subdir(Dir.logs).applies
  PROVE  /\ DOMAIN applies = Logged("APPLY")
         /\ \A key \in DOMAIN applies : \E p \in Peers : StampOf(p, "APPLY", key, applies[key])
         /\ \A key \in DOMAIN applies : \A p \in Peers :
              key \in KeysOf(log[p], "APPLY") => applies[key] <= LastStamps(log[p], "APPLY")[key]
<1>1. applies = Merge(ApplyMaps, Min)
  BY LoadedMaps
<1>2. NPeers \in Nat /\ DOMAIN ApplyMaps = 1 .. NPeers
  BY MapsFacts
<1>3. \A i \in 1 .. NPeers : \A key \in DOMAIN ApplyMaps[i] : ApplyMaps[i][key] \in Nat
  BY ApplyMapsTyped
<1>4. LeastOf(ApplyMaps, NPeers, applies)
  BY <1>1, <1>2, <1>3, MergeMinFacts
<1>5. /\ DOMAIN applies = UNION {DOMAIN ApplyMaps[i] : i \in 1 .. NPeers}
      /\ \A key \in DOMAIN applies :
           \E i \in 1 .. NPeers : key \in DOMAIN ApplyMaps[i] /\ applies[key] = ApplyMaps[i][key]
      /\ \A key \in DOMAIN applies : \A i \in 1 .. NPeers :
           key \in DOMAIN ApplyMaps[i] => applies[key] <= ApplyMaps[i][key]
  BY <1>4 DEF LeastOf, OneOf
<1>6. DOMAIN applies = Logged("APPLY")
  BY <1>5, LoggedKeys
<1>7. ASSUME NEW key \in DOMAIN applies
      PROVE  \E p \in Peers : StampOf(p, "APPLY", key, applies[key])
  <2>1. PICK i \in 1 .. NPeers : key \in DOMAIN ApplyMaps[i] /\ applies[key] = ApplyMaps[i][key]
    BY <1>5
  <2> DEFINE p == i - 1
  <2>2. /\ p \in Peers /\ key \in KeysOf(log[p], "APPLY")
        /\ applies[key] = LastStamps(log[p], "APPLY")[key]
    BY <2>1, MapsFacts
  <2> HIDE DEF p
  <2>3. StampOf(p, "APPLY", key, applies[key])
    BY <2>2, LastStampsFacts
  <2> QED
    BY <2>2, <2>3
<1>8. ASSUME NEW key \in DOMAIN applies, NEW p \in Peers, key \in KeysOf(log[p], "APPLY")
      PROVE  applies[key] <= LastStamps(log[p], "APPLY")[key]
  <2> DEFINE i == p + 1
  <2>1. i \in 1 .. NPeers /\ i - 1 = p
    BY MapsFacts
  <2> HIDE DEF i
  <2>2. ApplyMaps[i] = LastStamps(log[p], "APPLY") /\ key \in DOMAIN ApplyMaps[i]
    BY <1>8, <2>1, MapsFacts
  <2> QED
    BY <1>5, <2>1, <2>2
<1> QED
  BY <1>6, <1>7, <1>8

-----------------------------------------------------------------------------
(* The lines of all logs.                                                  *)

LEMMA ImageFinite ==
  ASSUME NEW S, IsFiniteSet(S), NEW f, DOMAIN f = S
  PROVE  /\ IsFiniteSet({f[x] : x \in S})
         /\ Cardinality({f[x] : x \in S}) <= Cardinality(S)
<1> DEFINE T == {f[x] : x \in S}
           g == [x \in S |-> f[x]]
<1>1. g \in Surjection(S, T)
  BY DEF Surjection
<1> HIDE DEF g
<1>2. IsFiniteSet(T) /\ Cardinality(T) <= Cardinality(S)
  BY <1>1, FS_Surjection
<1> QED
  BY <1>2

LEMMA LineMembers ==
  ASSUME NEW event
  PROVE  /\ \A p \in Peers : \A i \in DOMAIN log[p] :
              log[p][i].event = event => <<log[p][i], p>> \in Lines(event)
         /\ \A l \in Lines(event) : \E p \in Peers : \E i \in DOMAIN log[p] :
              log[p][i].event = event /\ l = <<log[p][i], p>>
         /\ \A l \in Lines(event) : l = <<l[1], l[2]>>
<1> DEFINE at(p) == {<<log[p][i], p>> : i \in {j \in DOMAIN log[p] : log[p][j].event = event}}
<1>1. Lines(event) = UNION {at(p) : p \in Peers}
  BY DEF Lines
<1>2. \A l \in Lines(event) : \E p \in Peers : \E i \in DOMAIN log[p] :
        log[p][i].event = event /\ l = <<log[p][i], p>>
  BY <1>1
<1>3. ASSUME NEW p \in Peers, NEW i \in DOMAIN log[p], log[p][i].event = event
      PROVE  <<log[p][i], p>> \in Lines(event)
  <2>1. <<log[p][i], p>> \in at(p)
    BY <1>3
  <2> HIDE DEF at
  <2> QED
    BY <1>1, <2>1
<1>4. \A l \in Lines(event) : l = <<l[1], l[2]>>
  BY <1>2
<1> QED
  BY <1>2, <1>3, <1>4

LEMMA LinesFinite ==
  ASSUME LogInv, NEW event
  PROVE  IsFiniteSet(Lines(event))
<1> DEFINE at(p) == {<<log[p][i], p>> : i \in {j \in DOMAIN log[p] : log[p][j].event = event}}
<1>1. Lines(event) = UNION {at(p) : p \in Peers}
  BY DEF Lines
<1>2. ASSUME NEW p \in Peers PROVE IsFiniteSet(at(p))
  <2> DEFINE S == {j \in DOMAIN log[p] : log[p][j].event = event}
             f == [i \in S |-> <<log[p][i], p>>]
  <2>1. log[p] \in Seq(LogLine)
    BY DEF LogInv, TypeInv
  <2>2. IsFiniteSet(1 .. Len(log[p])) /\ DOMAIN log[p] = 1 .. Len(log[p])
    BY <2>1, FS_Interval
  <2>3. IsFiniteSet(S)
    BY <2>2, FS_Subset
  <2>4. DOMAIN f = S /\ at(p) = {f[x] : x \in S}
    OBVIOUS
  <2> HIDE DEF S, f
  <2> QED
    BY <2>3, <2>4, ImageFinite
<1> DEFINE g == [p \in Peers |-> at(p)]
           all == {g[p] : p \in Peers}
<1>3. IsFiniteSet(Peers)
  BY ClocksAssumption, FS_Interval DEF Peers
<1>4. Lines(event) = UNION all /\ DOMAIN g = Peers /\ \A T \in all : \E p \in Peers : T = at(p)
  BY <1>1
<1> HIDE DEF g
<1>5. IsFiniteSet(all)
  BY <1>3, <1>4, ImageFinite
<1> HIDE DEF at, all
<1>6. \A T \in all : IsFiniteSet(T)
  BY <1>2, <1>4
<1> QED
  BY <1>4, <1>5, <1>6, FS_UNION

\* The keys that have a line, said in three ways.
LEMMA LoggedMeans ==
  ASSUME NEW event, NEW key
  PROVE  /\ key \in Logged(event) <=> \E p \in Peers : key \in KeysOf(log[p], event)
         /\ key \in Logged(event) <=> \E l \in Lines(event) : l[1].key = key
         /\ \A p \in Peers : key \in KeysOf(log[p], event) <=> LinesOf(log[p], event, key) # {}
<1>1. key \in Logged(event) <=> \E p \in Peers : key \in KeysOf(log[p], event)
  BY DEF Logged
<1>2. \A p \in Peers : key \in KeysOf(log[p], event) <=>
        \E i \in DOMAIN log[p] : log[p][i].event = event /\ log[p][i].key = key
  BY DEF KeysOf
<1>3. \A p \in Peers : key \in KeysOf(log[p], event) <=> LinesOf(log[p], event, key) # {}
  BY <1>2 DEF LinesOf
<1>4. ASSUME NEW p \in Peers, key \in KeysOf(log[p], event)
      PROVE  \E l \in Lines(event) : l[1].key = key
  <2>1. PICK i \in DOMAIN log[p] : log[p][i].event = event /\ log[p][i].key = key
    BY <1>2, <1>4
  <2>2. <<log[p][i], p>> \in Lines(event)
    BY <2>1, LineMembers
  <2> QED
    BY <2>1, <2>2
<1>5. ASSUME NEW l \in Lines(event), l[1].key = key
      PROVE  \E p \in Peers : key \in KeysOf(log[p], event)
  <2>1. PICK p \in Peers : \E i \in DOMAIN log[p] : log[p][i].event = event /\ l = <<log[p][i], p>>
    BY LineMembers
  <2>2. PICK i \in DOMAIN log[p] : log[p][i].event = event /\ l = <<log[p][i], p>>
    BY <2>1
  <2> QED
    BY <1>2, <1>5, <2>2
<1> QED
  BY <1>1, <1>3, <1>4, <1>5

LEMMA KeysMean ==
  /\ SentKeys = Logged("SEND")
  /\ \A key : AppliesOf(key) = {} <=> key \notin Logged("APPLY")
<1>1. \A key : key \in SentKeys <=> \E l \in Lines("SEND") : l[1].key = key
  BY DEF SentKeys
<1>2. \A key : key \in Logged("SEND") <=> \E l \in Lines("SEND") : l[1].key = key
  BY LoggedMeans
<1>3. SentKeys = Logged("SEND")
  <2> HIDE DEF SentKeys
  <2>1. \A key : key \in SentKeys <=> key \in Logged("SEND")
    BY <1>1, <1>2
  <2> QED
    BY <2>1
<1>4. \A key : AppliesOf(key) = {} <=> ~\E l \in Lines("APPLY") : l[1].key = key
  BY DEF AppliesOf
<1>5. \A key : AppliesOf(key) = {} <=> key \notin Logged("APPLY")
  BY <1>4, LoggedMeans
<1> QED
  BY <1>3, <1>5

-----------------------------------------------------------------------------
(* The drops.                                                              *)

Loaded == load_subdir(Dir.logs)

LEMMA LatencyFields ==
  /\ Latency.dropped = Cardinality(DOMAIN Loaded.sends \ DOMAIN Loaded.applies)
  /\ Latency.latencies = RestrictValues(Deltas(Loaded), LAMBDA d : d >= 0)
<1> DEFINE result == Summary(Loaded)
<1>1. /\ result.dropped = Cardinality(DOMAIN Loaded.sends \ DOMAIN Loaded.applies)
      /\ result.latencies = RestrictValues(Deltas(Loaded), LAMBDA d : d >= 0)
      /\ "dropped" \in DOMAIN result /\ "latencies" \in DOMAIN result
  BY DEF Summary
<1> HIDE DEF result
<1>2. Latency = [field \in DOMAIN result \cup {"converged"} |->
                   IF field = "converged" THEN ConvergedLabel(Dir.dumps) ELSE result[field]]
  BY DEF Latency, analyze_subdir, result, Loaded
<1> QED
  BY <1>1, <1>2

\* The keys counted as dropped are those that were sent and applied nowhere.
LEMMA DroppedKeys ==
  ASSUME LogInv
  PROVE  DOMAIN Loaded.sends \ DOMAIN Loaded.applies = {k \in SentKeys : AppliesOf(k) = {}}
<1>1. DOMAIN Loaded.sends = Logged("SEND") /\ DOMAIN Loaded.applies = Logged("APPLY")
  BY SendsLoaded, AppliesLoaded DEF Loaded
<1> QED
  BY <1>1, KeysMean

\* The drop count of the reports (analyze_results.py:151) never says more than
\* was lost: no operation of a key it counts has reached any peer.
THEOREM DropsWereLost == Spec => []DropsAreLost
<1>1. ASSUME LogInv PROVE DropsAreLost
  <2> DEFINE D == {k \in SentKeys : AppliesOf(k) = {}}
             lost == {l \in Lines("SEND") :
                        ~\E m \in AppliesOf(l[1].key) : m.type \in {l[1].type, "LOAD"}}
             unseen == {l \in Lines("SEND") : l[1].key \in D}
             f == [l \in unseen |-> l[1].key]
  <2>1. Latency.dropped = Cardinality(D)
    BY <1>1, LatencyFields, DroppedKeys
  <2>2. IsFiniteSet(Lines("SEND"))
    BY <1>1, LinesFinite
  <2>3. unseen \subseteq lost /\ lost \subseteq Lines("SEND")
    OBVIOUS
  <2>4. D = {f[l] : l \in unseen} /\ DOMAIN f = unseen
    BY DEF SentKeys
  <2> HIDE DEF unseen, f, D, lost
  <2>5. IsFiniteSet(lost) /\ IsFiniteSet(unseen) /\ Cardinality(unseen) <= Cardinality(lost)
    BY <2>2, <2>3, FS_Subset
  <2>6. IsFiniteSet(D) /\ Cardinality(D) <= Cardinality(unseen)
    BY <2>4, <2>5, ImageFinite
  <2>7. /\ Cardinality(D) \in Nat /\ Cardinality(unseen) \in Nat /\ Cardinality(lost) \in Nat
    BY <2>5, <2>6, FS_CardinalityType
  <2>8. Latency.dropped <= Cardinality(lost)
    BY <2>1, <2>5, <2>6, <2>7
  <2> QED
    BY <2>1, <2>8 DEF DropsAreLost, D, lost
<1> QED
  BY <1>1, LogInvariance, PTL

-----------------------------------------------------------------------------
(* The delays.                                                             *)

\* Microseconds since 1970 as they come back from a log.
Back(t) == IF unit = "us" THEN t ELSE (t \div 1000) * 1000

LEMMA BackFacts ==
  ASSUME NEW s \in Nat, NEW t \in Nat
  PROVE  /\ Back(s) \in Nat
         /\ s <= t => Back(s) <= Back(t)
         /\ Near(Back(s) - Back(t), s - t)
<1> DEFINE d == s \div 1000
           e == t \div 1000
<1>1. d \in Nat /\ e \in Nat /\ d * 1000 <= s /\ s <= d * 1000 + 999
      /\ e * 1000 <= t /\ t <= e * 1000 + 999
  OBVIOUS
<1>2. unit = "us" => Back(s) = s /\ Back(t) = t /\ Precision = 0
  BY DEF Back, Precision
<1>3. unit # "us" => Back(s) = d * 1000 /\ Back(t) = e * 1000 /\ Precision = 999
  BY DEF Back, Precision
<1> HIDE DEF d, e
<1>4. s <= t => d <= e
  BY <1>1
<1>5. CASE unit = "us"
  BY <1>2, <1>5 DEF Near
<1>6. CASE unit # "us"
  BY <1>1, <1>3, <1>4, <1>6 DEF Near
<1> QED
  BY <1>5, <1>6

LEMMA MicrosIsBack ==
  ASSUME LogInv, NEW p \in Peers, NEW i \in DOMAIN log[p]
  PROVE  /\ Micros(log[p][i]) = Back(log[p][i].at + skew[p])
         /\ skew[p] \in Nat /\ log[p][i].at \in Nat
<1> DEFINE line == log[p][i]
<1>1. line.unit = unit /\ line.ts = StampAt(p, line.at)
  BY DEF LogInv, Stamped
<1>2. unit \in {"us", "ms"} /\ skew[p] \in Nat /\ line.at \in Nat
  BY LineIsTyped DEF LogInv, TypeInv
<1> HIDE DEF line
<1>3. Micros(line) = Back(line.at + skew[p])
  BY <1>1, <1>2 DEF Micros, Back, StampAt
<1> QED
  BY <1>2, <1>3 DEF line

\* Where clocks agree, stamps are in the order of what happened, and their
\* difference is the time between, within the precision of the logs.
LEMMA StampsCompare ==
  ASSUME LogInv, SameClocks, NEW p \in Peers, NEW i \in DOMAIN log[p],
         NEW q \in Peers, NEW j \in DOMAIN log[q]
  PROVE  /\ log[p][i].at \in Nat /\ log[q][j].at \in Nat
         /\ Micros(log[p][i]) \in Nat /\ Micros(log[q][j]) \in Nat
         /\ log[p][i].at <= log[q][j].at => Micros(log[p][i]) <= Micros(log[q][j])
         /\ Near(Micros(log[p][i]) - Micros(log[q][j]), log[p][i].at - log[q][j].at)
<1> DEFINE c == skew[p]
           s == log[p][i].at
           t == log[q][j].at
<1>1. skew[q] = c
  BY DEF SameClocks
<1>2. /\ c \in Nat /\ s \in Nat /\ t \in Nat
      /\ Micros(log[p][i]) = Back(s + c) /\ Micros(log[q][j]) = Back(t + c)
  BY <1>1, MicrosIsBack
<1> HIDE DEF c, s, t
<1> DEFINE x == s + c
           y == t + c
<1>3. x \in Nat /\ y \in Nat /\ x - y = s - t /\ (x <= y <=> s <= t)
  BY <1>2
<1>4. Micros(log[p][i]) = Back(x) /\ Micros(log[q][j]) = Back(y)
  BY <1>2
<1> HIDE DEF x, y
<1>5. /\ Back(x) \in Nat /\ Back(y) \in Nat
      /\ x <= y => Back(x) <= Back(y)
      /\ Near(Back(x) - Back(y), x - y)
  BY <1>3, BackFacts
<1> QED
  BY <1>2, <1>3, <1>4, <1>5 DEF s, t

\* What a Plain key says of its lines.
LEMMA PlainLines ==
  ASSUME LogInv, NEW key, Plain(key)
  PROVE  /\ \A l, m \in Lines("SEND") : l[1].key = key /\ m[1].key = key => l = m
         /\ \A q \in Peers : \A j \in LinesOf(log[q], "APPLY", key) :
              log[q][j] \in AppliesOf(key) /\ log[q][j].type = "INSERT"
<1> DEFINE S == {l \in Lines("SEND") : l[1].key = key}
<1>1. IsFiniteSet(Lines("SEND")) /\ S \subseteq Lines("SEND") /\ Cardinality(S) = 1
  BY LinesFinite DEF Plain
<1>2. \A l, m \in Lines("SEND") : l[1].key = key /\ m[1].key = key => l \in S /\ m \in S
  OBVIOUS
<1> HIDE DEF S
<1>3. PICK x : S = {x}
  BY <1>1, FS_Subset, FS_Singleton
<1>4. ASSUME NEW q \in Peers, NEW j \in LinesOf(log[q], "APPLY", key)
      PROVE  log[q][j] \in AppliesOf(key) /\ log[q][j].type = "INSERT"
  <2>1. j \in DOMAIN log[q] /\ log[q][j].event = "APPLY" /\ log[q][j].key = key
    BY DEF LinesOf
  <2>2. <<log[q][j], q>> \in Lines("APPLY")
    BY <2>1, LineMembers
  <2>3. log[q][j] \in AppliesOf(key)
    BY <2>1, <2>2 DEF AppliesOf
  <2> QED
    BY <2>3 DEF Plain
<1> QED
  BY <1>2, <1>3, <1>4

\* The delay of a key is the difference of the stamps of two of its lines.
LEMMA DelayMeans ==
  ASSUME LogInv, NEW key \in DOMAIN Deltas(Loaded)
  PROVE  /\ Deltas(Loaded)[key] = Loaded.applies[key] - Loaded.sends[key]
         /\ \E p \in Peers : StampOf(p, "SEND", key, Loaded.sends[key])
         /\ \E q \in Peers : StampOf(q, "APPLY", key, Loaded.applies[key])
         /\ \A q \in Peers : key \in KeysOf(log[q], "APPLY") =>
              Loaded.applies[key] <= LastStamps(log[q], "APPLY")[key]
<1>1. key \in DOMAIN Loaded.sends /\ key \in DOMAIN Loaded.applies
  BY DEF Deltas
<1>2. Deltas(Loaded)[key] = Loaded.applies[key] - Loaded.sends[key]
  BY DEF Deltas
<1>3. \E p \in Peers : StampOf(p, "SEND", key, Loaded.sends[key])
  BY <1>1, SendsLoaded DEF Loaded
<1>4. /\ \E q \in Peers : StampOf(q, "APPLY", key, Loaded.applies[key])
      /\ \A q \in Peers : key \in KeysOf(log[q], "APPLY") =>
           Loaded.applies[key] <= LastStamps(log[q], "APPLY")[key]
  BY <1>1, AppliesLoaded DEF Loaded
<1> QED
  BY <1>2, <1>3, <1>4

LEMMA StampOfMeans ==
  ASSUME NEW p \in Peers, NEW event, NEW key, NEW at, StampOf(p, event, key, at)
  PROVE  \E i \in LinesOf(log[p], event, key) : at = Micros(log[p][i])
BY DEF StampOf

\* A sample is left out as negative (analyze_results.py:148) for one of three
\* reasons: the clocks differ, a later operation has the key, or a snapshot
\* brought the character before its operation was sent.
THEOREM NegativesHaveCauses == Spec => []NegativeHasACause
<1>1. ASSUME LogInv, SameClocks, NEW key \in DOMAIN Deltas(Loaded), Plain(key)
      PROVE  ~(Deltas(Loaded)[key] < 0)
  <2>1. PICK p \in Peers : StampOf(p, "SEND", key, Loaded.sends[key])
    BY <1>1, DelayMeans
  <2>2. PICK q \in Peers : StampOf(q, "APPLY", key, Loaded.applies[key])
    BY <1>1, DelayMeans
  <2>3. PICK i \in LinesOf(log[p], "SEND", key) : Loaded.sends[key] = Micros(log[p][i])
    BY <2>1, StampOfMeans
  <2>4. PICK j \in LinesOf(log[q], "APPLY", key) : Loaded.applies[key] = Micros(log[q][j])
    BY <2>2, StampOfMeans
  <2>5. /\ i \in DOMAIN log[p] /\ log[p][i].key = key /\ log[p][i].event = "SEND"
        /\ j \in DOMAIN log[q] /\ log[q][j].key = key /\ log[q][j].event = "APPLY"
    BY DEF LinesOf
  <2>6. log[q][j].type = "INSERT"
    BY <1>1, PlainLines
  <2>7. SentBy(log, key, log[q][j].at)
    BY <1>1, <2>5, <2>6 DEF LogInv, AppliesSent
  <2>8. PICK r \in Peers : \E m \in DOMAIN log[r] :
          log[r][m].event = "SEND" /\ log[r][m].key = key /\ log[r][m].at <= log[q][j].at
    BY <2>7 DEF SentBy
  <2>9. PICK m \in DOMAIN log[r] :
          log[r][m].event = "SEND" /\ log[r][m].key = key /\ log[r][m].at <= log[q][j].at
    BY <2>8
  <2>10. <<log[r][m], r>> = <<log[p][i], p>>
    <3> DEFINE x == <<log[r][m], r>>
               y == <<log[p][i], p>>
    <3>1. x \in Lines("SEND") /\ y \in Lines("SEND")
      BY <2>5, <2>9, LineMembers
    <3>2. x[1].key = key /\ y[1].key = key
      BY <2>5, <2>9
    <3> HIDE DEF x, y
    <3>3. x = y
      BY <1>1, <3>1, <3>2, PlainLines
    <3> QED
      BY <3>3 DEF x, y
  <2>11. log[p][i].at <= log[q][j].at
    BY <2>9, <2>10
  <2>12. /\ Micros(log[p][i]) \in Nat /\ Micros(log[q][j]) \in Nat
         /\ Micros(log[p][i]) <= Micros(log[q][j])
    BY <1>1, <2>5, <2>11, StampsCompare
  <2>13. Deltas(Loaded)[key] = Micros(log[q][j]) - Micros(log[p][i])
    BY <1>1, <2>3, <2>4, DelayMeans
  <2> QED
    BY <2>12, <2>13
<1>2. ASSUME LogInv PROVE NegativeHasACause
  <2>1. \A key \in DOMAIN Deltas(Loaded) :
          Deltas(Loaded)[key] < 0 => ~SameClocks \/ ~Plain(key)
    BY <1>1, <1>2
  <2> QED
    BY <2>1 DEF NegativeHasACause, Loaded
<1> QED
  BY <1>2, LogInvariance, PTL

\* Line j of q is an earliest apply of a key, and the one parse_log keeps.
FirstAt(key) == Min({l.at : l \in AppliesOf(key)})
IsFirst(q, j, key) ==
  /\ log[q][j].at = FirstAt(key)
  /\ LastStamps(log[q], "APPLY")[key] = Micros(log[q][j])
  /\ \A r \in Peers : \A m \in LinesOf(log[r], "APPLY", key) : log[q][j].at <= log[r][m].at

LEMMA FirstApply ==
  ASSUME LogInv, NEW key, AppliesOf(key) # {}, AtMostOnceEach(key)
  PROVE  \E q \in Peers : \E j \in LinesOf(log[q], "APPLY", key) : IsFirst(q, j, key)
<1> DEFINE ats == {l.at : l \in AppliesOf(key)}
           first == Min(ats)
<1>1. \A a \in ats : \E r \in Peers : \E m \in LinesOf(log[r], "APPLY", key) : a = log[r][m].at
  <2> SUFFICES ASSUME NEW l \in Lines("APPLY"), l[1].key = key
               PROVE  \E r \in Peers : \E m \in LinesOf(log[r], "APPLY", key) : l[1].at = log[r][m].at
    BY DEF AppliesOf
  <2>1. PICK r \in Peers : \E m \in DOMAIN log[r] : log[r][m].event = "APPLY" /\ l = <<log[r][m], r>>
    BY LineMembers
  <2>2. PICK m \in DOMAIN log[r] : log[r][m].event = "APPLY" /\ l = <<log[r][m], r>>
    BY <2>1
  <2>3. m \in LinesOf(log[r], "APPLY", key) /\ l[1].at = log[r][m].at
    BY <2>2 DEF LinesOf
  <2> QED
    BY <2>3
<1>2. ASSUME NEW r \in Peers, NEW m \in LinesOf(log[r], "APPLY", key)
      PROVE  log[r][m].at \in ats /\ log[r][m].at \in Nat
  <2>1. m \in DOMAIN log[r] /\ log[r][m].event = "APPLY" /\ log[r][m].key = key
    BY DEF LinesOf
  <2>2. <<log[r][m], r>> \in Lines("APPLY")
    BY <2>1, LineMembers
  <2>3. log[r][m] \in AppliesOf(key)
    BY <2>1, <2>2 DEF AppliesOf
  <2> QED
    BY <2>1, <2>3, LineIsTyped
<1>3. ats # {}
  OBVIOUS
<1> HIDE DEF ats
<1>4. ats \subseteq Nat
  BY <1>1, <1>2
<1>5. first \in ats /\ \A a \in ats : first <= a
  BY <1>3, <1>4, MinFacts
<1> HIDE DEF first
<1>6. PICK q \in Peers : \E j \in LinesOf(log[q], "APPLY", key) : first = log[q][j].at
  BY <1>1, <1>5
<1>7. PICK j \in LinesOf(log[q], "APPLY", key) : first = log[q][j].at
  BY <1>6
<1>8. LastStamps(log[q], "APPLY")[key] = Micros(log[q][j])
  <2> DEFINE lines == LinesOf(log[q], "APPLY", key)
             at == LastStamps(log[q], "APPLY")[key]
  <2>1. key \in KeysOf(log[q], "APPLY")
    BY <1>7 DEF LinesOf, KeysOf
  <2>2. StampOf(q, "APPLY", key, at)
    BY <2>1, LastStampsFacts
  <2>3. PICK m \in lines : at = Micros(log[q][m])
    BY <2>2, StampOfMeans
  <2>4. IsFiniteSet(lines) /\ Cardinality(lines) \in Nat
    <3>1. log[q] \in Seq(LogLine)
      BY DEF LogInv, TypeInv
    <3>2. DOMAIN log[q] = 1 .. Len(log[q]) /\ Len(log[q]) \in Nat
      BY <3>1
    <3>3. IsFiniteSet(1 .. Len(log[q]))
      BY <3>2, FS_Interval
    <3>4. lines \subseteq DOMAIN log[q]
      BY DEF LinesOf
    <3> HIDE DEF lines
    <3>5. IsFiniteSet(lines)
      BY <3>2, <3>3, <3>4, FS_Subset
    <3> QED
      BY <3>5, FS_CardinalityType
  <2>5. Cardinality(lines) <= 1 /\ j \in lines
    BY <1>7 DEF AtMostOnceEach
  <2> HIDE DEF lines, at
  <2>6. Cardinality(lines) = 1
    BY <2>4, <2>5, FS_EmptySet
  <2>7. m = j
    BY <2>3, <2>4, <2>5, <2>6, FS_Singleton
  <2> QED
    BY <2>3, <2>7 DEF at
<1>9. \A r \in Peers : \A m \in LinesOf(log[r], "APPLY", key) : log[q][j].at <= log[r][m].at
  BY <1>2, <1>5, <1>7
<1>10. first = FirstAt(key)
  BY DEF first, ats, FirstAt
<1>11. IsFirst(q, j, key)
  BY <1>7, <1>8, <1>9, <1>10 DEF IsFirst
<1> QED
  BY <1>7, <1>11

LEMMA LatenciesMean ==
  /\ DOMAIN Latency.latencies \subseteq DOMAIN Deltas(Loaded)
  /\ \A key \in DOMAIN Latency.latencies : Latency.latencies[key] = Deltas(Loaded)[key]
<1> DEFINE d == Deltas(Loaded)
<1>1. Latency.latencies = RestrictValues(d, LAMBDA x : x >= 0)
  BY LatencyFields
<1> HIDE DEF d
<1>2. RestrictValues(d, LAMBDA x : x >= 0) = [k \in {y \in DOMAIN d : d[y] >= 0} |-> d[k]]
  BY DEF RestrictValues, Restrict
<1> QED
  BY <1>1, <1>2 DEF d

\* The delay reported for an operation is the one until the first peer had it,
\* where the clocks agree and the operation is alone with its key
\* (analyze_results.py:97-119, 143-151).
THEOREM DelaysEndAtFirstPeer == Spec => []LatencyOfFirstPeer
<1>1. ASSUME LogInv, SameClocks, NEW key \in DOMAIN Deltas(Loaded), AtMostOnceEach(key)
      PROVE  \E s \in SendsOf(key) :
               Near(Deltas(Loaded)[key], FirstAt(key) - s.at)
  <2>1. PICK p \in Peers : StampOf(p, "SEND", key, Loaded.sends[key])
    BY <1>1, DelayMeans
  <2>2. PICK r \in Peers : StampOf(r, "APPLY", key, Loaded.applies[key])
    BY <1>1, DelayMeans
  <2>3. PICK i \in LinesOf(log[p], "SEND", key) : Loaded.sends[key] = Micros(log[p][i])
    BY <2>1, StampOfMeans
  <2>4. PICK m \in LinesOf(log[r], "APPLY", key) : Loaded.applies[key] = Micros(log[r][m])
    BY <2>2, StampOfMeans
  <2>5. /\ i \in DOMAIN log[p] /\ log[p][i].key = key /\ log[p][i].event = "SEND"
        /\ m \in DOMAIN log[r] /\ log[r][m].key = key /\ log[r][m].event = "APPLY"
    BY DEF LinesOf
  <2>6. log[p][i] \in SendsOf(key)
    <3>1. <<log[p][i], p>> \in Lines("SEND")
      BY <2>5, LineMembers
    <3> QED
      BY <2>5, <3>1 DEF SendsOf
  <2>7. AppliesOf(key) # {}
    <3>1. <<log[r][m], r>> \in Lines("APPLY")
      BY <2>5, LineMembers
    <3> QED
      BY <2>5, <3>1 DEF AppliesOf
  <2>8. PICK q \in Peers : \E j \in LinesOf(log[q], "APPLY", key) : IsFirst(q, j, key)
    BY <1>1, <2>7, FirstApply
  <2>9. PICK j \in LinesOf(log[q], "APPLY", key) : IsFirst(q, j, key)
    BY <2>8
  <2>10. /\ log[q][j].at = FirstAt(key)
         /\ LastStamps(log[q], "APPLY")[key] = Micros(log[q][j])
         /\ log[q][j].at <= log[r][m].at
    BY <2>9 DEF IsFirst
  <2>11. j \in DOMAIN log[q] /\ key \in KeysOf(log[q], "APPLY")
    BY DEF LinesOf, KeysOf
  <2>12. Loaded.applies[key] <= Micros(log[q][j])
    BY <1>1, <2>10, <2>11, DelayMeans
  <2>13. /\ Micros(log[q][j]) \in Nat /\ Micros(log[r][m]) \in Nat
         /\ Micros(log[q][j]) <= Micros(log[r][m])
    BY <1>1, <2>5, <2>10, <2>11, StampsCompare
  <2>14. Loaded.applies[key] = Micros(log[q][j])
    BY <2>4, <2>12, <2>13
  <2>15. Near(Micros(log[q][j]) - Micros(log[p][i]), log[q][j].at - log[p][i].at)
    BY <1>1, <2>5, <2>11, StampsCompare
  <2>16. Deltas(Loaded)[key] = Micros(log[q][j]) - Micros(log[p][i])
    BY <1>1, <2>3, <2>14, DelayMeans
  <2>17. Near(Deltas(Loaded)[key], FirstAt(key) - log[p][i].at)
    BY <2>10, <2>15, <2>16
  <2> QED
    BY <2>6, <2>17
<1>2. ASSUME LogInv PROVE LatencyOfFirstPeer
  BY <1>1, <1>2, LatenciesMean DEF LatencyOfFirstPeer, FirstAt
<1> QED
  BY <1>2, LogInvariance, PTL

-----------------------------------------------------------------------------
(* The time to convergence.                                                *)

LEMMA MergeMaxFacts ==
  ASSUME NEW N \in Nat, NEW B \in Nat, NEW maps, DOMAIN maps = 1 .. N,
         \A i \in 1 .. N : \A key \in DOMAIN maps[i] : maps[i][key] \in 0 .. B
  PROVE  GreatestOf(maps, N, Merge(maps, Max))
<1> DEFINE all == Merge(maps, Max)
<1>1. DOMAIN all = UNION {DOMAIN maps[i] : i \in 1 .. N}
  BY DEF Merge
<1>2. \A key \in DOMAIN all : all[key] = Max(ValuesOf(maps, key))
  BY DEF Merge, ValuesOf
<1> HIDE DEF all
<1>3. ASSUME NEW key \in DOMAIN all
      PROVE  /\ \E i \in 1 .. N : key \in DOMAIN maps[i] /\ all[key] = maps[i][key]
             /\ \A i \in 1 .. N : key \in DOMAIN maps[i] => maps[i][key] <= all[key]
  <2> DEFINE values == ValuesOf(maps, key)
  <2>1. /\ values # {}
        /\ \A i \in 1 .. N : key \in DOMAIN maps[i] => maps[i][key] \in values
        /\ \A v \in values : \E i \in 1 .. N : key \in DOMAIN maps[i] /\ v = maps[i][key]
    <3>1. \E i \in 1 .. N : key \in DOMAIN maps[i]
      BY <1>1
    <3>2. \A i \in 1 .. N : \A k \in DOMAIN maps[i] : maps[i][k] \in Nat
      OBVIOUS
    <3> QED
      BY <3>1, <3>2, ValuesFacts
  <2>2. all[key] = Max(values)
    BY <1>2
  <2> HIDE DEF values
  <2>3. values \subseteq 0 .. B
    BY <2>1
  <2>4. Max(values) \in values /\ \A v \in values : v <= Max(values)
    BY <2>1, <2>3, MaxFacts
  <2> QED
    BY <2>1, <2>2, <2>4
<1>4. GreatestOf(maps, N, all)
  BY <1>1, <1>3 DEF GreatestOf, OneOf
<1> QED
  BY <1>4 DEF all

\* Where clocks agree, no stamp is later than now.
LEMMA StampBound ==
  ASSUME LogInv, SameClocks, NEW o \in Peers, NEW p \in Peers, NEW i \in DOMAIN log[p]
  PROVE  /\ Back(now + skew[o]) \in Nat
         /\ Micros(log[p][i]) \in 0 .. Back(now + skew[o])
<1> DEFINE s == log[p][i].at + skew[p]
           t == now + skew[o]
<1>1. skew[p] = skew[o]
  BY DEF SameClocks
<1>2. log[p][i].at \in Nat /\ skew[p] \in Nat /\ Micros(log[p][i]) = Back(s)
  BY MicrosIsBack
<1>3. log[p][i].at <= now /\ now \in Nat
  BY DEF LogInv, Stamped, TypeInv
<1>4. s \in Nat /\ t \in Nat /\ s <= t
  BY <1>1, <1>2, <1>3
<1> HIDE DEF s, t
<1>5. Back(s) \in Nat /\ Back(t) \in Nat /\ Back(s) <= Back(t)
  BY <1>4, BackFacts
<1>6. Back(s) \in 0 .. Back(t)
  BY <1>5
<1> QED
  BY <1>2, <1>5, <1>6 DEF t

ScaleLoaded == load_scalability_subdir(Dir.logs)

\* What load_scalability_subdir has for a key is the latest over the peers.
LEMMA LatestLoaded ==
  ASSUME LogInv, SameClocks, NEW latest, latest = ScaleLoaded.max_applies
  PROVE  /\ DOMAIN latest = Logged("APPLY")
         /\ \A key \in DOMAIN latest : \E p \in Peers : StampOf(p, "APPLY", key, latest[key])
         /\ \A key \in DOMAIN latest : \A p \in Peers :
              key \in KeysOf(log[p], "APPLY") => LastStamps(log[p], "APPLY")[key] <= latest[key]
<1>1. latest = Merge(ApplyMaps, Max)
  BY LoadedMaps DEF ScaleLoaded
<1>2. NPeers \in Nat /\ DOMAIN ApplyMaps = 1 .. NPeers
  BY MapsFacts
<1>3. \E B \in Nat : \A i \in 1 .. NPeers : \A key \in DOMAIN ApplyMaps[i] :
        ApplyMaps[i][key] \in 0 .. B
  <2>1. CASE Peers = {}
    <3>1. 1 .. NPeers = {}
      BY <2>1, MapsFacts
    <3> QED
      BY <3>1
  <2>2. CASE Peers # {}
    <3>1. PICK o \in Peers : TRUE
      BY <2>2
    <3> DEFINE B == Back(now + skew[o])
    <3>2. ASSUME NEW i \in 1 .. NPeers, NEW key \in DOMAIN ApplyMaps[i]
          PROVE  ApplyMaps[i][key] \in 0 .. B
      <4> DEFINE p == i - 1
                 at == ApplyMaps[i][key]
      <4>1. /\ p \in Peers /\ key \in KeysOf(log[p], "APPLY")
            /\ at = LastStamps(log[p], "APPLY")[key]
        BY MapsFacts
      <4> HIDE DEF p, at
      <4>2. StampOf(p, "APPLY", key, at)
        BY <4>1, LastStampsFacts
      <4>3. PICK j \in LinesOf(log[p], "APPLY", key) : at = Micros(log[p][j])
        BY <4>1, <4>2, StampOfMeans
      <4>4. j \in DOMAIN log[p]
        BY DEF LinesOf
      <4> QED
        BY <4>1, <4>3, <4>4, StampBound DEF at
    <3>3. B \in Nat
      <4> DEFINE t == now + skew[o]
      <4>1. t \in Nat
        BY DEF LogInv, TypeInv
      <4> HIDE DEF t
      <4> QED
        BY <4>1, BackFacts DEF t
    <3> HIDE DEF B
    <3> QED
      BY <3>2, <3>3
  <2> QED
    BY <2>1, <2>2
<1>4. GreatestOf(ApplyMaps, NPeers, latest)
  <2>1. PICK B \in Nat : \A i \in 1 .. NPeers : \A key \in DOMAIN ApplyMaps[i] :
          ApplyMaps[i][key] \in 0 .. B
    BY <1>3
  <2> QED
    BY <1>1, <1>2, <2>1, MergeMaxFacts
<1>5. /\ DOMAIN latest = UNION {DOMAIN ApplyMaps[i] : i \in 1 .. NPeers}
      /\ \A key \in DOMAIN latest :
           \E i \in 1 .. NPeers : key \in DOMAIN ApplyMaps[i] /\ latest[key] = ApplyMaps[i][key]
      /\ \A key \in DOMAIN latest : \A i \in 1 .. NPeers :
           key \in DOMAIN ApplyMaps[i] => ApplyMaps[i][key] <= latest[key]
  BY <1>4 DEF GreatestOf, OneOf
<1>6. DOMAIN latest = Logged("APPLY")
  BY <1>5, LoggedKeys
<1>7. ASSUME NEW key \in DOMAIN latest
      PROVE  \E p \in Peers : StampOf(p, "APPLY", key, latest[key])
  <2>1. PICK i \in 1 .. NPeers : key \in DOMAIN ApplyMaps[i] /\ latest[key] = ApplyMaps[i][key]
    BY <1>5
  <2> DEFINE p == i - 1
  <2>2. /\ p \in Peers /\ key \in KeysOf(log[p], "APPLY")
        /\ latest[key] = LastStamps(log[p], "APPLY")[key]
    BY <2>1, MapsFacts
  <2> HIDE DEF p
  <2>3. StampOf(p, "APPLY", key, latest[key])
    BY <2>2, LastStampsFacts
  <2> QED
    BY <2>2, <2>3
<1>8. ASSUME NEW key \in DOMAIN latest, NEW p \in Peers, key \in KeysOf(log[p], "APPLY")
      PROVE  LastStamps(log[p], "APPLY")[key] <= latest[key]
  <2> DEFINE i == p + 1
  <2>1. i \in 1 .. NPeers /\ i - 1 = p
    BY MapsFacts
  <2> HIDE DEF i
  <2>2. ApplyMaps[i] = LastStamps(log[p], "APPLY") /\ key \in DOMAIN ApplyMaps[i]
    BY <1>8, <2>1, MapsFacts
  <2> QED
    BY <1>5, <2>1, <2>2
<1> QED
  BY <1>6, <1>7, <1>8

\* The operands of the time to convergence.
LEMMA ScaleFields ==
  ASSUME Scale # None,
         NEW sends, sends = ScaleLoaded.sends, NEW latest, latest = ScaleLoaded.max_applies
  PROVE  /\ DOMAIN sends # {} /\ DOMAIN sends \cap DOMAIN latest # {}
         /\ Scale.convergence =
              Max({latest[k] : k \in DOMAIN sends \cap DOMAIN latest}) - Min({sends[k] : k \in DOMAIN sends})
<1> DEFINE matched == Restrict(latest, DOMAIN sends \cap DOMAIN latest)
<1>1. /\ DOMAIN matched = DOMAIN sends \cap DOMAIN latest
      /\ Range(matched) = {latest[k] : k \in DOMAIN sends \cap DOMAIN latest}
      /\ Range(sends) = {sends[k] : k \in DOMAIN sends}
  BY DEF Restrict, Range
<1> HIDE DEF matched
<1>2. Scale = Metrics(ScaleLoaded, parse_cpu(Dir.cpus), NPeers)
  BY DEF Scale, compute_scalability_metrics, ScaleLoaded
<1>3. /\ ~(DOMAIN sends = {} \/ DOMAIN matched = {})
      /\ Scale.convergence = Max(Range(matched)) - Min(Range(sends))
  BY <1>2 DEF Metrics, matched
<1> QED
  BY <1>1, <1>3

\* A line written at the time at has the stamp v.
LineAt(at, v) ==
  \E p \in Peers : \E i \in DOMAIN log[p] : log[p][i].at = at /\ v = Micros(log[p][i])

\* When keys that were sent were applied, and when they were sent.
AppliedAts == {l.at : l \in UNION {AppliesOf(k) : k \in SentKeys}}
SentAts == {l[1].at : l \in Lines("SEND")}

LEMMA AppliedAtsMean ==
  ASSUME LogInv
  PROVE  /\ \A k \in SentKeys : \A q \in Peers : \A j \in LinesOf(log[q], "APPLY", k) :
              log[q][j].at \in AppliedAts
         /\ \A a \in AppliedAts : \E k \in SentKeys : \E q \in Peers :
              \E j \in LinesOf(log[q], "APPLY", k) : a = log[q][j].at
         /\ AppliedAts \subseteq 0 .. now
<1>1. ASSUME NEW k \in SentKeys, NEW q \in Peers, NEW j \in LinesOf(log[q], "APPLY", k)
      PROVE  log[q][j].at \in AppliedAts
  <2>1. j \in DOMAIN log[q] /\ log[q][j].event = "APPLY" /\ log[q][j].key = k
    BY DEF LinesOf
  <2>2. <<log[q][j], q>> \in Lines("APPLY")
    BY <2>1, LineMembers
  <2>3. log[q][j] \in AppliesOf(k)
    BY <2>1, <2>2 DEF AppliesOf
  <2> QED
    BY <2>3 DEF AppliedAts
<1>2. ASSUME NEW a \in AppliedAts
      PROVE  \E k \in SentKeys : \E q \in Peers :
               \E j \in LinesOf(log[q], "APPLY", k) : a = log[q][j].at
  <2>1. PICK k \in SentKeys : \E l \in AppliesOf(k) : a = l.at
    BY DEF AppliedAts
  <2>2. PICK m \in Lines("APPLY") : m[1].key = k /\ a = m[1].at
    BY <2>1 DEF AppliesOf
  <2>3. PICK q \in Peers : \E j \in DOMAIN log[q] : log[q][j].event = "APPLY" /\ m = <<log[q][j], q>>
    BY LineMembers
  <2>4. PICK j \in DOMAIN log[q] : log[q][j].event = "APPLY" /\ m = <<log[q][j], q>>
    BY <2>3
  <2>5. j \in LinesOf(log[q], "APPLY", k) /\ a = log[q][j].at
    BY <2>2, <2>4 DEF LinesOf
  <2> QED
    BY <2>5
<1>3. ASSUME NEW a \in AppliedAts PROVE a \in 0 .. now
  <2>1. PICK k \in SentKeys : \E q \in Peers : \E j \in LinesOf(log[q], "APPLY", k) : a = log[q][j].at
    BY <1>2
  <2>2. PICK q \in Peers : \E j \in LinesOf(log[q], "APPLY", k) : a = log[q][j].at
    BY <2>1
  <2>3. PICK j \in DOMAIN log[q] : a = log[q][j].at
    BY <2>2 DEF LinesOf
  <2>4. log[q][j].at <= now /\ log[q][j].at \in Nat /\ now \in Nat
    BY LineIsTyped DEF LogInv, Stamped, TypeInv
  <2> QED
    BY <2>3, <2>4
<1> QED
  BY <1>1, <1>2, <1>3

LEMMA SentAtsMean ==
  ASSUME LogInv
  PROVE  /\ \A p \in Peers : \A i \in DOMAIN log[p] :
              log[p][i].event = "SEND" => log[p][i].at \in SentAts
         /\ \A a \in SentAts : \E p \in Peers : \E i \in DOMAIN log[p] :
              log[p][i].event = "SEND" /\ a = log[p][i].at
         /\ SentAts \subseteq Nat
<1>1. ASSUME NEW p \in Peers, NEW i \in DOMAIN log[p], log[p][i].event = "SEND"
      PROVE  log[p][i].at \in SentAts
  <2>1. <<log[p][i], p>> \in Lines("SEND")
    BY <1>1, LineMembers
  <2> QED
    BY <2>1 DEF SentAts
<1>2. ASSUME NEW a \in SentAts
      PROVE  \E p \in Peers : \E i \in DOMAIN log[p] :
               log[p][i].event = "SEND" /\ a = log[p][i].at
  <2>1. PICK l \in Lines("SEND") : a = l[1].at
    BY DEF SentAts
  <2>2. \E p \in Peers : \E i \in DOMAIN log[p] : log[p][i].event = "SEND" /\ l = <<log[p][i], p>>
    BY LineMembers
  <2> QED
    BY <2>1, <2>2
<1>3. SentAts \subseteq Nat
  BY <1>2, LineIsTyped
<1> QED
  BY <1>1, <1>2, <1>3

\* The latest stamp of the keys that were sent is that of a last apply.
LEMMA LatestIsLastApply ==
  ASSUME LogInv, SameClocks,
         NEW latest, latest = ScaleLoaded.max_applies,
         NEW keys, keys = SentKeys \cap DOMAIN latest, keys # {},
         NEW v, v = Max({latest[k] : k \in keys})
  PROVE  LineAt(Max(AppliedAts), v)
<1> DEFINE stamps == {latest[k] : k \in keys}
           ats == AppliedAts
           last == Max(ats)
<1>1. ASSUME NEW k \in keys
      PROVE  \E r \in Peers : \E m \in LinesOf(log[r], "APPLY", k) : latest[k] = Micros(log[r][m])
  <2>1. PICK r \in Peers : StampOf(r, "APPLY", k, latest[k])
    BY LatestLoaded
  <2> QED
    BY <2>1, StampOfMeans
<1>2. ats # {} /\ ats \subseteq 0 .. now /\ now \in Nat
  <2>1. PICK k \in keys : TRUE
    OBVIOUS
  <2>2. PICK r \in Peers : \E m \in LinesOf(log[r], "APPLY", k) : latest[k] = Micros(log[r][m])
    BY <1>1
  <2>3. PICK m \in LinesOf(log[r], "APPLY", k) : latest[k] = Micros(log[r][m])
    BY <2>2
  <2>4. k \in SentKeys
    OBVIOUS
  <2>5. log[r][m].at \in ats
    BY <2>4, AppliedAtsMean
  <2> QED
    BY <2>5, AppliedAtsMean DEF LogInv, TypeInv
<1> HIDE DEF ats
<1>3. last \in ats /\ \A a \in ats : a <= last
  BY <1>2, MaxFacts
<1> HIDE DEF last
<1>4. PICK key \in SentKeys : \E q \in Peers : \E j \in LinesOf(log[q], "APPLY", key) : last = log[q][j].at
  BY <1>3, AppliedAtsMean DEF ats
<1>5. PICK q \in Peers : \E j \in LinesOf(log[q], "APPLY", key) : last = log[q][j].at
  BY <1>4
<1>6. PICK j \in LinesOf(log[q], "APPLY", key) : last = log[q][j].at
  BY <1>5
<1>7. j \in DOMAIN log[q] /\ key \in KeysOf(log[q], "APPLY")
  BY DEF LinesOf, KeysOf
<1>8. key \in keys
  <2>1. key \in Logged("APPLY")
    BY <1>7 DEF Logged
  <2> QED
    BY <2>1, LatestLoaded
\* No apply of a sent key has a later stamp than line j.
<1>9. ASSUME NEW k \in keys PROVE latest[k] \in Nat /\ latest[k] <= Micros(log[q][j])
  <2>1. PICK r \in Peers : \E m \in LinesOf(log[r], "APPLY", k) : latest[k] = Micros(log[r][m])
    BY <1>1
  <2>2. PICK m \in LinesOf(log[r], "APPLY", k) : latest[k] = Micros(log[r][m])
    BY <2>1
  <2>3. k \in SentKeys /\ m \in DOMAIN log[r]
    BY DEF LinesOf
  <2>4. log[r][m].at \in ats
    BY <2>3, AppliedAtsMean DEF ats
  <2>5. log[r][m].at <= log[q][j].at
    BY <1>3, <1>6, <2>4
  <2> QED
    BY <1>7, <2>2, <2>3, <2>5, StampsCompare
\* And that of its key is no earlier.
<1>10. Micros(log[q][j]) \in Nat /\ Micros(log[q][j]) <= latest[key]
  <2> DEFINE at == LastStamps(log[q], "APPLY")[key]
  <2>1. LastStampOf(q, "APPLY", key, at)
    BY <1>7, LastStampsFacts
  <2>2. at <= latest[key]
    BY <1>7, <1>8, LatestLoaded
  <2> HIDE DEF at
  <2>3. PICK m \in LinesOf(log[q], "APPLY", key) :
          at = Micros(log[q][m]) /\ \A i \in LinesOf(log[q], "APPLY", key) : i <= m
    BY <2>1 DEF LastStampOf
  <2>4. m \in DOMAIN log[q] /\ j <= m
    BY <2>3 DEF LinesOf
  <2>5. log[q][j].at <= log[q][m].at
    BY <1>7, <2>4 DEF LogInv, InOrder
  <2>6. /\ Micros(log[q][j]) \in Nat /\ Micros(log[q][m]) \in Nat
        /\ Micros(log[q][j]) <= Micros(log[q][m])
    BY <1>7, <2>4, <2>5, StampsCompare
  <2>7. latest[key] \in Nat
    BY <1>8, <1>9
  <2> QED
    BY <2>2, <2>3, <2>6, <2>7
<1>11. v = Micros(log[q][j])
  <2> DEFINE b == Micros(log[q][j])
  <2>1. b \in Nat /\ b \in stamps /\ stamps \subseteq 0 .. b /\ v = Max(stamps)
    BY <1>8, <1>9, <1>10
  <2> HIDE DEF b, stamps
  <2>2. Max(stamps) = b
    BY <2>1, MaxIs
  <2> QED
    BY <2>1, <2>2 DEF b
<1> QED
  BY <1>6, <1>7, <1>11 DEF last, ats, LineAt

\* The earliest stamp of the keys that were sent is that of the first send.
LEMMA EarliestIsFirstSend ==
  ASSUME LogInv, SameClocks, \A k \in SentKeys : Cardinality(SendsOf(k)) = 1,
         NEW sends, sends = ScaleLoaded.sends, DOMAIN sends # {},
         NEW v, v = Min({sends[k] : k \in DOMAIN sends})
  PROVE  LineAt(Min(SentAts), v)
<1> DEFINE stamps == {sends[k] : k \in DOMAIN sends}
           ats == SentAts
           first == Min(ats)
<1>1. sends = Loaded.sends
  BY LoadedMaps DEF Loaded, ScaleLoaded
<1>2. DOMAIN sends = SentKeys
  BY <1>1, SendsLoaded, KeysMean DEF Loaded
<1>3. ASSUME NEW k \in DOMAIN sends
      PROVE  \E r \in Peers : \E m \in LinesOf(log[r], "SEND", k) : sends[k] = Micros(log[r][m])
  <2>1. PICK r \in Peers : StampOf(r, "SEND", k, sends[k])
    BY <1>1, SendsLoaded DEF Loaded
  <2> QED
    BY <2>1, StampOfMeans
<1>4. ats # {} /\ ats \subseteq Nat
  <2>1. PICK k \in DOMAIN sends : TRUE
    OBVIOUS
  <2>2. PICK r \in Peers : \E m \in LinesOf(log[r], "SEND", k) : sends[k] = Micros(log[r][m])
    BY <1>3
  <2>3. PICK m \in DOMAIN log[r] : log[r][m].event = "SEND"
    BY <2>2 DEF LinesOf
  <2> QED
    BY <2>3, SentAtsMean
<1> HIDE DEF ats
<1>5. first \in ats /\ \A a \in ats : first <= a
  BY <1>4, MinFacts
<1> HIDE DEF first
<1>6. PICK p \in Peers : \E i \in DOMAIN log[p] : log[p][i].event = "SEND" /\ first = log[p][i].at
  BY <1>5, SentAtsMean DEF ats
<1>7. PICK i \in DOMAIN log[p] : log[p][i].event = "SEND" /\ first = log[p][i].at
  BY <1>6
<1> DEFINE key == log[p][i].key
<1>8. key \in SentKeys /\ log[p][i] \in SendsOf(key)
  <2>1. <<log[p][i], p>> \in Lines("SEND")
    BY <1>7, LineMembers
  <2> QED
    BY <2>1 DEF SentKeys, SendsOf
<1> HIDE DEF key
<1>9. ASSUME NEW k \in DOMAIN sends PROVE sends[k] \in Nat /\ Micros(log[p][i]) <= sends[k]
  <2>1. PICK r \in Peers : \E m \in LinesOf(log[r], "SEND", k) : sends[k] = Micros(log[r][m])
    BY <1>3
  <2>2. PICK m \in LinesOf(log[r], "SEND", k) : sends[k] = Micros(log[r][m])
    BY <2>1
  <2>3. m \in DOMAIN log[r] /\ log[r][m].event = "SEND"
    BY DEF LinesOf
  <2>4. log[r][m].at \in ats
    BY <2>3, SentAtsMean DEF ats
  <2>5. log[p][i].at <= log[r][m].at
    BY <1>5, <1>7, <2>4
  <2> QED
    BY <2>2, <2>3, <2>5, StampsCompare
<1>10. sends[key] = Micros(log[p][i])
  <2>1. key \in DOMAIN sends
    BY <1>2, <1>8
  <2>2. PICK r \in Peers : \E m \in LinesOf(log[r], "SEND", key) : sends[key] = Micros(log[r][m])
    BY <1>3, <2>1
  <2>3. PICK m \in LinesOf(log[r], "SEND", key) : sends[key] = Micros(log[r][m])
    BY <2>2
  <2>4. m \in DOMAIN log[r] /\ log[r][m].event = "SEND" /\ log[r][m].key = key
    BY DEF LinesOf
  <2>5. log[r][m] \in SendsOf(key)
    <3>1. <<log[r][m], r>> \in Lines("SEND")
      BY <2>4, LineMembers
    <3> QED
      BY <2>4, <3>1 DEF SendsOf
  <2>6. IsFiniteSet(SendsOf(key))
    <3> DEFINE S == {l \in Lines("SEND") : l[1].key = key}
               f == [l \in S |-> l[1]]
    <3>1. IsFiniteSet(Lines("SEND"))
      BY LinesFinite
    <3>2. IsFiniteSet(S)
      BY <3>1, FS_Subset
    <3>3. SendsOf(key) = {f[x] : x \in S} /\ DOMAIN f = S
      BY DEF SendsOf
    <3> HIDE DEF S, f
    <3> QED
      BY <3>2, <3>3, ImageFinite
  <2>7. PICK x : SendsOf(key) = {x}
    BY <1>8, <2>6, FS_Singleton
  <2>8. log[r][m] = log[p][i]
    BY <1>8, <2>5, <2>7
  <2> QED
    BY <2>3, <2>8
<1>11. v = Micros(log[p][i])
  <2> DEFINE b == Micros(log[p][i])
  <2>1. b \in stamps /\ stamps \subseteq Nat /\ v = Min(stamps) /\ \A x \in stamps : b <= x
    BY <1>2, <1>8, <1>9, <1>10
  <2> HIDE DEF b, stamps
  <2>2. Min(stamps) = b
    BY <2>1, MinIs
  <2> QED
    BY <2>1, <2>2 DEF b
<1> QED
  BY <1>7, <1>11 DEF first, ats, LineAt

\* The time to convergence (analyze_results.py:358-380, "the LATEST apply
\* timestamp per op") is the time from the first line of a sender to the last
\* line of a receiver, where the clocks agree and no key is used again.
THEOREM ConvergenceEndsAtLastApply == Spec => []ConvergenceIsLastApply
<1>1. ASSUME LogInv, SameClocks, Scale # None, \A k \in SentKeys : Cardinality(SendsOf(k)) = 1
      PROVE  Near(Scale.convergence, Max(AppliedAts) - Min(SentAts))
  <2> DEFINE sends == ScaleLoaded.sends
             latest == ScaleLoaded.max_applies
             keys == DOMAIN sends \cap DOMAIN latest
             late == Max({latest[k] : k \in keys})
             early == Min({sends[k] : k \in DOMAIN sends})
  <2> HIDE DEF sends, latest
  <2>1. DOMAIN sends # {} /\ keys # {} /\ Scale.convergence = late - early
    BY <1>1, ScaleFields DEF sends, latest
  <2>2. DOMAIN sends = SentKeys
    BY <1>1, LoadedMaps, SendsLoaded, KeysMean DEF sends, ScaleLoaded
  <2>3. keys = SentKeys \cap DOMAIN latest
    BY <2>2
  <2> HIDE DEF keys
  <2>4. LineAt(Max(AppliedAts), late)
    BY <1>1, <2>1, <2>3, LatestIsLastApply DEF latest
  <2>5. LineAt(Min(SentAts), early)
    BY <1>1, <2>1, EarliestIsFirstSend DEF sends
  <2> HIDE DEF late, early
  <2>6. PICK q \in Peers : \E j \in DOMAIN log[q] :
          log[q][j].at = Max(AppliedAts) /\ late = Micros(log[q][j])
    BY <2>4 DEF LineAt
  <2>7. PICK j \in DOMAIN log[q] : log[q][j].at = Max(AppliedAts) /\ late = Micros(log[q][j])
    BY <2>6
  <2>8. PICK p \in Peers : \E i \in DOMAIN log[p] :
          log[p][i].at = Min(SentAts) /\ early = Micros(log[p][i])
    BY <2>5 DEF LineAt
  <2>9. PICK i \in DOMAIN log[p] : log[p][i].at = Min(SentAts) /\ early = Micros(log[p][i])
    BY <2>8
  <2>10. Near(Micros(log[q][j]) - Micros(log[p][i]), log[q][j].at - log[p][i].at)
    BY <1>1, StampsCompare
  <2> QED
    BY <2>1, <2>7, <2>9, <2>10
<1>2. ASSUME LogInv PROVE ConvergenceIsLastApply
  BY <1>1, <1>2 DEF ConvergenceIsLastApply, AppliedAts, SentAts
<1> QED
  BY <1>2, LogInvariance, PTL

-----------------------------------------------------------------------------
(* The percentiles.                                                        *)

IsSamples(data) ==
  /\ IsFiniteSet(DOMAIN data) /\ DOMAIN data # {}
  /\ \A k \in DOMAIN data : data[k] \in Nat
Below(data, v) == {k \in DOMAIN data : data[k] < v}
UpTo(data, v)  == {k \in DOMAIN data : data[k] <= v}
IsAt(data, v, idx) ==
  v \in Range(data) /\ Cardinality(Below(data, v)) <= idx /\ Cardinality(UpTo(data, v)) > idx

LEMMA CountFacts ==
  ASSUME NEW data, IsSamples(data), NEW v \in Nat
  PROVE  /\ Cardinality(Below(data, v)) \in Nat /\ Cardinality(UpTo(data, v)) \in Nat
         /\ Cardinality(DOMAIN data) \in Nat /\ Cardinality(DOMAIN data) > 0
         /\ Cardinality(UpTo(data, v)) <= Cardinality(DOMAIN data)
         /\ IsFiniteSet(Below(data, v)) /\ IsFiniteSet(UpTo(data, v))
<1>1. IsFiniteSet(DOMAIN data) /\ DOMAIN data # {}
  BY DEF IsSamples
<1>2. Below(data, v) \subseteq DOMAIN data /\ UpTo(data, v) \subseteq DOMAIN data
  BY DEF Below, UpTo
<1>3. /\ IsFiniteSet(Below(data, v)) /\ IsFiniteSet(UpTo(data, v))
      /\ Cardinality(UpTo(data, v)) <= Cardinality(DOMAIN data)
  BY <1>1, <1>2, FS_Subset
<1>4. /\ Cardinality(Below(data, v)) \in Nat /\ Cardinality(UpTo(data, v)) \in Nat
      /\ Cardinality(DOMAIN data) \in Nat
  BY <1>1, <1>3, FS_CardinalityType
<1>5. Cardinality(DOMAIN data) # 0
  BY <1>1, FS_EmptySet
<1> QED
  BY <1>3, <1>4, <1>5

\* A greater sample has more samples up to it.
LEMMA CountGrows ==
  ASSUME NEW data, IsSamples(data), NEW v \in Nat, NEW w \in Nat, v < w
  PROVE  /\ Cardinality(UpTo(data, v)) <= Cardinality(Below(data, w))
         /\ w \in Range(data) => Cardinality(UpTo(data, v)) < Cardinality(UpTo(data, w))
<1>1. \A k \in DOMAIN data : data[k] \in Nat
  BY DEF IsSamples
<1>2. /\ UpTo(data, v) \subseteq Below(data, w) /\ UpTo(data, v) \subseteq UpTo(data, w)
  BY <1>1 DEF UpTo, Below
<1>3. /\ IsFiniteSet(Below(data, w)) /\ IsFiniteSet(UpTo(data, w))
      /\ Cardinality(UpTo(data, v)) \in Nat /\ Cardinality(UpTo(data, w)) \in Nat
  BY CountFacts
<1>4. Cardinality(UpTo(data, v)) <= Cardinality(Below(data, w))
  BY <1>2, <1>3, FS_Subset
<1>5. ASSUME w \in Range(data)
      PROVE  Cardinality(UpTo(data, v)) < Cardinality(UpTo(data, w))
  <2>1. PICK k \in DOMAIN data : w = data[k]
    BY <1>5 DEF Range
  <2>2. k \in UpTo(data, w) /\ k \notin UpTo(data, v)
    BY <2>1 DEF UpTo
  <2>3. UpTo(data, w) # UpTo(data, v)
    BY <2>2
  <2>4. /\ Cardinality(UpTo(data, v)) <= Cardinality(UpTo(data, w))
        /\ Cardinality(UpTo(data, w)) # Cardinality(UpTo(data, v))
    BY <1>2, <1>3, <2>3, FS_Subset
  <2> QED
    BY <1>3, <2>4
<1> QED
  BY <1>4, <1>5

LEMMA GreatestSample ==
  ASSUME NEW data, IsSamples(data), NEW S, S \subseteq DOMAIN data, S # {}
  PROVE  \E k \in S : \A j \in S : data[j] <= data[k]
<1> DEFINE n == Cardinality(DOMAIN data)
           c(k) == Cardinality(UpTo(data, data[k]))
           U == {n - c(k) : k \in S}
<1>1. \A k \in S : data[k] \in Nat /\ data[k] \in Range(data)
  BY DEF IsSamples, Range
<1>2. ASSUME NEW k \in S PROVE c(k) \in Nat /\ n \in Nat /\ n - c(k) \in Nat
  <2>1. c(k) \in Nat /\ n \in Nat /\ c(k) <= n
    BY <1>1, CountFacts
  <2> QED
    BY <2>1
<1>3. ASSUME NEW j \in S, NEW k \in S, data[k] < data[j] PROVE c(k) < c(j)
  BY <1>1, <1>3, CountGrows
<1> HIDE DEF n, c
<1>4. U \subseteq Nat /\ U # {}
  BY <1>2
<1>5. PICK u \in U : \A x \in U : u <= x
  <2> HIDE DEF U
  <2> QED
    BY <1>4, LeastOfNats
<1>6. PICK k \in S : u = n - c(k)
  OBVIOUS
<1>7. \A j \in S : n - c(k) <= n - c(j)
  BY <1>5, <1>6
<1>8. \A j \in S : c(j) <= c(k)
  BY <1>2, <1>7
<1>9. \A j \in S : ~(data[k] < data[j])
  BY <1>2, <1>3, <1>8
<1>10. \A j \in S : data[j] <= data[k]
  BY <1>1, <1>9
<1> QED
  BY <1>10

LEMMA SortedAtFacts ==
  ASSUME NEW data, IsSamples(data), NEW idx \in Nat, idx < Cardinality(DOMAIN data)
  PROVE  IsAt(data, SortedAt(data, idx), idx)
<1>1. \A k \in DOMAIN data : data[k] \in Nat /\ data[k] \in Range(data)
  BY DEF IsSamples, Range
<1>2. PICK top \in DOMAIN data : \A j \in DOMAIN data : data[j] <= data[top]
  BY GreatestSample DEF IsSamples
<1>3. UpTo(data, data[top]) = DOMAIN data
  BY <1>2 DEF UpTo
<1> DEFINE T == {v \in Range(data) : Cardinality(UpTo(data, v)) > idx}
<1>4. data[top] \in T
  <2>1. Cardinality(UpTo(data, data[top])) > idx
    BY <1>3, CountFacts, <1>1
  <2> QED
    BY <1>1, <2>1
<1>5. T \subseteq Nat
  BY <1>1 DEF Range
<1>6. PICK v \in T : \A w \in T : v <= w
  <2> HIDE DEF T
  <2> QED
    BY <1>4, <1>5, LeastOfNats
<1>7. v \in Range(data) /\ v \in Nat /\ Cardinality(UpTo(data, v)) > idx
  BY <1>5, <1>6
<1>8. Cardinality(Below(data, v)) <= idx
  <2> SUFFICES ASSUME ~(Cardinality(Below(data, v)) <= idx) PROVE FALSE
    OBVIOUS
  <2> DEFINE B == Below(data, v)
  <2>1. Cardinality(B) \in Nat /\ Cardinality(B) > idx
    BY <1>7, CountFacts
  <2>2. B # {} /\ B \subseteq DOMAIN data
    <3>1. B # {}
      BY <2>1, FS_EmptySet
    <3> QED
      BY <3>1 DEF Below
  <2> HIDE DEF B
  <2>3. PICK k \in B : \A j \in B : data[j] <= data[k]
    BY <2>2, GreatestSample
  <2>4. k \in DOMAIN data /\ data[k] < v /\ data[k] \in Nat /\ data[k] \in Range(data)
    BY <1>1, <2>2, <2>3 DEF B, Below
  <2>5. B \subseteq UpTo(data, data[k])
    BY <2>2, <2>3 DEF UpTo
  <2>6. IsFiniteSet(UpTo(data, data[k])) /\ Cardinality(UpTo(data, data[k])) \in Nat
    BY <2>4, CountFacts
  <2>7. Cardinality(B) <= Cardinality(UpTo(data, data[k]))
    BY <2>5, <2>6, FS_Subset
  <2>8. Cardinality(UpTo(data, data[k])) > idx
    BY <2>1, <2>6, <2>7
  <2>9. v <= data[k]
    BY <1>6, <2>4, <2>8
  <2> QED
    BY <1>7, <2>4, <2>9
<1>9. \E x \in Range(data) : Cardinality(Below(data, x)) <= idx /\ Cardinality(UpTo(data, x)) > idx
  BY <1>7, <1>8
<1>10. SortedAt(data, idx) =
         CHOOSE x \in Range(data) : Cardinality(Below(data, x)) <= idx /\ Cardinality(UpTo(data, x)) > idx
  BY DEF SortedAt, Below, UpTo
<1> QED
  BY <1>9, <1>10 DEF IsAt

\* Sorting is what it should be: a later place has no lesser sample.
LEMMA PlacesInOrder ==
  ASSUME NEW data, IsSamples(data), NEW i \in Nat, NEW j \in Nat, i <= j,
         NEW v, IsAt(data, v, i), NEW w, IsAt(data, w, j)
  PROVE  v \in Nat /\ w \in Nat /\ v <= w
<1>1. v \in Nat /\ w \in Nat
  BY DEF IsAt, IsSamples, Range
<1>2. /\ Cardinality(Below(data, v)) \in Nat /\ Cardinality(UpTo(data, w)) \in Nat
      /\ Cardinality(Below(data, v)) <= i /\ Cardinality(UpTo(data, w)) > j
  BY <1>1, CountFacts DEF IsAt
<1>3. ~(w < v)
  <2> SUFFICES ASSUME w < v PROVE FALSE
    OBVIOUS
  <2>1. Cardinality(UpTo(data, w)) <= Cardinality(Below(data, v))
    BY <1>1, CountGrows
  <2> QED
    BY <1>2, <2>1
<1> QED
  BY <1>1, <1>3

LEMMA MaxOfTwo ==
  ASSUME NEW x \in Int
  PROVE  Max({0, x}) = IF x <= 0 THEN 0 ELSE x
<1> DEFINE T == {0, x}
           m == Max(T)
<1>1. \E a \in T : \A b \in T : a >= b
  OBVIOUS
<1> HIDE DEF T
<1>2. m \in T /\ \A b \in T : m >= b
  BY <1>1 DEF Max
<1> HIDE DEF m
<1>3. (m = 0 \/ m = x) /\ m >= 0 /\ m >= x
  BY <1>2 DEF T
<1>4. m = IF x <= 0 THEN 0 ELSE x
  BY <1>3
<1> QED
  BY <1>4 DEF m, T

\* The place of a percentile among n samples.
PlaceOf(n, p) == Max({0, (n * p) \div 100 - 1})
IsPlace(n, p, idx) ==
  /\ idx \in Nat /\ idx < n
  /\ \A c \in Nat : 100 * c >= p * n => c > idx
  /\ (n * p) % 100 = 0 => \A c \in Nat : c > idx => 100 * c >= p * n

LEMMA PlaceFacts ==
  ASSUME NEW n \in Nat, n > 0, NEW p \in {50, 95, 99}
  PROVE  IsPlace(n, p, PlaceOf(n, p))
<1> DEFINE d == (n * p) \div 100
           r == (n * p) % 100
           x == d - 1
           idx == PlaceOf(n, p)
<1>1. /\ d \in Nat /\ r \in 0 .. 99 /\ n * p = 100 * d + r /\ p * n = n * p
      /\ n * p > 0 /\ d <= n
  <2>1. CASE p = 50
    BY <2>1
  <2>2. CASE p = 95
    BY <2>2
  <2>3. CASE p = 99
    BY <2>3
  <2> QED
    BY <2>1, <2>2, <2>3
<1>2. idx = Max({0, x})
  BY DEF PlaceOf
<1>3. x \in Int /\ x = d - 1
  BY <1>1
<1> HIDE DEF x, idx
<1>4. idx = IF x <= 0 THEN 0 ELSE x
  BY <1>2, <1>3, MaxOfTwo
<1> DEFINE np == n * p
<1>5. np \in Nat /\ np = 100 * d + r /\ p * n = np /\ np > 0
  BY <1>1
<1> HIDE DEF d, r, np
<1>6. idx \in Nat /\ idx < n
  BY <1>1, <1>3, <1>4
<1>7. \A c \in Nat : 100 * c >= np => c > idx
  BY <1>1, <1>3, <1>4, <1>5
<1>8. r = 0 => \A c \in Nat : c > idx => 100 * c >= np
  BY <1>1, <1>3, <1>4, <1>5
<1> QED
  BY <1>5, <1>6, <1>7, <1>8 DEF IsPlace, idx, r

LEMMA PlacesRise ==
  ASSUME NEW n \in Nat
  PROVE  PlaceOf(n, 50) <= PlaceOf(n, 95) /\ PlaceOf(n, 95) <= PlaceOf(n, 99)
<1> DEFINE a == (n * 50) \div 100 - 1
           b == (n * 95) \div 100 - 1
           c == (n * 99) \div 100 - 1
<1>1. a \in Int /\ b \in Int /\ c \in Int /\ a <= b /\ b <= c
  OBVIOUS
<1>2. PlaceOf(n, 50) = Max({0, a}) /\ PlaceOf(n, 95) = Max({0, b}) /\ PlaceOf(n, 99) = Max({0, c})
  BY DEF PlaceOf
<1> HIDE DEF a, b, c
<1>3. /\ Max({0, a}) = IF a <= 0 THEN 0 ELSE a
      /\ Max({0, b}) = IF b <= 0 THEN 0 ELSE b
      /\ Max({0, c}) = IF c <= 0 THEN 0 ELSE c
  BY <1>1, MaxOfTwo
<1> QED
  BY <1>1, <1>2, <1>3

LEMMA PercentileFacts ==
  ASSUME NEW data, IsSamples(data), NEW n, n = Cardinality(DOMAIN data), NEW p \in {50, 95, 99}
  PROVE  IsAt(data, percentile(data, p), PlaceOf(n, p))
<1>1. n \in Nat /\ n > 0
  BY CountFacts, 0 \in Nat
<1>2. PlaceOf(n, p) \in Nat /\ PlaceOf(n, p) < n
  BY <1>1, PlaceFacts DEF IsPlace
<1>3. percentile(data, p) = SortedAt(data, PlaceOf(n, p))
  BY DEF percentile, PlaceOf, IsSamples
<1> QED
  BY <1>2, <1>3, SortedAtFacts

\* The nearest-rank percentile: the least sample with p percent up to it.
NearestRank(data, p) ==
  Min({v \in Range(data) : 100 * Cardinality(UpTo(data, v)) >= p * Cardinality(DOMAIN data)})

LEMMA BelowNearestRank ==
  ASSUME NEW data, IsSamples(data), NEW p \in {50, 95, 99}
  PROVE  /\ percentile(data, p) <= NearestRank(data, p)
         /\ (Cardinality(DOMAIN data) * p) % 100 = 0 => percentile(data, p) = NearestRank(data, p)
<1> DEFINE n == Cardinality(DOMAIN data)
           c(v) == Cardinality(UpTo(data, v))
           idx == PlaceOf(n, p)
           T == {v \in Range(data) : 100 * c(v) >= p * n}
           x == percentile(data, p)
           y == NearestRank(data, p)
<1>1. \A v \in Range(data) : v \in Nat
  BY DEF IsSamples, Range
<1>2. \A v \in Range(data) : c(v) \in Nat
  BY <1>1, CountFacts
<1>3. n \in Nat /\ n > 0
  BY CountFacts, 0 \in Nat
<1>4. T # {}
  <2>1. PICK top \in DOMAIN data : \A j \in DOMAIN data : data[j] <= data[top]
    BY GreatestSample DEF IsSamples
  <2>2. UpTo(data, data[top]) = DOMAIN data /\ data[top] \in Range(data)
    BY <2>1 DEF UpTo, Range
  <2>3. c(data[top]) = n
    BY <2>2
  <2> HIDE DEF c, n
  <2>4. 100 * n >= p * n
    BY <1>3
  <2>5. data[top] \in T
    BY <2>2, <2>3, <2>4
  <2> QED
    BY <2>5
<1>5. y = Min(T)
  BY DEF NearestRank
<1> HIDE DEF y
<1>6. T \subseteq Nat
  BY <1>1
<1>7. y \in T /\ \A v \in T : y <= v
  <2> HIDE DEF T
  <2> QED
    BY <1>4, <1>5, <1>6, MinFacts
<1>8. IsAt(data, x, idx)
  BY PercentileFacts
<1> HIDE DEF idx, x, n
<1>9. x \in Range(data) /\ Cardinality(Below(data, x)) <= idx /\ c(x) > idx
  BY <1>8 DEF IsAt
<1>10. IsPlace(n, p, idx)
  BY <1>3, PlaceFacts DEF idx
<1>11. /\ idx \in Nat
       /\ \A m \in Nat : 100 * m >= p * n => m > idx
       /\ (n * p) % 100 = 0 => \A m \in Nat : m > idx => 100 * m >= p * n
  BY <1>10 DEF IsPlace
<1>12. y \in Range(data) /\ c(y) > idx
  BY <1>2, <1>7, <1>11
<1>13. x \in Nat /\ y \in Nat
  BY <1>1, <1>9, <1>12
<1>14. ~(y < x)
  <2> SUFFICES ASSUME y < x PROVE FALSE
    OBVIOUS
  <2>1. c(y) <= Cardinality(Below(data, x))
    BY <1>13, CountGrows
  <2>2. Cardinality(Below(data, x)) \in Nat /\ c(y) \in Nat
    BY <1>13, CountFacts
  <2> QED
    BY <1>9, <1>11, <1>12, <2>1, <2>2
<1>15. x <= y
  BY <1>13, <1>14
<1>16. ASSUME (n * p) % 100 = 0 PROVE x = y
  <2>1. x \in T
    BY <1>2, <1>9, <1>11, <1>16
  <2>2. y <= x
    BY <1>7, <2>1
  <2> QED
    BY <1>13, <1>15, <2>2
<1> QED
  BY <1>15, <1>16 DEF x, y, n

LEMMA LatencyStatistics ==
  ASSUME NEW data, data = Latency.latencies
  PROVE  /\ Latency.min = MinOrNaN(data) /\ Latency.max = MaxOrNaN(data)
         /\ Latency.p50 = percentile(data, 50) /\ Latency.p95 = percentile(data, 95)
         /\ Latency.p99 = percentile(data, 99)
<1> DEFINE result == Summary(Loaded)
           samples == RestrictValues(Deltas(Loaded), LAMBDA d : d >= 0)
<1>1. data = samples
  BY LatencyFields
<1>2. /\ result.min = MinOrNaN(samples) /\ result.max = MaxOrNaN(samples)
      /\ result.p50 = percentile(samples, 50) /\ result.p95 = percentile(samples, 95)
      /\ result.p99 = percentile(samples, 99)
      /\ {"min", "max", "p50", "p95", "p99"} \subseteq DOMAIN result
  BY DEF Summary
<1> HIDE DEF result, samples
<1>3. Latency = [field \in DOMAIN result \cup {"converged"} |->
                   IF field = "converged" THEN ConvergedLabel(Dir.dumps) ELSE result[field]]
  BY DEF Latency, analyze_subdir, result, Loaded
<1>4. /\ Latency.min = result.min /\ Latency.max = result.max /\ Latency.p50 = result.p50
      /\ Latency.p95 = result.p95 /\ Latency.p99 = result.p99
  BY <1>2, <1>3
<1> QED
  BY <1>1, <1>2, <1>4

LEMMA LatenciesAreSamples ==
  ASSUME LogInv, NEW data, data = Latency.latencies, Cardinality(DOMAIN data) > 0
  PROVE  IsSamples(data)
<1>1. DOMAIN data # {}
  BY FS_EmptySet
<1>2. IsFiniteSet(DOMAIN data)
  <2> DEFINE S == Lines("SEND")
             f == [l \in S |-> l[1].key]
  <2>1. IsFiniteSet(S)
    BY LinesFinite
  <2>2. SentKeys = {f[x] : x \in S} /\ DOMAIN f = S
    BY DEF SentKeys
  <2> HIDE DEF S, f
  <2>3. IsFiniteSet(SentKeys)
    BY <2>1, <2>2, ImageFinite
  <2>4. DOMAIN data \subseteq DOMAIN Deltas(Loaded)
    BY LatenciesMean
  <2>5. DOMAIN Deltas(Loaded) \subseteq DOMAIN Loaded.sends
    BY DEF Deltas
  <2>6. DOMAIN Loaded.sends = SentKeys
    BY SendsLoaded, KeysMean DEF Loaded
  <2> QED
    BY <2>3, <2>4, <2>5, <2>6, FS_Subset
<1>3. ASSUME NEW key \in DOMAIN data PROVE data[key] \in Nat
  <2>1. key \in DOMAIN Deltas(Loaded) /\ data[key] = Deltas(Loaded)[key] /\ data[key] >= 0
    <3> DEFINE d == Deltas(Loaded)
    <3>1. data = RestrictValues(d, LAMBDA x : x >= 0)
      BY LatencyFields
    <3> HIDE DEF d
    <3>2. RestrictValues(d, LAMBDA x : x >= 0) = [k \in {y \in DOMAIN d : d[y] >= 0} |-> d[k]]
      BY DEF RestrictValues, Restrict
    <3> QED
      BY <3>1, <3>2 DEF d
  <2>2. PICK p \in Peers : StampOf(p, "SEND", key, Loaded.sends[key])
    BY <2>1, DelayMeans
  <2>3. PICK q \in Peers : StampOf(q, "APPLY", key, Loaded.applies[key])
    BY <2>1, DelayMeans
  <2>4. Loaded.sends[key] \in Nat
    BY <2>2, LineIsTyped DEF StampOf, LinesOf
  <2>5. Loaded.applies[key] \in Nat
    BY <2>3, LineIsTyped DEF StampOf, LinesOf
  <2>6. Deltas(Loaded)[key] = Loaded.applies[key] - Loaded.sends[key]
    BY <2>1, DelayMeans
  <2> QED
    BY <2>1, <2>4, <2>5, <2>6
<1> QED
  BY <1>1, <1>2, <1>3 DEF IsSamples

\* The least and the greatest sample are what they should be.
LEMMA LeastAndGreatest ==
  ASSUME NEW data, IsSamples(data), NEW v \in Range(data)
  PROVE  MinOrNaN(data) <= v /\ v <= MaxOrNaN(data)
<1> DEFINE T == Range(data)
           x == Max(T)
<1>1. T \subseteq Nat /\ T # {}
  BY DEF Range, IsSamples
<1>2. MinOrNaN(data) = Min(T) /\ MaxOrNaN(data) = x
  BY DEF MinOrNaN, MaxOrNaN, IsSamples
<1>3. PICK top \in DOMAIN data : \A j \in DOMAIN data : data[j] <= data[top]
  BY GreatestSample DEF IsSamples
<1>4. \A j \in DOMAIN data : data[j] \in Nat
  BY DEF IsSamples
<1>5. \E a \in T : \A b \in T : a >= b
  BY <1>3, <1>4 DEF Range
<1> HIDE DEF T
<1>6. x \in T /\ \A b \in T : x >= b
  BY <1>5 DEF Max
<1>7. Min(T) <= v
  BY <1>1, MinFacts DEF T
<1> HIDE DEF x
<1>8. v \in T
  BY DEF T
<1>9. v <= x
  BY <1>1, <1>6, <1>8
<1> QED
  BY <1>2, <1>7, <1>9

\* A percentile of the reports is never above the nearest-rank percentile, the
\* least sample with p percent of all at or below it, which it is when that
\* rank is whole; and they are in order (analyze_results.py:126-131).
THEOREM PercentilesOfNearestRank == Spec => []PercentilesBelowNearestRank
<1>1. ASSUME LogInv, NEW data, data = Latency.latencies,
             NEW n, n = Cardinality(DOMAIN data), n > 0
      PROVE  /\ \A p \in {50, 95, 99} : percentile(data, p) <= NearestRank(data, p)
             /\ \A p \in {50, 95, 99} : (n * p) % 100 = 0 => percentile(data, p) = NearestRank(data, p)
             /\ Latency.min <= Latency.p50 /\ Latency.p50 <= Latency.p95
             /\ Latency.p95 <= Latency.p99 /\ Latency.p99 <= Latency.max
  <2>1. IsSamples(data)
    BY <1>1, LatenciesAreSamples
  <2>2. \A p \in {50, 95, 99} :
          /\ percentile(data, p) <= NearestRank(data, p)
          /\ (n * p) % 100 = 0 => percentile(data, p) = NearestRank(data, p)
    BY <1>1, <2>1, BelowNearestRank
  <2>3. \A p \in {50, 95, 99} : IsAt(data, percentile(data, p), PlaceOf(n, p))
    BY <1>1, <2>1, PercentileFacts
  <2>4. \A p \in {50, 95, 99} : PlaceOf(n, p) \in Nat
    <3>1. n \in Nat
      BY <1>1, <2>1, CountFacts, 0 \in Nat
    <3> QED
      BY <1>1, <3>1, PlaceFacts DEF IsPlace
  <2>5. PlaceOf(n, 50) <= PlaceOf(n, 95) /\ PlaceOf(n, 95) <= PlaceOf(n, 99)
    BY <1>1, <2>1, PlacesRise, CountFacts, 0 \in Nat
  <2>6. percentile(data, 50) <= percentile(data, 95)
    BY <2>1, <2>3, <2>4, <2>5, PlacesInOrder
  <2>7. percentile(data, 95) <= percentile(data, 99)
    BY <2>1, <2>3, <2>4, <2>5, PlacesInOrder
  <2>8. percentile(data, 50) \in Range(data) /\ percentile(data, 99) \in Range(data)
    BY <2>3 DEF IsAt
  <2>9. MinOrNaN(data) <= percentile(data, 50) /\ percentile(data, 99) <= MaxOrNaN(data)
    BY <2>1, <2>8, LeastAndGreatest
  <2>10. /\ Latency.min = MinOrNaN(data) /\ Latency.max = MaxOrNaN(data)
         /\ Latency.p50 = percentile(data, 50) /\ Latency.p95 = percentile(data, 95)
         /\ Latency.p99 = percentile(data, 99)
    BY <1>1, LatencyStatistics
  <2> QED
    BY <2>2, <2>6, <2>7, <2>9, <2>10
<1>2. ASSUME LogInv PROVE PercentilesBelowNearestRank
  <2> DEFINE data == Latency.latencies
             n == Cardinality(DOMAIN data)
  <2>1. n > 0 =>
          /\ \A p \in {50, 95, 99} : percentile(data, p) <= NearestRank(data, p)
          /\ \A p \in {50, 95, 99} : (n * p) % 100 = 0 => percentile(data, p) = NearestRank(data, p)
          /\ Latency.min <= Latency.p50 /\ Latency.p50 <= Latency.p95
          /\ Latency.p95 <= Latency.p99 /\ Latency.p99 <= Latency.max
    BY <1>1, <1>2
  <2> QED
    BY <2>1 DEF PercentilesBelowNearestRank, NearestRank, UpTo
<1> QED
  BY <1>2, LogInvariance, PTL
=============================================================================
