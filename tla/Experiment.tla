---------------------------- MODULE Experiment ----------------------------
(***************************************************************************)
(* An experiment of run_eval.sh and what its logs make the scripts report.  *)
(* Peers edit, send and receive as pipeline.cpp does, and write a line with *)
(* the time of their own clock for each operation sent or applied; some     *)
(* peers start late and load a snapshot first.  The properties compare what *)
(* the scripts compute from the logs, at any moment, with what happened.   *)
(*                                                                         *)
(* A document is the set of its characters, for where they stand is of no   *)
(* matter here; a parked operation is one that is received later.  The      *)
(* clocks of the peers differ by a constant, and none is set back.          *)
(***************************************************************************)
EXTENDS Reports

CONSTANTS
  NPeers,       \* the peers are 0 .. NPeers - 1; the logs sort in this order
  Writers,      \* the peers whose script edits
  Late,         \* the peers that start while others edit
  WithDeletes,  \* the scripts delete, as those of gen_convergence_script.py do
  MaxOps,       \* bound: operations of all scripts together
  Copies,       \* bound: copies of a datagram that may reach each peer
  Skews,        \* how far the clock of each peer may be ahead
  Units,        \* the formats of the log
  TickLength,   \* microseconds that pass at a time
  EndTime       \* bound: the end of the experiment

VARIABLES
  now, skew, unit,
  up,         \* the peers that have started
  nodes,      \* the keys in the document of each peer, deleted ones included
  tombs,      \* those of them that are deleted
  outgoing,   \* outgoing_ of each peer
  net,        \* the datagrams on their way to each peer
  log         \* the log of each peer

vars == <<now, skew, unit, up, nodes, tombs, outgoing, net, log>>

Peers == 0 .. NPeers - 1

\* Clocks run and count from 1970.
ASSUME ClocksAssumption ==
  /\ NPeers \in Nat /\ TickLength \in Nat
  /\ Skews \subseteq [Peers -> Nat]
  /\ Units \subseteq {"us", "ms"}

Init ==
  /\ now = 0
  /\ skew \in Skews
  /\ unit \in Units
  /\ up = Peers \ Late
  /\ nodes = [p \in Peers |-> {}]
  /\ tombs = [p \in Peers |-> {}]
  /\ outgoing = [p \in Peers |-> <<>>]
  /\ net = [p \in Peers |-> EmptyBag]
  /\ log = [p \in Peers |-> <<>>]

Stamp(p) == IF unit = "us" THEN now + skew[p] ELSE (now + skew[p]) \div 1000

\* Scripts read the first four fields; type and at tell what really happened.
Line(p, event, key, type) ==
  [event |-> event, key |-> key, ts |-> Stamp(p), unit |-> unit,
   type |-> type, at |-> now]

Tick ==
  /\ now < EndTime
  /\ now' = now + TickLength
  /\ UNCHANGED <<skew, unit, up, nodes, tombs, outgoing, net, log>>

Lines(event) ==
  UNION {{<<log[p][i], p>> : i \in {j \in DOMAIN log[p] : log[p][j].event = event}} : p \in Peers}

Operations == Cardinality(Lines("SEND")) + SumFunction([p \in Peers |-> Len(outgoing[p])])

MayEdit(p) == p \in up \cap Writers /\ Operations < MaxOps

\* The identifier of a character is also the key of the line: both are op.id.
Insert(p) ==
  LET key == <<p, Cardinality({k \in nodes[p] : k[1] = p}) + 1>> IN
  /\ MayEdit(p)
  /\ nodes' = [nodes EXCEPT ![p] = @ \cup {key}]
  /\ outgoing' = [outgoing EXCEPT ![p] = Append(@, [type |-> "INSERT", key |-> key])]
  /\ UNCHANGED <<now, skew, unit, up, tombs, net, log>>

Delete(p) ==
  /\ MayEdit(p) /\ WithDeletes
  /\ \E key \in nodes[p] \ tombs[p] :
       /\ tombs' = [tombs EXCEPT ![p] = @ \cup {key}]
       /\ outgoing' = [outgoing EXCEPT ![p] = Append(@, [type |-> "DELETE", key |-> key])]
  /\ UNCHANGED <<now, skew, unit, up, nodes, net, log>>

\* The line is written before the datagrams leave.  Those that stay in net
\* are lost: a peer gets any number of copies up to Copies.
Send(p) ==
  /\ outgoing[p] # <<>>
  /\ LET op == Head(outgoing[p]) IN
     /\ log' = [log EXCEPT ![p] = Append(@, Line(p, "SEND", op.key, op.type))]
     /\ net' = [q \in Peers |-> IF q = p THEN net[q] ELSE net[q] (+) [o \in {op} |-> Copies[q]]]
  /\ outgoing' = [outgoing EXCEPT ![p] = Tail(@)]
  /\ UNCHANGED <<now, skew, unit, up, nodes, tombs>>

TombsAfter(q, op) ==
  IF op.type = "DELETE" THEN tombs[q] \cup ({op.key} \cap nodes[q]) ELSE tombs[q]

\* The line is written for a duplicate too, and for a DELETE whose character
\* is absent.
Receive(q) ==
  /\ q \in up
  /\ \E op \in BagToSet(net[q]) :
       /\ net' = [net EXCEPT ![q] = @ (-) SetToBag({op})]
       /\ nodes' = IF op.type = "INSERT" THEN [nodes EXCEPT ![q] = @ \cup {op.key}] ELSE nodes
       /\ tombs' = [tombs EXCEPT ![q] = TombsAfter(q, op)]
       /\ log' = [log EXCEPT ![q] = Append(@, Line(q, "APPLY", op.key, op.type))]
  /\ UNCHANGED <<now, skew, unit, up, outgoing>>

\* A late peer loads the document of another before its script starts; its
\* log then has a line for each character, whether deleted or not.
LoadState(q, donor) ==
  LET keys == SetToSeq(nodes[donor]) IN
  /\ nodes' = [nodes EXCEPT ![q] = nodes[donor]]
  /\ tombs' = [tombs EXCEPT ![q] = tombs[donor]]
  /\ log' = [log EXCEPT ![q] = [i \in DOMAIN keys |-> Line(q, "APPLY", keys[i], "LOAD")]]

\* Or none has answered in time.
Join(q) ==
  /\ q \in Peers \ up
  /\ up' = up \cup {q}
  /\ UNCHANGED <<nodes, tombs, log>> \/ \E donor \in up : LoadState(q, donor)
  /\ UNCHANGED <<now, skew, unit, outgoing, net>>

Next ==
  \/ Tick
  \/ \E p \in Peers : Insert(p) \/ Delete(p) \/ Send(p) \/ Receive(p) \/ Join(p)

Spec == Init /\ [][Next]_vars

-----------------------------------------------------------------------------
(* What the scripts report of the logs as they are now.                    *)

Dir == [logs |-> [i \in 1 .. NPeers |-> log[i - 1]], dumps |-> <<>>, cpus |-> <<>>]
Latency == analyze_subdir(Dir)
Scale   == compute_scalability_metrics(Dir, NPeers)

(* What happened. *)

SendsOf(key)   == {l[1] : l \in {m \in Lines("SEND") : m[1].key = key}}
AppliesOf(key) == {l[1] : l \in {m \in Lines("APPLY") : m[1].key = key}}
SentKeys == {l[1].key : l \in Lines("SEND")}
SameClocks == \A p, q \in Peers : skew[p] = skew[q]

\* The key names one operation, which no peer got as part of a snapshot.
Plain(key) ==
  /\ Cardinality({l \in Lines("SEND") : l[1].key = key}) = 1
  /\ \A l \in AppliesOf(key) : l.type = "INSERT"
AtMostOnceEach(key) ==
  \A p \in Peers : Cardinality(LinesOf(log[p], "APPLY", key)) <= 1

\* Stamps in milliseconds lose less than one of them.
Precision == IF unit = "us" THEN 0 ELSE 999
Near(x, y) == x - y <= Precision /\ y - x <= Precision

-----------------------------------------------------------------------------
\* The drop count of the reports (analyze_results.py:151) never says more
\* than was lost: no operation of a key it counts has reached any peer.
DropsAreLost ==
  /\ Latency.dropped <=
       Cardinality({l \in Lines("SEND") :
         ~\E m \in AppliesOf(l[1].key) : m.type \in {l[1].type, "LOAD"}})
  /\ (~WithDeletes) => Latency.dropped = Cardinality({k \in SentKeys : AppliesOf(k) = {}})

\* The delay reported for an operation is the one until the first peer had
\* it, where the clocks agree and the operation is alone with its key
\* (analyze_results.py:97-119, 143-151).
LatencyOfFirstPeer ==
  SameClocks => \A k \in DOMAIN Latency.latencies :
    Plain(k) /\ AtMostOnceEach(k) =>
      \E s \in SendsOf(k) :
        Near(Latency.latencies[k], Min({l.at : l \in AppliesOf(k)}) - s.at)

\* A sample is left out as negative (analyze_results.py:148) for one of three
\* reasons: the clocks differ, a later operation has the key, or a snapshot
\* brought the character before its operation was sent.
NegativeHasACause ==
  LET deltas == Deltas(load_subdir(Dir.logs)) IN
  \A k \in DOMAIN deltas : deltas[k] < 0 => ~SameClocks \/ ~Plain(k)

\* It is the time from the first line of a sender to the last line of a
\* receiver, where the clocks agree and no key is used again
\* (analyze_results.py:358-380, "the LATEST apply timestamp per op").
ConvergenceIsLastApply ==
  Scale # None /\ SameClocks /\ (\A k \in SentKeys : Cardinality(SendsOf(k)) = 1) =>
    Near(Scale.convergence,
         Max({l.at : l \in UNION {AppliesOf(k) : k \in SentKeys}})
         - Min({l[1].at : l \in Lines("SEND")}))

\* Two scripts that read the same logs report the same: analyze_latency.py
\* the rows of analyze_results.py that have operations, and
\* analyze_scalability.py its table and its bottlenecks, although it keeps
\* another line of a log that applied an operation twice.  Of logs in
\* milliseconds it reports nothing (analyze_scalability.py:37-62).
ScriptsAgree ==
  LET silent == [logs |-> <<>>, dumps |-> <<<<1>>, <<1>>>>, cpus |-> <<>>]
      dirs == <<Dir @@ [n |-> 1], silent @@ [n |-> 2], Dir @@ [n |-> NPeers]>>
      entries == <<[kind |-> "hidden", label |-> ".git", content |-> Dir],
                   [kind |-> "experiment", label |-> "2peer", content |-> silent],
                   [kind |-> "experiment", label |-> "3peer", content |-> Dir],
                   [kind |-> "scalability", label |-> "", content |-> dirs]>>
      reported == results_main(entries)
      with == SelectSeq(reported.rows, LAMBDA r : r.total > 0)
      latency == latency_main(entries)
      other == scalability_main(dirs)
  IN /\ (latency = None) <=> (with = <<>>)
     /\ latency # None =>
          latency = [i \in DOMAIN with |-> Restrict(with[i], DOMAIN with[i] \ {"converged"})]
     /\ IF unit = "ms" \/ reported.scale = None THEN other = None
        ELSE /\ other.results = reported.scale
             /\ \A before \in {-TickLength, 0, TickLength} :
                  LET grown == <<[Scale EXCEPT !.convergence = before, !.n_peers = 1], Scale>> IN
                  detect_bottleneck(grown) = Scalability_detect_bottleneck(grown)

\* A percentile of the reports is never above the nearest-rank percentile,
\* the least sample with p percent of all at or below it, which it is when
\* that rank is whole; and they are in order (analyze_results.py:126-131).
PercentilesBelowNearestRank ==
  LET data == Latency.latencies
      n == Cardinality(DOMAIN data)
      share(v) == Cardinality({k \in DOMAIN data : data[k] <= v})
      nearest(p) == Min({v \in Range(data) : 100 * share(v) >= p * n})
  IN n > 0 =>
       /\ \A p \in {50, 95, 99} : percentile(data, p) <= nearest(p)
       /\ \A p \in {50, 95, 99} : (n * p) % 100 = 0 => percentile(data, p) = nearest(p)
       /\ Latency.min <= Latency.p50 /\ Latency.p50 <= Latency.p95
       /\ Latency.p95 <= Latency.p99 /\ Latency.p99 <= Latency.max
=============================================================================
