--------------------------- MODULE LogAnalysis ---------------------------
(***************************************************************************)
(* What the evaluation scripts compute from the logs of an experiment:      *)
(* analyze_results.py and analyze_latency.py (delays of operations),        *)
(* analyze_results.py and analyze_scalability.py (time to convergence).     *)
(*                                                                         *)
(* The text of a log is abstracted to its LATENCY_SEND and LATENCY_APPLY    *)
(* lines; a directory holds its logs in the order of their names.  A        *)
(* Python dict is a function, a missing result is None.  A quotient         *)
(* of floats is kept as the pair of its operands.                          *)
(***************************************************************************)
EXTENDS Integers, FiniteSets, SequencesExt

CONSTANTS NaN, None

\* A line, with fields event ("SEND" or "APPLY"), key, ts and unit, says that
\* the operation of a key was sent or applied at ts, in microseconds ("us")
\* or, in logs of older builds, in milliseconds ("ms").

\* Mutant of Micros: only the lines of the sender are converted.
Micros_SendOnly(line) ==
  IF line.unit = "ms" /\ line.event = "SEND" THEN line.ts * 1000 ELSE line.ts

Micros(line) == IF line.unit = "ms" THEN line.ts * 1000 ELSE line.ts

\* The stamps a log gives to each key, as the lines of one kind say.
KeysOf(log, event) == {log[i].key : i \in {j \in DOMAIN log : log[j].event = event}}
LinesOf(log, event, key) ==
  {i \in DOMAIN log : log[i].event = event /\ log[i].key = key}

\* A later line of the same key overwrites an earlier one.
LastStamps(log, event) ==
  [key \in KeysOf(log, event) |-> Micros(log[Max(LinesOf(log, event, key))])]

\* dict.update in the order of the files: the last file that has a key wins.
Update(maps) ==
  [key \in UNION {DOMAIN maps[i] : i \in DOMAIN maps} |->
     maps[Max({i \in DOMAIN maps : key \in DOMAIN maps[i]})][key]]

\* One stamp per key out of those the files have.
Merge(maps, Pick(_)) ==
  [key \in UNION {DOMAIN maps[i] : i \in DOMAIN maps} |->
     Pick({maps[i][key] : i \in {j \in DOMAIN maps : key \in DOMAIN maps[j]}})]

-----------------------------------------------------------------------------
(* analyze_results.py: one log, and all logs of a directory.               *)

parse_log(log) ==
  [sends |-> LastStamps(log, "SEND"), applies |-> LastStamps(log, "APPLY")]

Parsed(logs, Parse(_)) == [i \in DOMAIN logs |-> Parse(logs[i])]
Sends(parsed)   == [i \in DOMAIN parsed |-> parsed[i].sends]
Applies(parsed) == [i \in DOMAIN parsed |-> parsed[i].applies]

\* Mutants of load_subdir: the last file wins for the applies as well; only
\* the first file's applies are kept.
load_subdir_LastWins(logs) ==
  LET parsed == Parsed(logs, parse_log) IN
  [sends |-> Update(Sends(parsed)), applies |-> Update(Applies(parsed))]
load_subdir_OneFile(logs) ==
  LET parsed == Parsed(logs, parse_log) IN
  [sends |-> Update(Sends(parsed)), applies |-> parsed[1].applies]

load_subdir(logs) ==
  LET parsed == Parsed(logs, parse_log) IN
  [sends |-> Update(Sends(parsed)), applies |-> Merge(Applies(parsed), Min)]

-----------------------------------------------------------------------------
(* Statistics.  The samples are a function from keys to delays.            *)

\* sorted(data)[idx]
SortedAt(data, idx) ==
  CHOOSE v \in Range(data) :
    /\ Cardinality({k \in DOMAIN data : data[k] < v}) <= idx
    /\ Cardinality({k \in DOMAIN data : data[k] <= v}) > idx

\* Mutant of percentile: the index is not brought back by one.
percentile_NextRank(data, p) ==
  IF DOMAIN data = {} THEN NaN
  ELSE SortedAt(data, (Cardinality(DOMAIN data) * p) \div 100)

percentile(data, p) ==
  IF DOMAIN data = {} THEN NaN
  ELSE SortedAt(data, Max({0, (Cardinality(DOMAIN data) * p) \div 100 - 1}))

MinOrNaN(data) == IF DOMAIN data = {} THEN NaN ELSE Min(Range(data))
MaxOrNaN(data) == IF DOMAIN data = {} THEN NaN ELSE Max(Range(data))
Avg(data)      == IF DOMAIN data = {} THEN NaN
                  ELSE <<SumFunction(data), Cardinality(DOMAIN data)>>

\* Empty dumps are left out, and two are needed to compare.
ConvergedLabel(dumps) ==
  LET contents == SelectSeq(dumps, LAMBDA d : d # <<>>) IN
  IF Len(contents) < 2 THEN "N/A"
  ELSE IF \A i \in DOMAIN contents : contents[i] = contents[1] THEN "true" ELSE "false"

Deltas(loaded) ==
  [key \in DOMAIN loaded.sends \cap DOMAIN loaded.applies |->
     loaded.applies[key] - loaded.sends[key]]

Summary(loaded) ==
  LET deltas == Deltas(loaded)
      latencies == RestrictValues(deltas, LAMBDA d : d >= 0)
      total == Cardinality(DOMAIN loaded.sends)
      dropped == Cardinality(DOMAIN loaded.sends \ DOMAIN loaded.applies)
  IN [total     |-> total,
      delivered |-> Cardinality(DOMAIN latencies),
      dropped   |-> dropped,
      negative  |-> Cardinality({k \in DOMAIN deltas : deltas[k] < 0}),
      drop_pct  |-> IF total > 0 THEN <<100 * dropped, total>> ELSE <<0, 1>>,
      min |-> MinOrNaN(latencies), avg |-> Avg(latencies), max |-> MaxOrNaN(latencies),
      p50 |-> percentile(latencies, 50),
      p95 |-> percentile(latencies, 95),
      p99 |-> percentile(latencies, 99),
      latencies |-> latencies]

\* analyze_results.py, and analyze_latency.py, which looks at no dumps.
analyze_subdir(dir) ==
  LET result == Summary(load_subdir(dir.logs)) IN
  [field \in DOMAIN result \cup {"converged"} |->
     IF field = "converged" THEN ConvergedLabel(dir.dumps) ELSE result[field]]

Latency_load_subdir(logs) ==
  LET parsed == Parsed(logs, parse_log) IN
  [sends |-> Update(Sends(parsed)), applies |-> Merge(Applies(parsed), Min)]

Latency_analyze_subdir(dir) == Summary(Latency_load_subdir(dir.logs))

-----------------------------------------------------------------------------
(* Time to convergence.  analyze_results.py reads each log with parse_log;  *)
(* analyze_scalability.py keeps the latest apply within a log as well, and  *)
(* knows no milliseconds.                                                  *)

\* Mutant of load_scalability_subdir: the earliest apply over all logs counts.
load_scalability_subdir_Earliest(logs) ==
  LET parsed == Parsed(logs, parse_log) IN
  [sends |-> Update(Sends(parsed)), max_applies |-> Merge(Applies(parsed), Min)]

load_scalability_subdir(logs) ==
  LET parsed == Parsed(logs, parse_log) IN
  [sends |-> Update(Sends(parsed)), max_applies |-> Merge(Applies(parsed), Max)]

MicrosOnly(log) == SelectSeq(log, LAMBDA line : line.unit = "us")

\* Mutant of Scalability_parse_log: the first apply within a log counts.
Scalability_parse_log_First(log) ==
  LET us == MicrosOnly(log) IN
  [sends   |-> LastStamps(us, "SEND"),
   applies |-> [key \in KeysOf(us, "APPLY") |->
                  Min({us[i].ts : i \in LinesOf(us, "APPLY", key)})]]
Scalability_parse_log(log) ==
  LET us == MicrosOnly(log) IN
  [sends   |-> LastStamps(us, "SEND"),
   applies |-> [key \in KeysOf(us, "APPLY") |->
                  Max({us[i].ts : i \in LinesOf(us, "APPLY", key)})]]

Scalability_load_subdir(logs) ==
  LET parsed == Parsed(logs, Scalability_parse_log) IN
  [sends |-> Update(Sends(parsed)), max_applies |-> Merge(Applies(parsed), Max)]

\* One number per cpu file that has one (None: it has not).
parse_cpu(cpus) == SelectSeq(cpus, LAMBDA c : c # None)

\* convergence is convergence_ms, in microseconds; throughput is
\* sys_throughput, per_peer_tput that divided by n_peers.
Metrics(loaded, cpu, n_peers) ==
  LET sends == loaded.sends
      matched == Restrict(loaded.max_applies, DOMAIN sends \cap DOMAIN loaded.max_applies)
      convergence == Max(Range(matched)) - Min(Range(sends))
      delivered == Cardinality(DOMAIN matched)
  IN IF DOMAIN sends = {} \/ DOMAIN matched = {} THEN None
     ELSE [n_peers     |-> n_peers,
           total_sent  |-> Cardinality(DOMAIN sends),
           delivered   |-> delivered,
           dropped     |-> Cardinality(DOMAIN sends) - delivered,
           convergence |-> convergence,
           throughput  |-> IF convergence > 0 THEN <<delivered, convergence>> ELSE <<0, 1>>,
           avg_cpu     |-> IF cpu = <<>> THEN NaN ELSE <<SumFunction(cpu), Len(cpu)>>]

compute_scalability_metrics(dir, n_peers) ==
  Metrics(load_scalability_subdir(dir.logs), parse_cpu(dir.cpus), n_peers)

Scalability_compute_metrics(dir, n_peers) ==
  Metrics(Scalability_load_subdir(dir.logs), parse_cpu(dir.cpus), n_peers)

-----------------------------------------------------------------------------
(* Bottlenecks, in the results of rising peer counts: the time to           *)
(* convergence grew at least twice as fast as the number of peers, or the   *)
(* peers were busy.                                                        *)

Busy(r) == r.avg_cpu # NaN /\ r.avg_cpu[1] >= 80 * r.avg_cpu[2]

\* ratio_conv >= 2 * ratio_peers, without the quotients
GrewTwice(r, prev) == r.convergence * prev.n_peers >= 2 * r.n_peers * prev.convergence

detect_bottleneck(results) ==
  {<<results[i].n_peers, "growth">> : i \in {j \in 2 .. Len(results) :
     results[j - 1].convergence > 0 /\ GrewTwice(results[j], results[j - 1])}}
  \cup {<<results[i].n_peers, "cpu">> : i \in {j \in DOMAIN results : Busy(results[j])}}

\* Where the time before was not positive, ratio_conv is 0.
Scalability_detect_bottleneck(results) ==
  LET flagged(r, prev) == IF prev.convergence > 0 THEN GrewTwice(r, prev)
                          ELSE 0 >= 2 * r.n_peers
  IN {<<results[i].n_peers, "growth">> : i \in {j \in 2 .. Len(results) :
        flagged(results[j], results[j - 1])}}
     \cup {<<results[i].n_peers, "cpu">> : i \in {j \in DOMAIN results : Busy(results[j])}}

\* The usable results of the N-peer directories, in the order of N.
analyze_scalability(dirs) ==
  LET all == [i \in DOMAIN dirs |-> compute_scalability_metrics(dirs[i], dirs[i].n)]
      results == SelectSeq(all, LAMBDA r : r # None)
  IN IF results = <<>> THEN None ELSE results
=============================================================================
