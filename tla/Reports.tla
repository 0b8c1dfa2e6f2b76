----------------------------- MODULE Reports -----------------------------
(***************************************************************************)
(* The main programs of the four analysis scripts: which directories they   *)
(* read, which results they report, and when they find nothing to report.   *)
(*                                                                         *)
(* A results directory is the sequence of its entries in the order of       *)
(* their names; the kind of an entry stands for its name and file type.     *)
(* None is exit status 1 after a message.                                   *)
(***************************************************************************)
EXTENDS ConvergenceAnalysis

OfKind(entries, kind) == SelectSeq(entries, LAMBDA e : e.kind = kind)

\* There is at most one entry of the name "convergence" or "scalability".
The(entries, kind, Analyze(_)) ==
  LET found == OfKind(entries, kind) IN
  IF found = <<>> THEN None ELSE Analyze(found[1].content)

results_main(entries) ==
  LET plain == OfKind(entries, "experiment")
      all == [i \in DOMAIN plain |-> [label |-> plain[i].label] @@ analyze_subdir(plain[i].content)]
      rows == SelectSeq(all, LAMBDA r : r.total # 0 \/ r.converged # "N/A")
      conv_results == The(entries, "convergence", analyze_convergence_trials)
      scale_results == The(entries, "scalability", analyze_scalability)
  IN IF rows = <<>> /\ conv_results = None /\ scale_results = None THEN None
     ELSE [rows |-> rows, conv |-> conv_results, scale |-> scale_results]

latency_main(entries) ==
  LET plain == OfKind(entries, "experiment")
      all == [i \in DOMAIN plain |->
                [label |-> plain[i].label] @@ Latency_analyze_subdir(plain[i].content)]
      rows == SelectSeq(all, LAMBDA r : r.total # 0)
  IN IF rows = <<>> THEN None ELSE rows

scalability_main(dirs) ==
  LET all == [i \in DOMAIN dirs |-> Scalability_compute_metrics(dirs[i], dirs[i].n)]
      results == SelectSeq(all, LAMBDA r : r # None)
  IN IF results = <<>> THEN None
     ELSE [results |-> results, flags |-> Scalability_detect_bottleneck(results)]
=============================================================================
