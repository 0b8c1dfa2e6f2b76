----------------------- MODULE ConvergenceAnalysis -----------------------
(***************************************************************************)
(* The verdicts on convergence trials: of run_eval.sh while it runs them,   *)
(* and of analyze_results.py and analyze_convergence.py on what it left.    *)
(*                                                                         *)
(* A trial is a directory with meta.txt (a function from the names it has   *)
(* to their values) and the dump files that exist, by the number of their   *)
(* peer.  A dump is a sequence, <<>> when the file is empty.                *)
(***************************************************************************)
EXTENDS LogAnalysis

read_meta(trial, name, default) ==
  IF name \in DOMAIN trial.meta THEN trial.meta[name] ELSE default

\* The dumps that are compared: the missing and the empty ones are not.
read_dumps(trial) == RestrictValues(trial.dumps, LAMBDA content : content # <<>>)

Reference(dumps) == dumps[Min(DOMAIN dumps)]
Diffs(dumps) == {i \in DOMAIN dumps : dumps[i] # Reference(dumps)}

\* Mutant of Passes: one dump, or none, has nothing to differ from.
Passes_Lonely(trial) ==
  LET dumps == read_dumps(trial) IN DOMAIN dumps = {} \/ Diffs(dumps) = {}

Passes(trial) ==
  LET dumps == read_dumps(trial) IN
  Cardinality(DOMAIN dumps) >= 2 /\ Diffs(dumps) = {}

Divergence(trial) ==
  LET dumps == read_dumps(trial) IN
  [trial   |-> read_meta(trial, "trial", 0),
   n_peers |-> read_meta(trial, "n_peers", 0),
   seed    |-> read_meta(trial, "seed", "?"),
   dumps   |-> Cardinality(DOMAIN dumps),
   diffs   |-> IF Cardinality(DOMAIN dumps) < 2 THEN {} ELSE Diffs(dumps)]

\* analyze_results.py
analyze_convergence_trials(trials) ==
  LET failed == SelectSeq(trials, LAMBDA t : ~Passes(t)) IN
  IF trials = <<>> THEN None
  ELSE [total     |-> Len(trials),
        passed    |-> Len(trials) - Len(failed),
        failed    |-> Len(failed),
        divergent |-> [i \in DOMAIN failed |-> Divergence(failed[i])]]

-----------------------------------------------------------------------------
(* analyze_convergence.py: the same, with a bucket for each peer count.     *)

NoTrials == [passed |-> 0, failed |-> 0, divergent |-> <<>>, by_peers |-> <<>>]

Counted(bucket, ok) ==
  [passed |-> bucket.passed + (IF ok THEN 1 ELSE 0),
   failed |-> bucket.failed + (IF ok THEN 0 ELSE 1)]

\* Mutant of CountTrial: a trial with fewer than two dumps enters no bucket.
CountTrial_NoBucket(results, trial) ==
  LET n  == read_meta(trial, "n_peers", 0)
      ok == Passes(trial)
      buckets == results.by_peers
      bucket == IF n \in DOMAIN buckets THEN buckets[n] ELSE [passed |-> 0, failed |-> 0]
  IN [passed    |-> Counted(results, ok).passed,
      failed    |-> Counted(results, ok).failed,
      divergent |-> IF ok THEN results.divergent
                    ELSE Append(results.divergent, Divergence(trial)),
      by_peers  |-> IF Cardinality(DOMAIN read_dumps(trial)) < 2 THEN n :> bucket @@ buckets
                    ELSE n :> Counted(bucket, ok) @@ buckets]

CountTrial(results, trial) ==
  LET n  == read_meta(trial, "n_peers", 0)
      ok == Passes(trial)
      buckets == results.by_peers
      bucket == IF n \in DOMAIN buckets THEN buckets[n] ELSE [passed |-> 0, failed |-> 0]
  IN [passed    |-> Counted(results, ok).passed,
      failed    |-> Counted(results, ok).failed,
      divergent |-> IF ok THEN results.divergent
                    ELSE Append(results.divergent, Divergence(trial)),
      by_peers  |-> n :> Counted(bucket, ok) @@ buckets]

analyze_trials(trials) ==
  LET counted == FoldLeft(CountTrial, NoTrials, trials) IN
  IF trials = <<>> THEN None
  ELSE counted @@ [total |-> counted.passed + counted.failed]

\* The rows of the table and the CSV file: all trials, then each bucket in
\* the order of the peer counts.  A rate is the pair of its operands.
Row(n, bucket) ==
  LET trials == bucket.passed + bucket.failed IN
  [n_peers |-> n, trials |-> trials, passed |-> bucket.passed, failed |-> bucket.failed,
   pass_rate |-> IF trials > 0 THEN <<100 * bucket.passed, trials>> ELSE <<0, 1>>]

write_csv(results) ==
  LET counts == SetToSortSeq(DOMAIN results.by_peers, <) IN
  <<Row("3-5", results)>> \o [i \in DOMAIN counts |-> Row(counts[i], results.by_peers[counts[i]])]

-----------------------------------------------------------------------------
(* run_eval.sh, right after a trial.  A missing file fails the trial at     *)
(* once; the reference is the first content that is not empty, and an empty *)
(* one after it differs.                                                   *)

ShellPasses(trial, peers) ==
  /\ peers \subseteq DOMAIN trial.dumps
  /\ \A i, j \in peers :
       i < j /\ trial.dumps[i] # <<>> => trial.dumps[j] = trial.dumps[i]
=============================================================================
