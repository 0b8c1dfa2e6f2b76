------------------------- MODULE ConvergenceTrial -------------------------
(***************************************************************************)
(* One convergence trial of run_eval.sh: each editor runs a script of        *)
(* gen_convergence_script.py in headless mode, dumps its text and quits.    *)
(* A script is drawn before the trial and does not look at the document, so *)
(* to draw it a line at a time as it runs comes to the same; its SLEEPs     *)
(* only leave time to the others.                                          *)
(*                                                                         *)
(* Nothing is said of the five seconds before DUMP: operations may arrive   *)
(* later than that.  A headless editor loads the document of another only   *)
(* at its start.  A text is compared by the identifiers of its characters,  *)
(* not by their letters.                                                   *)
(***************************************************************************)
EXTENDS Replication, ConvergenceAnalysis

CONSTANTS
  First,   \* the editor started with --first
  Ops,     \* the operations of each script
  Earlier  \* the directories of the trials before this one

ASSUME OpsAssumption == Ops \in Nat /\ First \in Sites

VARIABLES
  status,     \* "starting", "script", "quit", or "died" of an exception
  step,       \* the operations each script has got through
  local_len,  \* of the generator: the length of the text without the others
  deletes,    \* history: how often each editor took in a DELETE
  overtaken,  \* history: the characters each editor lacked when it did
  dump,       \* what the process wrote to its dump file
  dumped      \* history: the operations applied when it wrote it

trialVars == <<status, step, local_len, deletes, overtaken, dump, dumped>>

TrialInit ==
  /\ Init
  /\ status = [s \in Sites |-> IF s = First THEN "script" ELSE "starting"]
  /\ step = [s \in Sites |-> 0]
  /\ local_len = [s \in Sites |-> 0]
  /\ deletes = [s \in Sites |-> 0]
  /\ overtaken = [s \in Sites |-> {}]
  /\ dump = [s \in Sites |-> <<>>]
  /\ dumped = [s \in Sites |-> {}]

-----------------------------------------------------------------------------
(* The start of an editor.  Its socket is bound and its script waits while  *)
(* it asks the other editors for their document, clock and all; the one     *)
(* that has none answered begins with an empty text.  The snapshot holds no *)
(* operation its donor has parked.                                         *)

LoadState(s, donor) ==
  /\ status[donor] = "script"
  /\ crdt' = [crdt EXCEPT ![s] = crdt[donor]]
  /\ applied' = [applied EXCEPT ![s] = @ \cup applied[donor]]
  /\ overtaken' = [overtaken EXCEPT ![s] = overtaken[donor]]
  /\ UNCHANGED <<pending, net>>

Start(s) ==
  /\ status[s] = "starting"
  /\ status' = [status EXCEPT ![s] = "script"]
  /\ \/ UNCHANGED <<vars, overtaken>>
     \/ \E donor \in Sites : LoadState(s, donor)
  /\ UNCHANGED <<step, local_len, deletes, dump, dumped>>

-----------------------------------------------------------------------------
(* The lines of a script and what runHeadless makes of them.               *)

InsertPositions(s) == 0 .. local_len[s]

\* Mutant of DeletePositions: as for INSERT, the end of the text is drawn too.
DeletePositions_End(s) == 0 .. local_len[s]

\* There is none while the text would be empty.
DeletePositions(s) == 0 .. local_len[s] - 1

ScriptLine(s, change) ==
  /\ status[s] = "script" /\ step[s] < Ops
  /\ step' = [step EXCEPT ![s] = @ + 1]
  /\ local_len' = [local_len EXCEPT ![s] = @ + change]
  /\ UNCHANGED <<deletes, overtaken, dump, dumped>>

ScriptInsert(s) ==
  /\ ScriptLine(s, 1)
  /\ \E pos \in InsertPositions(s) : Insert(s, pos)
  /\ UNCHANGED status

ScriptDelete(s) ==
  /\ ScriptLine(s, -1)
  /\ \E pos \in DeletePositions(s) : Delete(s, pos)
  /\ UNCHANGED status

\* localDelete throws, nothing catches it, and the process ends.
ScriptDies(s) ==
  /\ ScriptLine(s, -1)
  /\ \E pos \in DeletePositions(s) : DeleteOutOfRange(s, pos)
  /\ status' = [status EXCEPT ![s] = "died"]

\* DUMP and QUIT.
Dump(s) ==
  /\ status[s] = "script" /\ step[s] = Ops
  /\ dump' = [dump EXCEPT ![s] = GetDocument(crdt[s].seq)]
  /\ dumped' = [dumped EXCEPT ![s] = applied[s]]
  /\ status' = [status EXCEPT ![s] = "quit"]
  /\ UNCHANGED <<vars, step, local_len, deletes, overtaken>>

\* The other threads of the process, as long as it lives.
TakeIn(s) ==
  /\ status[s] = "script"
  /\ \E op \in BagToSet(net[s]) :
       /\ Arrives(s, op)
       /\ Park(s, op) \/ Apply(s, op)
       /\ deletes' = IF op.type = "DELETE" THEN [deletes EXCEPT ![s] = @ + 1] ELSE deletes
       /\ overtaken' = IF op.type = "DELETE"
                       THEN [overtaken EXCEPT ![s] = @ \cup ({op.id} \ Ids(crdt[s].seq))]
                       ELSE overtaken
  /\ UNCHANGED <<status, step, local_len, dump, dumped>>

TrialNext ==
  \E s \in Sites :
    \/ Start(s)
    \/ ScriptInsert(s)
    \/ ScriptDelete(s)
    \/ ScriptDies(s)
    \/ Dump(s)
    \/ TakeIn(s)

TrialSpec == TrialInit /\ [][TrialNext]_<<vars, trialVars>>

-----------------------------------------------------------------------------
(* What the trial leaves behind.                                           *)

Ended == \A s \in Sites : status[s] \in {"quit", "died"}
Died  == {s \in Sites : status[s] = "died"}

ThisTrial ==
  [meta |-> [trial |-> Len(Earlier) + 1, n_peers |-> Cardinality(Sites), seed |-> "seed"],
   dumps |-> dump]

Trials == Append(Earlier, ThisTrial)

VisibleIds(seq) == {seq[i].id : i \in VisiblePlaces(seq)}

-----------------------------------------------------------------------------
TrialTypeOK ==
  /\ status \in [Sites -> {"starting", "script", "quit", "died"}]
  /\ step \in [Sites -> 0 .. Ops]
  /\ local_len \in [Sites -> Nat]
  /\ deletes \in [Sites -> Nat]

\* A script fits its own text: it counts no more characters than the editor
\* shows, apart from one for each DELETE of another script that came in.  So
\* an editor dies of a position past the end (gen_convergence_script.py:54-56
\* counts local edits only; nothing in p2p-editor.cpp:245-284 catches) only
\* after such a DELETE.
ScriptFits ==
  \A s \in Sites :
    /\ local_len[s] <= Cardinality(VisibleIds(crdt[s].seq)) + deletes[s]
    /\ status[s] = "died" => deletes[s] > 0

\* Why a trial with two dumps or more fails, which EVALUATION.md:143 leaves
\* open: one editor had not applied an operation of the other when it wrote
\* its dump (lost, late, or its author had died before it was sent), or a
\* DELETE came in ahead of its INSERT.  There is no other reason.
WhyTrialFails ==
  Ended /\ ~Passes(ThisTrial) /\ Cardinality(DOMAIN read_dumps(ThisTrial)) >= 2 =>
    \/ \E r, s \in Sites \ Died : dumped[r] # dumped[s]
    \/ \E s \in Sites \ Died : overtaken[s] # {}

\* The verdicts agree on a trial, but for files without text: the scripts
\* leave these out, where run_eval.sh lets one differ from a text before it;
\* and they fail a trial with fewer than two texts, where it may say PASS.
VerdictsAgree ==
  Ended =>
    LET results == analyze_convergence_trials(Trials)
        ok == \A i \in DOMAIN results.divergent : results.divergent[i].trial # Len(Trials)
        texts == {s \in Sites : dump[s] # <<>>}
        peers == SetToSortSeq(Sites, <)
        label == ConvergedLabel([i \in DOMAIN peers |-> dump[peers[i]]])
        shell == ShellPasses(ThisTrial, Sites)
    IN /\ results = Restrict(analyze_trials(Trials), DOMAIN results)
       /\ ok <=> Cardinality(texts) >= 2 /\ \A r, s \in texts : dump[r] = dump[s]
       /\ ok <=> label = "true"
       /\ ok /\ ~shell => texts # Sites
       /\ shell /\ ~ok => Cardinality(texts) < 2

\* However many trials there are and whatever their meta.txt lacks, the rows
\* of the peer counts add up to the row of all (analyze_convergence.py:88-131,
\* 186-216).
TalliesAdd ==
  Ended =>
    LET rows == write_csv(analyze_trials(Trials))
        Total(f(_)) == SumFunction([i \in 2 .. Len(rows) |-> f(rows[i])])
    IN /\ rows[1].trials = Len(Trials)
       /\ Total(LAMBDA r : r.trials) = rows[1].trials
       /\ Total(LAMBDA r : r.passed) = rows[1].passed
       /\ Total(LAMBDA r : r.failed) = rows[1].failed
=============================================================================
