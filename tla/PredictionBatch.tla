---------------------------- MODULE PredictionBatch ----------------------------
(***************************************************************************)
(* The commands around single runs and grades (harness/bench/commands/     *)
(* run_all.py, grade_all.py and cli.py): bench run-all leaves predictions  *)
(* on a shelf, bench grade-all grades the one it takes for the newest of   *)
(* every task, both write a line of results per task, and bench grade and  *)
(* bench eval report through their exit code.                              *)
(*                                                                         *)
(* A run is one step here (module ExternalRun has its inside), and so is a *)
(* grade (module Grading).                                                 *)
(***************************************************************************)
EXTENDS Integers, Sequences, FiniteSetsExt

CONSTANTS
  NTasks,     \* tasks, in the order of their directories
  NameEnds,   \* the random ends of run ids, in the order their names sort
  MaxCommands \* bound on the commands explored

ASSUME BatchAssumption ==
  NTasks \in Nat \ {0} /\ NameEnds \subseteq Nat /\ MaxCommands \in Nat

VARIABLES
  shelf,       \* predictions/<task>/<run id>.patch
  made,        \* predictions made so far
  subcommand,  \* the command that is running
  next,        \* the task a batch has come to
  results,     \* the lines of the results file of the last batch
  exit,        \* how the last command ended
  issued       \* commands issued

batchVars == <<shelf, made, subcommand, next, results, exit, issued>>

Tasks == 1..NTasks

\* A prediction: its name, when it was made, and whether its run was an error.
Prediction == [suffix : NameEnds, made : Nat, faulty : BOOLEAN]

None == 0   \* no prediction: authoring/solution.patch, or nothing at all

\* produced: is there a verdict or result that the exit code reports on?
NoExit == [code |-> -1, produced |-> FALSE, solved |-> FALSE]

BatchInit ==
  /\ shelf = [t \in Tasks |-> {}]
  /\ made = 0
  /\ subcommand = "none"
  /\ next = 1
  /\ results = <<>>
  /\ exit = NoExit
  /\ issued = 0

-------------------------------------------------------------------------------
(***************************************************************************)
(* Batches.                                                                *)
(***************************************************************************)
Issue == subcommand = "none" /\ issued < MaxCommands /\ issued' = issued + 1

\* The results file is opened for writing, which empties it.
BeginBatch(c) ==
  /\ Issue
  /\ subcommand' = c /\ next' = 1 /\ results' = <<>>
  /\ UNCHANGED <<shelf, made, exit>>

Working(c) == subcommand = c /\ next <= NTasks

\* Seeded error: a task that fails leaves no line.
Record_OnlyGood(r) ==
  /\ results' = IF r.error THEN results ELSE Append(results, r)
  /\ next' = next + 1
  /\ UNCHANGED <<subcommand, exit, issued>>

\* One line per task, error or not, flushed before the next task begins.
Record(r) ==
  /\ results' = Append(results, r)
  /\ next' = next + 1
  /\ UNCHANGED <<subcommand, exit, issued>>

FreshSuffixes(t) == NameEnds \ {p.suffix : p \in shelf[t]}

\* Seeded error: a task has one prediction, the last run's.
Shelve_Replace(t, p) == shelf' = [shelf EXCEPT ![t] = {p}] /\ made' = p.made

\* Seeded error: two predictions are made at the same time.
Shelve_Uncounted(t, p) == shelf' = [shelf EXCEPT ![t] = @ \union {p}] /\ made' = made

Shelve(t, p) == shelf' = [shelf EXCEPT ![t] = @ \union {p}] /\ made' = p.made

RunTask ==
  /\ Working("run-all")
  /\ \E s \in FreshSuffixes(next) :
       LET p == [suffix |-> s, made |-> made + 1, faulty |-> FALSE]
       IN  /\ Shelve(next, p)
           /\ Record([task |-> next, patch |-> p.made, error |-> FALSE, at |-> made + 1])

\* run_once raises: before there was a patch, or, where the command could not be
\* run, after the patch of the untouched workspace went to the shelf.
RunTaskFails ==
  /\ Working("run-all")
  /\ \/ /\ UNCHANGED <<shelf, made>>
        /\ Record([task |-> next, patch |-> None, error |-> TRUE, at |-> made])
     \/ \E s \in FreshSuffixes(next) :
          /\ Shelve(next, [suffix |-> s, made |-> made + 1, faulty |-> TRUE])
          /\ Record([task |-> next, patch |-> None, error |-> TRUE, at |-> made + 1])

\* Seeded error: a prediction of a run that failed is not looked at, nor are the
\* others then.
Resolved_SkipFaulty(t) ==
  IF shelf[t] = {} \/ (CHOOSE p \in shelf[t] : \A q \in shelf[t] : q.suffix <= p.suffix).faulty
  THEN None
  ELSE (CHOOSE p \in shelf[t] : \A q \in shelf[t] : q.suffix <= p.suffix).made

\* default_patch_resolver: the last name of the task's directory, or the gold
\* solution.
Resolved(t) ==
  IF shelf[t] = {} THEN None
  ELSE (CHOOSE p \in shelf[t] : \A q \in shelf[t] : q.suffix <= p.suffix).made

\* grade_once answers, or it raises, or there is no patch.
GradeTask ==
  /\ Working("grade-all")
  /\ \E error \in BOOLEAN :
       Record([task |-> next, patch |-> Resolved(next), error |-> error, at |-> made])
  /\ UNCHANGED <<shelf, made>>

\* Seeded error: a batch with a task that failed begins again.
EndBatch_Again ==
  /\ subcommand # "none" /\ next > NTasks
  /\ IF \E i \in DOMAIN results : results[i].error
     THEN next' = 1 /\ results' = <<>> /\ UNCHANGED <<subcommand, exit>>
     ELSE subcommand' = "none" /\ UNCHANGED <<next, results, exit>>
  /\ UNCHANGED <<shelf, made, issued>>

\* run-all and grade-all report success, whatever became of their tasks.
EndBatch ==
  /\ subcommand # "none" /\ next > NTasks
  /\ subcommand' = "none"
  /\ exit' = [code |-> 0, produced |-> TRUE, solved |-> \A i \in DOMAIN results : ~results[i].error]
  /\ UNCHANGED <<shelf, made, next, results, issued>>

\* Ctrl-C is no Exception: the lines of the tasks before it stay.
Interrupted ==
  /\ subcommand # "none" /\ next <= NTasks
  /\ subcommand' = "none"
  /\ exit' = [code |-> 130, produced |-> FALSE, solved |-> FALSE]
  /\ UNCHANGED <<shelf, made, next, results, issued>>

-------------------------------------------------------------------------------
(***************************************************************************)
(* Single commands and exit codes.                                         *)
(***************************************************************************)

\* _cmd_grade looks at the error of the verdict, _print_eval_result at an error
\* that left the task unresolved.
NegativeCode(error) == IF error THEN 1 ELSE 0

\* bench grade or bench eval comes to a result.  A verdict with an error is not
\* solved.
ReportResult ==
  /\ Issue
  /\ \E error, solved \in BOOLEAN :
       /\ error => ~solved
       /\ exit' = [code |-> NegativeCode(error), produced |-> TRUE, solved |-> solved]
  /\ UNCHANGED <<shelf, made, subcommand, next, results>>

\* main() turns six classes of exceptions into 2; of any other one Python prints
\* the traceback and exits with 1.
Raises ==
  /\ Issue
  /\ \E code \in {1, 2} : exit' = [code |-> code, produced |-> FALSE, solved |-> FALSE]
  /\ UNCHANGED <<shelf, made, subcommand, next, results>>

BatchStep == RunTask \/ RunTaskFails \/ GradeTask \/ EndBatch

BatchNext ==
  \/ \E c \in {"run-all", "grade-all"} : BeginBatch(c)
  \/ BatchStep \/ Interrupted \/ ReportResult \/ Raises

BatchSpec == BatchInit /\ [][BatchNext]_batchVars

\* What is certain to be taken: run_once limits the time of its command, but nothing
\* limits that of a grade, which waits for the candidate's application
\* (compose_unit.py:1446).
CertainBatchStep == RunTask \/ RunTaskFails \/ EndBatch

FairBatchSpec == BatchSpec /\ WF_batchVars(CertainBatchStep)

-------------------------------------------------------------------------------
(***************************************************************************)
(* Correctness.                                                            *)
(***************************************************************************)

\* Every prediction on the shelf has a name and a time of its own.
BatchTypeOK ==
  /\ made \in Nat /\ next \in 1..(NTasks + 1) /\ issued \in 0..MaxCommands
  /\ subcommand \in {"none", "run-all", "grade-all"}
  /\ exit.code \in {-1, 0, 1, 2, 130}
  /\ \A t \in Tasks : shelf[t] \subseteq Prediction
  /\ \A t, u \in Tasks : \A p \in shelf[t], q \in shelf[u] :
       p.made = q.made => t = u /\ p = q

\* A batch, as far as it has come, has exactly one line for every task, in their
\* order, whatever failed and whether or not it was interrupted: run-all and
\* grade-all catch every exception of a task.
LinesCoverTasks ==
  /\ Len(results) = next - 1
  /\ \A i \in DOMAIN results : results[i].task = i

\* Predictions accumulate: no later run of a task, good or bad, and no grade takes
\* one away (rollout_core.py:191 names it after the run).
NamedPredictionStays == \A k \in 1..made : \E t \in Tasks : \E p \in shelf[t] : p.made = k

\* grade_all.py:3: the gold solution is graded as a default only if there is no
\* prediction of the task.
GoldOnlyByDefault ==
  subcommand = "grade-all" =>
    \A i \in DOMAIN results :
      results[i].patch = None => \A p \in shelf[results[i].task] : p.made > results[i].at

\* What run-all leaves and grade-all uses, over any sequence of the two.
BatchCorrect ==
  /\ BatchTypeOK
  /\ LinesCoverTasks
  /\ NamedPredictionStays
  /\ GoldOnlyByDefault

\* A batch of runs ends, and so does one of grades, however many of its tasks fail,
\* unless it waits for ever for one grade.
BatchEnds ==
  /\ (subcommand = "run-all") ~> (subcommand # "run-all")
  /\ (subcommand = "grade-all" ~> subcommand # "grade-all") \/ <>[]Working("grade-all")

===============================================================================
