-------------------------------- MODULE Scoring --------------------------------
(***************************************************************************)
(* From recorded checks to a task score (harness/bench/scoring.py and      *)
(* verifier/checks.py): scenarios record checks under names, as often as   *)
(* they like and in four reporting buckets; the scorer collapses repeated  *)
(* names to their worst instance and scores them against the fixed set of  *)
(* checks of the task's gold run (module Scorer).                          *)
(*                                                                         *)
(* Grading has the outcome of this module only: whether the verdict is     *)
(* solved, and a score that is 0 unless it is.                             *)
(***************************************************************************)
EXTENDS Scorer

CONSTANTS
  Names,       \* check names
  Manifests,   \* the gold manifests a task may have
  Recordable,  \* what scenarios may record: names with a mandatory flag
  MaxChecks    \* bound on the checks one run records

ASSUME ScoringAssumption ==
  /\ \A m \in Manifests : /\ DOMAIN m \subseteq Names /\ IsFiniteSet(DOMAIN m)
                          /\ \A n \in DOMAIN m : m[n] \in Row
  /\ Recordable \subseteq [name : Names, mandatory : BOOLEAN]
  /\ MaxChecks \in Nat

\* No name is recorded both with and without the mandatory flag.  The scenarios
\* of the shipped tasks keep to this; the code does not enforce it for the names
\* that gold never records.
OneFlagPerName ==
  \A c, d \in Recordable : c.name = d.name => c.mandatory = d.mandatory

VARIABLES
  gold,       \* the manifest of the task
  recorder,   \* the checks recorded so far, by bucket
  log,        \* the same checks in the order they came (a history variable)
  step,       \* "recording", "recorded" or "scored"
  failed,     \* verdict.error is set
  score,      \* the task score in percent
  isSolved

vars == <<gold, recorder, log, step, failed, score, isSolved>>

Buckets == {"l1", "hard", "soft", "l3"}

Check == [name : Names, mandatory : BOOLEAN, ok : BOOLEAN]

NoScore == -1        \* None
Unscorable == -2     \* ScoringError

EmptyRecorder == [b \in Buckets |-> << >>]

Init ==
  /\ gold \in Manifests
  /\ recorder = EmptyRecorder
  /\ log = << >>
  /\ step = "recording"
  /\ failed = FALSE
  /\ score = NoScore
  /\ isSolved = FALSE

-------------------------------------------------------------------------------
(***************************************************************************)
(* A run of the verifier's scenarios and the scoring of its verdict.       *)
(***************************************************************************)

\* CheckRecorder.check, or one of its legacy shims.
Record(b, c) ==
  /\ step = "recording"
  /\ Len(log) < MaxChecks
  /\ recorder' = [recorder EXCEPT ![b] = Append(@, c)]
  /\ log' = Append(log, c)
  /\ UNCHANGED <<gold, step, failed, score, isSolved>>

ScenariosEnd ==
  /\ step = "recording"
  /\ step' = "recorded"
  /\ UNCHANGED <<gold, recorder, log, failed, score, isSolved>>

\* A scenario raises: the error verdict has no checks.
ScenarioRaises ==
  /\ step = "recording"
  /\ step' = "recorded"
  /\ recorder' = EmptyRecorder
  /\ log' = << >>
  /\ failed' = TRUE
  /\ UNCHANGED <<gold, score, isSolved>>

\* grade_once scores the verdict, or fails to because gold is not usable.
Score ==
  /\ step = "recorded"
  /\ step' = "scored"
  /\ LET s == AllChecks(recorder)
     IN  IF GoldAccepted(gold)
         THEN score' = TaskScore(s, gold, failed) /\ isSolved' = Solved(s, gold, failed)
         ELSE score' = Unscorable /\ UNCHANGED isSolved
  /\ UNCHANGED <<gold, recorder, log, failed>>

Checks == {c \in Check : [name |-> c.name, mandatory |-> c.mandatory] \in Recordable}

Next ==
  \/ \E b \in Buckets, c \in Checks : Record(b, c)
  \/ ScenariosEnd \/ ScenarioRaises \/ Score

Spec == Init /\ [][Next]_vars

-------------------------------------------------------------------------------
(***************************************************************************)
(* Properties.                                                             *)
(***************************************************************************)
TypeOK ==
  /\ gold \in Manifests
  /\ recorder \in [Buckets -> Seq(Check)]
  /\ log \in Seq(Check)
  /\ step \in {"recording", "recorded", "scored"}
  /\ failed \in BOOLEAN
  /\ score \in (0..100) \union {NoScore, Unscorable}
  /\ isSolved \in BOOLEAN

\* The score the run would get if it ended here.
ScoreNow == TaskScore(AllChecks(recorder), gold, failed)

\* checks.py:71: the bucket is a reporting label and has no effect on the score,
\* nor has the order in which the buckets are put together.
LabelsDoNotScore ==
  step = "scored" /\ score # Unscorable =>
    /\ score = TaskScore(log, gold, failed)
    /\ isSolved = Solved(log, gold, failed)

\* scoring.py:164: not recording a check of gold is worth exactly what recording
\* it as failed is worth, so that bailing out early never pays.
SilenceIsFailure ==
  [][\A b \in Buckets, c \in Checks :
       /\ Record(b, c) /\ GoldAccepted(gold)
       /\ ~c.ok /\ c.name \in DOMAIN gold \ Recorded(log)
       /\ c.mandatory => gold[c.name].mandatory
       => ScoreNow' = ScoreNow]_vars

\* scoring.py:124: recording a name again, with an outcome no worse than the one
\* it has, changes nothing: a vendor recreated three times does not cost triple.
RepeatsScoreOnce ==
  [][\A b \in Buckets, c \in Checks :
       /\ Record(b, c) /\ GoldAccepted(gold)
       /\ c.name \in Recorded(log)
       /\ Held(log, c.name) => c.ok
       => ScoreNow' = ScoreNow]_vars

\* The run implements CheckBoard: a name that ever failed is broken for good,
\* and only a run that held every required name is solved or scores.
SeenAs(n) ==
  CASE n \notin Recorded(log) -> "absent"
    [] \E i \in Instances(log, n) : ~log[i].ok -> "broken"
    [] OTHER -> "held"

Board ==
  INSTANCE CheckBoard WITH
    needed   <- Required(gold),
    board    <- [n \in Names |-> SeenAs(n)],
    closed   <- step = "scored",
    solved   <- isSolved,
    credited <- score > 0

ImplementsBoard == Board!Spec

\* scoring.py:259: a mandatory failure that gold never traverses still blocks a
\* solve when it is emitted.
MandatoryFailureBlocks ==
  isSolved => \A i \in DOMAIN log : log[i].mandatory => log[i].ok

===============================================================================
