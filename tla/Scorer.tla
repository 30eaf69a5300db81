--------------------------------- MODULE Scorer ---------------------------------
(***************************************************************************)
(* The scorer's functions (harness/bench/scoring.py): a list s of recorded *)
(* checks is collapsed to the worst instance of every name and scored      *)
(* against a gold manifest g, a function from the names of the task's gold *)
(* run to their outcome and worth.                                         *)
(*                                                                         *)
(* Scoring uses them for a run of the verifier, ValidateGauntlet for the   *)
(* probes of a validation.                                                 *)
(***************************************************************************)
EXTENDS Integers, Sequences, FiniteSetsExt

Values == {-1, 0, 1, 2}

\* A gold manifest gives the outcome and scoring of every name gold recorded.
Row == [ok : BOOLEAN, pass : Values, fail : Values, mandatory : BOOLEAN]

\* all_checks(): bucket after bucket, not in the order of recording.
AllChecks(r) == r["l1"] \o r["hard"] \o r["soft"] \o r["l3"]

Recorded(s) == {s[i].name : i \in DOMAIN s}

Instances(s, n) == {i \in DOMAIN s : s[i].name = n}

\* Seeded error: the first instance of a name stands for it.
Worst_First(s, n) == s[Min(Instances(s, n))]

\* Seeded error: the last instance of a name stands for it.
Worst_Last(s, n) == s[Max(Instances(s, n))]

\* dedupe(): the first failing instance of a name, or else its first one.
Worst(s, n) ==
  LET failing == {i \in Instances(s, n) : ~s[i].ok}
  IN  s[Min(IF failing = {} THEN Instances(s, n) ELSE failing)]

Held(s, n) == n \in Recorded(s) /\ Worst(s, n).ok

\* What the outcome of a gold check is worth.
Value(row, ok) == IF ok THEN row.pass ELSE row.fail

\* max_score(): what gold earned, penalties left out.
MaxScore(g) == SumFunction([n \in DOMAIN g |-> Max({0, Value(g[n], g[n].ok)})])

\* Seeded error: a name that was not recorded contributes nothing.
RawScore_Emitted(s, g) ==
  SumFunction([n \in DOMAIN g \intersect Recorded(s) |-> Value(g[n], Held(s, n))])

\* Seeded error: every instance contributes.
RawScore_PerInstance(s, g) ==
  SumFunction([i \in {j \in DOMAIN s : s[j].name \in DOMAIN g} |-> Value(g[s[i].name], s[i].ok)])

\* raw_score(): gold's set of checks, with the candidate's outcomes; a name
\* that was not recorded counts as failed.
RawScore(s, g) == SumFunction([n \in DOMAIN g |-> Value(g[n], Held(s, n))])

Required(g) == {n \in DOMAIN g : g[n].mandatory}

\* Seeded error: mandatory checks that gold does not record are ignored.
Solved_GoldOnly(s, g, err) ==
  /\ ~err
  /\ Required(g) # {}
  /\ \A n \in Required(g) : Held(s, n)

\* solved(): every required name held, and no other mandatory one was broken.
Solved(s, g, err) ==
  /\ ~err
  /\ Required(g) # {}
  /\ \A n \in Required(g) : Held(s, n)
  /\ \A n \in Recorded(s) : Worst(s, n).mandatory => Worst(s, n).ok

\* Seeded error: penalties are not stopped at zero.
Clamp_NoFloor(v, lo, hi) == IF v > hi THEN hi ELSE v

Clamp(v, lo, hi) == IF v < lo THEN lo ELSE IF v > hi THEN hi ELSE v

\* task_score(): 0 unless solved, in whole percent of what gold earned.
TaskScore(s, g, err) ==
  IF Required(g) # {} /\ ~Solved(s, g, err)
  THEN 0
  ELSE (100 * Clamp(RawScore(s, g), 0, MaxScore(g))) \div MaxScore(g)

\* validate_scoring(): gold earns something, passes all of its checks, and at
\* least one of them is mandatory.
GoldAccepted(g) ==
  /\ \A n \in DOMAIN g : g[n].ok
  /\ Required(g) # {}
  /\ MaxScore(g) > 0

===============================================================================
