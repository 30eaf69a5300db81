--------------------------- MODULE ValidateGauntlet ---------------------------
(***************************************************************************)
(* bench validate (harness/bench/commands/validate.py): the gold patch, an *)
(* empty one and a stub are graded several times each; the gates judge the *)
(* verdicts, and with --write-baseline the measured table of checks becomes*)
(* the sidecar of the task, which is the gold manifest of every grade from *)
(* then on (gold_from_sidecar in harness/bench/scoring.py).                *)
(*                                                                         *)
(* A verdict is its error flag and the checks it recorded, bucket after    *)
(* bucket.  A task may be validated again after a validation has reported. *)
(***************************************************************************)
EXTENDS Scorer

CONSTANTS
  Outcomes,       \* verdicts a grade of each probe can end in
  InitialSidecars,\* what lies beside the verifier at first
  Policies,       \* what task-score-policy.json may say
  Runs,           \* --runs
  MaxAttempts,    \* MAX_INFRASTRUCTURE_ATTEMPTS
  MaxRounds       \* bound on the validations explored

Probes == {"gold", "empty", "stub"}

\* What a scenario records with one call, and what its author said it is worth.
Recording(c) ==
  c.ok \in BOOLEAN /\ c.mandatory \in BOOLEAN /\ c.pass \in Values /\ c.fail \in Values

\* The candidate owns a verdict that a grade ends in.
CandidateVerdict(v) ==
  /\ v.owner = "candidate" /\ v.failed \in BOOLEAN
  /\ v.checks = [i \in 1..Len(v.checks) |-> v.checks[i]] /\ Len(v.checks) \in Nat
  /\ \A i \in DOMAIN v.checks : Recording(v.checks[i])

ASSUME GauntletAssumption ==
  /\ DOMAIN Outcomes = Probes
  /\ \A p \in Probes : \A v \in Outcomes[p] : CandidateVerdict(v)
  /\ \A s \in InitialSidecars : s.present => \A k \in 1..3 : s.scores[k] \in -1..100
  /\ \A y \in Policies : y.on \in BOOLEAN /\ y.positive \subseteq y.mandatory
  /\ Runs \in Nat \ {0} /\ MaxAttempts \in Nat \ {0} /\ MaxRounds \in Nat \ {0}

VARIABLES
  sidecar,    \* empty-baseline.json
  options,    \* --write-baseline, --strict, whether the task has a stub, its policy
  probe,      \* the probe being graded
  attempt,    \* grades of the current run of it
  evidence,   \* the verdicts kept, by probe
  stage,      \* "probing", "reported", "aborted" or "refused"
  report,     \* what the gates said
  faulted,    \* some grade of this validation met an infrastructure fault
  rounds      \* validations begun

gauntletVars == <<sidecar, options, probe, attempt, evidence, stage, report, faulted, rounds>>

NoSidecar == [present |-> FALSE, rows |-> <<>>, mode |-> "none", required |-> {}, scores |-> <<>>]

-------------------------------------------------------------------------------
(***************************************************************************)
(* The table of checks and the sidecar.                                    *)
(***************************************************************************)

\* Verdict.resolved: every recorded check but the soft ones held.
LegacyResolved(v) ==
  ~v.failed /\ \A i \in DOMAIN v.checks : v.checks[i].bucket # "soft" => v.checks[i].ok

SameKey(c, d) == c.bucket = d.bucket /\ c.name = d.name

\* Which occurrence of its bucket and name the i-th check of s is.
Occurrence(s, i) == Cardinality({j \in 1..i : SameKey(s[j], s[i])})

\* Did the probe hold the i-th check of gold?  Not recorded is not held.
Hit(v, gold, i) ==
  \E j \in DOMAIN v.checks :
    /\ SameKey(v.checks[j], gold[i])
    /\ Occurrence(v.checks, j) = Occurrence(gold, i)
    /\ v.checks[j].ok

\* build_checks_v2: a row per check of gold, with every probe's outcome.  The
\* first authored values of a name hold for all of it, and a policy replaces
\* what its checks earn and which of them are mandatory.
Rows(v, policy) ==
  LET gold == v["gold"].checks
  IN  [i \in DOMAIN gold |->
         LET first == gold[Min(Instances(gold, gold[i].name))]
         IN  [name      |-> gold[i].name,
              gold      |-> gold[i].ok,
              empty     |-> Hit(v["empty"], gold, i),
              stub      |-> Hit(v["stub"], gold, i),
              pass      |-> IF policy.on /\ first.pass > 0
                            THEN IF first.name \in policy.positive THEN 1 ELSE 0
                            ELSE first.pass,
              fail      |-> first.fail,
              mandatory |-> IF policy.on THEN first.name \in policy.mandatory
                                         ELSE first.mandatory]]

\* fixed_check_fraction: the rows a probe holds (of Len(rows)).
HeldRows(rows, p) == Cardinality({i \in DOMAIN rows : rows[i][p]})

RowNames(rows) == {rows[i].name : i \in DOMAIN rows}

RowHeld(rows, n, p) == \A i \in Instances(rows, n) : rows[i][p]

RowOf(rows, n) == rows[Min(Instances(rows, n))]

\* The names of the rows gold held, of all of them or of the mandatory ones.
AllGold(rows) == {rows[i].name : i \in {j \in DOMAIN rows : rows[j].gold}}
AuthoredMandatory(rows) ==
  {rows[i].name : i \in {j \in DOMAIN rows : rows[j].gold /\ rows[j].mandatory}}

\* Seeded error: suites without mandatory checks get an empty contract.
Completion_NoFallback(rows) == [mode |-> "authored_mandatory_checks", required |-> AuthoredMandatory(rows)]

\* The completion contract of the sidecar.
Completion(rows) ==
  IF AuthoredMandatory(rows) # {}
  THEN [mode |-> "authored_mandatory_checks", required |-> AuthoredMandatory(rows)]
  ELSE [mode |-> "all_authored_gold_checks", required |-> AllGold(rows)]

\* What gold earns, and what a probe does, over the names of the rows.
Ceiling(rows) ==
  SumFunction([n \in RowNames(rows) |->
    IF RowHeld(rows, n, "gold") THEN Max({0, RowOf(rows, n).pass}) ELSE 0])

RawRows(rows, p) ==
  SumFunction([n \in RowNames(rows) |->
    IF RowHeld(rows, n, p) THEN RowOf(rows, n).pass ELSE RowOf(rows, n).fail])

\* Seeded error: mandatory checks do not gate the floor.
FixedScore_Ungated(rows, p) ==
  LET raw     == RawRows(rows, p)
      ceiling == Ceiling(rows)
  IN  IF ceiling <= 0 THEN -1
      ELSE (100 * Clamp(raw, 0, ceiling)) \div ceiling

\* Seeded error: penalties are not stopped at zero.
FixedScore_NoClamp(rows, p) ==
  LET names   == RowNames(rows)
      needed(n) == RowOf(rows, n).mandatory
      raw     == RawRows(rows, p)
      ceiling == Ceiling(rows)
  IN  CASE ceiling <= 0 -> -1
        [] ceiling > 0 /\ (\E n \in names : needed(n) /\ ~RowHeld(rows, n, p)) -> 0
        [] OTHER -> (100 * raw) \div ceiling

\* fixed_score: the task score of a probe over the rows; -1 is None.
FixedScore(rows, p) ==
  LET names   == RowNames(rows)
      some    == \E n \in names : RowHeld(rows, n, "gold") /\ RowOf(rows, n).mandatory
      needed(n) == IF some THEN RowOf(rows, n).mandatory ELSE RowHeld(rows, n, "gold")
      raw     == RawRows(rows, p)
      ceiling == Ceiling(rows)
  IN  CASE ceiling <= 0 -> -1
        [] ceiling > 0 /\ (\E n \in names : needed(n) /\ ~RowHeld(rows, n, p)) -> 0
        [] OTHER -> (100 * Clamp(raw, 0, ceiling)) \div ceiling

\* build_baseline_sidecar.  Without a stub the floor rests on the empty probe.
Payload(rows, stubbed) ==
  LET empty == FixedScore(rows, "empty")
      stub  == IF stubbed THEN FixedScore(rows, "stub") ELSE -1
  IN  [present |-> TRUE, rows |-> rows,
       mode |-> Completion(rows).mode, required |-> Completion(rows).required,
       scores |-> <<empty, stub, Max({empty, stub})>>]

\* gold_from_sidecar: the manifest the scorer reads back, one entry per name.
Manifest(s) ==
  [n \in RowNames(s.rows) |->
     [ok |-> RowHeld(s.rows, n, "gold"), pass |-> RowOf(s.rows, n).pass,
      fail |-> RowOf(s.rows, n).fail, mandatory |-> n \in s.required]]

\* A grade can be scored: the sidecar is there, its completion contract is that
\* of its rows, and validate_scoring accepts it.
Usable(s) ==
  /\ s.present
  /\ s.required # {}
  /\ s.required = IF s.mode = "authored_mandatory_checks" THEN AuthoredMandatory(s.rows)
                                                        ELSE AllGold(s.rows)
  /\ GoldAccepted(Manifest(s))

-------------------------------------------------------------------------------
(***************************************************************************)
(* A validation.                                                           *)
(***************************************************************************)
OptionType ==
  [write : BOOLEAN, strict : BOOLEAN, stubbed : BOOLEAN, policy : Policies]

NoEvidence == [p \in Probes |-> <<>>]

NoReport == [goldGreen |-> FALSE, emptyRed |-> FALSE, stable |-> FALSE, floorBelow |-> FALSE,
             strict |-> FALSE, written |-> FALSE, drift |-> FALSE]

GauntletInit ==
  /\ sidecar \in InitialSidecars
  /\ options \in OptionType
  /\ probe = "gold"
  /\ attempt = 0
  /\ evidence = NoEvidence
  /\ stage = "probing"
  /\ report = NoReport
  /\ faulted = FALSE
  /\ rounds = 1

NextProbe(p) == CASE p = "gold" -> "empty"
                  [] p = "empty" /\ options.stubbed -> "stub"
                  [] OTHER -> "none"

\* The verdict on a patch that does not apply, which is returned before any scoring.
PatchVerdict(v) == v.failed /\ v.checks = <<>>

\* grade_once answers with a verdict the candidate owns: after the patch applied, a
\* sidecar that cannot be scored with makes it benchmark_scoring_failure.
GradeCounts ==
  /\ stage = "probing" /\ probe # "none"
  /\ \E v \in Outcomes[probe] :
       /\ Usable(sidecar) \/ PatchVerdict(v)
       /\ evidence' = [evidence EXCEPT ![probe] = Append(@, v)]
  /\ attempt' = 0
  /\ probe' = IF Len(evidence[probe]) + 1 < Runs THEN probe ELSE NextProbe(probe)
  /\ UNCHANGED <<sidecar, options, stage, report, faulted, rounds>>

\* The verdict of a grade that failed for the benchmark's reasons.
BenchmarkVerdict == [failed |-> TRUE, checks |-> <<>>, owner |-> "benchmark"]

\* Seeded error: an exhausted retry is kept as a verdict.
GradeFails_Folded ==
  /\ stage = "probing" /\ probe # "none"
  /\ faulted' \in (IF Usable(sidecar) THEN {TRUE} ELSE {faulted, TRUE})
  /\ IF attempt + 1 < MaxAttempts
     THEN attempt' = attempt + 1 /\ UNCHANGED <<probe, evidence>>
     ELSE /\ attempt' = 0
          /\ evidence' = [evidence EXCEPT ![probe] = Append(@, BenchmarkVerdict)]
          /\ probe' = IF Len(evidence[probe]) + 1 < Runs THEN probe ELSE NextProbe(probe)
  /\ UNCHANGED <<sidecar, options, stage, report, rounds>>

\* grade_once answers with a class that starts with "benchmark_": the host
\* failed, or no sidecar can be scored with.  A second time ends the validation.
GradeFails ==
  /\ stage = "probing" /\ probe # "none"
  /\ faulted' \in (IF Usable(sidecar) THEN {TRUE} ELSE {faulted, TRUE})
  /\ attempt' = attempt + 1
  /\ stage' = IF attempt' = MaxAttempts THEN "aborted" ELSE "probing"
  /\ UNCHANGED <<sidecar, options, probe, evidence, report, rounds>>

\* No stub: its rows say nothing, and its columns are not compared.
First == [p \in Probes |-> IF evidence[p] = <<>> THEN [failed |-> FALSE, checks |-> <<>>]
                                                 ELSE evidence[p][1]]

\* Seeded error: one run that agrees is enough.
Stable_SomeRun(p) ==
  evidence[p] = <<>> \/ \E i \in DOMAIN evidence[p] : evidence[p][i] = evidence[p][1]

\* The flake gate of one probe: every run has the first one's verdict.
Stable(p) == \A i \in DOMAIN evidence[p] : evidence[p][i] = evidence[p][1]

\* task-score-policy.json names a check gold does not emit, and no gold errored.
PolicyMisses ==
  /\ options.policy.on
  /\ \A i \in DOMAIN evidence["gold"] : ~evidence["gold"][i].failed
  /\ ~(options.policy.mandatory \subseteq RowNames(Rows(First, options.policy)))

\* The gates that decide whether a baseline is written.
Gates(r) == r.goldGreen /\ r.emptyRed /\ r.stable /\ r.floorBelow

\* Shares in percent: STRICT_FLOOR_SHARE * gold and 1 - STRICT_MIN_HEADROOM.
StrictFloorMax == 40

\* strict_gate_passes for a build task: the stub was measured, some check tells
\* gold from the starter and the stub, and the floor is low.
StrictGate(payload) ==
  /\ options.stubbed
  /\ \E i \in DOMAIN payload.rows :
       payload.rows[i].gold /\ ~payload.rows[i].stub /\ ~payload.rows[i].empty
  /\ payload.scores[3] \in 0..StrictFloorMax

Report ==
  /\ stage = "probing" /\ probe = "none"
  /\ ~PolicyMisses
  /\ LET rows    == Rows(First, options.policy)
         payload == Payload(rows, options.stubbed)
         floor   == Max({HeldRows(rows, "empty"),
                         IF options.stubbed THEN HeldRows(rows, "stub") ELSE 0})
         red     == \A i \in DOMAIN evidence["empty"] : ~LegacyResolved(evidence["empty"][i])
         judged  ==
           [goldGreen  |-> \A i \in DOMAIN evidence["gold"] : LegacyResolved(evidence["gold"][i]),
            emptyRed   |-> red,
            stable     |-> \A p \in Probes : Stable(p),
            floorBelow |-> red /\ floor < HeldRows(rows, "gold"),
            strict     |-> StrictGate(payload),
            written    |-> FALSE,
            drift      |-> ~options.write /\ sidecar.present /\ sidecar # payload]
         writes  == options.write /\ Gates(judged)
     IN  /\ sidecar' = IF writes THEN payload ELSE sidecar
         /\ report' = [judged EXCEPT !.written = writes]
  /\ stage' = "reported"
  /\ UNCHANGED <<options, probe, attempt, evidence, faulted, rounds>>

PolicyRefused ==
  /\ stage = "probing" /\ probe = "none"
  /\ PolicyMisses
  /\ stage' = "refused"
  /\ UNCHANGED <<sidecar, options, probe, attempt, evidence, report, faulted, rounds>>

\* The author runs bench validate again.
Again ==
  /\ stage # "probing" /\ rounds < MaxRounds
  /\ rounds' = rounds + 1
  /\ options' = [options EXCEPT !.write = FALSE]
  /\ probe' = "gold" /\ attempt' = 0 /\ evidence' = NoEvidence
  /\ stage' = "probing" /\ report' = NoReport /\ faulted' = FALSE
  /\ UNCHANGED sidecar

GauntletNext == GradeCounts \/ GradeFails \/ Report \/ PolicyRefused \/ Again

GauntletSpec == GauntletInit /\ [][GauntletNext]_gauntletVars

-------------------------------------------------------------------------------
(***************************************************************************)
(* Correctness.                                                            *)
(***************************************************************************)

\* No probe counts more verdicts than runs, and what lies beside the verifier is
\* nothing or a table with scores between 0 and 100.
GauntletTypeOK ==
  /\ stage \in {"probing", "reported", "aborted", "refused"}
  /\ probe \in Probes \union {"none"}
  /\ attempt \in 0..MaxAttempts
  /\ rounds \in 1..MaxRounds
  /\ faulted \in BOOLEAN
  /\ options \in OptionType
  /\ report \in [goldGreen : BOOLEAN, emptyRed : BOOLEAN, stable : BOOLEAN,
                 floorBelow : BOOLEAN, strict : BOOLEAN, written : BOOLEAN, drift : BOOLEAN]
  /\ \A p \in Probes : Len(evidence[p]) \in 0..Runs
  /\ sidecar.present => \A k \in 1..3 : sidecar.scores[k] \in -1..100

\* _grade_probe: "An exhausted benchmark-infrastructure retry is invalid evidence
\* and aborts validation with CLI exit 2 instead of being folded into the
\* empty/stub floor."  So no verdict the gates look at is the benchmark's own.
EvidenceIsCandidates ==
  \A p \in Probes : \A i \in DOMAIN evidence[p] : evidence[p][i].owner = "candidate"

\* A sidecar is only ever replaced by a table that every run of every probe
\* reproduced, with gold resolved and the empty patch not, and in which gold
\* holds a check that neither the empty patch nor the stub holds.
WrittenIsReproduced ==
  [][sidecar' # sidecar =>
       /\ \A p \in Probes : \A i, j \in DOMAIN evidence[p] :
            evidence[p][i] = evidence[p][j]
       /\ LegacyResolved(evidence["gold"][1])
       /\ ~LegacyResolved(evidence["empty"][1])
       /\ \A p \in {"empty", "stub"} : \E i \in DOMAIN sidecar'.rows :
            sidecar'.rows[i].gold /\ ~sidecar'.rows[i][p]]_gauntletVars

\* The probe recorded every check of gold as often as gold did, and no check of
\* one of those names besides.
SameCounts(v, g) ==
  \A i \in DOMAIN g.checks :
    Cardinality({j \in DOMAIN g.checks : SameKey(g.checks[j], g.checks[i])}) =
    Cardinality({j \in DOMAIN v.checks : SameKey(v.checks[j], g.checks[i])})

SameNameCounts(v, g) ==
  \A n \in Recorded(g.checks) :
    Cardinality(Instances(v.checks, n)) = Cardinality(Instances(g.checks, n))

\* Two implementations of the task score: the floor that validate writes and the
\* score that the scorer, reading the written sidecar back, would give the same
\* verdict.  They agree whenever the probe records every check as often as gold
\* and breaks no check, of those it records as mandatory, that the sidecar does not
\* require: the scorer refuses such a verdict whatever a policy made of the check.
WriterAgreesWithScorer ==
  report.written =>
    \A p \in {"empty", "stub"} :
      LET v == evidence[p][1]
          s == v.checks
      IN  /\ p = "stub" => options.stubbed
          /\ Usable(sidecar) /\ ~v.failed /\ SameCounts(v, evidence["gold"][1])
          /\ SameNameCounts(v, evidence["gold"][1])
          /\ \A n \in Recorded(s) \ sidecar.required :
               Worst(s, n).mandatory => Worst(s, n).ok
          => sidecar.scores[IF p = "empty" THEN 1 ELSE 2]
               = TaskScore(s, Manifest(sidecar), v.failed)

\* What validate writes can be scored with, if gold holds all of its checks and
\* earns something: the contract build_baseline_sidecar writes is the one
\* gold_from_sidecar demands.
PerfectGoldIsUsable ==
  report.written =>
    (HeldRows(sidecar.rows, "gold") = Len(sidecar.rows) /\ sidecar.scores[1] >= 0
     => Usable(sidecar))

\* What a validation reports and writes, whatever its probes measured.
GauntletCorrect ==
  /\ GauntletTypeOK
  /\ EvidenceIsCandidates
  /\ WriterAgreesWithScorer
  /\ PerfectGoldIsUsable

(***************************************************************************)
(* What the repository says and the code does not do.                      *)
(***************************************************************************)

\* validate.py:68, "retrying only benchmark-owned infrastructure faults": a
\* validation is aborted because the infrastructure failed, and for no other
\* reason.
AbortMeansInfrastructure == stage = "aborted" => faulted

===============================================================================
