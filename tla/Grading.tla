-------------------------------- MODULE Grading --------------------------------
(***************************************************************************)
(* grade_once (harness/bench/commands/grading_core.py): a patch is applied *)
(* to a pristine copy of the task repository, the candidate is built and   *)
(* run against freshly booted vendors by the verifier, and the outcome is  *)
(* classified, scored and published in the attempt directory.              *)
(*                                                                         *)
(* The module specifies a standalone `bench grade`; EvalRollout reuses its *)
(* actions for the grade that ends an evaluation.  The checks the verifier *)
(* records are abstracted to whether every mandatory check passed: with    *)
(* mandatory gating that decides between a score of 0 and an earned one.   *)
(***************************************************************************)
EXTENDS EvalStore

VARIABLES
  gstep,       \* where grade_once stands
  grade,       \* the verdict and GradeResult under construction
  tree,        \* what the workspace repository holds
  vendors,     \* the vendor containers of the attempt's Compose project
  keep,        \* --keep: leave the stack up
  downFailed   \* some `docker compose down` did not remove its containers

gradeVars == <<gstep, grade, tree, vendors, keep, downFailed>>
gvars == <<storeVars, gradeVars>>

Phases == {"compose_render", "candidate_build", "benchmark_startup", "verifier"}

GradeSteps ==
  Phases \union {"idle", "submit", "patch", "ready", "finally", "score",
                 "returned", "raised"}

\* What an exception is: a participant over its disk budget, a registry, DNS or
\* daemon failure named by a build marker, or anything else.
Faults == {"participant_resource", "infrastructure_marker", "other"}

GradeType ==
  [class  : FailureClasses,
   fault  : Faults \union {"none"},   \* the exception a phase raised, if any
   failed : BOOLEAN,                  \* verdict.error is set
   passed : BOOLEAN,                  \* every mandatory check is recorded and ok
   score  : Scores \union {NoScore},
   solved : BOOLEAN]

GradingTypeOK ==
  /\ StoreTypeOK
  /\ gstep \in GradeSteps
  /\ grade \in GradeType
  /\ tree \in {"none", "agent", "patched", "tampered"}
  /\ vendors \in {"down", "fresh", "used"}
  /\ keep \in BOOLEAN
  /\ downFailed \in BOOLEAN

NoGrade ==
  [class |-> "candidate_result", fault |-> "none", failed |-> FALSE, passed |-> FALSE,
   score |-> NoScore, solved |-> FALSE]

GradeInit ==
  /\ grade = NoGrade
  /\ vendors = "down"
  /\ keep \in BOOLEAN
  /\ downFailed = FALSE

-------------------------------------------------------------------------------
(***************************************************************************)
(* Failure ownership: failure_class_for_phase, failure_class_for_exception.*)
(***************************************************************************)
FailureClassForPhase ==
  [compose_render    |-> "benchmark_infrastructure_failure",
   candidate_build   |-> "candidate_build_failure",
   benchmark_startup |-> "benchmark_infrastructure_failure",
   verifier          |-> "benchmark_verifier_failure"]

\* Seeded error: build markers are not consulted.
FailureClassForException_NoMarkers(p, fault) ==
  IF fault = "participant_resource" THEN "candidate_runtime_failure"
                                    ELSE FailureClassForPhase[p]

FailureClassForException(p, fault) ==
  CASE fault = "participant_resource" -> "candidate_runtime_failure"
    [] p = "candidate_build" /\ fault = "infrastructure_marker" ->
         "benchmark_infrastructure_failure"
    [] OTHER -> FailureClassForPhase[p]

\* The exceptions a phase can raise: only the verifier runs the participant's
\* application and so meets the disk budget; only build errors carry markers.
FaultsOf(p) ==
  CASE p = "candidate_build" -> {"infrastructure_marker", "other"}
    [] p = "verifier" -> {"participant_resource", "other"}
    [] OTHER -> {"other"}

(***************************************************************************)
(* Patch.                                                                  *)
(***************************************************************************)

\* The submitted patch is copied into the attempt directory, redacted.
SubmitPatch(found) ==
  /\ gstep = "submit"
  /\ Retain("patch.diff", found)
  /\ gstep' = "patch"
  /\ UNCHANGED <<meta, manifest, grade, tree, vendors, keep, downFailed>>

\* prepare_pristine_repo, then a leak or an unappliable patch ends the grade
\* with an error verdict and no score.
RejectPatch ==
  /\ gstep = "patch"
  /\ LET class == IF leak THEN "candidate_runtime_failure" ELSE "candidate_patch_failure"
     IN  /\ grade' = [NoGrade EXCEPT !.class = class, !.failed = TRUE]
         /\ WriteMeta([meta EXCEPT !.status = "patch_failed", !.provenance = TRUE,
                                   !.class = class, !.failed = TRUE], leak)
  /\ tree' = "none"
  /\ gstep' = "returned"
  /\ UNCHANGED <<leak, vendors, keep, downFailed>>

\* Seeded error: the leak is not looked at before the patch is applied.
AcceptPatch_EvenLeaked ==
  /\ gstep = "patch"
  /\ tree' = "patched"
  /\ grade' = NoGrade
  /\ gstep' = "ready"
  /\ UNCHANGED <<storeVars, vendors, keep, downFailed>>

\* The patch applies to the pristine repository.
AcceptPatch ==
  /\ gstep = "patch"
  /\ ~leak
  /\ tree' = "patched"
  /\ grade' = NoGrade
  /\ gstep' = "ready"
  /\ UNCHANGED <<storeVars, vendors, keep, downFailed>>

\* The vendors are not in the image lock, or provenance cannot be captured:
\* grade_once raises and writes nothing more.
GradeRaises ==
  /\ gstep = "ready"
  /\ gstep' = "raised"
  /\ UNCHANGED <<storeVars, grade, tree, vendors, keep, downFailed>>

BeginGrading ==
  /\ gstep = "ready"
  /\ WriteMeta([meta EXCEPT !.status = "grading", !.provenance = TRUE], leak)
  /\ gstep' = "compose_render"
  /\ UNCHANGED <<leak, grade, tree, vendors, keep, downFailed>>

(***************************************************************************)
(* Phases.  The grade's stack shares the Compose project of the attempt:   *)
(* `up` starts stopped vendors and may or may not recreate running ones.   *)
(***************************************************************************)
RenderAndBuild ==
  /\ \/ gstep = "compose_render" /\ gstep' = "candidate_build"
     \/ gstep = "candidate_build" /\ gstep' = "benchmark_startup"
  /\ UNCHANGED <<storeVars, grade, tree, vendors, keep, downFailed>>

BootVendors ==
  /\ gstep = "benchmark_startup"
  /\ vendors' \in {"fresh", vendors} \ {"down"}
  /\ gstep' = "verifier"
  /\ UNCHANGED <<storeVars, grade, tree, keep, downFailed>>

RunVerifier(allPass) ==
  /\ gstep = "verifier"
  /\ grade' = [grade EXCEPT !.passed = allPass]
  /\ vendors' = "used"
  /\ gstep' = "finally"
  /\ UNCHANGED <<storeVars, tree, keep, downFailed>>

\* A phase raises: the error verdict drops whatever had been recorded.  A
\* failed startup may leave vendors running.
PhaseFails(p, fault) ==
  /\ gstep = p
  /\ fault \in FaultsOf(p)
  /\ grade' = [NoGrade EXCEPT !.class = FailureClassForException(p, fault),
                              !.fault = fault, !.failed = TRUE]
  /\ vendors' \in IF p = "benchmark_startup" THEN {vendors, "fresh"} ELSE {vendors}
  /\ gstep' = "finally"
  /\ UNCHANGED <<storeVars, tree, keep, downFailed>>

\* stack.down(): its exit status is not looked at.
Down(ok) ==
  /\ vendors' = IF keep \/ ~ok THEN vendors ELSE "down"
  /\ downFailed' = (downFailed \/ (~keep /\ ~ok))

\* The vendor log is retained before the stack is torn down.
GradeFinally(found, ok) ==
  /\ gstep = "finally"
  /\ Retain("vendor.log", found)
  /\ Down(ok)
  /\ gstep' = "score"
  /\ UNCHANGED <<meta, manifest, grade, tree, keep>>

(***************************************************************************)
(* Score.                                                                  *)
(***************************************************************************)

\* Seeded error: an errored verdict can be solved.
SolvedVerdict_IgnoresError(g) == g.passed \/ g.failed

\* solved(): no verdict error and every mandatory gold check recorded and ok.
SolvedVerdict(g) == ~g.failed /\ g.passed

\* task_score(): an unsolved task scores 0, a solved one what it earned.
TaskScores(g) == IF SolvedVerdict(g) THEN Scores ELSE {0}

\* Seeded error: a scoring failure is given no class.
Scored_Unclassified(goldOk, s) ==
  IF goldOk THEN [grade EXCEPT !.score = s, !.solved = SolvedVerdict(grade)]
            ELSE [grade EXCEPT !.class = NoClass]

\* The verdict before it is published: scored, or left unscored because the
\* gold manifest cannot be used (ScoringError).
Scored(goldOk, s) ==
  IF goldOk THEN [grade EXCEPT !.score = s, !.solved = SolvedVerdict(grade)]
            ELSE [grade EXCEPT !.class = "benchmark_scoring_failure"]

PublishGrade(goldOk, s, found) ==
  /\ gstep = "score"
  /\ s \in TaskScores(grade)
  /\ Redact(found)
  /\ LET g == Scored(goldOk, s)
     IN  /\ grade' = g
         /\ WriteMeta([meta EXCEPT !.status = IF g.failed \/ ~goldOk THEN "error" ELSE "done",
                                   !.resolved = g.solved, !.score = g.score,
                                   !.class = g.class, !.failed = g.failed \/ ~goldOk],
                      leak \/ found)
  /\ gstep' = "returned"
  /\ UNCHANGED <<tree, vendors, keep, downFailed>>

\* Vendors left running keep appending to the vendor-logs directory.
VendorActivity ==
  /\ vendors # "down"
  /\ Touch("vendor-logs")
  /\ UNCHANGED <<meta, leak, manifest, gradeVars>>

GradeStep ==
  \/ RejectPatch \/ AcceptPatch \/ GradeRaises \/ BeginGrading
  \/ RenderAndBuild \/ BootVendors
  \/ \E b \in BOOLEAN : RunVerifier(b)
  \/ \E p \in Phases, f \in Faults : PhaseFails(p, f)
  \/ \E found, ok \in BOOLEAN : GradeFinally(found, ok)
  \/ \E goldOk, found \in BOOLEAN, s \in Scores : PublishGrade(goldOk, s, found)

-------------------------------------------------------------------------------
(***************************************************************************)
(* A standalone grade.                                                     *)
(***************************************************************************)
GradingInit ==
  /\ StoreInit
  /\ GradeInit
  /\ gstep = "submit"
  /\ tree = "none"

GradingNext ==
  \/ \E found \in BOOLEAN : SubmitPatch(found)
  \/ GradeStep
  \/ VendorActivity

GradingSpec == GradingInit /\ [][GradingNext]_gvars

-------------------------------------------------------------------------------
(***************************************************************************)
(* Properties.                                                             *)
(***************************************************************************)

\* A patch in which a runtime secret was found is never built or run: grading
\* past the patch check starts without a known leak (grading_core.py:195).
LeakedPatchNeverRuns == gstep \in Phases \union {"ready"} => ~leak

\* What grade_once publishes as resolved was verified: it ran to the end on the
\* patched pristine tree with no error, and scored (scoring.py:223, "a crashed
\* grade is not a solve").
ResolvedWasVerified ==
  meta.resolved =>
    /\ ~grade.failed
    /\ grade.passed
    /\ grade.score # NoScore
    /\ tree # "none"

\* A registry or daemon failure during the candidate's build never becomes a
\* candidate-owned failure class (failure_class_for_exception).
InfrastructureKeepsOwner ==
  gstep = "returned" /\ grade.fault = "infrastructure_marker"
    => grade.class \in BenchmarkOwned

\* When grade_once returns, the manifest describes the metadata on disk, and
\* hashes every artifact unless vendors are still up and writing their logs.
ManifestCurrent ==
  gstep = "returned" =>
    /\ manifest = meta
    /\ vendors = "down" => stale = {}

\* What grade_once promises of every grade it publishes.
GradingCorrect ==
  LeakedPatchNeverRuns /\ ResolvedWasVerified /\ InfrastructureKeepsOwner /\ ManifestCurrent

===============================================================================
