----------------------------- MODULE GradingProofs -----------------------------
(***************************************************************************)
(* Theorems about a standalone grade (module Grading), for every set of    *)
(* scores.  The lemmas about the store and about GradeStep are the ones    *)
(* EvalRolloutProofs reuses for the grade that ends an evaluation.         *)
(***************************************************************************)
EXTENDS Grading, TLAPS

(***************************************************************************)
(* The store.                                                              *)
(***************************************************************************)

\* The metadata of a fresh attempt is well formed and not terminal.
LEMMA CreatedMetaType == CreatedMeta \in MetaType
  BY DEF CreatedMeta, MetaType, Statuses, NoStop, NoClass

\* Sealing keeps metadata well formed.
LEMMA SealedType ==
  ASSUME NEW m \in MetaType, NEW lk \in BOOLEAN
  PROVE  Sealed(m, lk) \in MetaType
  BY DEF Sealed, MetaType, FailureClasses, CandidateOwned

\* Sealing touches neither the status nor the recorded provenance, and leaves
\* metadata alone when no leak is known.
LEMMA SealedFrame ==
  ASSUME NEW m \in MetaType, NEW lk \in BOOLEAN
  PROVE  /\ Sealed(m, lk).status = m.status
         /\ Sealed(m, lk).provenance = m.provenance
         /\ Sealed(m, lk).score = m.score
         /\ Sealed(m, lk).resolved => m.resolved
         /\ lk => /\ ~Sealed(m, lk).resolved
                  /\ Sealed(m, lk).reward = NoScore
         /\ ~lk => Sealed(m, lk) = m
  BY DEF Sealed, MetaType

\* Writing well-formed metadata leaves metadata and manifest well formed.
LEMMA WriteMetaType ==
  ASSUME StoreTypeOK, NEW m \in MetaType, NEW lk \in BOOLEAN, WriteMeta(m, lk)
  PROVE  /\ meta' \in MetaType
         /\ manifest' \in MetaType
         /\ stale' \subseteq Artifacts
  BY SealedType DEF WriteMeta, Finalize, StoreTypeOK

\* Writing an artifact keeps the redaction state well formed.
LEMMA RetainType ==
  ASSUME StoreTypeOK, NEW a \in Artifacts, NEW found \in BOOLEAN, Retain(a, found)
  PROVE  /\ leak' \in BOOLEAN
         /\ stale' \subseteq Artifacts
  BY DEF StoreTypeOK, Retain, Redact, Touch

-------------------------------------------------------------------------------
(***************************************************************************)
(* Type correctness.                                                       *)
(***************************************************************************)

\* Every phase exception has a class.
LEMMA ExceptionClass ==
  ASSUME NEW p \in Phases, NEW f \in Faults
  PROVE  FailureClassForException(p, f) \in FailureClasses
  BY DEF Phases, FailureClassForException, FailureClassForPhase, FailureClasses,
         BenchmarkOwned, CandidateOwned

\* The verdict every grade starts from, and an error verdict, are well formed.
LEMMA NoGradeType ==
  /\ NoGrade \in GradeType
  /\ \A c \in FailureClasses, f \in Faults \union {"none"} :
       /\ [NoGrade EXCEPT !.class = c, !.failed = TRUE] \in GradeType
       /\ [NoGrade EXCEPT !.class = c, !.fault = f, !.failed = TRUE] \in GradeType
  BY DEF NoGrade, GradeType, FailureClasses, CandidateOwned

\* Scoring a well-formed verdict gives a well-formed verdict.
LEMMA ScoredType ==
  ASSUME grade \in GradeType, NEW goldOk \in BOOLEAN, NEW s \in Scores
  PROVE  /\ Scored(goldOk, s) \in GradeType
         /\ Scored(goldOk, s).failed = grade.failed
         /\ Scored(goldOk, s).passed = grade.passed
         /\ Scored(goldOk, s).fault = grade.fault
         /\ Scored(goldOk, s).solved = IF goldOk THEN SolvedVerdict(grade) ELSE grade.solved
         /\ Scored(goldOk, s).score = IF goldOk THEN s ELSE grade.score
         /\ Scored(goldOk, s).class =
              IF goldOk THEN grade.class ELSE "benchmark_scoring_failure"
  BY DEF Scored, SolvedVerdict, GradeType, FailureClasses, BenchmarkOwned

\* The metadata a grade publishes are well formed.
LEMMA GradeMetaType ==
  ASSUME meta \in MetaType, NEW st \in Statuses, NEW solved \in BOOLEAN,
         NEW score \in Scores \union {NoScore}, NEW class \in FailureClasses \union {NoClass},
         NEW failed \in BOOLEAN
  PROVE  [meta EXCEPT !.status = st, !.resolved = solved, !.score = score,
                      !.class = class, !.failed = failed] \in MetaType
  BY DEF MetaType

\* Every step of grade_once keeps its state well formed.
LEMMA GradeStepType ==
  ASSUME GradingTypeOK, GradeStep
  PROVE  GradingTypeOK'
<1> USE DEF GradingTypeOK
<1>s. gstep \in GradeSteps /\ grade \in GradeType /\ StoreTypeOK
  OBVIOUS
<1>1. CASE RejectPatch
  <2> DEFINE class == IF leak THEN "candidate_runtime_failure" ELSE "candidate_patch_failure"
             m == [meta EXCEPT !.status = "patch_failed", !.provenance = TRUE,
                               !.class = class, !.failed = TRUE]
  <2>1. m \in MetaType
    BY ZenonT(60) DEF StoreTypeOK, MetaType, Statuses, TerminalStatuses, FailureClasses, CandidateOwned
  <2>2. WriteMeta(m, leak)
    BY <1>1 DEF RejectPatch
  <2>3. class \in FailureClasses
    BY DEF FailureClasses, CandidateOwned
  <2>4. grade' \in GradeType
    BY <1>1, <2>3, NoGradeType DEF RejectPatch
  <2> QED
    BY <1>1, <2>1, <2>2, <2>4, WriteMetaType DEF RejectPatch, StoreTypeOK, GradeSteps
<1>2. CASE AcceptPatch
  BY <1>2, NoGradeType DEF AcceptPatch, storeVars, StoreTypeOK, GradeSteps
<1>3. CASE GradeRaises
  BY <1>3 DEF GradeRaises, storeVars, StoreTypeOK, GradeSteps
<1>4. CASE BeginGrading
  <2> DEFINE m == [meta EXCEPT !.status = "grading", !.provenance = TRUE]
  <2>1. m \in MetaType
    BY DEF StoreTypeOK, MetaType, Statuses
  <2>2. WriteMeta(m, leak)
    BY <1>4 DEF BeginGrading
  <2> QED
    BY <1>4, <2>1, <2>2, WriteMetaType DEF BeginGrading, StoreTypeOK, GradeSteps, Phases
<1>5. CASE RenderAndBuild
  BY <1>5 DEF RenderAndBuild, storeVars, StoreTypeOK, GradeSteps, Phases
<1>6. CASE BootVendors
  BY <1>6 DEF BootVendors, storeVars, StoreTypeOK, GradeSteps, Phases
<1>7. ASSUME NEW b \in BOOLEAN, RunVerifier(b)
      PROVE  GradingTypeOK'
  <2>1. grade' \in GradeType
    BY <1>7 DEF RunVerifier, GradeType
  <2> QED
    BY <1>7, <2>1 DEF RunVerifier, storeVars, StoreTypeOK, GradeSteps
<1>8. ASSUME NEW p \in Phases, NEW f \in Faults, PhaseFails(p, f)
      PROVE  GradingTypeOK'
  <2>1. grade' \in GradeType
    BY <1>8, ExceptionClass, NoGradeType DEF PhaseFails
  <2> QED
    BY <1>8, <2>1 DEF PhaseFails, storeVars, StoreTypeOK, GradeSteps
<1>9. ASSUME NEW found \in BOOLEAN, NEW ok \in BOOLEAN, GradeFinally(found, ok)
      PROVE  GradingTypeOK'
  <2>1. leak' \in BOOLEAN /\ stale' \subseteq Artifacts
    BY <1>9, RetainType DEF GradeFinally, Artifacts
  <2> QED
    BY <1>9, <2>1 DEF GradeFinally, Down, StoreTypeOK, GradeSteps
<1>10. ASSUME NEW goldOk \in BOOLEAN, NEW found \in BOOLEAN, NEW s \in Scores,
              PublishGrade(goldOk, s, found)
       PROVE  GradingTypeOK'
  <2> DEFINE g  == Scored(goldOk, s)
             fl == g.failed \/ ~goldOk
             st == IF fl THEN "error" ELSE "done"
             m  == [meta EXCEPT !.status = st, !.resolved = g.solved, !.score = g.score,
                                !.class = g.class, !.failed = fl]
  <2>1. g \in GradeType
    BY ScoredType
  <2> HIDE DEF g
  <2>a. /\ g.solved \in BOOLEAN
        /\ g.score \in Scores \union {NoScore}
        /\ g.class \in FailureClasses \union {NoClass}
    BY <2>1 DEF GradeType
  <2>b. st \in Statuses /\ fl \in BOOLEAN /\ meta \in MetaType
    BY DEF StoreTypeOK, Statuses, TerminalStatuses
  <2> HIDE DEF fl, st
  <2>2. m \in MetaType
    BY <2>a, <2>b, GradeMetaType, ZenonT(60)
  <2>3. grade' = g /\ WriteMeta(m, leak \/ found) /\ leak' \in BOOLEAN
    BY <1>10 DEF PublishGrade, Redact, StoreTypeOK, g, fl, st
  <2> QED
    BY <1>10, <2>1, <2>2, <2>3, WriteMetaType DEF PublishGrade, StoreTypeOK, GradeSteps
<1> QED
  BY <1>1, <1>2, <1>3, <1>4, <1>5, <1>6, <1>7, <1>8, <1>9, <1>10 DEF GradeStep

\* So does the vendors' own logging.
LEMMA VendorActivityType ==
  ASSUME GradingTypeOK, VendorActivity
  PROVE  GradingTypeOK'
  BY DEF GradingTypeOK, StoreTypeOK, VendorActivity, Touch, gradeVars, Artifacts

\* Type correctness of a standalone grade (grade_once called by `bench grade`).
THEOREM GradingTypeCorrect == GradingSpec => []GradingTypeOK
<1>1. GradingInit => GradingTypeOK
  BY CreatedMetaType, NoGradeType
  DEF GradingInit, StoreInit, GradeInit, GradingTypeOK, StoreTypeOK, GradeSteps
<1>2. GradingTypeOK /\ [GradingNext]_gvars => GradingTypeOK'
  <2> SUFFICES ASSUME GradingTypeOK, [GradingNext]_gvars
               PROVE  GradingTypeOK'
    OBVIOUS
  <2>1. ASSUME NEW found \in BOOLEAN, SubmitPatch(found)
        PROVE  GradingTypeOK'
    <3>1. leak' \in BOOLEAN /\ stale' \subseteq Artifacts
      BY <2>1, RetainType DEF SubmitPatch, GradingTypeOK, Artifacts
    <3> QED
      BY <2>1, <3>1 DEF SubmitPatch, GradingTypeOK, StoreTypeOK, GradeSteps
  <2>2. CASE GradeStep
    BY <2>2, GradeStepType
  <2>3. CASE VendorActivity
    BY <2>3, VendorActivityType
  <2>4. CASE UNCHANGED gvars
    BY <2>4 DEF gvars, storeVars, gradeVars, GradingTypeOK, StoreTypeOK
  <2> QED
    BY <2>1, <2>2, <2>3, <2>4 DEF GradingNext
<1> QED
  BY <1>1, <1>2, PTL DEF GradingSpec

-------------------------------------------------------------------------------
(***************************************************************************)
(* The safety invariants of a grade.  None of them but the first is        *)
(* inductive: a resolved verdict needs to know that nothing was resolved   *)
(* before it was published and that there is a tree with the patch, a      *)
(* current manifest that provenance was recorded when grading began.       *)
(* Nothing here is of a standalone grade only: the attempts of EvalRollout *)
(* keep the same invariant, in EvalRolloutProofs.                          *)
(***************************************************************************)
GradingInv ==
  /\ GradingTypeOK
  /\ LeakedPatchNeverRuns
  /\ gstep # "returned" => ~meta.resolved /\ ~grade.solved
  /\ gstep \in Phases \union {"ready", "finally", "score"} => tree # "none"
  /\ gstep \in Phases \union {"finally", "score"} => meta.provenance
  /\ grade.fault = "infrastructure_marker" => grade.class \in BenchmarkOwned
  /\ ResolvedWasVerified
  /\ ManifestCurrent

\* Writing terminal metadata that has provenance leaves a current manifest.
LEMMA TerminalWriteIsCurrent ==
  ASSUME NEW m \in MetaType, NEW lk \in BOOLEAN, WriteMeta(m, lk),
         m.status \in TerminalStatuses, m.provenance
  PROVE  manifest' = meta' /\ stale' = {} /\ meta' = Sealed(m, lk)
  BY SealedFrame DEF WriteMeta, Finalize

\* Every step of grade_once keeps the invariant.
LEMMA GradeStepInv ==
  ASSUME GradingInv, GradeStep
  PROVE  GradingInv'
<1> USE DEF GradingInv
<1>t. GradingTypeOK'
  BY GradeStepType
<1>s. /\ gstep \in GradeSteps /\ grade \in GradeType /\ meta \in MetaType
      /\ leak \in BOOLEAN
  BY DEF GradingTypeOK, StoreTypeOK
<1> USE DEF LeakedPatchNeverRuns, ResolvedWasVerified, ManifestCurrent, Phases
<1>1. CASE RejectPatch
  <2> DEFINE class == IF leak THEN "candidate_runtime_failure" ELSE "candidate_patch_failure"
             m == [meta EXCEPT !.status = "patch_failed", !.provenance = TRUE,
                               !.class = class, !.failed = TRUE]
  <2>1. /\ m \in MetaType
        /\ m.status \in TerminalStatuses /\ m.provenance /\ ~m.resolved
    BY <1>1, <1>s, ZenonT(60)
    DEF RejectPatch, MetaType, Statuses, TerminalStatuses, FailureClasses, CandidateOwned
  <2>2. WriteMeta(m, leak)
    BY <1>1 DEF RejectPatch
  <2> HIDE DEF m
  <2>3. manifest' = meta' /\ stale' = {} /\ ~meta'.resolved
    BY <1>s, <2>1, <2>2, TerminalWriteIsCurrent, SealedFrame
  <2>4. grade'.fault = "none"
    BY <1>1 DEF RejectPatch, NoGrade
  <2> QED
    BY <1>1, <1>t, <2>3, <2>4 DEF RejectPatch
<1>2. CASE AcceptPatch
  BY <1>2, <1>t DEF AcceptPatch, storeVars, NoGrade
<1>3. CASE GradeRaises
  BY <1>3, <1>t DEF GradeRaises, storeVars
<1>4. CASE BeginGrading
  <2> DEFINE m == [meta EXCEPT !.status = "grading", !.provenance = TRUE]
  <2>1. m \in MetaType /\ ~m.resolved /\ m.provenance
    BY <1>4, <1>s DEF BeginGrading, MetaType, Statuses
  <2>2. meta' = m
    BY <1>4, <1>s, <2>1, SealedFrame DEF BeginGrading, WriteMeta
  <2> HIDE DEF m
  <2> QED
    BY <1>4, <1>t, <2>1, <2>2 DEF BeginGrading
<1>5. CASE RenderAndBuild
  BY <1>5, <1>t DEF RenderAndBuild, storeVars
<1>6. CASE BootVendors
  BY <1>6, <1>t DEF BootVendors, storeVars
<1>7. ASSUME NEW b \in BOOLEAN, RunVerifier(b)
      PROVE  GradingInv'
  <2>1. /\ grade'.fault = grade.fault /\ grade'.class = grade.class
        /\ grade'.solved = grade.solved
    BY <1>7, <1>s DEF RunVerifier, GradeType
  <2> QED
    BY <1>7, <1>t, <2>1 DEF RunVerifier, storeVars
<1>8. ASSUME NEW p \in Phases, NEW f \in Faults, PhaseFails(p, f)
      PROVE  GradingInv'
  <2>1. /\ grade'.fault = f /\ ~grade'.solved
        /\ grade'.class = FailureClassForException(p, f)
    BY <1>8 DEF PhaseFails, NoGrade
  <2>2. f = "infrastructure_marker" => grade'.class \in BenchmarkOwned
    BY <1>8, <2>1
    DEF PhaseFails, FaultsOf, FailureClassForException, BenchmarkOwned
  <2> QED
    BY <1>8, <1>t, <2>1, <2>2 DEF PhaseFails, storeVars
<1>9. ASSUME NEW found \in BOOLEAN, NEW ok \in BOOLEAN, GradeFinally(found, ok)
      PROVE  GradingInv'
  BY <1>9, <1>t DEF GradeFinally
<1>10. ASSUME NEW goldOk \in BOOLEAN, NEW found \in BOOLEAN, NEW s \in Scores,
              PublishGrade(goldOk, s, found)
       PROVE  GradingInv'
  <2> DEFINE g == Scored(goldOk, s)
             m == [meta EXCEPT !.status = IF g.failed \/ ~goldOk THEN "error" ELSE "done",
                               !.resolved = g.solved, !.score = g.score,
                               !.class = g.class, !.failed = g.failed \/ ~goldOk]
  <2>a. ~grade.solved
    BY <1>10 DEF PublishGrade
  <2>b. g \in GradeType
    BY <1>s, ScoredType
  <2>c. g.solved => ~g.failed /\ g.passed /\ g.score # NoScore
    BY <1>s, <2>a, ScoresAssumption DEF Scored, SolvedVerdict, GradeType
  <2>d. g.fault = "infrastructure_marker" => g.class \in BenchmarkOwned
    BY <1>s DEF Scored, GradeType, BenchmarkOwned
  <2>1. /\ g \in GradeType
        /\ g.solved => ~g.failed /\ g.passed /\ g.score # NoScore
        /\ g.fault = "infrastructure_marker" => g.class \in BenchmarkOwned
    BY <2>b, <2>c, <2>d
  <2> HIDE DEF g
  <2>2. /\ m \in MetaType /\ m.status \in TerminalStatuses
        /\ m.provenance /\ m.resolved = g.solved
    <3> DEFINE st == IF g.failed \/ ~goldOk THEN "error" ELSE "done"
               bad == g.failed \/ ~goldOk
    <3>1. st \in TerminalStatuses /\ st \in Statuses
      BY DEF TerminalStatuses, Statuses
    <3>2. /\ g.solved \in BOOLEAN /\ bad \in BOOLEAN
          /\ g.score \in Scores \union {NoScore} /\ g.class \in FailureClasses
      BY <2>1 DEF GradeType
    <3>3. meta \in MetaType /\ meta.provenance
      BY <1>10, <1>s DEF PublishGrade
    <3>4. m = [meta EXCEPT !.status = st, !.resolved = g.solved, !.score = g.score,
                           !.class = g.class, !.failed = bad]
      OBVIOUS
    <3> HIDE DEF st, bad, m
    <3> QED
      BY <3>1, <3>2, <3>3, <3>4 DEF MetaType
  <2>3. grade' = g /\ WriteMeta(m, leak \/ found)
    BY <1>10 DEF PublishGrade, g
  <2> HIDE DEF m
  <2>4. manifest' = meta' /\ stale' = {} /\ (meta'.resolved => g.solved)
    BY <1>s, <2>2, <2>3, TerminalWriteIsCurrent, SealedFrame
  <2> QED
    BY <1>10, <1>t, <2>1, <2>3, <2>4 DEF PublishGrade
<1> QED
  BY <1>1, <1>2, <1>3, <1>4, <1>5, <1>6, <1>7, <1>8, <1>9, <1>10 DEF GradeStep

\* The invariant holds of every reachable state of a standalone grade.
THEOREM GradingInvariant == GradingSpec => []GradingInv
<1>1. GradingInit => GradingInv
  <2> SUFFICES ASSUME GradingInit PROVE GradingInv
    OBVIOUS
  <2>1. GradingTypeOK
    BY CreatedMetaType, NoGradeType
    DEF GradingInit, StoreInit, GradeInit, GradingTypeOK, StoreTypeOK, GradeSteps
  <2> QED
    BY <2>1
    DEF GradingInit, StoreInit, GradeInit, GradingInv, CreatedMeta, NoGrade, Phases,
        LeakedPatchNeverRuns, ResolvedWasVerified, ManifestCurrent
<1>2. GradingInv /\ [GradingNext]_gvars => GradingInv'
  <2> SUFFICES ASSUME GradingInv, [GradingNext]_gvars
               PROVE  GradingInv'
    OBVIOUS
  <2>t. GradingTypeOK /\ StoreTypeOK
    BY DEF GradingInv, GradingTypeOK
  <2>1. ASSUME NEW found \in BOOLEAN, SubmitPatch(found)
        PROVE  GradingInv'
    <3>1. leak' \in BOOLEAN /\ stale' \subseteq Artifacts
      BY <2>1, <2>t, RetainType DEF SubmitPatch, Artifacts
    <3> QED
      BY <2>1, <3>1
      DEF SubmitPatch, GradingInv, GradingTypeOK, StoreTypeOK, GradeSteps, Phases,
          LeakedPatchNeverRuns, ResolvedWasVerified, ManifestCurrent
  <2>2. CASE GradeStep
    BY <2>2, GradeStepInv
  <2>3. CASE VendorActivity
    <3>1. GradingTypeOK'
      BY <2>3, <2>t, VendorActivityType
    <3> QED
      BY <2>3, <3>1
      DEF VendorActivity, gradeVars, GradingInv, Phases,
          LeakedPatchNeverRuns, ResolvedWasVerified, ManifestCurrent
  <2>4. CASE UNCHANGED gvars
    BY <2>4
    DEF gvars, storeVars, gradeVars, GradingInv, GradingTypeOK, StoreTypeOK,
        LeakedPatchNeverRuns, ResolvedWasVerified, ManifestCurrent
  <2> QED
    BY <2>1, <2>2, <2>3, <2>4 DEF GradingNext
<1> QED
  BY <1>1, <1>2, PTL DEF GradingSpec

\* grading_core.py:195: no patch with a known leak is ever built or run.
THEOREM LeakedPatchIsNeverRun == GradingSpec => []LeakedPatchNeverRuns
  BY GradingInvariant, PTL DEF GradingInv

\* A resolved verdict was verified to the end without an error and scored.
THEOREM ResolvedIsVerified == GradingSpec => []ResolvedWasVerified
  BY GradingInvariant, PTL DEF GradingInv

\* A registry or daemon failure is never charged to the candidate.
THEOREM InfrastructureIsOwned == GradingSpec => []InfrastructureKeepsOwner
<1>1. GradingInv => InfrastructureKeepsOwner
  BY DEF GradingInv, InfrastructureKeepsOwner
<1> QED
  BY <1>1, GradingInvariant, PTL

\* The manifest grade_once leaves behind is that of the metadata on disk.
THEOREM ManifestIsCurrent == GradingSpec => []ManifestCurrent
  BY GradingInvariant, PTL DEF GradingInv

\* All that grade_once promises, for every set of scores.
THEOREM GradingIsCorrect == GradingSpec => []GradingCorrect
  BY LeakedPatchIsNeverRun, ResolvedIsVerified, InfrastructureIsOwned, ManifestIsCurrent, PTL
  DEF GradingCorrect

===============================================================================
