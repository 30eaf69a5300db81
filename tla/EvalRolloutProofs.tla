--------------------------- MODULE EvalRolloutProofs ---------------------------
(***************************************************************************)
(* Theorems about an evaluation attempt (module EvalRollout), for every    *)
(* set of scores, every set of lanes and every turn cap.                   *)
(***************************************************************************)
EXTENDS EvalRollout, GradingProofs

(***************************************************************************)
(* The inductive invariant, in parts.                                      *)
(***************************************************************************)

\* The grade, or the whole attempt, has written its outcome.
AtOutcome == pc = "returned" \/ (pc = "grading" /\ gstep = "returned")

\* A lane only takes its own steps, has no reason to stop before it does, and only
\* learns what they can tell it; the grader starts when the attempt reaches it, and
\* before that the repository is the one the agent was given.
Placement ==
  /\ lane = "direct" => pc # "exec" /\ ~run.limit /\ ~run.fault
  /\ lane # "direct" => pc \notin {"turn", "chat", "tool"} /\ run.stop # "provider_error"
  /\ pc \in AgentSteps \union {"prepare", "up"} => run.stop = NoStop /\ ~run.raising
  /\ pc = "grading" => ~Withheld /\ gstep \notin {"idle", "submit"}
  /\ pc \notin {"grading", "returned", "aborted"} => gstep = "idle"
  /\ gstep = "idle" /\ pc \notin {"prepare", "aborted"} => tree = "agent"

\* Nothing is terminal, credited or in a manifest before there is an outcome.
Record ==
  /\ meta.status \in TerminalStatuses \/ ManifestWritten => AtOutcome
  /\ ~AtOutcome => meta.score = NoScore /\ ~meta.resolved
  /\ pc # "returned" => meta.reward = NoScore
  /\ pc \notin {"prepare", "aborted"} => meta.provenance

\* The grade's own record agrees with the grade it returns.
Graded ==
  pc = "grading" /\ gstep = "returned" =>
    /\ meta.status \in TerminalStatuses
    /\ meta.score = grade.score
    /\ meta.resolved <=> grade.solved /\ ~leak

\* After a teardown that worked, nothing of the agent's stack is left, until the
\* grade boots vendors of its own.
Isolation ==
  ~keep /\ ~downFailed /\ pc \in {"return", "extract", "decide", "grading"} =>
    /\ ~busy /\ ~agentBox
    /\ tree # "tampered"
    /\ gstep \in {"idle", "patch", "ready", "compose_render", "candidate_build",
                  "benchmark_startup"} => vendors = "down"
    /\ gstep = "verifier" => vendors = "fresh"

\* After the workspace is returned, at most the agent home is left.
Credentials ==
  ~keep /\ pc \in {"extract", "decide", "grading", "returned"} => home \subseteq {"agent-home"}

\* The parts above are what makes the settled outcome safe.
Settled ==
  /\ LeakNeverCredited
  /\ ResultIsOnDisk
  /\ ProviderFailureUnpaid
  /\ SettledManifestCurrent

RolloutInv ==
  /\ TypeOK
  /\ Placement
  /\ Record
  /\ Graded
  /\ Isolation
  /\ Credentials
  /\ Settled

-------------------------------------------------------------------------------
(***************************************************************************)
(* Type correctness.                                                       *)
(***************************************************************************)

\* What the agent phase changes in the store, besides variables of its own.
LEMMA AgentFrameType ==
  ASSUME TypeOK, AgentFrame, leak' \in BOOLEAN, stale' \subseteq Artifacts
  PROVE  /\ GradingTypeOK'
         /\ lane' \in CliLanes \union {"direct"}
         /\ agentBox' \in BOOLEAN
         /\ home' \subseteq CredentialDirs
         /\ result' \in ResultType
  BY DEF TypeOK, AgentFrame, GradingTypeOK, StoreTypeOK

\* What a CLI lane concludes from the end of its agent is well formed, and never
\* that its provider failed.
LEMMA ObservedType ==
  ASSUME run \in RunType, NEW how \in Endings
  PROVE  /\ Observed(how) \in RunType
         /\ Observed(how).limit = run.limit
         /\ Observed(how).fault = run.fault
         /\ Observed(how).stop # "provider_error"
<1> DEFINE timedOut == how \in {"term", "backstop"}
           stop == CASE how = "disk" -> "resource_limit"
                     [] how \in {"term", "backstop"} -> "wall_clock"
                     [] OTHER -> "done"
           failed == how # "exit"
           raising == how = "raise"
<1>1. ExitCode(how) \in {"none", "zero", "nonzero"}
  BY DEF ExitCode
<1>2. /\ timedOut \in BOOLEAN /\ failed \in BOOLEAN /\ raising \in BOOLEAN
      /\ stop \in {"resource_limit", "wall_clock", "done"}
  OBVIOUS
<1>3. Observed(how) = [run EXCEPT !.code = ExitCode(how), !.timedOut = timedOut,
                                  !.stop = stop, !.failed = failed, !.raising = raising]
  BY DEF Observed
<1> HIDE DEF timedOut, stop, failed, raising
<1> QED
  BY <1>1, <1>2, <1>3 DEF RunType, StopReasons

\* Steps of the agent, and of what happens to it, keep the state well formed.
LEMMA AgentType ==
  ASSUME TypeOK, Agent \/ BudgetExpires \/ AgentLeaks \/ NoteLimit \/ NoteProviderFailure
  PROVE  TypeOK'
<1> USE DEF Goto, Steps, AgentSteps
<1>t. /\ StoreTypeOK /\ leak \in BOOLEAN /\ stale \subseteq Artifacts
      /\ pc \in Steps /\ turn \in 0..MaxTurns /\ expired \in BOOLEAN
      /\ run \in RunType /\ cut \in {"none", "budget", "quota", "provider"}
      /\ busy \in BOOLEAN
  BY DEF TypeOK, GradingTypeOK, StoreTypeOK
<1>1. CASE TurnStart
  <2>1. run' \in RunType
    <3> DEFINE stop == IF turn = MaxTurns THEN "turn_cap" ELSE "wall_clock"
    <3>1. stop \in StopReasons
      BY DEF StopReasons
    <3>2. run' = run \/ run' = [run EXCEPT !.stop = stop, !.timedOut = TRUE]
      BY <1>1 DEF TurnStart
    <3> HIDE DEF stop
    <3> QED
      BY <1>t, <3>1, <3>2 DEF RunType
  <2>2. turn' \in 0..MaxTurns
    BY <1>1, <1>t, RolloutAssumption DEF TurnStart
  <2> QED
    BY <1>1, <1>t, <2>1, <2>2, AgentFrameType DEF TurnStart, TypeOK
<1>2. CASE ChatReplies
  BY <1>2, <1>t, AgentFrameType DEF ChatReplies, TypeOK
<1>3. CASE ChatFails
  <2>1. run' \in RunType
    BY <1>3, <1>t DEF ChatFails, RunType, StopReasons
  <2> QED
    BY <1>3, <1>t, <2>1, AgentFrameType DEF ChatFails, TypeOK
<1>4. CASE ToolReturns
  BY <1>4, <1>t, AgentFrameType DEF ToolReturns, TypeOK
<1>5. ASSUME NEW how \in {"done", "resource", "raise"}, ToolEnds(how)
      PROVE  TypeOK'
  <2>1. run' \in RunType
    BY <1>5, <1>t DEF ToolEnds, RunType, StopReasons
  <2> QED
    BY <1>5, <1>t, <2>1, AgentFrameType DEF ToolEnds, TypeOK
<1>6. ASSUME NEW how \in Endings, ExecEnds(how)
      PROVE  TypeOK'
  <2>1. run' \in RunType
    BY <1>6, <1>t, ObservedType DEF ExecEnds
  <2> QED
    BY <1>6, <1>t, <2>1, AgentFrameType DEF ExecEnds, TypeOK
<1>7. CASE BudgetExpires
  BY <1>7, <1>t, AgentFrameType DEF BudgetExpires, TypeOK
<1>8. CASE AgentLeaks
  <2>1. leak' \in BOOLEAN /\ stale' \subseteq Artifacts
    BY <1>8, <1>t, RetainType DEF AgentLeaks, Artifacts
  <2> QED
    BY <1>8, <1>t, <2>1, AgentFrameType DEF AgentLeaks, TypeOK
<1>9. CASE NoteLimit
  <2>1. run' \in RunType
    BY <1>9, <1>t DEF NoteLimit, RunType
  <2> QED
    BY <1>9, <1>t, <2>1, AgentFrameType DEF NoteLimit, TypeOK
<1>10. CASE NoteProviderFailure
  <2>1. run' \in RunType
    BY <1>10, <1>t DEF NoteProviderFailure, NotesFaults, RunType
  <2> QED
    BY <1>10, <1>t, <2>1, AgentFrameType DEF NoteProviderFailure, TypeOK
<1> QED
  BY <1>1, <1>2, <1>3, <1>4, <1>5, <1>6, <1>7, <1>8, <1>9, <1>10 DEF Agent

\* So do the finally block and the settling of the attempt.
LEMMA FinallyType ==
  ASSUME TypeOK, Finally
  PROVE  TypeOK'
<1> USE DEF Goto, Steps, AgentSteps
<1>t. StoreTypeOK /\ leak \in BOOLEAN /\ vendors \in {"down", "fresh", "used"}
  BY DEF TypeOK, GradingTypeOK, StoreTypeOK
<1>1. ASSUME NEW found \in BOOLEAN, CollectVendorLog(found)
      PROVE  TypeOK'
  <2>1. leak' \in BOOLEAN /\ stale' \subseteq Artifacts
    BY <1>1, <1>t, RetainType DEF CollectVendorLog, Artifacts
  <2> QED
    BY <1>1, <2>1 DEF CollectVendorLog, gradeVars, TypeOK, GradingTypeOK, StoreTypeOK
<1>2. ASSUME NEW ok \in BOOLEAN, TearDown(ok)
      PROVE  TypeOK'
  <2>1. vendors' \in {"down", "fresh", "used"} /\ downFailed' \in BOOLEAN
    BY <1>2, <1>t DEF TearDown, Down, TypeOK, GradingTypeOK
  <2>2. agentBox' \in BOOLEAN /\ busy' \in BOOLEAN
    BY <1>2 DEF TearDown, TypeOK
  <2> QED
    BY <1>2, <2>1, <2>2 DEF TearDown, storeVars, TypeOK, GradingTypeOK, StoreTypeOK
<1>3. ASSUME NEW found \in BOOLEAN, ReturnWorkspace(found)
      PROVE  TypeOK'
  <2>1. leak' \in BOOLEAN /\ stale' \subseteq Artifacts
    BY <1>3, <1>t, RetainType DEF ReturnWorkspace, Artifacts
  <2>2. home' \subseteq CredentialDirs
    BY <1>3 DEF ReturnWorkspace, HomesAfterCleanup, TypeOK
  <2> QED
    BY <1>3, <2>1, <2>2
    DEF ReturnWorkspace, gradeVars, TypeOK, GradingTypeOK, StoreTypeOK
<1> QED
  BY <1>1, <1>2, <1>3 DEF Finally

\* The metadata of a withheld rollout.
WithheldMeta(stop) ==
  [meta EXCEPT !.status = stop, !.stop = stop, !.truncated = TRUE, !.resolved = FALSE,
               !.reward = NoScore, !.class = "provider_infrastructure_failure",
               !.failed = TRUE]

\* The outcome of a graded one, before a leak is looked at.
GradedOutcome ==
  [resolved |-> FinalResolved, reward |-> FinalReward, class |-> FinalClass,
   stop |-> run.stop]

\* And its metadata.
SettledMeta(r) ==
  [meta EXCEPT !.status = "done", !.stop = run.stop, !.truncated = Truncated,
               !.resolved = r.resolved, !.score = grade.score, !.reward = r.reward,
               !.class = r.class, !.failed = leak \/ run.failed \/ grade.failed]

\* The record of a withheld rollout is well formed and terminal.
LEMMA WithheldMetaType ==
  ASSUME meta \in MetaType, NEW stop \in {"usage_limit", "provider_error"}
  PROVE  /\ WithheldMeta(stop) \in MetaType
         /\ WithheldMeta(stop).status \in TerminalStatuses
         /\ WithheldMeta(stop).provenance = meta.provenance
         /\ WithheldMeta(stop).stop = stop
         /\ ~WithheldMeta(stop).resolved
         /\ WithheldMeta(stop).reward = NoScore
         /\ WithheldMeta(stop).score = meta.score
         /\ WithheldMeta(stop).class = "provider_infrastructure_failure"
  BY DEF WithheldMeta, MetaType, Statuses, TerminalStatuses, StopReasons,
         FailureClasses, ProviderOwned

\* A graded rollout always has a failure class.
LEMMA FinalClassType ==
  ASSUME grade \in GradeType, run \in RunType
  PROVE  FinalClass \in FailureClasses
  BY DEF FinalClass, RolloutFailureClass, GradeType, FailureClasses, CandidateOwned,
         ProviderOwned

\* A leak voids the outcome; nothing else touches it.
LEMMA OutcomeType ==
  ASSUME grade \in GradeType, run \in RunType, leak \in BOOLEAN
  PROVE  LET r == SecurityOutcome(GradedOutcome)
         IN  /\ r \in ResultType
             /\ r.class \in FailureClasses
             /\ r.stop = run.stop
             /\ leak => /\ ~r.resolved /\ r.reward = NoScore
                        /\ r.class = "candidate_runtime_failure"
             /\ ~leak => r = GradedOutcome
<1>1. FinalClass \in FailureClasses
  BY FinalClassType
<1>2. FinalResolved \in BOOLEAN /\ FinalReward \in Scores \union {NoScore}
  BY DEF FinalResolved, FinalReward, GradeType
<1>3. run.stop \in StopReasons \union {NoStop}
  BY DEF RunType
<1> QED
  BY <1>1, <1>2, <1>3
  DEF SecurityOutcome, GradedOutcome, ResultType, FailureClasses, CandidateOwned

\* The record of a settled rollout is well formed and terminal.
LEMMA SettledMetaType ==
  ASSUME TypeOK, NEW r \in ResultType, r.class \in FailureClasses
  PROVE  /\ SettledMeta(r) \in MetaType
         /\ SettledMeta(r).status \in TerminalStatuses
         /\ SettledMeta(r).provenance = meta.provenance
         /\ SettledMeta(r).stop = run.stop
         /\ SettledMeta(r).resolved = r.resolved
         /\ SettledMeta(r).reward = r.reward
         /\ SettledMeta(r).score = grade.score
         /\ SettledMeta(r).class = r.class
<1> DEFINE failed == leak \/ run.failed \/ grade.failed
<1>1. failed \in BOOLEAN
  OBVIOUS
<1>2. Truncated \in BOOLEAN
  <2>1. run.timedOut \in BOOLEAN
    BY DEF TypeOK, RunType
  <2>2. (run.stop \in {"turn_cap", "wall_clock"}) \in BOOLEAN
    OBVIOUS
  <2> QED
    BY <2>1, <2>2, Zenon DEF Truncated
<1>3. grade.score \in Scores \union {NoScore} /\ run.stop \in StopReasons \union {NoStop}
  BY DEF TypeOK, GradingTypeOK, GradeType, RunType
<1>4. /\ r.resolved \in BOOLEAN /\ r.reward \in Scores \union {NoScore}
      /\ r.class \in FailureClasses
  BY DEF ResultType
<1>5. SettledMeta(r) =
        [meta EXCEPT !.status = "done", !.stop = run.stop, !.truncated = Truncated,
                     !.resolved = r.resolved, !.score = grade.score, !.reward = r.reward,
                     !.class = r.class, !.failed = failed]
  BY DEF SettledMeta
<1>6. meta \in MetaType
  BY DEF TypeOK, GradingTypeOK, StoreTypeOK
<1> HIDE DEF failed
<1>7. SettledMeta(r) \in MetaType
  <2>1. "done" \in Statuses /\ r.class \in FailureClasses \union {NoClass}
    BY <1>4 DEF Statuses, TerminalStatuses
  <2> QED
    BY <2>1, <1>1, <1>2, <1>3, <1>4, <1>5, <1>6 DEF MetaType
<1>8. /\ SettledMeta(r).status = "done"
      /\ SettledMeta(r).provenance = meta.provenance
      /\ SettledMeta(r).stop = run.stop
      /\ SettledMeta(r).resolved = r.resolved
      /\ SettledMeta(r).reward = r.reward
      /\ SettledMeta(r).score = grade.score
      /\ SettledMeta(r).class = r.class
  BY <1>5, <1>6 DEF MetaType
<1> QED
  BY <1>7, <1>8 DEF TerminalStatuses

\* The steps after the teardown keep the state well formed.
LEMMA SettlingType ==
  ASSUME TypeOK, Settling
  PROVE  TypeOK'
<1> USE DEF Goto, Steps, AgentSteps
<1>t. /\ StoreTypeOK /\ leak \in BOOLEAN /\ meta \in MetaType
      /\ grade \in GradeType /\ run \in RunType
  BY DEF TypeOK, GradingTypeOK, StoreTypeOK
<1>1. ASSUME NEW found \in BOOLEAN, ExtractDiff(found)
      PROVE  TypeOK'
  <2>1. leak' \in BOOLEAN /\ stale' \subseteq Artifacts
    BY <1>1, <1>t, RetainType DEF ExtractDiff, Artifacts
  <2> QED
    BY <1>1, <2>1 DEF ExtractDiff, gradeVars, TypeOK, GradingTypeOK, StoreTypeOK
<1>2. CASE ExtractRaises
  BY <1>2 DEF ExtractRaises, gvars, storeVars, gradeVars, TypeOK, GradingTypeOK, StoreTypeOK
<1>3. CASE Withhold
  <2> DEFINE stop == IF run.limit THEN "usage_limit" ELSE "provider_error"
  <2>1. WriteMeta(WithheldMeta(stop), leak)
    BY <1>3 DEF Withhold, WithheldMeta
  <2>2. stop \in {"usage_limit", "provider_error"}
    OBVIOUS
  <2>3. result' \in ResultType
    BY <1>3 DEF Withhold, ResultType, StopReasons, FailureClasses, ProviderOwned
  <2> HIDE DEF stop
  <2>4. meta' \in MetaType /\ manifest' \in MetaType /\ stale' \subseteq Artifacts
    BY <1>t, <2>1, <2>2, WithheldMetaType, WriteMetaType
  <2> QED
    BY <1>3, <2>3, <2>4 DEF Withhold, gradeVars, TypeOK, GradingTypeOK, StoreTypeOK
<1>4. CASE StartGrade
  BY <1>4 DEF StartGrade, storeVars, TypeOK, GradingTypeOK, StoreTypeOK, GradeSteps
<1>5. CASE Grade
  <2>1. GradingTypeOK'
    BY <1>5, GradeStepType DEF Grade, TypeOK
  <2> QED
    BY <1>5, <2>1 DEF Grade, rolloutVars, TypeOK
<1>6. CASE GradeRaised
  BY <1>6 DEF GradeRaised, gvars, storeVars, gradeVars, TypeOK, GradingTypeOK, StoreTypeOK
<1>7. CASE Settle
  <2> DEFINE r == SecurityOutcome(GradedOutcome)
  <2>1. result' = r /\ WriteMeta(SettledMeta(r), leak)
    BY <1>7 DEF Settle, GradedOutcome, SettledMeta
  <2>2. r \in ResultType /\ r.class \in FailureClasses
    BY <1>t, OutcomeType
  <2> HIDE DEF r
  <2>3. meta' \in MetaType /\ manifest' \in MetaType /\ stale' \subseteq Artifacts
    BY <1>t, <2>1, <2>2, SettledMetaType, WriteMetaType
  <2> QED
    BY <1>7, <2>1, <2>2, <2>3 DEF Settle, gradeVars, TypeOK, GradingTypeOK, StoreTypeOK
<1> QED
  BY <1>1, <1>2, <1>3, <1>4, <1>5, <1>6, <1>7 DEF Settling

\* And the setup, and what goes on beside the harness.
LEMMA SetupType ==
  ASSUME TypeOK, Prepare \/ StackUp \/ SetupRaises \/ ParticipantWrites \/ VendorsLog
  PROVE  TypeOK'
<1> USE DEF Goto, Steps, AgentSteps
<1>t. StoreTypeOK /\ leak \in BOOLEAN /\ meta \in MetaType /\ lane \in CliLanes \union {"direct"}
  BY DEF TypeOK, GradingTypeOK, StoreTypeOK
<1>h. CredentialsOf(lane) \subseteq CredentialDirs
  BY DEF CredentialsOf, CredentialDirs
<1>1. CASE Prepare
  <2> DEFINE m == [meta EXCEPT !.status = "running", !.provenance = TRUE]
  <2>1. m \in MetaType /\ WriteMeta(m, leak)
    BY <1>1, <1>t DEF Prepare, MetaType, Statuses
  <2> HIDE DEF m
  <2>2. meta' \in MetaType /\ manifest' \in MetaType /\ stale' \subseteq Artifacts
    BY <1>t, <2>1, WriteMetaType
  <2> QED
    BY <1>1, <2>2 DEF Prepare, TypeOK, GradingTypeOK, StoreTypeOK
<1>2. CASE StackUp
  <2>1. (lane # "direct") \in BOOLEAN
    OBVIOUS
  <2>2. busy' \in BOOLEAN /\ home' \subseteq CredentialDirs /\ pc' \in Steps
    BY <1>2, <1>h, <2>1 DEF StackUp
  <2> QED
    BY <1>2, <2>2 DEF StackUp, storeVars, TypeOK, GradingTypeOK, StoreTypeOK
<1>3. CASE SetupRaises
  <2>1. /\ vendors' \in {"down", "fresh", "used"} /\ agentBox' \in BOOLEAN
        /\ home' \subseteq CredentialDirs
    BY <1>3, <1>h DEF SetupRaises, TypeOK, GradingTypeOK
  <2> QED
    BY <1>3, <2>1 DEF SetupRaises, storeVars, TypeOK, GradingTypeOK, StoreTypeOK
<1>4. CASE ParticipantWrites
  BY <1>4
  DEF ParticipantWrites, storeVars, rolloutVars, TypeOK, GradingTypeOK, StoreTypeOK
<1>5. CASE VendorsLog
  <2>1. GradingTypeOK'
    BY <1>5, VendorActivityType DEF VendorsLog, TypeOK
  <2> QED
    BY <1>5, <2>1 DEF VendorsLog, rolloutVars, TypeOK
<1> QED
  BY <1>1, <1>2, <1>3, <1>4, <1>5

\* An attempt starts well formed.
LEMMA InitType ==
  ASSUME Init
  PROVE  TypeOK
<1>1. GradingTypeOK
  BY CreatedMetaType, NoGradeType
  DEF Init, StoreInit, GradeInit, GradingTypeOK, StoreTypeOK, GradeSteps
<1>2. run \in RunType /\ result \in ResultType
  BY DEF Init, NotRun, NoResult, RunType, ResultType
<1>3. turn \in 0..MaxTurns
  BY RolloutAssumption DEF Init
<1> QED
  BY <1>1, <1>2, <1>3, RolloutAssumption DEF Init, TypeOK, Steps, CredentialDirs

\* Every step of an attempt keeps its state well formed.
LEMMA NextType ==
  ASSUME TypeOK, [Next]_vars
  PROVE  TypeOK'
<1>1. CASE UNCHANGED vars
  BY <1>1
  DEF vars, gvars, storeVars, gradeVars, rolloutVars, TypeOK, GradingTypeOK, StoreTypeOK
<1>2. CASE Next
  BY <1>2, AgentType, FinallyType, SettlingType, SetupType DEF Next, Harness, Environment
<1> QED
  BY <1>1, <1>2

\* Type correctness of an evaluation attempt, in every lane.
THEOREM TypeCorrect == Spec => []TypeOK
<1>1. Init => TypeOK
  BY InitType
<1>2. TypeOK /\ [Next]_vars => TypeOK'
  BY NextType
<1> QED
  BY <1>1, <1>2, PTL DEF Spec

-------------------------------------------------------------------------------
(***************************************************************************)
(* The invariant is inductive.                                             *)
(***************************************************************************)

\* Where an attempt that has been set up works on its outcome.
OpenSteps == {"up", "turn", "chat", "tool", "exec", "collect", "down", "return", "extract",
              "decide"}

\* A step that writes no metadata before there is an outcome settles nothing.
LEMMA OpenStep ==
  ASSUME RolloutInv, pc \in OpenSteps, UNCHANGED <<meta, manifest>>,
         pc' \in OpenSteps \union {"aborted"}
  PROVE  Record' /\ Graded' /\ Settled'
<1> USE DEF OpenSteps, AtOutcome, ManifestWritten
<1>1. /\ meta.status \notin TerminalStatuses /\ ~ManifestWritten
      /\ meta.score = NoScore /\ ~meta.resolved /\ meta.reward = NoScore /\ meta.provenance
  BY DEF RolloutInv, Record
<1>2. Record'
  BY <1>1 DEF Record
<1>3. Graded'
  BY DEF Graded
<1>4. Settled'
  BY <1>1
  DEF Settled, LeakNeverCredited, ResultIsOnDisk, ProviderFailureUnpaid,
      SettledManifestCurrent
<1> QED
  BY <1>2, <1>3, <1>4

\* The agent's steps record nothing and start no grade, so they keep the invariant.
LEMMA AgentInv ==
  ASSUME RolloutInv,
         Agent \/ BudgetExpires \/ AgentLeaks \/ NoteLimit \/ NoteProviderFailure
  PROVE  RolloutInv'
<1> USE DEF Goto, AgentSteps, OpenSteps
<1>t. TypeOK /\ TypeOK' /\ run \in RunType
  BY AgentType DEF RolloutInv, TypeOK
<1>p. /\ Placement /\ Isolation /\ Credentials
  BY DEF RolloutInv
\* The agent phase stays in the agent phase or collects what it left behind.
<1> DEFINE Phase == pc \in AgentSteps /\ pc' \in AgentSteps \union {"collect"} /\ AgentFrame
           \* What the run learns fits its lane.
           Learns == /\ lane = "direct" => ~run'.limit /\ ~run'.fault /\ pc' # "exec"
                     /\ lane # "direct" => /\ run'.stop # "provider_error"
                                           /\ pc' \notin {"turn", "chat", "tool"}
                     /\ pc' \in AgentSteps => run'.stop = NoStop /\ ~run'.raising
<1>q. ASSUME Phase, Learns PROVE RolloutInv'
  <2>1. Record' /\ Graded' /\ Settled'
    BY <1>q, OpenStep DEF AgentFrame
  <2>2. Placement'
    BY <1>q, <1>p DEF Placement, AgentFrame
  <2>3. Isolation' /\ Credentials'
    BY <1>q DEF Isolation, Credentials
  <2> QED
    BY <1>t, <2>1, <2>2, <2>3 DEF RolloutInv
<1>1. CASE TurnStart
  <2>1. run'.limit = run.limit /\ run'.fault = run.fault
    BY <1>1, <1>t DEF TurnStart, RunType
  <2>2. Learns
    BY <1>1, <1>p, <2>1 DEF TurnStart, Placement
  <2> QED
    BY <1>1, <1>q, <2>2 DEF TurnStart
<1>2. CASE ChatReplies
  BY <1>2, <1>p, <1>q DEF ChatReplies, Placement
<1>3. CASE ChatFails
  <2>1. run'.limit = run.limit /\ run'.fault = run.fault
    BY <1>3, <1>t DEF ChatFails, RunType
  <2> QED
    BY <1>3, <1>p, <1>q, <2>1 DEF ChatFails, Placement
<1>4. CASE ToolReturns
  BY <1>4, <1>p, <1>q DEF ToolReturns, Placement
<1>5. ASSUME NEW how \in {"done", "resource", "raise"}, ToolEnds(how)
      PROVE  RolloutInv'
  <2>1. run'.limit = run.limit /\ run'.fault = run.fault
    BY <1>5, <1>t DEF ToolEnds, RunType
  <2> QED
    BY <1>5, <1>p, <1>q, <2>1 DEF ToolEnds, Placement
<1>6. ASSUME NEW how \in Endings, ExecEnds(how)
      PROVE  RolloutInv'
  <2>1. run'.stop # "provider_error"
    BY <1>6, <1>t, ObservedType DEF ExecEnds
  <2> QED
    BY <1>6, <1>p, <1>q, <2>1 DEF ExecEnds, Placement
<1>7. CASE BudgetExpires
  BY <1>7, <1>p, <1>q DEF BudgetExpires, Placement
<1>8. CASE AgentLeaks
  BY <1>8, <1>p, <1>q DEF AgentLeaks, Placement
<1>9. CASE NoteLimit
  <2>1. run'.stop = run.stop
    BY <1>9, <1>t DEF NoteLimit, RunType
  <2> QED
    BY <1>9, <1>p, <1>q, <2>1 DEF NoteLimit, Placement
<1>10. CASE NoteProviderFailure
  <2>1. run'.stop = run.stop
    BY <1>10, <1>t DEF NoteProviderFailure, RunType
  <2> QED
    BY <1>10, <1>p, <1>q, <2>1 DEF NoteProviderFailure, Placement
<1> QED
  BY <1>1, <1>2, <1>3, <1>4, <1>5, <1>6, <1>7, <1>8, <1>9, <1>10 DEF Agent

\* The finally block keeps the invariant: it is where the isolation is established.
LEMMA FinallyInv ==
  ASSUME RolloutInv, Finally
  PROVE  RolloutInv'
<1> USE DEF Goto, AgentSteps, OpenSteps
<1>t. TypeOK /\ TypeOK'
  BY FinallyType DEF RolloutInv
<1>p. /\ Placement /\ Isolation /\ Credentials
  BY DEF RolloutInv
<1>1. ASSUME NEW found \in BOOLEAN, CollectVendorLog(found)
      PROVE  RolloutInv'
  <2>1. Record' /\ Graded' /\ Settled'
    BY <1>1, OpenStep DEF CollectVendorLog
  <2>2. Placement' /\ Isolation' /\ Credentials'
    BY <1>1, <1>p DEF CollectVendorLog, gradeVars, Placement, Isolation, Credentials
  <2> QED
    BY <1>t, <2>1, <2>2 DEF RolloutInv
<1>2. ASSUME NEW ok \in BOOLEAN, TearDown(ok)
      PROVE  RolloutInv'
  <2>1. Record' /\ Graded' /\ Settled'
    BY <1>2, OpenStep DEF TearDown, storeVars
  <2>2. Placement' /\ Credentials'
    BY <1>2, <1>p DEF TearDown, Placement, Credentials
  <2>3. gstep = "idle" /\ tree = "agent"
    BY <1>2, <1>p DEF TearDown, Placement
  <2>4. ~keep' /\ ~downFailed' => ~busy' /\ ~agentBox' /\ vendors' = "down"
    BY <1>2 DEF TearDown, Down
  <2>5. Isolation'
    BY <1>2, <2>3, <2>4 DEF TearDown, Isolation
  <2> QED
    BY <1>t, <2>1, <2>2, <2>5 DEF RolloutInv
<1>3. ASSUME NEW found \in BOOLEAN, ReturnWorkspace(found)
      PROVE  RolloutInv'
  <2>1. Record' /\ Graded' /\ Settled'
    BY <1>3, OpenStep DEF ReturnWorkspace
  <2>2. Placement' /\ Isolation'
    BY <1>3, <1>p DEF ReturnWorkspace, gradeVars, Placement, Isolation
  <2>3. ~keep' => home' \subseteq {"agent-home"}
    BY <1>3, <1>t DEF ReturnWorkspace, gradeVars, HomesAfterCleanup, TypeOK, CredentialDirs
  <2> QED
    BY <1>t, <2>1, <2>2, <2>3 DEF RolloutInv, Credentials
<1> QED
  BY <1>1, <1>2, <1>3 DEF Finally

\* Setting up, a participant's late write and the vendors' logging.
LEMMA SetupInv ==
  ASSUME RolloutInv, Prepare \/ StackUp \/ SetupRaises \/ ParticipantWrites \/ VendorsLog
  PROVE  RolloutInv'
<1> USE DEF Goto, AgentSteps
<1>t. TypeOK /\ TypeOK' /\ meta \in MetaType /\ leak \in BOOLEAN
  BY SetupType DEF RolloutInv, TypeOK, GradingTypeOK, StoreTypeOK
<1>p. Placement /\ Record /\ Graded /\ Isolation /\ Credentials /\ Settled
  BY DEF RolloutInv
<1>1. CASE Prepare
  <2> DEFINE m == [meta EXCEPT !.status = "running", !.provenance = TRUE]
  <2>1. WriteMeta(m, leak)
    BY <1>1 DEF Prepare
  <2>2. /\ m \in MetaType /\ m.status = "running" /\ m.provenance
        /\ m.score = meta.score /\ m.resolved = meta.resolved /\ m.reward = meta.reward
    BY <1>t DEF MetaType, Statuses
  <2> HIDE DEF m
  <2>3. /\ meta'.status = "running" /\ meta'.provenance
        /\ meta'.score = NoScore /\ ~meta'.resolved /\ meta'.reward = NoScore
        /\ manifest' = manifest
    <3>1. meta.score = NoScore /\ ~meta.resolved /\ meta.reward = NoScore
      BY <1>1, <1>p DEF Prepare, Record, AtOutcome
    <3>2. meta' = Sealed(m, leak) /\ Sealed(m, leak).status = "running"
      BY <1>t, <2>1, <2>2, SealedFrame DEF WriteMeta
    <3>3. manifest' = manifest
      BY <2>1, <3>2 DEF WriteMeta, Finalize, TerminalStatuses
    <3> QED
      BY <1>t, <2>2, <3>1, <3>2, <3>3, SealedFrame
  <2>4. Record'
    BY <1>1, <1>p, <2>3
    DEF Prepare, Record, AtOutcome, ManifestWritten, TerminalStatuses
  <2>5. Graded' /\ Settled'
    BY <1>1, <2>3
    DEF Prepare, Graded, Settled, LeakNeverCredited, ResultIsOnDisk, ProviderFailureUnpaid,
        SettledManifestCurrent, TerminalStatuses
  <2>6. Placement' /\ Isolation' /\ Credentials'
    BY <1>1, <1>p DEF Prepare, Placement, Isolation, Credentials
  <2> QED
    BY <1>t, <2>4, <2>5, <2>6 DEF RolloutInv
<1>2. CASE StackUp
  <2>1. Record' /\ Graded' /\ Settled'
    BY <1>2, OpenStep DEF StackUp, storeVars, OpenSteps
  <2>2. Placement' /\ Isolation' /\ Credentials'
    BY <1>2, <1>p DEF StackUp, Placement, Isolation, Credentials
  <2> QED
    BY <1>t, <2>1, <2>2 DEF RolloutInv
<1>3. CASE SetupRaises
  <2>1. Record' /\ Graded' /\ Settled'
    BY <1>3, <1>p
    DEF SetupRaises, storeVars, Record, AtOutcome, ManifestWritten, Graded, Settled,
        LeakNeverCredited, ResultIsOnDisk, ProviderFailureUnpaid, SettledManifestCurrent
  <2>2. Placement' /\ Isolation' /\ Credentials'
    BY <1>3, <1>p DEF SetupRaises, Placement, Isolation, Credentials
  <2> QED
    BY <1>t, <2>1, <2>2 DEF RolloutInv
<1>4. CASE ParticipantWrites
  <2>1. Record' /\ Graded'
    BY <1>4, <1>p
    DEF ParticipantWrites, storeVars, rolloutVars, Record, AtOutcome, ManifestWritten, Graded
  <2>2. Settled'
    BY <1>4, <1>p
    DEF ParticipantWrites, storeVars, rolloutVars, Settled, LeakNeverCredited,
        ResultIsOnDisk, Withheld, ProviderFailureUnpaid, SettledManifestCurrent
  <2>3. Placement' /\ Isolation' /\ Credentials'
    BY <1>4, <1>p
    DEF ParticipantWrites, storeVars, rolloutVars, Placement, Withheld, Isolation, Credentials
  <2> QED
    BY <1>t, <2>1, <2>2, <2>3 DEF RolloutInv
<1>5. CASE VendorsLog
  <2> USE DEF VendorsLog, VendorActivity, gradeVars, rolloutVars
  <2>1. Record' /\ Graded'
    BY <1>5, <1>p DEF Record, AtOutcome, ManifestWritten, Graded
  <2>2. Settled'
    BY <1>5, <1>p
    DEF Settled, LeakNeverCredited, ResultIsOnDisk, Withheld, ProviderFailureUnpaid,
        SettledManifestCurrent
  <2>3. Placement' /\ Isolation' /\ Credentials'
    BY <1>5, <1>p DEF Placement, Withheld, Isolation, Credentials
  <2> QED
    BY <1>t, <2>1, <2>2, <2>3 DEF RolloutInv
<1> QED
  BY <1>1, <1>2, <1>3, <1>4, <1>5

\* Every step of the grade inside the attempt.
LEMMA GradeInv ==
  ASSUME RolloutInv, Grade
  PROVE  RolloutInv'
<1>t. /\ TypeOK /\ TypeOK' /\ meta \in MetaType /\ leak \in BOOLEAN
      /\ grade \in GradeType /\ StoreTypeOK
  BY SettlingType DEF Settling, RolloutInv, TypeOK, GradingTypeOK, StoreTypeOK
<1>p. Placement /\ Record /\ Isolation /\ Credentials
  BY DEF RolloutInv
<1>g. /\ pc = "grading" /\ GradeStep
      /\ UNCHANGED <<lane, pc, turn, expired, run, cut, agentBox, busy, home, result>>
  BY DEF Grade, rolloutVars
<1>m. gstep # "returned" =>
        /\ meta.status \notin TerminalStatuses /\ ~ManifestWritten
        /\ meta.score = NoScore /\ ~meta.resolved /\ meta.reward = NoScore
        /\ meta.provenance
  BY <1>g, <1>p DEF Record, AtOutcome
\* Placement survives because a grade never goes back to its start.
<1>a. ASSUME gstep' \notin {"idle", "submit"} PROVE Placement'
  BY <1>a, <1>g, <1>p DEF Placement, Withheld
<1>c. Credentials'
  <2>1. keep' = keep
    BY <1>g
    DEF GradeStep, RejectPatch, AcceptPatch, GradeRaises, BeginGrading, RenderAndBuild,
        BootVendors, RunVerifier, PhaseFails, GradeFinally, PublishGrade, storeVars
  <2> QED
    BY <1>g, <1>p, <2>1 DEF Credentials
\* A step that does not end the grade writes no outcome.
<1>b. ASSUME gstep # "returned", gstep' # "returned", manifest' = manifest,
             meta'.status \notin TerminalStatuses, meta'.provenance,
             meta'.score = NoScore, ~meta'.resolved, meta'.reward = NoScore
      PROVE  Record' /\ Graded' /\ Settled'
  BY <1>b, <1>g, <1>m
  DEF Record, AtOutcome, ManifestWritten, Graded, Settled,
      LeakNeverCredited, ResultIsOnDisk, ProviderFailureUnpaid, SettledManifestCurrent
<1>q. ASSUME gstep # "returned", gstep' # "returned", meta' = meta, manifest' = manifest
      PROVE  Record' /\ Graded' /\ Settled'
  BY <1>q, <1>b, <1>m
\* One that ends it writes the outcome of the grade it returns.
<1>r. ASSUME gstep' = "returned",
             NEW m \in MetaType, NEW lk \in BOOLEAN, WriteMeta(m, lk), leak' = lk,
             m.status \in TerminalStatuses, m.provenance, m.reward = NoScore,
             m.score = grade'.score, m.resolved <=> grade'.solved
      PROVE  Record' /\ Graded' /\ Settled'
  <2>1. meta' = Sealed(m, lk)
    BY <1>r, TerminalWriteIsCurrent
  <2>2. /\ meta'.status \in TerminalStatuses /\ meta'.provenance
        /\ meta'.reward = NoScore /\ meta'.score = grade'.score
        /\ meta'.resolved <=> grade'.solved /\ ~leak'
    BY <1>r, <2>1, SealedFrame
  <2> QED
    BY <1>r, <1>g, <2>2
    DEF Record, AtOutcome, ManifestWritten, Graded, Settled,
        LeakNeverCredited, ResultIsOnDisk, ProviderFailureUnpaid, SettledManifestCurrent
<1>1. CASE RejectPatch
  <2> DEFINE class == IF leak THEN "candidate_runtime_failure" ELSE "candidate_patch_failure"
             m == [meta EXCEPT !.status = "patch_failed", !.provenance = TRUE,
                               !.class = class, !.failed = TRUE]
  <2>1. class \in FailureClasses
    BY DEF FailureClasses, CandidateOwned
  <2> HIDE DEF class
  <2>2. /\ m \in MetaType /\ m.status \in TerminalStatuses /\ m.provenance
        /\ m.reward = meta.reward /\ m.score = meta.score /\ m.resolved = meta.resolved
    BY <1>t, <2>1 DEF MetaType, Statuses, TerminalStatuses
  <2>3. WriteMeta(m, leak)
    BY <1>1 DEF RejectPatch, class
  <2>4. grade'.score = NoScore /\ ~grade'.solved
    BY <1>1 DEF RejectPatch, NoGrade
  <2> HIDE DEF m
  <2>5. Record' /\ Graded' /\ Settled'
    BY <1>1, <1>t, <1>m, <1>r, <2>2, <2>3, <2>4 DEF RejectPatch
  <2>6. Isolation'
    BY <1>1, <1>g, <1>p DEF RejectPatch, Isolation
  <2> QED
    BY <1>1, <1>t, <1>a, <1>c, <2>5, <2>6 DEF RejectPatch, RolloutInv
<1>2. CASE AcceptPatch
  <2>1. Record' /\ Graded' /\ Settled' /\ Placement'
    BY <1>2, <1>q, <1>a DEF AcceptPatch, storeVars
  <2>2. Isolation'
    BY <1>2, <1>g, <1>p DEF AcceptPatch, Isolation
  <2> QED
    BY <1>t, <1>c, <2>1, <2>2 DEF RolloutInv
<1>3. CASE GradeRaises
  <2>1. Record' /\ Graded' /\ Settled' /\ Placement'
    BY <1>3, <1>q, <1>a DEF GradeRaises, storeVars
  <2>2. Isolation'
    BY <1>3, <1>g, <1>p DEF GradeRaises, Isolation
  <2> QED
    BY <1>t, <1>c, <2>1, <2>2 DEF RolloutInv
<1>4. CASE BeginGrading
  <2> DEFINE m == [meta EXCEPT !.status = "grading", !.provenance = TRUE]
  <2>1. /\ m \in MetaType /\ m.status = "grading" /\ m.provenance
        /\ m.reward = meta.reward /\ m.score = meta.score /\ m.resolved = meta.resolved
    BY <1>t DEF MetaType, Statuses
  <2>2. WriteMeta(m, leak)
    BY <1>4 DEF BeginGrading
  <2> HIDE DEF m
  <2>3. /\ meta' = Sealed(m, leak) /\ Sealed(m, leak).status = "grading"
        /\ Sealed(m, leak).provenance
    BY <1>t, <2>1, <2>2, SealedFrame DEF WriteMeta
  <2>4. manifest' = manifest
    BY <2>2, <2>3 DEF WriteMeta, Finalize, TerminalStatuses
  <2>5. ~meta.resolved /\ meta.reward = NoScore
    BY <1>4, <1>m DEF BeginGrading
  <2>6. /\ meta'.score = meta.score /\ ~meta'.resolved /\ meta'.reward = NoScore
    BY <1>t, <2>1, <2>3, <2>5, SealedFrame
  <2>7. Record' /\ Graded' /\ Settled' /\ Placement'
    <3>1. meta'.score = NoScore /\ meta'.status \notin TerminalStatuses
      BY <1>4, <1>m, <2>3, <2>6 DEF BeginGrading, TerminalStatuses
    <3> QED
      BY <1>4, <1>a, <1>b, <2>3, <2>4, <2>6, <3>1 DEF BeginGrading
  <2>8. Isolation'
    BY <1>4, <1>g, <1>p DEF BeginGrading, Isolation
  <2> QED
    BY <1>t, <1>c, <2>7, <2>8 DEF RolloutInv
<1>5. CASE RenderAndBuild
  <2>1. Record' /\ Graded' /\ Settled' /\ Placement'
    BY <1>5, <1>q, <1>a DEF RenderAndBuild, storeVars
  <2>2. Isolation'
    BY <1>5, <1>g, <1>p DEF RenderAndBuild, Isolation
  <2> QED
    BY <1>t, <1>c, <2>1, <2>2 DEF RolloutInv
<1>6. CASE BootVendors
  <2>1. Record' /\ Graded' /\ Settled' /\ Placement'
    BY <1>6, <1>q, <1>a DEF BootVendors, storeVars
  <2>2. Isolation'
    BY <1>6, <1>g, <1>p DEF BootVendors, storeVars, Isolation
  <2> QED
    BY <1>t, <1>c, <2>1, <2>2 DEF RolloutInv
<1>7. ASSUME NEW b \in BOOLEAN, RunVerifier(b)
      PROVE  RolloutInv'
  <2>1. Record' /\ Graded' /\ Settled' /\ Placement'
    BY <1>7, <1>q, <1>a DEF RunVerifier, storeVars
  <2>2. Isolation'
    BY <1>7, <1>g, <1>p DEF RunVerifier, Isolation
  <2> QED
    BY <1>t, <1>c, <2>1, <2>2 DEF RolloutInv
<1>8. ASSUME NEW p \in Phases, NEW f \in Faults, PhaseFails(p, f)
      PROVE  RolloutInv'
  <2>1. Record' /\ Graded' /\ Settled' /\ Placement'
    BY <1>8, <1>q, <1>a DEF PhaseFails, storeVars, Phases
  <2>2. Isolation'
    BY <1>8, <1>g, <1>p DEF PhaseFails, Isolation
  <2> QED
    BY <1>t, <1>c, <2>1, <2>2 DEF RolloutInv
<1>9. ASSUME NEW found \in BOOLEAN, NEW ok \in BOOLEAN, GradeFinally(found, ok)
      PROVE  RolloutInv'
  <2>1. Record' /\ Graded' /\ Settled' /\ Placement'
    BY <1>9, <1>q, <1>a DEF GradeFinally
  <2>2. Isolation'
    BY <1>9, <1>g, <1>p DEF GradeFinally, Down, Isolation
  <2> QED
    BY <1>t, <1>c, <2>1, <2>2 DEF RolloutInv
<1>10. ASSUME NEW goldOk \in BOOLEAN, NEW found \in BOOLEAN, NEW s \in Scores,
              PublishGrade(goldOk, s, found)
       PROVE  RolloutInv'
  <2> DEFINE g == Scored(goldOk, s)
             m == [meta EXCEPT !.status = IF g.failed \/ ~goldOk THEN "error" ELSE "done",
                               !.resolved = g.solved, !.score = g.score,
                               !.class = g.class, !.failed = g.failed \/ ~goldOk]
  <2>1. g \in GradeType
    BY <1>t, ScoredType
  <2> HIDE DEF g
  <2>2. /\ m \in MetaType /\ m.status \in TerminalStatuses
        /\ m.provenance = meta.provenance /\ m.reward = meta.reward
        /\ m.score = g.score /\ m.resolved = g.solved
    BY <1>t, <2>1, ZenonT(60) DEF GradeType, MetaType, Statuses, TerminalStatuses
  <2>3. grade' = g /\ gstep = "score" /\ gstep' = "returned"
    BY <1>10 DEF PublishGrade, g
  <2> DEFINE lk == leak \/ found
  <2>4. WriteMeta(m, lk) /\ leak' = lk /\ lk \in BOOLEAN
    BY <1>10 DEF PublishGrade, Redact, g
  <2> HIDE DEF m, lk
  <2>5. /\ m.provenance /\ m.reward = NoScore
        /\ m.score = grade'.score /\ (m.resolved <=> grade'.solved)
    BY <1>m, <2>2, <2>3
  <2>7. Record' /\ Graded' /\ Settled'
    BY <1>r, <2>2, <2>3, <2>4, <2>5
  <2>6. Isolation'
    BY <1>10, <1>g, <1>p DEF PublishGrade, Isolation
  <2> QED
    BY <1>10, <1>t, <1>a, <1>c, <2>6, <2>7 DEF PublishGrade, RolloutInv
<1> QED
  BY <1>g, <1>1, <1>2, <1>3, <1>4, <1>5, <1>6, <1>7, <1>8, <1>9, <1>10 DEF GradeStep

\* A graded outcome, in whole, once a leak has been looked at.
LEMMA GradedOutcomeFacts ==
  ASSUME TypeOK, Placement, pc = "grading"
  PROVE  /\ GradedOutcome.resolved = grade.solved
         /\ GradedOutcome.reward = FinalReward
         /\ GradedOutcome.class = FinalClass
         /\ run.stop = "provider_error" =>
              FinalReward = NoScore /\ FinalClass = "provider_infrastructure_failure"
  BY DEF Placement, GradedOutcome, FinalResolved, FinalReward, FinalClass,
         RolloutFailureClass

\* Extracting the diff, deciding about it and settling the attempt.
LEMMA SettlingInv ==
  ASSUME RolloutInv, Settling
  PROVE  RolloutInv'
<1> USE DEF Goto, AgentSteps
<1>t. /\ TypeOK /\ TypeOK' /\ meta \in MetaType /\ leak \in BOOLEAN
      /\ grade \in GradeType /\ run \in RunType
  BY SettlingType DEF RolloutInv, TypeOK, GradingTypeOK, StoreTypeOK
<1>p. Placement /\ Record /\ Graded /\ Isolation /\ Credentials /\ Settled
  BY DEF RolloutInv
<1>1. ASSUME NEW found \in BOOLEAN, ExtractDiff(found)
      PROVE  RolloutInv'
  <2>1. Record' /\ Graded' /\ Settled'
    BY <1>1, OpenStep DEF ExtractDiff, OpenSteps
  <2>2. Placement' /\ Isolation' /\ Credentials'
    BY <1>1, <1>p DEF ExtractDiff, gradeVars, Placement, Isolation, Credentials
  <2> QED
    BY <1>t, <2>1, <2>2 DEF RolloutInv
<1>2. CASE ExtractRaises
  <2>1. Record' /\ Graded' /\ Settled'
    BY <1>2, OpenStep DEF ExtractRaises, gvars, storeVars, OpenSteps
  <2>2. Placement' /\ Isolation' /\ Credentials'
    BY <1>2, <1>p DEF ExtractRaises, gvars, gradeVars, Placement, Isolation, Credentials
  <2> QED
    BY <1>t, <2>1, <2>2 DEF RolloutInv
<1>3. CASE Withhold
  <2> DEFINE stop == IF run.limit THEN "usage_limit" ELSE "provider_error"
             m == WithheldMeta(stop)
  <2>1. /\ WriteMeta(m, leak) /\ stop \in {"usage_limit", "provider_error"}
        /\ result' = [resolved |-> FALSE, reward |-> NoScore, stop |-> stop,
                      class |-> "provider_infrastructure_failure"]
    BY <1>3 DEF Withhold, WithheldMeta
  <2> HIDE DEF stop
  <2>2. /\ m \in MetaType /\ m.status \in TerminalStatuses
        /\ m.provenance = meta.provenance /\ m.stop = stop /\ ~m.resolved
        /\ m.reward = NoScore /\ m.class = "provider_infrastructure_failure"
    BY <1>t, <2>1, WithheldMetaType
  <2> HIDE DEF m
  <2>3. meta.provenance /\ gstep = "idle" /\ tree = "agent"
    BY <1>3, <1>p DEF Withhold, Record, Placement
  <2>4. meta' = Sealed(m, leak) /\ manifest' = meta' /\ stale' = {}
    BY <1>t, <2>1, <2>2, <2>3, TerminalWriteIsCurrent
  <2>5. /\ meta'.provenance /\ meta'.stop = stop /\ ~meta'.resolved
        /\ meta'.reward = NoScore
        /\ leak \/ meta'.class = "provider_infrastructure_failure"
    BY <1>t, <2>2, <2>3, <2>4 DEF Sealed, MetaType
  <2>6. /\ pc' = "returned" /\ Withheld'
        /\ UNCHANGED <<leak, gstep, tree, lane, run, vendors, keep, home>>
    BY <1>3 DEF Withhold, Withheld, gradeVars
  <2>7. Record' /\ Graded'
    BY <2>5, <2>6 DEF Record, AtOutcome, Graded
  <2>8. LeakNeverCredited' /\ SettledManifestCurrent'
    BY <2>1, <2>4, <2>5, <2>6 DEF LeakNeverCredited, SettledManifestCurrent
  <2>9. ResultIsOnDisk'
    <3>1. result'.resolved = meta'.resolved
      <4>1. result'.resolved = FALSE /\ meta'.resolved \in BOOLEAN
        BY <1>t, <2>1 DEF TypeOK, GradingTypeOK, StoreTypeOK, MetaType
      <4> QED
        BY <2>5, <4>1
    <3>2. /\ result'.reward = meta'.reward /\ result'.stop = meta'.stop
          /\ result'.class = "provider_infrastructure_failure"
      BY <2>1, <2>5
    <3> QED
      BY <2>5, <2>6, <3>1, <3>2 DEF ResultIsOnDisk
  <2>10. ProviderFailureUnpaid'
    BY <2>3, <2>5, <2>6 DEF ProviderFailureUnpaid
  <2>11. Placement' /\ Isolation' /\ Credentials'
    BY <1>3, <1>p, <2>6 DEF Withhold, Placement, Isolation, Credentials
  <2> QED
    BY <1>t, <2>7, <2>8, <2>9, <2>10, <2>11 DEF RolloutInv, Settled
<1>4. CASE StartGrade
  <2>1. /\ meta.status \notin TerminalStatuses /\ ~ManifestWritten
        /\ meta.score = NoScore /\ ~meta.resolved /\ meta.reward = NoScore /\ meta.provenance
    BY <1>4, <1>p DEF StartGrade, Record, AtOutcome
  <2>2. Record' /\ Graded' /\ Settled'
    BY <1>4, <2>1
    DEF StartGrade, storeVars, Record, AtOutcome, ManifestWritten, Graded, Settled,
        LeakNeverCredited, ResultIsOnDisk, ProviderFailureUnpaid, SettledManifestCurrent
  <2>3. Placement'
    BY <1>4, <1>p DEF StartGrade, Placement, Withheld
  <2>4. Isolation' /\ Credentials'
    <3>1. gstep = "idle"
      BY <1>4, <1>p DEF StartGrade, Placement
    <3> QED
      BY <1>4, <1>p, <3>1 DEF StartGrade, Isolation, Credentials
  <2> QED
    BY <1>t, <2>2, <2>3, <2>4 DEF RolloutInv
<1>5. CASE Grade
  BY <1>5, GradeInv
<1>6. CASE GradeRaised
  <2> USE DEF GradeRaised, gvars, storeVars, gradeVars
  <2>1. /\ meta.status \notin TerminalStatuses /\ ~ManifestWritten
        /\ meta.score = NoScore /\ ~meta.resolved /\ meta.reward = NoScore
    BY <1>6, <1>p DEF Record, AtOutcome
  <2>2. Record' /\ Graded' /\ Settled'
    BY <1>6, <2>1
    DEF Record, AtOutcome, ManifestWritten, Graded, Settled, LeakNeverCredited,
        ResultIsOnDisk, ProviderFailureUnpaid, SettledManifestCurrent
  <2>3. Placement' /\ Isolation' /\ Credentials'
    BY <1>6, <1>p DEF Placement, Isolation, Credentials
  <2> QED
    BY <1>t, <2>2, <2>3 DEF RolloutInv
<1>7. CASE Settle
  <2> DEFINE r == SecurityOutcome(GradedOutcome)
             m == SettledMeta(r)
  <2>1. result' = r /\ WriteMeta(m, leak) /\ pc = "grading" /\ pc' = "returned"
    BY <1>7 DEF Settle, GradedOutcome, SettledMeta
  <2>2. /\ r \in ResultType /\ r.class \in FailureClasses /\ r.stop = run.stop
        /\ leak => ~r.resolved /\ r.reward = NoScore /\ r.class = "candidate_runtime_failure"
        /\ ~leak => r = GradedOutcome
    BY <1>t, OutcomeType
  <2> HIDE DEF r
  <2>3. /\ m \in MetaType /\ m.status \in TerminalStatuses
        /\ m.provenance = meta.provenance /\ m.stop = run.stop
        /\ m.resolved = r.resolved /\ m.reward = r.reward /\ m.class = r.class
    BY <1>t, <2>2, SettledMetaType
  <2> HIDE DEF m
  <2>4. meta.provenance
    BY <2>1, <1>p DEF Record
  <2>5. meta' = Sealed(m, leak) /\ manifest' = meta' /\ stale' = {}
    BY <1>t, <2>1, <2>3, <2>4, TerminalWriteIsCurrent
  <2>6. /\ meta'.resolved = r.resolved /\ meta'.reward = r.reward /\ meta'.class = r.class
        /\ meta'.stop = run.stop /\ meta'.provenance
    <3>1. CASE ~leak
      BY <1>t, <2>3, <2>4, <2>5, <3>1 DEF Sealed
    <3>2. CASE leak
      <4>1. /\ meta'.resolved = FALSE /\ meta'.reward = NoScore
            /\ meta'.class = "candidate_runtime_failure"
            /\ meta'.stop = m.stop /\ meta'.provenance = m.provenance
        BY <2>3, <2>5, <3>2 DEF Sealed, MetaType
      <4>2. r.resolved = FALSE
        BY <2>2, <3>2 DEF ResultType
      <4> QED
        BY <2>2, <2>3, <2>4, <3>2, <4>1, <4>2
    <3> QED
      BY <1>t, <3>1, <3>2
  <2>7. /\ ~Withheld /\ gstep = "returned"
        /\ UNCHANGED <<leak, gstep, tree, lane, run, vendors, keep, home>>
    BY <1>7, <1>p DEF Settle, Placement, gradeVars
  <2>8. Record' /\ Graded'
    BY <2>1, <2>6 DEF Record, AtOutcome, Graded
  <2>9. LeakNeverCredited' /\ SettledManifestCurrent' /\ ResultIsOnDisk'
    BY <2>1, <2>2, <2>5, <2>6, <2>7
    DEF LeakNeverCredited, SettledManifestCurrent, ResultIsOnDisk
  <2>10. ProviderFailureUnpaid'
    <3>1. lane # "direct" => ~run.limit /\ ~run.fault /\ run.stop # "provider_error"
      BY <2>1, <2>7, <1>p DEF Withheld, Placement
    <3>2. lane = "direct" => ~run.limit /\ ~run.fault
      BY <1>p DEF Placement
    <3>3. run.stop = "provider_error" =>
            r.reward = NoScore /\ (leak \/ r.class = "provider_infrastructure_failure")
      BY <1>t, <1>p, <2>1, <2>2, GradedOutcomeFacts
    <3> QED
      BY <2>6, <2>7, <3>1, <3>2, <3>3 DEF ProviderFailureUnpaid
  <2>11. Placement' /\ Isolation' /\ Credentials'
    BY <1>p, <2>1, <2>7 DEF Placement, Isolation, Credentials
  <2> QED
    BY <1>t, <2>8, <2>9, <2>10, <2>11 DEF RolloutInv, Settled
<1> QED
  BY <1>1, <1>2, <1>3, <1>4, <1>5, <1>6, <1>7 DEF Settling

\* An attempt starts with the invariant.
LEMMA InitInv ==
  ASSUME Init
  PROVE  RolloutInv
<1>1. meta = CreatedMeta /\ manifest = CreatedMeta /\ run = NotRun /\ pc = "prepare"
  BY DEF Init, StoreInit
<1>2. Placement
  BY <1>1 DEF Init, NotRun, NoStop, AgentSteps, Placement
<1>3. Record /\ Graded /\ Settled
  BY <1>1
  DEF CreatedMeta, Record, AtOutcome, ManifestWritten, Graded, Settled, LeakNeverCredited,
      ResultIsOnDisk, ProviderFailureUnpaid, SettledManifestCurrent,
      TerminalStatuses
<1>4. Isolation /\ Credentials
  BY <1>1 DEF Isolation, Credentials
<1> QED
  BY InitType, <1>2, <1>3, <1>4 DEF RolloutInv

\* Every step of an attempt keeps the invariant.
LEMMA NextInv ==
  ASSUME RolloutInv, [Next]_vars
  PROVE  RolloutInv'
<1>1. CASE UNCHANGED vars
  <2> USE DEF vars, gvars, storeVars, gradeVars, rolloutVars
  <2>1. TypeOK'
    BY NextType DEF RolloutInv
  <2>2. Placement' /\ Record' /\ Graded' /\ Isolation' /\ Credentials'
    BY <1>1
    DEF RolloutInv, Placement, Withheld, Record, AtOutcome, ManifestWritten, Graded,
        Isolation, Credentials
  <2>3. Settled'
    BY <1>1
    DEF RolloutInv, Settled, LeakNeverCredited, ResultIsOnDisk, Withheld,
        ProviderFailureUnpaid, SettledManifestCurrent
  <2> QED
    BY <2>1, <2>2, <2>3 DEF RolloutInv
<1>2. CASE Next
  BY <1>2, AgentInv, FinallyInv, SettlingInv, SetupInv DEF Next, Harness, Environment
<1> QED
  BY <1>1, <1>2

\* The inductive invariant holds of every reachable state of an attempt, in
\* every lane and for every turn cap and set of scores.
THEOREM RolloutInvariant == Spec => []RolloutInv
<1>1. Init => RolloutInv
  BY InitInv
<1>2. RolloutInv /\ [Next]_vars => RolloutInv'
  BY NextInv
<1> QED
  BY <1>1, <1>2, PTL DEF Spec

(***************************************************************************)
(* What follows from it.                                                   *)
(***************************************************************************)

\* No leaked secret ever earns credit, on disk or in the returned result.
THEOREM LeakIsNeverCredited == Spec => []LeakNeverCredited
  BY RolloutInvariant, PTL DEF RolloutInv, Settled

\* The caller and meta.json are told the same outcome.
THEOREM ResultMatchesDisk == Spec => []ResultIsOnDisk
  BY RolloutInvariant, PTL DEF RolloutInv, Settled

\* A noticed provider failure or usage limit is never a score.
THEOREM ProviderFailureIsUnpaid == Spec => []ProviderFailureUnpaid
  BY RolloutInvariant, PTL DEF RolloutInv, Settled

\* A settled attempt leaves a manifest of its final metadata and artifacts.
THEOREM SettledManifestIsCurrent == Spec => []SettledManifestCurrent
  BY RolloutInvariant, PTL DEF RolloutInv, Settled

\* The participant is gone before its diff is read and graded.
THEOREM GradeRunsIsolated == Spec => []GradeIsIsolated
<1>1. RolloutInv => GradeIsIsolated
  BY DEF RolloutInv, Isolation, GradeIsIsolated
<1> QED
  BY <1>1, RolloutInvariant, PTL

\* No credential directory is hashed into the evidence.
THEOREM EvidenceIsClean == Spec => []EvidenceHasNoCredentials
<1>1. RolloutInv => EvidenceHasNoCredentials
  BY DEF RolloutInv, Record, AtOutcome, Credentials, EvidenceHasNoCredentials
<1> QED
  BY <1>1, RolloutInvariant, PTL

-------------------------------------------------------------------------------
(***************************************************************************)
(* A rollout that its budget ended is never an ordinary result: however it *)
(* ended, the stop reason or the return code of the run shows it.          *)
(***************************************************************************)

\* What the harness has of a run that was cut off by its budget.
Shows ==
  \/ run.stop \in {"turn_cap", "wall_clock"}
  \/ lane # "direct" /\ run.code = "nonzero" /\ ~run.timedOut

CutShows ==
  cut = "budget" => pc \notin AgentSteps \union {"prepare", "up"} /\ Shows

BudgetInv == CutShows /\ BudgetIsNoResult

\* A CLI that its budget ended was timed out, or exits with an error of its own.
LEMMA EndShows ==
  ASSUME RolloutInv, NEW how \in OverBudget, ExecEnds(how)
  PROVE  Shows'
<1>1. run \in RunType /\ lane # "direct" /\ lane' = lane /\ run' = Observed(how)
  BY DEF RolloutInv, TypeOK, Placement, ExecEnds, Goto, AgentFrame
<1>2. CASE how \in {"term", "backstop"}
  BY <1>1, <1>2 DEF Observed, RunType, Shows
<1>3. CASE how = "kill"
  <2>1. Observed(how).code = "nonzero"
    BY <1>1, <1>3 DEF Observed, ExitCode, RunType
  <2>2. ~Observed(how).timedOut
    <3> DEFINE timedOut == how \in {"term", "backstop"}
    <3>1. ~timedOut
      BY <1>3
    <3>2. Observed(how).timedOut = timedOut
      BY <1>1 DEF Observed, RunType
    <3> QED
      BY <3>1, <3>2
  <2> QED
    BY <1>1, <2>1, <2>2 DEF Shows
<1> QED
  BY <1>2, <1>3 DEF OverBudget

\* Whatever ends the agent shows.
LEMMA AgentBudget ==
  ASSUME RolloutInv, BudgetInv,
         Agent \/ BudgetExpires \/ AgentLeaks \/ NoteLimit \/ NoteProviderFailure
  PROVE  BudgetInv'
<1> USE DEF Goto, AgentSteps
<1>1. pc \in AgentSteps /\ pc' # "returned"
  BY DEF Agent, BudgetExpires, AgentLeaks, NoteLimit, NoteProviderFailure, TurnStart,
         ChatReplies, ChatFails, ToolReturns, ToolEnds, ExecEnds
<1>2. cut # "budget" /\ run \in RunType
  BY <1>1 DEF BudgetInv, CutShows, RolloutInv, TypeOK
<1>3. CutShows'
  <2>1. CASE TurnStart
    BY <1>2, <2>1 DEF TurnStart, RunType, CutShows, Shows
  <2>2. ASSUME NEW how \in Endings, ExecEnds(how) PROVE CutShows'
    <3>1. CASE how \in OverBudget
      BY <2>2, <3>1, EndShows DEF ExecEnds, CutShows
    <3>2. CASE how \notin OverBudget
      BY <1>2, <2>2, <3>2 DEF ExecEnds, CutShows
    <3> QED
      BY <3>1, <3>2
  <2>3. CASE ~TurnStart /\ ~\E how \in Endings : ExecEnds(how)
    <3>1. cut' = cut \/ cut' \in {"provider", "quota"}
      BY <2>3
      DEF Agent, BudgetExpires, AgentLeaks, NoteLimit, NoteProviderFailure, ChatReplies,
          ChatFails, ToolReturns, ToolEnds
    <3> QED
      BY <1>2, <3>1 DEF CutShows
  <2> QED
    BY <2>1, <2>2, <2>3
<1> QED
  BY <1>1, <1>3 DEF BudgetInv, BudgetIsNoResult

\* A settled rollout that shows it is charged for it.
LEMMA SettleBudget ==
  ASSUME RolloutInv, BudgetInv, Settle, cut = "budget"
  PROVE  meta'.class # "candidate_result"
<1> USE DEF Goto
<1>t. /\ TypeOK /\ meta \in MetaType /\ leak \in BOOLEAN
      /\ grade \in GradeType /\ run \in RunType
  BY DEF RolloutInv, TypeOK, GradingTypeOK, StoreTypeOK
<1>1. FinalClass = "candidate_runtime_failure"
  BY DEF BudgetInv, CutShows, Shows, FinalClass, RolloutFailureClass
<1> DEFINE r == SecurityOutcome(GradedOutcome)
<1>2. WriteMeta(SettledMeta(r), leak)
  BY DEF Settle, GradedOutcome, SettledMeta
<1>3. /\ r \in ResultType /\ r.class \in FailureClasses
      /\ leak => r.class = "candidate_runtime_failure"
      /\ ~leak => r = GradedOutcome
  BY <1>t, OutcomeType
<1>4. GradedOutcome.class = FinalClass
  BY DEF GradedOutcome
<1>5. r.class = "candidate_runtime_failure"
  BY <1>1, <1>3, <1>4
<1> HIDE DEF r
<1>6. /\ SettledMeta(r) \in MetaType /\ SettledMeta(r).status \in TerminalStatuses
      /\ SettledMeta(r).class = "candidate_runtime_failure"
  BY <1>t, <1>3, <1>5, SettledMetaType
<1>7. meta' = Sealed(SettledMeta(r), leak)
  BY <1>2 DEF WriteMeta
<1> QED
  BY <1>6, <1>7 DEF Sealed, MetaType

\* Neither is a withheld one an ordinary result.
LEMMA WithholdBudget ==
  ASSUME RolloutInv, Withhold
  PROVE  meta'.class # "candidate_result"
<1> DEFINE stop == IF run.limit THEN "usage_limit" ELSE "provider_error"
<1>1. WriteMeta(WithheldMeta(stop), leak) /\ stop \in {"usage_limit", "provider_error"}
  BY DEF Withhold, WithheldMeta
<1> HIDE DEF stop
<1>2. /\ WithheldMeta(stop) \in MetaType
      /\ WithheldMeta(stop).class = "provider_infrastructure_failure"
  BY <1>1, WithheldMetaType DEF RolloutInv, TypeOK, GradingTypeOK, StoreTypeOK
<1>3. meta' = Sealed(WithheldMeta(stop), leak)
  BY <1>1 DEF WriteMeta
<1> QED
  BY <1>2, <1>3 DEF Sealed, MetaType

\* Every step of an attempt keeps it.
LEMMA NextBudget ==
  ASSUME RolloutInv, BudgetInv, [Next]_vars
  PROVE  BudgetInv'
<1> USE DEF Goto
<1>1. CASE Prepare \/ StackUp \/ SetupRaises \/ Finally
  <2>1. /\ cut' = cut /\ run' = run /\ lane' = lane /\ pc' # "returned"
        /\ pc \in {"prepare", "up"} \/ pc' \notin AgentSteps \union {"prepare", "up"}
    BY <1>1
    DEF Prepare, StackUp, SetupRaises, Finally, CollectVendorLog, TearDown, ReturnWorkspace,
        AgentSteps
  <2> QED
    BY <2>1 DEF BudgetInv, CutShows, Shows, BudgetIsNoResult
<1>2. CASE Settling
  <2>1. /\ cut' = cut /\ run' = run /\ lane' = lane
        /\ pc' \notin AgentSteps \union {"prepare", "up"}
    BY <1>2
    DEF Settling, ExtractDiff, ExtractRaises, Withhold, StartGrade, Grade, GradeRaised, Settle,
        rolloutVars, AgentSteps
  <2>2. CutShows'
    BY <2>1 DEF BudgetInv, CutShows, Shows
  <2>3. pc' = "returned" => Withhold \/ Settle
    BY <1>2
    DEF Settling, ExtractDiff, ExtractRaises, StartGrade, Grade, GradeRaised, rolloutVars
  <2> QED
    BY <2>1, <2>2, <2>3, WithholdBudget, SettleBudget DEF BudgetInv, BudgetIsNoResult
<1>3. CASE ParticipantWrites \/ VendorsLog \/ UNCHANGED vars
  <2>1. UNCHANGED <<cut, run, lane, pc, meta>>
    BY <1>3
    DEF ParticipantWrites, VendorsLog, VendorActivity, vars, gvars, storeVars, rolloutVars
  <2> QED
    BY <2>1 DEF BudgetInv, CutShows, Shows, BudgetIsNoResult
<1> QED
  BY <1>1, <1>2, <1>3, AgentBudget DEF Next, Harness, Environment

\* A rollout that its budget ended is never recorded as an ordinary result of the
\* candidate, however it ended and whatever its grade.
THEOREM BudgetCutIsNoResult == Spec => []BudgetIsNoResult
<1>1. Init => BudgetInv
  BY DEF Init, BudgetInv, CutShows, BudgetIsNoResult
<1>2. RolloutInv /\ BudgetInv /\ [Next]_vars => BudgetInv'
  BY NextBudget
<1>3. BudgetInv => BudgetIsNoResult
  BY DEF BudgetInv
<1> QED
  BY <1>1, <1>2, <1>3, RolloutInvariant, PTL DEF Spec

-------------------------------------------------------------------------------
(***************************************************************************)
(* An evaluation attempt implements the outcome it promises its caller     *)
(* (module RolloutOutcome), and never adds credit to what its grade        *)
(* recorded.                                                               *)
(***************************************************************************)
\* What an attempt has learnt against its credit.
Faulted == run.limit \/ run.fault \/ run.stop = "provider_error"

\* A leak, once found, stays known; what an open attempt learns about its
\* provider is not forgotten either.
NeverForgets ==
  /\ leak' \in BOOLEAN /\ (leak => leak')
  /\ Faulted => Faulted'

\* Writing an artifact can find a leak but never forgets one.
LEMMA RetainMonotone ==
  ASSUME leak \in BOOLEAN, NEW found \in BOOLEAN, Redact(found)
  PROVE  leak' \in BOOLEAN /\ (leak => leak')
  BY DEF Redact

\* The agent's steps: the attempt stays open, with nothing recorded.
LEMMA AgentOpen ==
  ASSUME RolloutInv,
         Agent \/ BudgetExpires \/ AgentLeaks \/ NoteLimit \/ NoteProviderFailure
  PROVE  /\ NeverForgets
         /\ meta' = meta
         /\ pc \notin {"returned", "aborted"} /\ pc' \notin {"returned", "aborted"}
<1> USE DEF Goto, AgentSteps
<1>t. leak \in BOOLEAN /\ run \in RunType
  BY DEF RolloutInv, TypeOK, GradingTypeOK, StoreTypeOK
<1>p. pc \in AgentSteps => run.stop = NoStop
  BY DEF RolloutInv, Placement
<1> DEFINE Goal == /\ NeverForgets
                   /\ meta' = meta
                   /\ pc \notin {"returned", "aborted"} /\ pc' \notin {"returned", "aborted"}
<1>1. CASE TurnStart
  <2>1. run'.limit = run.limit /\ run'.fault = run.fault
    BY <1>1, <1>t DEF TurnStart, RunType
  <2> QED
    BY <1>1, <1>t, <1>p, <2>1 DEF TurnStart, AgentFrame, NeverForgets, Faulted, NoStop
<1>2. CASE ChatReplies
  BY <1>2, <1>t DEF ChatReplies, AgentFrame, NeverForgets, Faulted
<1>3. CASE ChatFails
  <2>1. \/ run'.stop = "provider_error"
        \/ run'.limit = run.limit /\ run'.fault = run.fault /\ run'.stop = run.stop
    BY <1>3, <1>t DEF ChatFails, RunType
  <2> QED
    BY <1>3, <1>t, <1>p, <2>1 DEF ChatFails, AgentFrame, NeverForgets, Faulted, NoStop
<1>4. CASE ToolReturns
  BY <1>4, <1>t DEF ToolReturns, AgentFrame, NeverForgets, Faulted
<1>5. ASSUME NEW how \in {"done", "resource", "raise"}, ToolEnds(how)
      PROVE  Goal
  <2>1. run'.limit = run.limit /\ run'.fault = run.fault
    BY <1>5, <1>t DEF ToolEnds, RunType
  <2> QED
    BY <1>5, <1>t, <1>p, <2>1 DEF ToolEnds, AgentFrame, NeverForgets, Faulted, NoStop
<1>6. ASSUME NEW how \in Endings, ExecEnds(how)
      PROVE  Goal
  <2>1. run'.limit = run.limit /\ run'.fault = run.fault
    BY <1>6, <1>t, ObservedType DEF ExecEnds
  <2> QED
    BY <1>6, <1>t, <1>p, <2>1 DEF ExecEnds, AgentFrame, NeverForgets, Faulted, NoStop
<1>7. CASE BudgetExpires
  BY <1>7, <1>t DEF BudgetExpires, AgentFrame, NeverForgets, Faulted
<1>8. CASE AgentLeaks
  BY <1>8, <1>t, RetainMonotone DEF AgentLeaks, Retain, AgentFrame, NeverForgets, Faulted
<1>9. CASE NoteLimit
  <2>1. run'.limit
    BY <1>9, <1>t DEF NoteLimit, RunType
  <2> QED
    BY <1>9, <1>t, <2>1 DEF NoteLimit, AgentFrame, NeverForgets, Faulted
<1>10. CASE NoteProviderFailure
  <2>1. run'.limit = run.limit /\ (run.fault => run'.fault) /\ run'.stop = run.stop
    BY <1>10, <1>t DEF NoteProviderFailure, RunType
  <2> QED
    BY <1>10, <1>t, <2>1 DEF NoteProviderFailure, AgentFrame, NeverForgets, Faulted
<1> QED
  BY <1>1, <1>2, <1>3, <1>4, <1>5, <1>6, <1>7, <1>8, <1>9, <1>10 DEF Agent

\* Every other step leaves what the run learnt alone.
LEMMA OthersRemember ==
  ASSUME RolloutInv,
         Prepare \/ StackUp \/ SetupRaises \/ Finally \/ Settling \/ ParticipantWrites
           \/ VendorsLog
  PROVE  NeverForgets /\ run' = run /\ lane' = lane
<1>t. leak \in BOOLEAN
  BY DEF RolloutInv, TypeOK, GradingTypeOK, StoreTypeOK
<1>1. CASE Prepare \/ StackUp \/ SetupRaises \/ ParticipantWrites \/ VendorsLog
  BY <1>1, <1>t
  DEF Prepare, StackUp, SetupRaises, ParticipantWrites, VendorsLog, VendorActivity,
      storeVars, rolloutVars, NeverForgets, Faulted
<1>2. CASE Finally
  <2>1. run' = run /\ lane' = lane
    BY <1>2 DEF Finally, CollectVendorLog, TearDown, ReturnWorkspace
  <2>2. leak' = leak \/ \E found \in BOOLEAN : Redact(found)
    BY <1>2 DEF Finally, CollectVendorLog, TearDown, ReturnWorkspace, Retain, storeVars
  <2> QED
    BY <1>t, <2>1, <2>2, RetainMonotone DEF NeverForgets, Faulted
<1>3. CASE Settling /\ ~Grade
  <2> USE DEF Settling, ExtractDiff, ExtractRaises, Withhold, StartGrade, GradeRaised, Settle,
              gvars, storeVars
  <2>1. run' = run /\ lane' = lane
    BY <1>3
  <2>2. leak' = leak \/ \E found \in BOOLEAN : Redact(found)
    <3>1. ASSUME NEW found \in BOOLEAN, ExtractDiff(found)
          PROVE  \E f \in BOOLEAN : Redact(f)
      <4>1. Redact(found /\ ~leak) /\ (found /\ ~leak) \in BOOLEAN
        BY <3>1 DEF Retain
      <4> QED
        BY <4>1
    <3> QED
      BY <1>3, <3>1
  <2> QED
    BY <1>t, <2>1, <2>2, RetainMonotone DEF NeverForgets, Faulted
<1>4. CASE Grade
  <2>1. run' = run /\ lane' = lane
    BY <1>4 DEF Grade, rolloutVars
  <2>2. leak' = leak \/ \E found \in BOOLEAN : Redact(found)
    BY <1>4
    DEF Grade, GradeStep, RejectPatch, AcceptPatch, GradeRaises, BeginGrading,
        RenderAndBuild, BootVendors, RunVerifier, PhaseFails, GradeFinally, PublishGrade,
        Retain, storeVars
  <2> QED
    BY <1>t, <2>1, <2>2, RetainMonotone DEF NeverForgets, Faulted
<1> QED
  BY <1>1, <1>2, <1>3, <1>4

-------------------------------------------------------------------------------
(***************************************************************************)
(* Refinement.                                                             *)
(***************************************************************************)
\* A step that leaves the attempt open, or abandons it, learns and records nothing else.
LEMMA OpenImplements ==
  ASSUME pc \notin {"returned", "aborted"}, pc' # "returned",
         leak \in BOOLEAN, NeverForgets
  PROVE  Outcome!Learn \/ Outcome!Abandon
<1>1. /\ leak' \in {leak, TRUE}
      /\ Faulted' \in {Faulted, TRUE}
  BY DEF NeverForgets, Faulted
<1>2. CASE pc' = "aborted"
  BY <1>1, <1>2 DEF Outcome!Abandon, Faulted
<1>3. CASE pc' # "aborted"
  BY <1>1, <1>3 DEF Outcome!Learn, Faulted
<1> QED
  BY <1>2, <1>3

\* Settling an attempt, graded or withheld, publishes it.
LEMMA SettlingPublishes ==
  ASSUME RolloutInv, RolloutInv', Withhold \/ Settle
  PROVE  Outcome!Publish
<1>1. /\ pc \notin {"returned", "aborted"} /\ pc' = "returned"
      /\ leak' = leak /\ run' = run /\ lane' = lane
  BY DEF Withhold, Settle, Goto
<1>2. meta' \in MetaType /\ leak \in BOOLEAN
  BY DEF RolloutInv, TypeOK, GradingTypeOK, StoreTypeOK
<1>3. meta'.status \in TerminalStatuses
  <2>1. meta.provenance /\ meta \in MetaType /\ grade \in GradeType /\ run \in RunType
    BY <1>1 DEF RolloutInv, Record, Withhold, Settle, Goto, TypeOK, GradingTypeOK, StoreTypeOK
  <2>2. CASE Withhold
    <3> DEFINE stop == IF run.limit THEN "usage_limit" ELSE "provider_error"
    <3>1. /\ WriteMeta(WithheldMeta(stop), leak)
          /\ stop \in {"usage_limit", "provider_error"}
      BY <2>2 DEF Withhold, WithheldMeta
    <3> HIDE DEF stop
    <3> QED
      BY <1>2, <2>1, <3>1, WithheldMetaType, SealedFrame DEF WriteMeta
  <2>3. CASE Settle
    <3> DEFINE r == SecurityOutcome(GradedOutcome)
    <3>1. WriteMeta(SettledMeta(r), leak)
      BY <2>3 DEF Settle, GradedOutcome, SettledMeta
    <3>2. r \in ResultType /\ r.class \in FailureClasses
      BY <1>2, <2>1, OutcomeType
    <3> HIDE DEF r
    <3>3. TypeOK
      BY DEF RolloutInv
    <3> QED
      BY <1>2, <3>1, <3>2, <3>3, SettledMetaType, SealedFrame DEF WriteMeta
  <2> QED
    BY <2>2, <2>3
<1>4. /\ meta'.resolved \in BOOLEAN /\ meta'.reward \in Scores \union {NoScore}
      /\ leak => ~meta'.resolved /\ meta'.reward = NoScore
  BY <1>1, <1>2, <1>3 DEF RolloutInv, Settled, LeakNeverCredited, MetaType
<1>5. Faulted => meta'.reward = NoScore
  BY <1>1 DEF RolloutInv, Settled, ProviderFailureUnpaid, Faulted
<1> QED
  BY <1>1, <1>4, <1>5 DEF Outcome!Publish, Faulted

\* Every step of an attempt is a step of its outcome, or a stutter.
LEMMA StepImplements ==
  ASSUME RolloutInv, RolloutInv', [Next]_vars
  PROVE  [Outcome!Next]_(Outcome!vars)
<1>t. leak \in BOOLEAN
  BY DEF RolloutInv, TypeOK, GradingTypeOK, StoreTypeOK
<1>1. CASE UNCHANGED vars
  BY <1>1 DEF vars, gvars, storeVars, rolloutVars, Outcome!vars
<1>2. CASE Agent \/ BudgetExpires \/ AgentLeaks \/ NoteLimit \/ NoteProviderFailure
  <2>1. /\ NeverForgets
        /\ pc \notin {"returned", "aborted"} /\ pc' \notin {"returned", "aborted"}
    BY <1>2, AgentOpen
  <2> QED
    BY <1>t, <2>1, OpenImplements DEF Outcome!Next
<1>3. CASE Withhold \/ Settle
  BY <1>3, SettlingPublishes DEF Outcome!Next
<1>4. CASE Prepare \/ StackUp \/ SetupRaises \/ Finally \/ (Settling /\ ~Withhold /\ ~Settle)
  <2>1. NeverForgets
    BY <1>4, OthersRemember
  <2>2. pc \notin {"returned", "aborted"} /\ pc' # "returned"
    BY <1>4
    DEF Prepare, StackUp, SetupRaises, Finally, CollectVendorLog, TearDown,
        ReturnWorkspace, Settling, ExtractDiff, ExtractRaises, StartGrade, Grade,
        GradeRaised, rolloutVars, Goto
  <2> QED
    BY <1>t, <2>1, <2>2, OpenImplements DEF Outcome!Next
<1>5. CASE ParticipantWrites \/ VendorsLog
  <2>1. meta' = meta /\ leak' = leak /\ run' = run /\ pc' = pc
    BY <1>5 DEF ParticipantWrites, VendorsLog, VendorActivity, storeVars, rolloutVars
  <2> QED
    BY <2>1 DEF Outcome!vars
<1> QED
  BY <1>1, <1>2, <1>3, <1>4, <1>5 DEF Next, Harness, Environment

\* An attempt is published at most once, never with a reward when a secret leaked
\* or its provider failed it, and never as resolved when a secret leaked.
THEOREM RolloutImplementsOutcome == Spec => ImplementsOutcome
<1>1. Init => Outcome!Init
  BY DEF Init, StoreInit, NotRun, NoStop, Outcome!Init
<1>2. RolloutInv /\ RolloutInv' /\ [Next]_vars => [Outcome!Next]_(Outcome!vars)
  BY StepImplements
<1> QED
  BY <1>1, <1>2, RolloutInvariant, PTL DEF Spec, ImplementsOutcome, Outcome!Spec

-------------------------------------------------------------------------------
(***************************************************************************)
(* The direct lane of an attempt follows the turn loop (module TurnLoop)   *)
(* that the conversation of DirectLoop implements.                         *)
(***************************************************************************)
\* A step that neither runs the agent nor lets its time pass takes no turn and is of
\* no chat and of no tool.
LEMMA OthersTakeNoTurn ==
  ASSUME Prepare \/ StackUp \/ SetupRaises \/ Finally \/ Settling
  PROVE  /\ turn' = turn /\ expired' = expired
         /\ pc \notin {"turn", "chat", "tool"} /\ pc' \notin {"chat", "tool"}
<1> USE DEF Goto
<1>1. CASE Prepare \/ StackUp \/ SetupRaises
  BY <1>1 DEF Prepare, StackUp, SetupRaises
<1>2. CASE Finally
  BY <1>2 DEF Finally, CollectVendorLog, TearDown, ReturnWorkspace
<1>3. CASE Settling
  BY <1>3 DEF Settling, ExtractDiff, ExtractRaises, Withhold, StartGrade, Grade, GradeRaised,
              Settle, rolloutVars
<1> QED
  BY <1>1, <1>2, <1>3

\* While an attempt is in its loop nothing has ended the loop.
LEMMA InTheLoop ==
  ASSUME RolloutInv, lane = "direct", pc \in {"turn", "chat", "tool"}
  PROVE  LoopStop = "none" /\ LoopStage = pc
<1>1. run.stop = "none" /\ ~run.raising
  BY DEF RolloutInv, Placement, AgentSteps, NoStop
<1>2. LoopStop = "none"
  BY <1>1 DEF LoopStop
<1> QED
  BY <1>2 DEF LoopStage

\* A step of the agent of the direct lane is a step of the loop.
LEMMA AgentTakesTurns ==
  ASSUME RolloutInv, lane = "direct", Agent \/ BudgetExpires
  PROVE  Loop!TurnNext
<1> USE DEF Goto
<1>t. /\ run \in RunType /\ turn \in 0..MaxTurns /\ expired \in BOOLEAN /\ MaxTurns \in Nat
      /\ pc # "exec"
  BY RolloutAssumption DEF RolloutInv, TypeOK, Placement
<1>l. lane' = "direct"
  BY DEF Agent, BudgetExpires, TurnStart, ChatReplies, ChatFails, ToolReturns, ToolEnds,
         ExecEnds, AgentFrame
<1>e. LoopExpired <=> expired
  BY DEF LoopExpired
<1>n. LoopExpired' <=> expired'
  BY <1>l DEF LoopExpired
<1>k. expired' = expired => LoopExpired' = LoopExpired
  BY <1>l DEF LoopExpired
<1>u. run' = run => LoopStop' = LoopStop
  BY <1>l DEF LoopStop
<1>g. run' = run /\ LoopStop = "none" => \A p \in {"turn", "chat", "tool"} :
                                           pc' = p => LoopStage' = p
  BY <1>l, <1>u DEF LoopStage
<1>o. pc' = "collect" /\ LoopStop' # "none" => LoopStage' = "over"
  BY <1>l DEF LoopStage
<1>1. CASE TurnStart
  <2>1. pc = "turn" /\ expired' = expired
    BY <1>1 DEF TurnStart
  <2>2. LoopStop = "none" /\ LoopStage = "turn" /\ ~run.raising
    BY <2>1, InTheLoop DEF RolloutInv, Placement, AgentSteps
  <2>3. CASE turn = MaxTurns \/ expired
    <3> DEFINE why == IF turn = MaxTurns THEN "turn_cap" ELSE "wall_clock"
    <3>1. run' = [run EXCEPT !.stop = why, !.timedOut = TRUE] /\ pc' = "collect" /\ turn' = turn
      BY <1>1, <2>3 DEF TurnStart
    <3>2. why \in {"turn_cap", "wall_clock"}
      OBVIOUS
    <3>3. (turn = MaxTurns /\ why = "turn_cap") \/ (turn < MaxTurns /\ expired /\ why = "wall_clock")
      BY <2>3, <1>t
    <3> HIDE DEF why
    <3>4. run'.stop = why /\ run'.raising = run.raising
      BY <3>1, <1>t DEF RunType
    <3>5. LoopStop' = why
      BY <3>4, <2>2, <1>l DEF LoopStop
    <3>6. LoopStage' = "over"
      BY <3>1, <3>2, <3>5, <1>o
    <3>7. Loop!CutsOff
      BY <2>1, <2>2, <3>1, <3>3, <3>5, <3>6, <1>e, <1>k DEF Loop!CutsOff, Loop!Goes
    <3> QED
      BY <3>7 DEF Loop!TurnNext
  <2>4. CASE ~(turn = MaxTurns \/ expired)
    <3>1. turn' = turn + 1 /\ pc' = "chat" /\ run' = run
      BY <1>1, <2>4 DEF TurnStart
    <3>2. turn < MaxTurns /\ ~LoopExpired
      BY <2>4, <1>t, <1>e
    <3>3. LoopStage' = "chat" /\ LoopStop' = LoopStop
      BY <3>1, <2>2, <1>g, <1>u
    <3>4. Loop!Begins
      BY <2>1, <2>2, <3>1, <3>2, <3>3, <1>k DEF Loop!Begins, Loop!Goes
    <3> QED
      BY <3>4 DEF Loop!TurnNext
  <2> QED
    BY <2>3, <2>4
<1>2. CASE ChatReplies
  <2>1. /\ pc = "chat" /\ pc' \in {"tool", "turn"} /\ run' = run
        /\ turn' = turn /\ expired' = expired
    BY <1>2 DEF ChatReplies
  <2>2. LoopStage = "chat" /\ LoopStage' \in {"tool", "turn"} /\ LoopStop' = LoopStop
    BY <2>1, InTheLoop, <1>g, <1>u
  <2>3. Loop!Replies
    BY <2>1, <2>2, <1>k DEF Loop!Replies, Loop!Goes
  <2> QED
    BY <2>3 DEF Loop!TurnNext
<1>3. CASE ChatFails
  <2>1. /\ pc = "chat" /\ pc' = "collect" /\ turn' = turn /\ expired' = expired
    BY <1>3 DEF ChatFails
  <2>2. LoopStage = "chat" /\ ~run.raising
    BY <2>1, InTheLoop DEF RolloutInv, Placement, AgentSteps
  <2>3. run'.raising \/ (~run'.raising /\ run'.stop = "provider_error")
    BY <1>3, <2>2, <1>t DEF ChatFails, RunType
  <2>4. LoopStop' \in {"provider_error", "crashed"}
    BY <2>3, <1>l DEF LoopStop
  <2>5. Loop!Ends(LoopStop')
    BY <2>1, <2>2, <2>4, <1>o, <1>k DEF Loop!Ends, Loop!Goes
  <2> QED
    BY <2>4, <2>5 DEF Loop!TurnNext
<1>4. CASE ToolReturns
  <2>1. /\ pc = "tool" /\ pc' = "turn" /\ run' = run /\ turn' = turn /\ expired' = expired
    BY <1>4 DEF ToolReturns
  <2>2. LoopStage = "tool" /\ LoopStage' = "turn" /\ LoopStop' = LoopStop
    BY <2>1, InTheLoop, <1>g, <1>u
  <2>3. Loop!Answers
    BY <2>1, <2>2, <1>k DEF Loop!Answers, Loop!Goes
  <2> QED
    BY <2>3 DEF Loop!TurnNext
<1>5. ASSUME NEW how \in {"done", "resource", "raise"}, ToolEnds(how)
      PROVE  Loop!TurnNext
  <2>1. /\ pc = "tool" /\ pc' = "collect" /\ turn' = turn /\ expired' = expired
    BY <1>5 DEF ToolEnds
  <2>2. LoopStage = "tool" /\ ~run.raising
    BY <2>1, InTheLoop DEF RolloutInv, Placement, AgentSteps
  <2>3. run'.raising \/ (~run'.raising /\ run'.stop \in {"done", "resource_limit"})
    BY <1>5, <2>2, <1>t DEF ToolEnds, RunType
  <2>4. LoopStop' \in {"done", "resource_limit", "crashed"}
    BY <2>3, <1>l DEF LoopStop
  <2>5. Loop!Ends(LoopStop')
    BY <2>1, <2>2, <2>4, <1>o, <1>k DEF Loop!Ends, Loop!Goes
  <2> QED
    BY <2>4, <2>5 DEF Loop!TurnNext
<1>6. ASSUME NEW how \in Endings, ExecEnds(how)
      PROVE  Loop!TurnNext
  BY <1>6, <1>t DEF ExecEnds
<1>7. CASE BudgetExpires
  <2>1. /\ pc \in {"turn", "chat", "tool"} /\ pc' = pc /\ run' = run /\ turn' = turn
        /\ ~expired /\ expired'
    BY <1>7, <1>t DEF BudgetExpires, AgentSteps
  <2>2. LoopStop = "none" /\ LoopStage = pc
    BY <2>1, InTheLoop
  <2>3. LoopStage # "over" /\ LoopStage' = LoopStage /\ LoopStop' = LoopStop
    BY <2>1, <2>2, <1>g, <1>u
  <2>4. ~LoopExpired /\ LoopExpired' = TRUE
    BY <2>1, <1>e, <1>n
  <2>5. Loop!Expires
    BY <2>1, <2>3, <2>4 DEF Loop!Expires
  <2> QED
    BY <2>5 DEF Loop!TurnNext
<1> QED
  BY <1>1, <1>2, <1>3, <1>4, <1>5, <1>6, <1>7 DEF Agent

\* Every step of an attempt is a step of its turn loop, or a stutter.
LEMMA StepTakesTurns ==
  ASSUME RolloutInv, [Next]_vars
  PROVE  [Loop!TurnNext]_(Loop!turnVars)
<1> USE DEF Loop!turnVars
<1> DEFINE Unseen == UNCHANGED <<LoopStage, turn, LoopExpired, LoopStop>>
<1>0. Unseen => UNCHANGED Loop!turnVars
  OBVIOUS
<1>s. lane' = lane /\ run' = run /\ turn' = turn /\ expired' = expired
        /\ (pc' = pc \/ (pc \notin {"chat", "tool"} /\ pc' \notin {"chat", "tool"}))
      => Unseen
  <2> SUFFICES ASSUME lane' = lane, run' = run, turn' = turn, expired' = expired,
                      pc' = pc \/ (pc \notin {"chat", "tool"} /\ pc' \notin {"chat", "tool"})
               PROVE  Unseen
    OBVIOUS
  <2>1. LoopStop' = LoopStop /\ LoopExpired' = LoopExpired
    BY DEF LoopStop, LoopExpired
  <2>2. LoopStage' = LoopStage
    BY <2>1 DEF LoopStage
  <2> QED
    BY <2>1, <2>2
<1>c. lane # "direct" /\ lane' = lane /\ turn' = turn => Unseen
  <2> SUFFICES ASSUME lane # "direct", lane' = lane, turn' = turn
               PROVE  Unseen
    OBVIOUS
  <2>0. lane' # "direct"
    OBVIOUS
  <2>1. LoopStage = "turn" /\ LoopStop = "none"
    BY DEF LoopStage, LoopStop
  <2>3. LoopStop' = "none"
    BY <2>0 DEF LoopStop
  <2>4. LoopStage' = "turn"
    BY <2>0, <2>3 DEF LoopStage
  <2>2. LoopExpired = FALSE /\ LoopExpired' = FALSE
    BY <2>0 DEF LoopExpired
  <2> QED
    BY <2>1, <2>2, <2>3, <2>4
<1> HIDE DEF Unseen
<1>1. CASE UNCHANGED vars
  BY <1>1, <1>s, <1>0 DEF vars, rolloutVars
<1>2. CASE Agent \/ BudgetExpires
  <2>1. CASE lane = "direct"
    BY <1>2, <2>1, AgentTakesTurns
  <2>2. CASE lane # "direct"
    <3>1. lane' = lane /\ turn' = turn
      BY <1>2, <2>2
      DEF RolloutInv, Placement, Agent, BudgetExpires, TurnStart, ChatReplies, ChatFails,
          ToolReturns, ToolEnds, ExecEnds, AgentFrame
    <3> QED
      BY <2>2, <3>1, <1>c, <1>0
  <2> QED
    BY <2>1, <2>2
<1>3. CASE AgentLeaks
  BY <1>3, <1>s, <1>0 DEF AgentLeaks, AgentFrame
<1>4. CASE NoteLimit \/ NoteProviderFailure
  <2>1. lane # "direct" /\ lane' = lane /\ turn' = turn
    BY <1>4 DEF RolloutInv, Placement, NoteLimit, NoteProviderFailure, AgentFrame
  <2> QED
    BY <2>1, <1>c, <1>0
<1>5. CASE Prepare \/ StackUp \/ SetupRaises \/ Finally \/ Settling
  BY <1>5, <1>s, <1>0, OthersRemember, OthersTakeNoTurn
<1>6. CASE ParticipantWrites \/ VendorsLog
  BY <1>6, <1>s, <1>0 DEF ParticipantWrites, VendorsLog, rolloutVars
<1> QED
  BY <1>1, <1>2, <1>3, <1>4, <1>5, <1>6 DEF Next, Harness, Environment

\* The direct lane of an attempt keeps to the limits of the turn loop and ends for its
\* reasons, and what ended it is what the rest of the attempt goes by.
THEOREM RolloutFollowsTurns == Spec => FollowsTurns
<1>1. Init => Loop!TurnInit
  BY DEF Init, NotRun, NoStop, Loop!TurnInit, LoopStage, LoopStop, LoopExpired
<1>2. RolloutInv /\ [Next]_vars => [Loop!TurnNext]_(Loop!turnVars)
  BY StepTakesTurns
<1> QED
  BY <1>1, <1>2, RolloutInvariant, PTL DEF Spec, FollowsTurns, Loop!TurnSpec

-------------------------------------------------------------------------------
(***************************************************************************)
(* The grade at the end of an attempt is as correct as a standalone one:   *)
(* it keeps the invariant of GradingProofs, beside an agent that may still *)
(* be alive and vendors that keep logging.                                 *)
(***************************************************************************)
\* Where no grade is under way, nothing but the metadata and the tree can matter to it.
LEMMA NoGradeYet ==
  ASSUME GradingInv, GradingTypeOK', gstep = "idle", gstep' \in {"idle", "patch"},
         grade' = grade, ~meta'.resolved
  PROVE  GradingInv'
  BY DEF GradingInv, LeakedPatchNeverRuns, ResolvedWasVerified, ManifestCurrent, Phases

\* Setting up, running and tearing down the agent come before its grade.
LEMMA BeforeTheGrade ==
  ASSUME RolloutInv, GradingTypeOK', GradingInv,
         \/ Prepare \/ StackUp \/ SetupRaises \/ Finally
         \/ Agent \/ BudgetExpires \/ AgentLeaks \/ NoteLimit \/ NoteProviderFailure
  PROVE  GradingInv'
<1> USE DEF Goto, AgentSteps
<1>1. pc \notin {"grading", "returned", "aborted"}
  BY DEF Prepare, StackUp, SetupRaises, Finally, CollectVendorLog, TearDown, ReturnWorkspace,
         Agent, BudgetExpires, AgentLeaks, NoteLimit, NoteProviderFailure, TurnStart,
         ChatReplies, ChatFails, ToolReturns, ToolEnds, ExecEnds
<1>2. gstep = "idle" /\ ~meta.resolved /\ meta \in MetaType /\ leak \in BOOLEAN
  BY <1>1 DEF RolloutInv, Placement, Record, AtOutcome, TypeOK, GradingTypeOK, StoreTypeOK
<1>3. gstep' = gstep /\ grade' = grade
  BY DEF Prepare, StackUp, SetupRaises, Finally, CollectVendorLog, TearDown, ReturnWorkspace,
         Agent, BudgetExpires, AgentLeaks, NoteLimit, NoteProviderFailure, TurnStart,
         ChatReplies, ChatFails, ToolReturns, ToolEnds, ExecEnds, AgentFrame, gradeVars
<1>4. ~meta'.resolved
  <2>1. CASE Prepare
    <3> DEFINE m == [meta EXCEPT !.status = "running", !.provenance = TRUE]
    <3>1. meta' = Sealed(m, leak)
      BY <2>1 DEF Prepare, WriteMeta
    <3>2. m \in MetaType /\ ~m.resolved
      BY <1>2 DEF MetaType, Statuses
    <3> HIDE DEF m
    <3> QED
      BY <3>1, <3>2, <1>2 DEF Sealed, MetaType
  <2>2. CASE ~Prepare
    <3>1. meta' = meta
      BY <2>2
      DEF StackUp, SetupRaises, Finally, CollectVendorLog, TearDown, ReturnWorkspace,
          Agent, BudgetExpires, AgentLeaks, NoteLimit, NoteProviderFailure, TurnStart,
          ChatReplies, ChatFails, ToolReturns, ToolEnds, ExecEnds, AgentFrame, storeVars
    <3> QED
      BY <3>1, <1>2
  <2> QED
    BY <2>1, <2>2
<1> QED
  BY <1>2, <1>3, <1>4, NoGradeYet

\* What a graded attempt settles as resolved is what its grade had resolved.
LEMMA SettlingKeepsGrade ==
  ASSUME RolloutInv, GradingTypeOK', GradingInv, Settle
  PROVE  GradingInv'
<1> USE DEF Goto
<1>t. /\ TypeOK /\ meta \in MetaType /\ leak \in BOOLEAN
      /\ grade \in GradeType /\ run \in RunType
  BY DEF RolloutInv, TypeOK, GradingTypeOK, StoreTypeOK
<1>1. pc = "grading" /\ gstep = "returned" /\ UNCHANGED <<leak, gradeVars>>
  BY DEF Settle
<1>2. meta.provenance /\ (meta.resolved <=> grade.solved /\ ~leak)
  BY <1>1 DEF RolloutInv, Record, Graded
<1> DEFINE r == SecurityOutcome(GradedOutcome)
<1>3. WriteMeta(SettledMeta(r), leak)
  BY DEF Settle, GradedOutcome, SettledMeta
<1>4. /\ r \in ResultType /\ r.class \in FailureClasses
      /\ leak => ~r.resolved
      /\ ~leak => r = GradedOutcome
  BY <1>t, OutcomeType
<1>5. GradedOutcome.resolved = grade.solved
  BY DEF GradedOutcome, FinalResolved
<1>6. r.resolved => meta.resolved
  BY <1>2, <1>4, <1>5
<1> HIDE DEF r
<1>7. /\ SettledMeta(r) \in MetaType /\ SettledMeta(r).status \in TerminalStatuses
      /\ SettledMeta(r).provenance /\ SettledMeta(r).resolved = r.resolved
  BY <1>t, <1>2, <1>4, SettledMetaType
<1>8. manifest' = meta' /\ stale' = {} /\ meta' = Sealed(SettledMeta(r), leak)
  BY <1>t, <1>3, <1>7, TerminalWriteIsCurrent
<1>9. meta'.resolved => meta.resolved
  BY <1>t, <1>6, <1>7, <1>8, SealedFrame
<1> QED
  BY <1>1, <1>8, <1>9
  DEF gradeVars, GradingInv, LeakedPatchNeverRuns, ResolvedWasVerified, ManifestCurrent, Phases

\* Extracting the diff and deciding about it; and the grade itself.
LEMMA SettlingGrades ==
  ASSUME RolloutInv, GradingTypeOK', GradingInv, Settling
  PROVE  GradingInv'
<1> USE DEF Goto
<1>t. /\ meta \in MetaType /\ leak \in BOOLEAN /\ run \in RunType
  BY DEF RolloutInv, TypeOK, GradingTypeOK, StoreTypeOK
<1>i. pc \in {"extract", "decide"} => gstep = "idle" /\ ~meta.resolved
  BY DEF RolloutInv, Placement, Record, AtOutcome
<1>1. ASSUME NEW found \in BOOLEAN, ExtractDiff(found)
      PROVE  GradingInv'
  BY <1>1, <1>i, NoGradeYet DEF ExtractDiff, gradeVars
<1>2. CASE ExtractRaises
  BY <1>2, <1>i, NoGradeYet DEF ExtractRaises, gvars, storeVars, gradeVars
<1>3. CASE Withhold
  <2> DEFINE stop == IF run.limit THEN "usage_limit" ELSE "provider_error"
  <2>1. /\ WriteMeta(WithheldMeta(stop), leak) /\ stop \in {"usage_limit", "provider_error"}
        /\ pc = "decide" /\ gstep' = gstep /\ grade' = grade
    BY <1>3 DEF Withhold, WithheldMeta, gradeVars
  <2> HIDE DEF stop
  <2>2. WithheldMeta(stop) \in MetaType /\ ~WithheldMeta(stop).resolved
    BY <1>t, <2>1, WithheldMetaType
  <2>3. ~meta'.resolved
    BY <1>t, <2>1, <2>2, SealedFrame DEF WriteMeta
  <2> QED
    BY <1>i, <2>1, <2>3, NoGradeYet
<1>4. CASE StartGrade
  BY <1>4, <1>i, NoGradeYet DEF StartGrade, storeVars
<1>5. CASE Grade
  BY <1>5, GradeStepInv DEF Grade
<1>6. CASE GradeRaised
  BY <1>6
  DEF GradeRaised, gvars, storeVars, gradeVars, GradingInv, GradingTypeOK, StoreTypeOK,
      LeakedPatchNeverRuns, ResolvedWasVerified, ManifestCurrent
<1>7. CASE Settle
  BY <1>7, SettlingKeepsGrade
<1> QED
  BY <1>1, <1>2, <1>3, <1>4, <1>5, <1>6, <1>7 DEF Settling

\* Every step of an attempt keeps the invariant of its grade.
LEMMA AttemptKeepsGrade ==
  ASSUME RolloutInv, RolloutInv', GradingInv, [Next]_vars
  PROVE  GradingInv'
<1>t. GradingTypeOK /\ GradingTypeOK'
  BY DEF RolloutInv, TypeOK
<1>1. CASE ParticipantWrites
  BY <1>1, <1>t
  DEF ParticipantWrites, storeVars, GradingInv, LeakedPatchNeverRuns, ResolvedWasVerified,
      ManifestCurrent
<1>2. CASE VendorsLog
  BY <1>2, <1>t
  DEF VendorsLog, VendorActivity, gradeVars, GradingInv, LeakedPatchNeverRuns,
      ResolvedWasVerified, ManifestCurrent
<1>3. CASE UNCHANGED vars
  BY <1>3, <1>t
  DEF vars, gvars, storeVars, gradeVars, GradingInv, LeakedPatchNeverRuns,
      ResolvedWasVerified, ManifestCurrent
<1> QED
  BY <1>t, <1>1, <1>2, <1>3, BeforeTheGrade, SettlingGrades DEF Next, Harness, Environment

\* grade_once promises an attempt what it promises a standalone grade: a patch with a
\* known leak is not run, what is resolved was verified, a failure of the registry stays
\* the benchmark's, and the manifest is that of the metadata.
THEOREM AttemptIsGradedCorrectly == Spec => []GradingCorrect
<1>1. Init => GradingInv
  <2> SUFFICES ASSUME Init PROVE GradingInv
    OBVIOUS
  <2>1. GradingTypeOK
    BY InitType DEF TypeOK
  <2> QED
    BY <2>1
    DEF Init, StoreInit, GradeInit, GradingInv, CreatedMeta, NoGrade, Phases,
        LeakedPatchNeverRuns, ResolvedWasVerified, ManifestCurrent
<1>2. RolloutInv /\ RolloutInv' /\ GradingInv /\ [Next]_vars => GradingInv'
  BY AttemptKeepsGrade
<1>3. GradingInv => GradingCorrect
  BY DEF GradingInv, GradingCorrect, InfrastructureKeepsOwner
<1> QED
  BY <1>1, <1>2, <1>3, RolloutInvariant, PTL DEF Spec

-------------------------------------------------------------------------------
(***************************************************************************)
(* Credit only shrinks.                                                    *)
(***************************************************************************)

\* Once metadata is terminal, only the settling of a graded attempt rewrites it.
LEMMA TerminalRewrite ==
  ASSUME RolloutInv, [Next]_vars, meta.status \in TerminalStatuses, meta' # meta
  PROVE  Settle
<1>1. pc = "returned" \/ (pc = "grading" /\ gstep = "returned")
  BY DEF RolloutInv, Record, AtOutcome
<1>2. CASE UNCHANGED vars
  BY <1>2 DEF vars, gvars, storeVars
<1>3. CASE Agent \/ BudgetExpires \/ AgentLeaks \/ NoteLimit \/ NoteProviderFailure
  BY <1>3, AgentOpen
<1>4. CASE Prepare \/ StackUp \/ SetupRaises \/ Finally
  BY <1>1, <1>4
  DEF Prepare, StackUp, SetupRaises, Finally, CollectVendorLog, TearDown, ReturnWorkspace, Goto
<1>5. CASE Settling /\ ~Grade
  BY <1>1, <1>5
  DEF Settling, ExtractDiff, ExtractRaises, Withhold, StartGrade, GradeRaised, Goto
<1>6. CASE Grade
  BY <1>1, <1>6
  DEF Grade, GradeStep, RejectPatch, AcceptPatch, GradeRaises, BeginGrading,
      RenderAndBuild, BootVendors, RunVerifier, PhaseFails, Phases, GradeFinally,
      PublishGrade
<1>7. CASE ParticipantWrites \/ VendorsLog
  BY <1>7 DEF ParticipantWrites, VendorsLog, VendorActivity, storeVars
<1> QED
  BY <1>2, <1>3, <1>4, <1>5, <1>6, <1>7 DEF Next, Harness, Environment

\* The attempt confirms what its grade recorded or voids it.
LEMMA SettleKeepsCredit ==
  ASSUME RolloutInv, Settle
  PROVE  /\ meta'.status \in TerminalStatuses
         /\ meta'.resolved => meta.resolved
         /\ meta'.score = meta.score
<1> DEFINE r == SecurityOutcome(GradedOutcome)
           m == SettledMeta(r)
<1>1. /\ TypeOK /\ leak \in BOOLEAN /\ grade \in GradeType /\ run \in RunType
  BY DEF RolloutInv, TypeOK, GradingTypeOK, StoreTypeOK
<1>2. meta.score = grade.score /\ (meta.resolved <=> grade.solved /\ ~leak)
  BY DEF RolloutInv, Graded, Settle, Goto
<1>3. WriteMeta(m, leak)
  BY DEF Settle, GradedOutcome, SettledMeta
<1>4. /\ r \in ResultType /\ r.class \in FailureClasses
      /\ leak => ~r.resolved
      /\ ~leak => r = GradedOutcome
  BY <1>1, OutcomeType
<1>5. r.resolved => grade.solved /\ ~leak
  BY <1>1, <1>4, GradedOutcomeFacts DEF RolloutInv, Settle, Goto
<1> HIDE DEF r
<1>6. /\ m \in MetaType /\ m.status \in TerminalStatuses
      /\ m.resolved = r.resolved /\ m.score = grade.score
  BY <1>1, <1>4, SettledMetaType
<1> HIDE DEF m
<1> QED
  BY <1>1, <1>2, <1>3, <1>5, <1>6, SealedFrame DEF WriteMeta

\* Between the grade's terminal record and the attempt's own, resolution and
\* score can be confirmed or voided but never raised.
THEOREM CreditNeverGrows == Spec => CreditOnlyShrinks
<1> DEFINE Shrinks == meta.status \in TerminalStatuses =>
                        /\ meta'.status \in TerminalStatuses
                        /\ meta'.resolved => meta.resolved
                        /\ meta'.score = meta.score
<1>1. RolloutInv /\ [Next]_vars => [Shrinks]_meta
  BY TerminalRewrite, SettleKeepsCredit
<1> QED
  BY <1>1, RolloutInvariant, PTL DEF Spec, CreditOnlyShrinks

===============================================================================
