------------------------------ MODULE EvalRollout ------------------------------
(***************************************************************************)
(* One evaluation attempt (harness/bench/commands/eval_core.py): the       *)
(* participant agent works in an isolated container until it finishes or   *)
(* is cut off, its diff is extracted, graded (module Grading) and the      *)
(* outcome is settled in meta.json.                                        *)
(*                                                                         *)
(* Four lanes drive the agent: "direct" is a turn loop of chat and tool    *)
(* calls in this process; "claude", "codex" and "opencode" stream a vendor *)
(* CLI that runs in the agent container.  The lanes share everything after *)
(* the agent stops, so they are one module with the lane as a variable.    *)
(***************************************************************************)
EXTENDS Grading, ExecEndings

CONSTANTS
  Lanes,     \* the lanes explored
  MaxTurns   \* turn cap of the direct lane

CliLanes == {"claude", "codex", "opencode"}

ASSUME RolloutAssumption ==
  /\ Lanes \subseteq CliLanes \union {"direct"}
  /\ MaxTurns \in Nat \ {0}

VARIABLES
  lane,      \* the harness this attempt uses
  pc,        \* where the eval function stands
  turn,      \* direct lane: turns started
  expired,   \* has the wall-clock budget of the task run out?
  run,       \* what the harness knows about the agent's run
  cut,       \* what really ended the agent (a history variable)
  agentBox,  \* is the agent container up?
  busy,      \* is a participant process alive in it?
  home,      \* ephemeral credential directories present below the attempt
  result     \* the EvalResult returned to the caller

rolloutVars == <<lane, pc, turn, expired, run, cut, agentBox, busy, home, result>>
vars == <<gvars, rolloutVars>>

AgentSteps == {"turn", "chat", "tool", "exec"}

Steps ==
  AgentSteps \union {"prepare", "up", "collect", "down", "return", "extract", "decide",
                     "grading", "returned", "aborted"}

RunType ==
  [limit    : BOOLEAN,                         \* usage_limit noticed
   fault    : BOOLEAN,                         \* provider_failure noticed
   code     : {"none", "zero", "nonzero"},     \* agent_returncode
   timedOut : BOOLEAN,
   stop     : StopReasons \union {NoStop},
   failed   : BOOLEAN,                         \* error is set
   raising  : BOOLEAN]                         \* an exception is propagating

ResultType ==
  [resolved : BOOLEAN, reward : Scores \union {NoScore},
   class : FailureClasses \union {NoClass}, stop : StopReasons \union {NoStop}]

CredentialDirs == {"agent-home", "provider-auth"}

TypeOK ==
  /\ GradingTypeOK
  /\ lane \in CliLanes \union {"direct"}
  /\ pc \in Steps
  /\ turn \in 0..MaxTurns
  /\ expired \in BOOLEAN
  /\ run \in RunType
  /\ cut \in {"none", "budget", "quota", "provider"}
  /\ agentBox \in BOOLEAN
  /\ busy \in BOOLEAN
  /\ home \subseteq CredentialDirs
  /\ result \in ResultType

NotRun ==
  [limit |-> FALSE, fault |-> FALSE, code |-> "none", timedOut |-> FALSE,
   stop |-> NoStop, failed |-> FALSE, raising |-> FALSE]

NoResult ==
  [resolved |-> FALSE, reward |-> NoScore, class |-> NoClass, stop |-> NoStop]

Init ==
  /\ StoreInit
  /\ GradeInit
  /\ gstep = "idle"
  /\ tree = "none"
  /\ lane \in Lanes
  /\ pc = "prepare"
  /\ turn = 0
  /\ expired = FALSE
  /\ run = NotRun
  /\ cut = "none"
  /\ agentBox = FALSE
  /\ busy = FALSE
  /\ home = {}
  /\ result = NoResult

Goto(from, to) == pc = from /\ pc' = to

-------------------------------------------------------------------------------
(***************************************************************************)
(* Before the agent runs.  Nothing here is inside the try whose finally    *)
(* tears the stack down: an exception leaves the attempt as it is.         *)
(***************************************************************************)

\* Provenance is captured, the workspace is staged, metadata says "running".
Prepare ==
  /\ Goto("prepare", "up")
  /\ WriteMeta([meta EXCEPT !.status = "running", !.provenance = TRUE], leak)
  /\ tree' = "agent"
  /\ UNCHANGED <<leak, gstep, grade, vendors, keep, downFailed, lane, turn, expired,
                 run, cut, agentBox, busy, home, result>>

\* What render_compose provisions for the lane's CLI.
CredentialsOf(l) ==
  CASE l = "direct" -> {}
    [] l = "opencode" -> CredentialDirs
    [] OTHER -> {"agent-home"}

\* stack.up(): compose is rendered, which provisions the one-shot agent home,
\* and vendors and agent start.
StackUp ==
  /\ Goto("up", IF lane = "direct" THEN "turn" ELSE "exec")
  /\ vendors' = "used"
  /\ agentBox' = TRUE
  /\ busy' = (lane # "direct")
  /\ home' = CredentialsOf(lane)
  /\ UNCHANGED <<storeVars, gstep, grade, tree, keep, downFailed, lane, turn, expired,
                 run, cut, result>>

\* Any step of the setup raises; containers and agent home stay as they are.
SetupRaises ==
  /\ \/ pc = "prepare" /\ UNCHANGED <<vendors, agentBox, home>>
     \/ /\ pc = "up"
        /\ vendors' \in {"down", "fresh"}
        /\ agentBox' \in BOOLEAN
        /\ home' \in {{}, CredentialsOf(lane)}
  /\ pc' = "aborted"
  /\ UNCHANGED <<storeVars, gstep, grade, tree, keep, downFailed, lane, turn, expired,
                 run, cut, busy, result>>

-------------------------------------------------------------------------------
(***************************************************************************)
(* The agent at work.                                                      *)
(***************************************************************************)

\* What the agent phase never touches.
AgentFrame ==
  UNCHANGED <<meta, manifest, gstep, grade, tree, vendors, keep, downFailed, lane,
              agentBox, home, result>>

\* Time passes: the task's timeout_minutes are over.
BudgetExpires ==
  /\ pc \in AgentSteps
  /\ ~expired
  /\ expired' = TRUE
  /\ UNCHANGED <<leak, stale, pc, turn, run, cut, busy>>
  /\ AgentFrame

\* The transcript or the agent log meets a registered secret.
AgentLeaks ==
  /\ pc \in {"chat", "tool", "exec"}
  /\ Retain("agent.log", TRUE)
  /\ UNCHANGED <<pc, turn, expired, run, cut, busy>>
  /\ AgentFrame

\* Seeded error: a turn without tool calls does not count.
TurnStart_Uncounted ==
  /\ pc = "turn"
  /\ IF turn = MaxTurns \/ expired
     THEN /\ run' = [run EXCEPT !.stop = "turn_cap", !.timedOut = TRUE]
          /\ cut' = "budget"
          /\ pc' = "collect"
          /\ UNCHANGED turn
     ELSE /\ turn' \in {turn, turn + 1}
          /\ pc' = "chat"
          /\ UNCHANGED <<run, cut>>
  /\ UNCHANGED <<leak, stale, expired, busy>>
  /\ AgentFrame

\* Direct lane, top of the loop: the turn cap and the deadline are looked at
\* here and nowhere else.
TurnStart ==
  /\ pc = "turn"
  /\ IF turn = MaxTurns \/ expired
     THEN /\ run' = [run EXCEPT !.stop = IF turn = MaxTurns THEN "turn_cap" ELSE "wall_clock",
                                !.timedOut = TRUE]
          /\ cut' = "budget"
          /\ pc' = "collect"
          /\ UNCHANGED turn
     ELSE /\ turn' = turn + 1
          /\ pc' = "chat"
          /\ UNCHANGED <<run, cut>>
  /\ UNCHANGED <<leak, stale, expired, busy>>
  /\ AgentFrame

ChatReplies ==
  /\ \/ Goto("chat", "tool")    \* with tool calls
     \/ Goto("chat", "turn")    \* without: the model is told to continue
  /\ UNCHANGED <<leak, stale, turn, expired, run, cut, busy>>
  /\ AgentFrame

\* ProviderError ends the rollout; anything else, such as a success whose body is
\* no JSON, propagates.
ChatFails ==
  /\ Goto("chat", "collect")
  /\ \/ run' = [run EXCEPT !.stop = "provider_error", !.failed = TRUE]
     \/ run' = [run EXCEPT !.raising = TRUE]
  /\ cut' = "provider"
  /\ UNCHANGED <<leak, stale, turn, expired, busy>>
  /\ AgentFrame

\* The last tool call of the turn returned without ending the rollout; a shell
\* command may have left a process behind.
ToolReturns ==
  /\ Goto("tool", "turn")
  /\ busy' \in {busy, TRUE}
  /\ UNCHANGED <<leak, stale, turn, expired, run, cut>>
  /\ AgentFrame

\* done() was called, a disk budget was exceeded, or the call raised.
ToolEnds(how) ==
  /\ Goto("tool", "collect")
  /\ run' = CASE how = "done" -> [run EXCEPT !.stop = "done"]
              [] how = "resource" -> [run EXCEPT !.stop = "resource_limit", !.failed = TRUE]
              [] how = "raise" -> [run EXCEPT !.raising = TRUE]
  /\ busy' \in {busy, TRUE}
  /\ UNCHANGED <<leak, stale, turn, expired, cut>>
  /\ AgentFrame

(***************************************************************************)
(* CLI lanes.                                                              *)
(***************************************************************************)

\* handle_line sees the CLI's own usage-limit notice.
NoteLimit ==
  /\ pc = "exec"
  /\ run' = [run EXCEPT !.limit = TRUE]
  /\ cut' = "quota"
  /\ UNCHANGED <<leak, stale, pc, turn, expired, busy>>
  /\ AgentFrame

\* The lanes whose handle_line recognises a provider failure; Codex's keeps the
\* text of a failed turn for the error message only.
NotesFaults(l) == l \in {"claude", "opencode"}

\* The provider fails under the CLI, which says so in its output.
NoteProviderFailure ==
  /\ pc = "exec"
  /\ run' = [run EXCEPT !.fault = (@ \/ NotesFaults(lane))]
  /\ cut' = "provider"
  /\ UNCHANGED <<leak, stale, pc, turn, expired, busy>>
  /\ AgentFrame

\* The return code the lane sees.
ExitCode(how) ==
  CASE how = "exit" -> "zero"
    [] how \in {"fail", "term", "kill"} -> "nonzero"
    [] OTHER -> "none"

\* What the lane concludes from it: 124 and TimeoutExpired are time-outs.
Observed(how) ==
  [run EXCEPT !.code = ExitCode(how),
              !.timedOut = how \in {"term", "backstop"},
              !.stop = CASE how = "disk" -> "resource_limit"
                         [] how \in {"term", "backstop"} -> "wall_clock"
                         [] OTHER -> "done",
              !.failed = how # "exit",
              !.raising = how = "raise"]

ExecEnds(how) ==
  /\ Goto("exec", "collect")
  /\ MayEnd(how, expired)
  /\ run' = Observed(how)
  /\ cut' = IF how \in OverBudget /\ cut = "none" THEN "budget" ELSE cut
  /\ busy' \in BOOLEAN
  /\ UNCHANGED <<leak, stale, turn, expired>>
  /\ AgentFrame

-------------------------------------------------------------------------------
(***************************************************************************)
(* The finally block: vendor log, teardown, workspace and credentials.     *)
(***************************************************************************)
CollectVendorLog(found) ==
  /\ Goto("collect", "down")
  /\ Retain("vendor.log", found)
  /\ UNCHANGED <<meta, manifest, gradeVars, lane, turn, expired, run, cut, agentBox,
                 busy, home, result>>

\* Seeded error: the stack is left up for the grade, which tears it down.
TearDown_LeftToGrade(ok) ==
  /\ Goto("down", "return")
  /\ UNCHANGED <<storeVars, gradeVars, lane, turn, expired, run, cut, agentBox, busy,
                 home, result>>

\* Unless --keep, every container of the project is removed, and with the agent
\* container every process the participant left in it.
TearDown(ok) ==
  /\ Goto("down", "return")
  /\ Down(ok)
  /\ IF keep \/ ~ok THEN UNCHANGED <<agentBox, busy>>
                    ELSE agentBox' = FALSE /\ busy' = FALSE
  /\ UNCHANGED <<storeVars, gstep, grade, tree, keep, lane, turn, expired, run, cut,
                 home, result>>

\* Seeded error: an ownership repair that fails keeps both directories.
HomesAfterCleanup_AllOrNothing == IF keep THEN {home} ELSE {{}, home}

\* The credential directories left by _cleanup_ephemeral_agent_home: ownership
\* repair of the agent home may fail, provider-auth goes in any case.
HomesAfterCleanup ==
  IF keep THEN {home} ELSE {{}, home \ {"provider-auth"}}

\* The workspace is returned to the host and scrubbed, then (CLI lanes) the
\* credential directories are removed; a propagating exception leaves here.
ReturnWorkspace(found) ==
  /\ Goto("return", IF run.raising THEN "aborted" ELSE "extract")
  /\ Retain("agent.log", found)
  /\ home' \in HomesAfterCleanup
  /\ UNCHANGED <<meta, manifest, gradeVars, lane, turn, expired, run, cut, agentBox,
                 busy, result>>

-------------------------------------------------------------------------------
(***************************************************************************)
(* Settling the attempt.                                                   *)
(***************************************************************************)

\* The candidate diff, or the empty one when a leak is known, becomes the
\* patch; writing it can still find a secret.
ExtractDiff(found) ==
  /\ Goto("extract", "decide")
  /\ Retain("patch.diff", found /\ ~leak)
  /\ UNCHANGED <<meta, manifest, gradeVars, lane, turn, expired, run, cut, agentBox,
                 busy, home, result>>

\* git refuses the returned workspace.
ExtractRaises ==
  /\ Goto("extract", "aborted")
  /\ UNCHANGED <<gvars, lane, turn, expired, run, cut, agentBox, busy, home, result>>

\* Seeded error: only the usage limit withholds the grade.
Withheld_LimitOnly == lane # "direct" /\ run.limit

\* A rollout its provider cut off is not graded in the CLI lanes.
Withheld == lane # "direct" /\ (run.limit \/ run.fault)

Withhold ==
  /\ Goto("decide", "returned")
  /\ Withheld
  /\ LET stop == IF run.limit THEN "usage_limit" ELSE "provider_error"
     IN  /\ WriteMeta([meta EXCEPT !.status = stop, !.stop = stop, !.truncated = TRUE,
                                   !.resolved = FALSE, !.reward = NoScore,
                                   !.class = "provider_infrastructure_failure",
                                   !.failed = TRUE], leak)
         /\ result' = [resolved |-> FALSE, reward |-> NoScore, stop |-> stop,
                       class |-> "provider_infrastructure_failure"]
  /\ UNCHANGED <<leak, gradeVars, lane, turn, expired, run, cut, agentBox, busy, home>>

StartGrade ==
  /\ Goto("decide", "grading")
  /\ ~Withheld
  /\ gstep' = "patch"
  /\ UNCHANGED <<storeVars, grade, tree, vendors, keep, downFailed, lane, turn, expired,
                 run, cut, agentBox, busy, home, result>>

Grade ==
  /\ pc = "grading"
  /\ GradeStep
  /\ UNCHANGED rolloutVars

GradeRaised ==
  /\ Goto("grading", "aborted")
  /\ gstep = "raised"
  /\ UNCHANGED <<gvars, lane, turn, expired, run, cut, agentBox, busy, home, result>>

\* rollout_failure_class(): the reason the rollout stopped goes before the
\* class of its grade.
RolloutFailureClass(stop, gradeClass) ==
  CASE stop \in {"provider_error", "usage_limit"} -> "provider_infrastructure_failure"
    [] stop \in {"turn_cap", "wall_clock", "resource_limit"} -> "candidate_runtime_failure"
    [] OTHER -> gradeClass

\* Seeded error: the return code of the CLI is not consulted.
FinalClass_ByStop == RolloutFailureClass(run.stop, grade.class)

\* In the CLI lanes a nonzero exit that was no time-out is the candidate's.
FinalClass ==
  IF lane # "direct" /\ run.code = "nonzero" /\ ~run.timedOut
  THEN "candidate_runtime_failure"
  ELSE RolloutFailureClass(run.stop, grade.class)

\* Seeded error: the verdict's own claim is taken, scored or not.
FinalResolved_Legacy == grade.passed

FinalResolved == grade.solved

\* Seeded error: the direct lane pays a reward whoever stopped the rollout.
FinalReward_Always == grade.score

\* The direct lane grades a provider failure but pays no reward for it.
FinalReward ==
  IF lane = "direct" /\ FinalClass = "provider_infrastructure_failure"
  THEN NoScore ELSE grade.score

\* Seeded error: a leak is left to write_meta.
SecurityOutcome_Skipped(r) == r

\* _security_outcome(): a leak voids whatever the grade said.
SecurityOutcome(r) ==
  IF leak THEN [r EXCEPT !.resolved = FALSE, !.reward = NoScore,
                         !.class = "candidate_runtime_failure"]
          ELSE r

Truncated ==
  IF lane = "direct" THEN run.stop \in {"turn_cap", "wall_clock"} ELSE run.timedOut

Settle ==
  /\ Goto("grading", "returned")
  /\ gstep = "returned"
  /\ LET r == SecurityOutcome([resolved |-> FinalResolved, reward |-> FinalReward,
                               class |-> FinalClass, stop |-> run.stop])
     IN  /\ result' = r
         /\ WriteMeta([meta EXCEPT !.status = "done", !.stop = run.stop,
                                   !.truncated = Truncated, !.resolved = r.resolved,
                                   !.score = grade.score, !.reward = r.reward,
                                   !.class = r.class,
                                   !.failed = leak \/ run.failed \/ grade.failed], leak)
  /\ UNCHANGED <<leak, gradeVars, lane, turn, expired, run, cut, agentBox, busy, home>>

-------------------------------------------------------------------------------
(***************************************************************************)
(* What goes on beside the harness.                                        *)
(***************************************************************************)

\* A participant process that outlived the agent writes into the workspace the
\* grader has prepared.
ParticipantWrites ==
  /\ busy
  /\ tree = "patched"
  /\ tree' = "tampered"
  /\ UNCHANGED <<storeVars, gstep, grade, vendors, keep, downFailed, rolloutVars>>

VendorsLog == VendorActivity /\ UNCHANGED rolloutVars

Agent ==
  \/ TurnStart \/ ChatReplies \/ ChatFails \/ ToolReturns
  \/ \E how \in {"done", "resource", "raise"} : ToolEnds(how)
  \/ \E how \in Endings : ExecEnds(how)

Finally ==
  \/ \E found \in BOOLEAN : CollectVendorLog(found)
  \/ \E ok \in BOOLEAN : TearDown(ok)
  \/ \E found \in BOOLEAN : ReturnWorkspace(found)

Settling ==
  \/ \E found \in BOOLEAN : ExtractDiff(found)
  \/ ExtractRaises \/ Withhold \/ StartGrade \/ Grade \/ GradeRaised \/ Settle

Harness == Prepare \/ StackUp \/ SetupRaises \/ Agent \/ Finally \/ Settling

Environment ==
  \/ BudgetExpires \/ AgentLeaks \/ NoteLimit \/ NoteProviderFailure
  \/ ParticipantWrites \/ VendorsLog

Next == Harness \/ Environment

Spec == Init /\ [][Next]_vars

\* Where code of the participant runs and nothing of the harness limits its time:
\* the direct lane's agent_exec has no timeout (eval_core.py:182); a streamed call
\* reads on while any process holds its pipe (compose_unit.py:1696); the image of
\* the candidate is built, and its application run by the verifier, through a
\* subprocess.run without one (compose_unit.py:1446).
InParticipantCode ==
  pc \in {"tool", "exec"} \/ (pc = "grading" /\ gstep \in {"candidate_build", "verifier"})

\* The steps that are certain to be taken: the harness's own, where it waits for no
\* code of the participant.  Docker is taken to answer, and a chat is bounded by its
\* request timeout and five attempts.
Certain ==
  ~InParticipantCode /\ (Prepare \/ StackUp \/ SetupRaises \/ Agent \/ Finally \/ Settling)

FairSpec == Spec /\ WF_vars(Certain)

-------------------------------------------------------------------------------
(***************************************************************************)
(* Safety.                                                                 *)
(***************************************************************************)

\* A leaked secret never earns credit: not in terminal metadata at any moment,
\* the grader's own intermediate record included, and not in the result handed
\* to the caller (_security_outcome and write_meta).
LeakNeverCredited ==
  /\ leak /\ meta.status \in TerminalStatuses => ~meta.resolved /\ meta.reward = NoScore
  /\ leak /\ pc = "returned" => ~result.resolved /\ result.reward = NoScore

\* The caller and a reader of meta.json are told the same outcome.  The class of
\* a withheld rollout with a leak is the one field they may differ on: write_meta
\* turns it into the candidate's, the returned result does not.
ResultIsOnDisk ==
  pc = "returned" =>
    /\ result.resolved = meta.resolved
    /\ result.reward = meta.reward
    /\ result.stop = meta.stop
    /\ result.class = meta.class \/ (leak /\ Withheld)

\* A provider failure or usage limit the lane noticed is never a score: the
\* rollout is recorded as the provider's with no reward, and a CLI lane never
\* lets the grader touch its workspace.
ProviderFailureUnpaid ==
  pc = "returned" /\ (run.limit \/ run.fault \/ run.stop = "provider_error") =>
    /\ meta.reward = NoScore
    /\ leak \/ meta.class = "provider_infrastructure_failure"
    /\ lane # "direct" => tree = "agent" /\ gstep = "idle"

\* Unless --keep or a failed `compose down`, the participant is gone before its
\* diff is read, so that what is graded is the pristine tree with the patch, and
\* the grade's vendors are fresh ones (eval_core.py:432).
GradeIsIsolated ==
  ~keep /\ ~downFailed /\ pc \in {"extract", "decide", "grading"} =>
    /\ ~busy /\ ~agentBox
    /\ tree # "tampered"
    /\ gstep = "verifier" => vendors = "fresh"

\* A manifest hashes everything but the agent home and the workspace; without
\* --keep no credential directory it would hash exists once one is written.
EvidenceHasNoCredentials ==
  ManifestWritten /\ ~keep => home \subseteq {"agent-home"}

\* When the attempt is settled, its manifest describes the final metadata and
\* hashes every artifact as it is, unless vendors are still up and logging.
SettledManifestCurrent ==
  pc = "returned" =>
    /\ manifest = meta
    /\ vendors = "down" => stale = {}

\* A rollout that its budget really ended, in whichever lane and however the agent
\* died of it, is never recorded as an ordinary result of the candidate: not when
\* the CLI had to be killed, so that nothing says "timed out", and not when what it
\* left behind grades well (eval_core.py:1013).
BudgetIsNoResult ==
  pc = "returned" /\ cut = "budget" => meta.class # "candidate_result"

(***************************************************************************)
(* Step properties and refinement.                                         *)
(***************************************************************************)

\* Between the grade's terminal metadata and the attempt's own, credit is never
\* added: resolution and score can be confirmed or voided, not raised.
CreditOnlyShrinks ==
  [][meta.status \in TerminalStatuses =>
       /\ meta'.status \in TerminalStatuses
       /\ meta'.resolved => meta.resolved
       /\ meta'.score = meta.score]_meta

\* The attempt implements RolloutOutcome: published is the return of the result.
Outcome ==
  INSTANCE RolloutOutcome WITH
    Rewards  <- Scores,
    NoReward <- NoScore,
    stage    <- CASE pc = "returned" -> "published"
                  [] pc = "aborted" -> "abandoned"
                  [] OTHER -> "open",
    tainted  <- leak,
    faulted  <- run.limit \/ run.fault \/ run.stop = "provider_error",
    resolved <- pc = "returned" /\ meta.resolved,
    reward   <- IF pc = "returned" THEN meta.reward ELSE NoScore

\* Published once, never rewarded when tainted or faulted.
ImplementsOutcome == Outcome!Spec

\* The direct lane's part of an attempt; the CLI lanes take no turn.
LoopStop ==
  IF lane # "direct" THEN "none" ELSE IF run.raising THEN "crashed" ELSE run.stop

LoopStage ==
  CASE lane = "direct" /\ pc \in {"chat", "tool"} -> pc
    [] pc \notin {"chat", "tool"} /\ LoopStop # "none" -> "over"
    [] OTHER -> "turn"

LoopExpired == expired /\ lane = "direct"

Loop == INSTANCE TurnLoop WITH stage <- LoopStage, expired <- LoopExpired, stop <- LoopStop

\* The turn loop of an attempt is the one whose transcript DirectLoop follows: it has
\* the same limits, looked at in the same order, and ends for the same reasons, which
\* stay what they were while the attempt is torn down, graded and settled.
FollowsTurns == Loop!TurnSpec

(***************************************************************************)
(* Liveness, under FairSpec.                                               *)
(***************************************************************************)

\* Every attempt ends, unless it waits for ever for code of the participant: for
\* the agent, or for the candidate that is built and run to grade it.
EndsUnlessCodeHangs == <>(pc \in {"returned", "aborted"}) \/ <>[]InParticipantCode

\* Once the agent has stopped, its container goes away, unless --keep or a
\* `compose down` that failed.
AgentIsTornDown == pc = "collect" ~> (~agentBox \/ keep \/ downFailed)

\* An attempt does not linger: neither its process nor its agent.
RolloutEnds == EndsUnlessCodeHangs /\ AgentIsTornDown

(***************************************************************************)
(* What the repository says and the code does not do.                      *)
(***************************************************************************)

\* eval_core.py:53: a rollout cut off by its budget is marked truncated.
CutByBudgetIsTruncated == pc = "returned" /\ cut = "budget" => meta.truncated

\* grading_core.py:69: an unavailable host dependency is not turned into a
\* candidate's score.
InfrastructureFaultUnpaid ==
  pc = "returned" /\ grade.class = "benchmark_infrastructure_failure" =>
    meta.class \in BenchmarkOwned \/ meta.reward = NoScore

===============================================================================
