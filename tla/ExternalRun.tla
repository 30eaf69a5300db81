------------------------------ MODULE ExternalRun ------------------------------
(***************************************************************************)
(* bench run (run_once in harness/bench/commands/rollout_core.py): the     *)
(* vendors of a task are started, a command of the host works on the       *)
(* workspace until it exits or its time is up, and what it left behind is  *)
(* extracted as a patch, ungraded.                                         *)
(*                                                                         *)
(* The command runs in a shell, and a timeout kills the shell alone, so    *)
(* its children may go on editing the workspace.  No runtime secret is     *)
(* registered for such an attempt: nothing is ever found in an artifact.   *)
(***************************************************************************)
EXTENDS EvalStore, Integers

CONSTANT MaxEdits   \* bound on the edits explored

ASSUME EditsAssumption == MaxEdits \in Nat \ {0}

VARIABLES
  phase,       \* what run_once does next; "returned" and "raised" end it
  keep,        \* --keep
  containers,  \* the vendors' Compose project
  agent,       \* the command: "idle", "running", "gone", or "outlived" by a child
  tree,        \* edits made in the workspace
  patch,       \* what patch.diff and the prediction hold: the edits extracted
  ending       \* returncode, timed_out, runtime_error and resource_error

work    == <<agent, tree, ending>>
host    == <<keep, containers, patch>>
externalVars    == <<storeVars, phase, work, host>>

NoPatch == -1

Ended == {"returned", "raised"}

OutcomeType ==
  [code : {"none", "ok", "bad"}, timedOut : BOOLEAN,
   fault : {"none", "runtime", "disk", "raising"}]

ExternalInit ==
  /\ StoreInit
  /\ phase = "provenance"
  /\ keep \in BOOLEAN
  /\ containers = "none"
  /\ agent = "idle"
  /\ tree = 0
  /\ patch = NoPatch
  /\ ending = [code |-> "none", timedOut |-> FALSE, fault |-> "none"]

Step(from, to) == phase = from /\ phase' = to

-------------------------------------------------------------------------------
(***************************************************************************)
(* Before the command.                                                     *)
(***************************************************************************)
InfrastructureError(m) ==
  WriteMeta([m EXCEPT !.status = "error", !.class = "benchmark_infrastructure_failure",
                      !.failed = TRUE], leak)

Captured ==
  /\ Step("provenance", "workspace")
  /\ WriteMeta([meta EXCEPT !.status = "running", !.provenance = TRUE], leak)
  /\ UNCHANGED <<leak, work, host>>

\* The images cannot be resolved: provenance without them is recorded before the
\* exception goes on.  It goes on alone if that cannot be captured either.
ProvenanceFails ==
  /\ Step("provenance", "raised")
  /\ \/ InfrastructureError([meta EXCEPT !.provenance = TRUE])
     \/ UNCHANGED <<meta, manifest, stale>>
  /\ UNCHANGED <<leak, work, host>>

\* Nothing records that the workspace could not be projected.
Prepared ==
  /\ Step("workspace", "vendors") \/ Step("workspace", "raised")
  /\ UNCHANGED <<storeVars, work, host>>

VendorsUp ==
  /\ Step("vendors", "command")
  /\ containers' = "up"
  /\ UNCHANGED <<storeVars, work, keep, patch>>

\* The stack of a failed start is out of reach: nobody takes it down.
VendorsFail ==
  /\ Step("vendors", "raised")
  /\ containers' \in {"none", "partial"}
  /\ InfrastructureError(meta)
  /\ UNCHANGED <<leak, work, keep, patch>>

-------------------------------------------------------------------------------
(***************************************************************************)
(* The command.                                                            *)
(***************************************************************************)
CommandStarts ==
  /\ phase = "command" /\ agent = "idle"
  /\ agent' = "running"
  /\ UNCHANGED <<storeVars, phase, host, tree, ending>>

\* The environment cannot be made up, and the exception passes the finally
\* clause; or subprocess.run raises, and the exception is kept for later.
CommandCannotRun ==
  /\ agent = "idle"
  /\ \/ Step("command", "teardown") /\ ending' = [ending EXCEPT !.fault = "raising"]
     \/ Step("command", "disk") /\ ending' = [ending EXCEPT !.fault = "runtime"]
  /\ UNCHANGED <<storeVars, host, agent, tree>>

\* The command edits the workspace, and so may a child that outlives it.
Edits ==
  /\ agent \in {"running", "outlived"} /\ tree < MaxEdits
  /\ tree' = tree + 1
  /\ UNCHANGED <<storeVars, phase, host, agent, ending>>

CommandExits ==
  /\ agent = "running" /\ Step("command", "disk")
  /\ agent' \in {"gone", "outlived"}
  /\ \E code \in {"ok", "bad"} : ending' = [ending EXCEPT !.code = code]
  /\ UNCHANGED <<storeVars, host, tree>>

\* Seeded error: time is not limited.
CommandTimesOut_Never == FALSE /\ UNCHANGED externalVars

CommandTimesOut ==
  /\ agent = "running" /\ Step("command", "disk")
  /\ agent' \in {"gone", "outlived"}
  /\ ending' = [ending EXCEPT !.timedOut = TRUE]
  /\ UNCHANGED <<storeVars, host, tree>>

\* assert_participant_disk_budget: within it, over it, or not to be measured.
DiskMeasured ==
  /\ Step("disk", "teardown")
  /\ \E f \in {ending.fault, "raising"}
                \union (IF ending.fault = "runtime" THEN {} ELSE {"disk"}) :
       ending' = [ending EXCEPT !.fault = f]
  /\ UNCHANGED <<storeVars, host, agent, tree>>

-------------------------------------------------------------------------------
(***************************************************************************)
(* After the command.                                                      *)
(***************************************************************************)
AfterTeardown == IF ending.fault = "raising" THEN "raised" ELSE "extract"

\* Seeded error: an exception that goes on skips the teardown.
Teardown_NoFinally ==
  /\ Step("teardown", AfterTeardown)
  /\ Retain("vendor.log", FALSE)
  /\ containers' \in (IF keep \/ ending.fault = "raising" THEN {containers} ELSE {"none", "left"})
  /\ UNCHANGED <<meta, manifest, work, keep, patch>>

\* The finally clause.  Neither logs that cannot be had nor a docker compose
\* down that fails is noticed.
Teardown ==
  /\ Step("teardown", AfterTeardown)
  /\ Retain("vendor.log", FALSE) \/ UNCHANGED <<leak, stale>>
  /\ containers' \in (IF keep THEN {containers} ELSE {"none", "left"})
  /\ UNCHANGED <<meta, manifest, work, keep, patch>>

\* extract_diff, or the exception of a git that fails, which nothing records.
Extract ==
  /\ \/ Step("extract", "settle") /\ patch' = tree /\ Retain("patch.diff", FALSE)
     \/ Step("extract", "raised") /\ UNCHANGED <<patch, leak, stale>>
  /\ UNCHANGED <<meta, manifest, work, keep, containers>>

\* Seeded error: whatever went wrong, the candidate did it.
ClassOf_CandidateFirst ==
  IF ending.timedOut \/ ending.fault # "none" \/ ending.code = "bad"
  THEN "candidate_runtime_failure" ELSE "ungraded_rollout"

\* Seeded error: a timeout gets a class no consumer of the metadata knows.
ClassOf_Timeout ==
  CASE ending.fault = "runtime" -> "benchmark_infrastructure_failure"
    [] ending.fault # "runtime" /\ ending.timedOut -> "candidate_timeout"
    [] OTHER -> "ungraded_rollout"

ClassOf ==
  CASE ending.fault = "runtime" -> "benchmark_infrastructure_failure"
    [] ending.fault # "runtime"
         /\ (ending.timedOut \/ ending.fault = "disk" \/ ending.code = "bad")
       -> "candidate_runtime_failure"
    [] OTHER -> "ungraded_rollout"

\* Seeded error: the run is settled before its patch is on disk.
Settle_PatchLast ==
  /\ IF ending.fault = "runtime" THEN Step("settle", "raised") ELSE Step("settle", "returned")
  /\ meta' = [meta EXCEPT !.status = IF ending.fault = "runtime" THEN "error" ELSE "done",
                          !.class = ClassOf, !.failed = ending.fault # "none"]
  /\ manifest' = meta' /\ stale' = {"patch.diff"}
  /\ UNCHANGED <<leak, work, host>>

\* The final metadata; the exception that was kept is raised after it.
Settle ==
  /\ IF ending.fault = "runtime" THEN Step("settle", "raised") ELSE Step("settle", "returned")
  /\ WriteMeta([meta EXCEPT !.status = IF ending.fault = "runtime" THEN "error" ELSE "done",
                            !.class = ClassOf, !.failed = ending.fault # "none"], leak)
  /\ UNCHANGED <<leak, work, host>>

\* run_once itself, the command's time limit included.
Main ==
  \/ Captured \/ ProvenanceFails \/ Prepared \/ VendorsUp \/ VendorsFail
  \/ CommandStarts \/ CommandCannotRun \/ CommandTimesOut \/ DiskMeasured
  \/ Teardown \/ Extract \/ Settle

ExternalNext == Main \/ Edits \/ CommandExits

ExternalSpec == ExternalInit /\ [][ExternalNext]_externalVars

\* Each of these steps ends: git and docker are waited for, and the time of the
\* command is limited.  The command itself need never exit.
FairExternalSpec == ExternalSpec /\ WF_externalVars(Main)

-------------------------------------------------------------------------------
(***************************************************************************)
(* Correctness.                                                            *)
(***************************************************************************)

\* The attempt directory of an external run, and what run_once knows.
ExternalTypeOK ==
  /\ StoreTypeOK /\ ~leak
  /\ phase \in {"provenance", "workspace", "vendors", "command", "disk", "teardown", "extract",
             "settle"} \union Ended
  /\ keep \in BOOLEAN
  /\ containers \in {"none", "partial", "up", "left"}
  /\ agent \in {"idle", "running", "gone", "outlived"}
  /\ tree \in 0..MaxEdits /\ patch \in -1..MaxEdits
  /\ ending \in OutcomeType

\* run_once returns only after a manifest over the final metadata and every
\* artifact, and says "done" exactly if there is a patch of a command that ran.
ReturnedIsSettled ==
  phase = "returned" =>
    /\ meta.status = "done" /\ manifest = meta /\ stale = {}
    /\ patch # NoPatch /\ agent # "idle"

\* Who is to blame: a candidate only where its command ran, and a run whose
\* command never did is not one to be graded.
BlameNeedsCommand ==
  (phase \in Ended /\ agent = "idle") =>
    meta.class \in {NoClass, "benchmark_infrastructure_failure"}

\* However the run ends, the vendors of a run that got them are not left running
\* unless --keep asked for it or docker compose down itself failed.
VendorsTornDown == (phase \in Ended /\ ~keep) => containers # "up"

\* An attempt ends although its command does not.
RunEnds == <>(phase \in Ended)

\* What run_once owes to those who read its attempt directory, and to the host.
RunCorrect ==
  /\ ExternalTypeOK
  /\ ReturnedIsSettled
  /\ BlameNeedsCommand
  /\ VendorsTornDown

===============================================================================
