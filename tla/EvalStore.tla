------------------------------- MODULE EvalStore -------------------------------
(***************************************************************************)
(* The artifact directory of one attempt (harness/bench/eval_output.py and *)
(* run_manifest.py): the metadata file meta.json, the redaction state of   *)
(* the process that owns the directory, and the run manifest that is       *)
(* rebuilt whenever terminal metadata is written.                          *)
(*                                                                         *)
(* This module holds the operations; Grading and EvalRollout call them.    *)
(* The text of an artifact is abstracted to the one fact the harness       *)
(* reacts to: whether a registered runtime secret was found while it was   *)
(* being written.  meta.json never finds a new one: every free text the    *)
(* harness puts there has been through the agent log, the transcript or    *)
(* verdict.json first.                                                     *)
(***************************************************************************)
EXTENDS Naturals

CONSTANTS
  Scores,   \* the task scores the scorer can return, in percent
  NoScore   \* None: no task score, no reward

ASSUME ScoresAssumption ==
  /\ Scores \subseteq 0..100
  /\ 0 \in Scores
  /\ NoScore \notin Scores

VARIABLES
  meta,      \* the content of meta.json
  leak,      \* secret_leak_detected: a registered secret was redacted
  manifest,  \* the metadata run-manifest.json was built from
  stale      \* artifacts written since the manifest hashed them

storeVars == <<meta, leak, manifest, stale>>

(***************************************************************************)
(* Vocabulary.                                                             *)
(***************************************************************************)
TerminalStatuses == {"done", "error", "patch_failed", "provider_error", "usage_limit"}

Statuses == TerminalStatuses \union {"created", "running", "grading"}

StopReasons ==
  {"done", "turn_cap", "wall_clock", "resource_limit", "provider_error", "usage_limit"}

NoStop == "none"

BenchmarkOwned ==
  {"benchmark_infrastructure_failure", "benchmark_verifier_failure",
   "benchmark_scoring_failure"}

CandidateOwned ==
  {"candidate_result", "candidate_runtime_failure", "candidate_build_failure",
   "candidate_patch_failure"}

ProviderOwned == {"provider_infrastructure_failure"}

\* bench run grades nothing: "ungraded_rollout" is nobody's failure.
FailureClasses ==
  BenchmarkOwned \union CandidateOwned \union ProviderOwned \union {"ungraded_rollout"}

NoClass == "none"

\* Files and directories below the attempt that a manifest hashes.
Artifacts ==
  {"agent.log", "patch.diff", "verdict.json", "vendor.log", "vendor-logs"}

MetaType ==
  [status     : Statuses,
   provenance : BOOLEAN,                          \* provenance recorded?
   stop       : StopReasons \union {NoStop},
   truncated  : BOOLEAN,
   resolved   : BOOLEAN,
   score      : Scores \union {NoScore},
   reward     : Scores \union {NoScore},          \* times 100
   class      : FailureClasses \union {NoClass},
   failed     : BOOLEAN]                          \* is "error" non-null?

StoreTypeOK ==
  /\ meta \in MetaType
  /\ leak \in BOOLEAN
  /\ manifest \in MetaType
  /\ stale \subseteq Artifacts

\* EvalDir.create: a fresh directory whose metadata only says "created".
CreatedMeta ==
  [status |-> "created", provenance |-> FALSE, stop |-> NoStop, truncated |-> FALSE,
   resolved |-> FALSE, score |-> NoScore, reward |-> NoScore, class |-> NoClass,
   failed |-> FALSE]

\* CreatedMeta stands for "no manifest yet": it is never terminal.
ManifestWritten == manifest.status # "created"

StoreInit ==
  /\ meta = CreatedMeta
  /\ leak = FALSE
  /\ manifest = CreatedMeta
  /\ stale = {}

-------------------------------------------------------------------------------
(***************************************************************************)
(* Writing an artifact through _redact_text or _redact_bytes.              *)
(***************************************************************************)

\* The registered secrets are replaced and the location is remembered.
Redact(found) == leak' = (leak \/ found)

Touch(a) == stale' = IF ManifestWritten THEN stale \union {a} ELSE stale

Retain(a, found) ==
  /\ Redact(found)
  /\ Touch(a)

(***************************************************************************)
(* EvalDir.write_meta.  m is the merged metadata, lk whether a leak is     *)
(* known by the time it is rendered.                                       *)
(***************************************************************************)

\* A known leak overrides whatever the caller wanted to record.
Sealed(m, lk) ==
  IF lk THEN [m EXCEPT !.resolved = FALSE, !.reward = NoScore,
                       !.class = "candidate_runtime_failure", !.failed = TRUE]
        ELSE m

\* Seeded error: only the first terminal metadata builds a manifest.
Finalize_Once(m) ==
  IF m.status \in TerminalStatuses /\ m.provenance /\ ~ManifestWritten
  THEN manifest' = m /\ stale' = {}
  ELSE UNCHANGED <<manifest, stale>>

\* Terminal metadata with provenance rebuilds the manifest over every artifact.
Finalize(m) ==
  IF m.status \in TerminalStatuses /\ m.provenance
  THEN manifest' = m /\ stale' = {}
  ELSE UNCHANGED <<manifest, stale>>

\* Seeded error: the manifest is built before the leak has sealed the metadata.
WriteMeta_ManifestFirst(m, lk) ==
  /\ meta' = Sealed(m, lk)
  /\ Finalize(m)

WriteMeta(m, lk) ==
  /\ meta' = Sealed(m, lk)
  /\ Finalize(Sealed(m, lk))

===============================================================================
