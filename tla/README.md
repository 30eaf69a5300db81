# Specification of the integration benchmark harness

These modules specify `src/harness/bench`, the harness that lets a participant
agent work on an integration task, grades what it wrote against simulated
vendors, and publishes a score. The program's answer is a number people compare
agents by, so the question behind every property is the same: can a run be paid
that should not be, be charged to the wrong party, or leave evidence that does
not match its result?

Paths below are relative to `src/harness/bench` unless they begin with `src/`.

## 1. Inventory

| Component | State it keeps | Operations | Talks to | What is hard | What makes it correct |
|---|---|---|---|---|---|
| Attempt directory (`eval_output.py`, `run_manifest.py`) | `meta.json`, retained artifacts, the redaction flag of the process, `run-manifest.json` | `create`, `append_*`, `write_*`, `write_meta`, `write_run_manifest` | every lane, the grader | terminal metadata is written by several writers, artifacts after it; a leak is found in the middle of a write | a known leak voids credit whoever writes; the last manifest describes the last state |
| Grading (`commands/grading_core.py`) | phase, verdict, failure class, score | `grade_once` | attempt directory, compose stack, scorer, workspace | a phase may raise anywhere; ownership of the failure; teardown and publication happen all the same | what is resolved was verified; host faults stay the host's; a leaked patch never runs |
| Evaluation lanes (`commands/eval_core.py`) | rollout flags (stop reason, limits, return code), credential directories, result | `eval_once`, `eval_claude_code_once`, `eval_codex_once`, `eval_opencode_once` | stack, provider, CLI stream, grading | budgets, provider failures, leftover processes, exceptions in any step, two writers of terminal metadata | provider failures are unpaid, the grade is isolated from the participant, credit only shrinks |
| Scoring (`scoring.py`, `verdict.py`, `verifier/checks.py`) | recorded checks in four buckets | `check`, `dedupe`, `raw_score`, `task_score`, `solved`, `validate_scoring` | grading, validation | repeats, omissions, order, penalties, two sources of the mandatory flag | bailing out never pays, repeats count once, labels do not score |
| Compose stack and agent exec (`compose_unit.py`, `health.py`, `ports.py`, `compose.py`) | project, override file, published ports, agent containers | `up`, `down`, `recreate_vendor`, `cleanup_override_file`, `stop_service`, `agent_exec`, `agent_exec_stream` | Docker | watchdog thread against the reader, ports that move, teardown that fails silently | a rollout ends at its budget, an endpoint in use is the current one, the status returned is the command's |
| Agent homes (`compose_unit.py`) | the operator's profile and Keychain, one home per rollout, the registered secrets | `_claude_code_agent_extras`, `_codex_agent_extras`, `_opencode_agent_extras` | operator, CLI in the container, attempt directory | the profile is read three times while other rollouts and the operator write it; tokens expire between look and copy | a home gets live credentials, all of them registered and billed as recorded; nothing flows back |
| External-agent run (`commands/rollout_core.py`, `agent_vendors.py`) | an attempt directory, a vendor stack, a workspace | `run_once` | attempt directory, stack, a command of the host | a timeout kills the shell and not its children, exceptions in every step | a returned run is settled, blame needs a command that ran, vendors go away |
| Batches and exit codes (`commands/run_all.py`, `commands/grade_all.py`, `cli.py`) | a shelf of predictions, a results file | `run_all`, `grade_all`, `main` | `run_once`, grading | one of many raises, an interrupt, which of many predictions is meant | one line per task, predictions stay, gold is a default only |
| Task validation (`commands/validate.py`, `scoring_status.py`, `stub.py`) | probe results, baseline | `validate_task`, `_grade_probe`, `build_baseline_sidecar` | grading, scoring | an infrastructure failure looks like a red probe | only verified probes decide; retries are bounded |
| Static lint (`commands/validate_suite.py`) | none | evidence tracer, clone rules over files | files | an abstract interpretation with a depth cap, shared names and recursion | a task is reported only if none of its checks rests on evidence |
| Provider client (`providers.py`) | the transcript its caller resends | `chat` with retries, message conversion | HTTP | retries against the budget, made-up call ids, bodies that do not parse | what is sent is well formed, the budget is overrun by one chat at most |
| Provider gateway (`provider_gateway.py`) | one thread per request | `_forward` | upstream provider | the upstream fails after the response began | exactly one response per request |
| Egress proxy (`egress_proxy.py`) | tunnels | CONNECT, `relay_sockets` | sockets | two directions on one thread | bytes arrive in order until either side closes |
| Conduct rules (`verifier/logs.py`, `verifier/builtin_l2.py`) | none | classification of vendor request and token logs | scenarios | order, bursts and boundaries of windows in logs | the rule fires on violating logs, silence proves nothing, a correct connector is never flagged |
| Scenario runtime (`verifier/context.py`, `scenario_loader.py`, `control_client.py`, `io.py`, `_scenario_util.py` of the tasks) | modules and search path of the process, vendor switches, store, output | load, arm, recreate, run, read | stack, scorer | one process grades many tasks: what is left of an earlier one | what a scenario meets and reads is its own |
| Workspace (`workspace.py`) | the repository tree, its index and commits | stage, `extract_diff`, `prepare_pristine_repo`, `apply_patch` | git | a participant that commits, resets and writes on, text against bytes | what is graded is what was left |
| Provenance, images (`provenance.py`, `images.py`) | none | capture, resolve, digest check | Docker, git | mutable tags between resolution and start, a busy daemon | a locked attempt runs its record, records tell runs apart |
| Configuration, credentials (`config.py`, `credentials.py`), SQLite export (`canonical_sqlite.py`) | none | parsing, serialisation | – | – | – |

How an attempt goes through them: a lane creates the attempt directory, starts
the stack with vendors and an agent container, lets the agent work, tears the
stack down, extracts a diff, calls the grader on the same directory and the same
Compose project, and rewrites the metadata the grader left. Shared state is the
directory, the containers and the workspace; the only true concurrency is
between the harness process, the containers' processes, and the clock.

The hazards that follow from this, at their lines, are listed in `PROJECT.json`.

## 2. Modules

```
EvalStore            attempt directory: write_meta, redaction, manifest
  Grading            grade_once                -> GradingProofs
    EvalRollout      the four lanes            -> EvalRolloutProofs
                     (with ExecEndings, the endings of a CLI)
      RolloutOutcome   (abstract) what an attempt promises
      TurnLoop         (abstract) the turn loop of the direct lane
  ExternalRun        run_once on a host        -> AgentProofs
AgentHome            credentials of the agents -> AgentHomeProofs
Scorer               dedupe, gold projection, task score (operators)
  Scoring            recorder and scorer       -> ScoringProofs
    CheckBoard         (abstract) what the scorer promises
  ValidateGauntlet   bench validate, sidecar   -> ScoringProofs
AgentExecStream      one streamed exec         -> AgentProofs
  ExecCall             (abstract) the call the lanes make, over ExecEndings
ComposeStack         up, recreate, down        -> NetworkProofs
EgressTunnel         one proxied connection    -> NetworkProofs
DirectLoop           transcript and retries, implements TurnLoop
                                               -> AgentProofs
PredictionBatch      run-all, grade-all, exits -> AgentProofs
ConductRules         the rules over logs (operators)
  ConductLog         a request log that grows  -> VerifierProofs
TokenPacing          the rule on re-authentication against a
                     correct connector         -> VerifierProofs
Workspace            starter repository to graded tree
                                               -> MaterialProofs
Provenance           records and runs          -> MaterialProofs
ScenarioRuntime      gradings in one process   -> VerifierProofs
EvidenceTracer       the vacuity rule of validate-suite
MCEvidenceTracer     model values for one module
MCEvalRollout        EvalRollout | its Grading alone
MCScoring            Scoring | ValidateGauntlet
MCAgent              AgentExecStream | DirectLoop | ExternalRun | PredictionBatch
                     | AgentHome
MCNetwork            ComposeStack | EgressTunnel
MCMaterial           Workspace | Provenance
MCVerifier           ConductLog (paced) | ConductLog (traffic) | TokenPacing | ScenarioRuntime
```

The modules share state where the program does: a standalone grade, a lane and
an external run are writers of one `EvalStore`; a lane runs the actions of
`Grading`; validation and recorder use one `Scorer`. Elsewhere one module's step
is another one's inside: `down` and `up` are one step of `Grading`,
`EvalRollout` and `ExternalRun` and a protocol in `ComposeStack`; the command of
a CLI lane is one step of `EvalRollout` and `AgentExecStream` is its inside, a
refinement that is checked and proved (`ImplementsCall`); a chat is one step there
and a retry loop in `DirectLoop`, and both follow one `TurnLoop` (`FollowsTurns`,
`ImplementsTurns`); the start of an agent is one step there and `AgentHome` its
first half; a task of a batch is one step of `PredictionBatch` and a run of
`ExternalRun` or `Grading`.

The last six modules put components that stand at the same place of an attempt
beside each other. These share no state (but for `MCEvalRollout`, whose second part
is the grade of the first without a lane), so nothing is gained by interleaving
them: a variable `part` says in the initial state of which one a behaviour is,
the others rest in one initial state, and each keeps its own fairness while it is
the one that runs. What is checked of one of them is thus what would be checked
of it alone, under the one configuration of the run. The module before them only
gives values to the constants of one.

### EvalStore

`meta` is the part of `meta.json` the program decides on; `leak` is
`secret_leak_detected`; `manifest` is the metadata the run manifest was built
from; `stale` holds the artifacts written after it. The text of an artifact is
abstracted to one bit, whether a registered secret was found while it was
written, because that is all the harness reacts to. `WriteMeta` is
`EvalDir.write_meta`: seal (`Sealed`), then rebuild the manifest if the status is
terminal and provenance is known (`Finalize`). A crash inside one write is below
this granularity.

### Grading

One action for each stretch of `grade_once` that ends at a call which can raise:
the patch is submitted, rejected or accepted; provenance; the four phases
(`compose_render`, `candidate_build`, `benchmark_startup`, `verifier`), each of
which can fail with one of the faults `failure_class_for_exception`
distinguishes; the `finally` with its vendor log and `down`; and scoring with
publication. `tree` says what the workspace holds and `vendors` whether the
running vendors are fresh. `Down` may leave containers behind, because
`stack.down()` ignores Docker's exit status.

### AgentHome

Several rollouts prepare their homes at once. `doing` is where each is:
`LookAtFile`, `ReadKeychain`, `Truncate` and `WriteSeed` are the seeding of the
Claude profile on macOS, `CheckFile`, `Register` and `Copy` the three reads of the
profile, `TakeKey` the single one of OpenCode, `Own` the container that hands
the home to the agent. A credential is its kind and its token; a token is when
it ends and whether it was issued to the host or to an agent, which the code
cannot see. Beside the rollouts time passes, the operator logs in and out, and
agents renew the token of their home. Two variables are history: `since`, when a
rollout looked at the profile first, and `disturbed`, the rollouts during whose
reads another wrote the profile. The code takes no lock, so its promises are
made to the others, and the properties say so (`Given`).

### EvalRollout

`pc` follows the eval function. The direct lane is a turn loop (`turn`, `chat`,
`tool`), the CLI lanes one streamed command (`exec`) with the endings of
`agent_exec_stream`. After the agent stops, all lanes run the same steps:
collect the vendor log, tear down, return the workspace and remove credentials,
extract the diff, withhold or grade (the actions of `Grading`), settle. Beside
the harness, the budget expires, the provider fails, secrets leak into logs,
leftover processes write, and vendors keep logging. `cut` is a history variable:
what really ended the agent, which the code itself never knows.

`RolloutOutcome` is the promise without the protocol: an attempt is open, then
published once or abandoned; tainted or faulted attempts are published without a
reward. `EvalRollout` implements it under the mapping in `Outcome`.

`TurnLoop` is the loop of the direct lane as both `EvalRollout` and `DirectLoop`
have to have it: a turn begins inside both limits, a chat or a call of a tool
ends it or goes on, and the reason for which the loop ended stays what it was.
Under the mapping in `Loop` an attempt in a CLI lane takes no turn.

### Scoring

The pure part is in `Scorer`. `Record` is `CheckRecorder.check` (the legacy
methods are the same with fixed values); `Worst`, `RawScore`, `Solved`, `TaskScore` and `GoldAccepted` are
`dedupe`, `checks_against_gold` with `raw_score`, `solved`, `task_score` and
`validate_scoring`. A gold manifest is given by name, that is, after dedupe. The
values a candidate's own record carries are left out: the projection onto gold
does not look at them. The score is in whole percent, rounded down. `log` is a
history variable, the checks in the order they came.

`CheckBoard` is the promise to a task author: a name is seen to hold or seen
broken, broken is for good, and credit needs every required name held.

### AgentExecStream

Two threads of the harness, the reader of the output (`pc`) and the watchdog
(`timer`), the docker client, the command in the container under its own
`timeout`, and `helper`, a second process that may hold the pipe. `clock` passes
the three deadlines in order. `Progress` is the reader: next line, end-of-file,
`wait`, disk check, and the `finally`. A callback may raise, and an interrupt
may come, at any line.

`ExecEndings` lists the seven endings a lane distinguishes, and which of them only
a used up budget brings about (`MayEnd`). `EvalRollout` takes them for granted in
`ExecEnds`. `ExecCall` is the abstract call that ends in one of them, and
`AgentExecStream` implements it with `expired <- clock >= 1`, `shown <- handed` and
`EndedHow`, which maps an outcome and an exit status to an ending.

### DirectLoop

The turn loop of `eval_once` with its transcript. A message is its role, its
call ids and the id it answers. `TransportFails`, `HttpError` and
`UnreadableBody` are the ends of a request in `_chat_once`; `Replied` makes up
ids where the provider sends none (`call_0`, `call_1`, the same in every turn).
`ToAnthropic` and `ToResponses` are the two conversions, as folds. In `TurnLoop`
the requests of a chat are one step (`LoopStage`), and so is every call but the
last of a turn.

### ValidateGauntlet

`GradeCounts` and `GradeFails` are a grade inside `_grade_probe`, with its
retries; `Report` is the rest of `validate_task`: the gates, the table of checks
(`Rows`), drift and the sidecar. A verdict is the sequence of checks it
recorded; `Payload` and `Manifest` are the writer of the sidecar and the reader,
`build_baseline_sidecar` and `gold_from_sidecar`. `CandidateVerdict` is what a probe other than gold may come
back with. The task may be validated
again, with the sidecar of the first time beside its verifier.

### ExternalRun

One action for each stretch of `run_once` that ends at a call which can raise.
`Edits` is the command at work, and a child of it after the shell was killed.
The tree and the patch are counts of edits: what matters is when the patch was
taken.

### PredictionBatch

`shelf` holds the predictions of a task by the random ends of their names;
`BatchStep` is one task of `run_all` or `grade_all` with what it may raise;
`ReportResult` and `Raises` are the exit codes of `cli.py`.

### ConductRules, ConductLog, TokenPacing

A rule is an operator from a log to the positions that violate it, written as
the single pass the code makes; `ConductLog` lets a connector produce any log of
bounded length and compares each rule with a definition that quantifies over the
log. `TokenPacing` turns the question round: a connector that never mints
without need, restarts and early expiries included, against the ceiling of
`excess_token_mints`.

### EgressTunnel

Both peers, the one thread of the proxy, and the buffers between them. `ready`
is what `select` returned, `held` what a blocking `sendall` has still to pass
on. Order is that of counts: a unit is unread, in hand, queued, read, or lost
with the headers it came with.

### ComposeStack

An operation goes through `compose`, `discover`, `refresh`, `check` and `poll`,
and containers change under it: created, published, ready, dead. A recreated
container has a new port. `answered` and `honest` are history variables.

### Workspace

Work tree, index, HEAD and the tag `bench-baseline`. The participant edits, stages,
commits, resets and moves or deletes the tag, before and while its work is
extracted. `git add -A` is no single step: `BeginAdd` lists what it has to read,
and `ReadFile` reads one path after the other while files are written beside it.
It holds `index.lock` meanwhile, so that the commands of others that change the
index come before it or after it; a lock of theirs, a listed file that is gone
and a missing tag make it raise (`ExtractFails`). `left` is the work tree as it
began, `touched` the paths that were written before they were read, or in the
index before the diff: both are history. File contents are of three kinds, told
apart by what decoding git's output as text makes of them: unchanged, altered,
binary. The participant leaves git's own configuration, attributes and hooks alone.

### Provenance

The attempts run one after another; an owner of the machine edits, builds,
pulls and removes between any two of their steps. `record` is what an attempt
says of itself, `ran` what it ran, `steady` the attempts nobody disturbed.

### ScenarioRuntime

What one grading process carries from task to task, `sys.modules` and
`sys.path`, and what one grading carries from scenario to scenario: `vendor_envs`
and the rendered compose file, the running container, the store, a service. An
output reaches the host late and in parts (`Sync`).

### EvidenceTracer

An author writes a scenario, a statement at a time. `assigns` is what the tracer
collects from the source and `Kinds` the labels it gives to an expression;
`value` and `DependsOn` are what Python would compute the value from.

## 3. Runs

| Run | Asks | Bounds | Distinct states |
|---|---|---|---|
| `eval_rollout` | Can an attempt in any lane pay what it should not, or settle on evidence that does not match? Does it implement `RolloutOutcome` and `TurnLoop`, end, and take its agent down? What can a standalone grade publish, with and without `--keep`? | four lanes, two turns, scores 0, 60 and 100 | 128,120 |
| `scoring` | Does the score depend on anything but what it should? Does it implement `CheckBoard`? What may a validation write, and does a grade read it as the writer meant it? | three checks, four names, four buckets, four manifests; two validations of two runs and two attempts, 4, 3 and 3 verdicts of the probes | 743,108 |
| `agent` | Is what a streamed exec returns the command's own and complete? Is every transcript well formed? Who is blamed for an external run, and what is settled? Has every task of a batch its line? Do they end? What credentials is an agent given? | three lines and three deadlines; three turns of two calls and five attempts; three edits; two tasks, three names, three commands; two rollouts at once, on Linux and macOS, in each lane, two tokens and one more | 743,882 |
| `network` | Is a vendor reachable after success, and a failure honest? Does a tunnel lose or double anything? Can a vendor or a peer hold its thread? | two vendors, two tries, three operations, four ports; buffers of two, three units each way, headers of two | 228,318 |
| `material` | Is what is graded what the participant left? Does an attempt run what it records? | four steps, two files and `.gitignore`, five contents; two attempts, two changes, two images, two files with contents that are interchangeable, two checkouts | 4,515,304 |
| `verifier` | Are the passes over logs what they are meant to be, a violation recorded, silence not, nothing forgiven? Is a correct connector ever flagged? Does a scenario meet anything of an earlier one? | four requests of four kinds in five instants, windows of two; four of thirteen kinds at one; six ticks, life five or one, five starts, margin three; three gradings of two tasks of two and three scenarios | 193,095 |
| `evidence_tracer` | Does the tracer overlook evidence, under its cap of eight or under one of two, or fail to report a task without? | three statements, a check among them, two locals, four helpers, two imports of which one is underscored, loops, branches, both ways to record | 1,022,972 |
| `truncation`, `infrastructure_score`, `first_sidecar`, `patch_text`, `tracer_scopes` | Statements of the repository that the code does not keep: section 6. | those of the run they belong to | found violated |

Why the bounds are enough. *Attempts*: scores matter only as none, zero, earned;
two turns give the loop every exit; leaks, faults and stale artifacts are sets
that only grow. *Homes*: two rollouts are a reader and a writer of the profile, or
two writers; the tokens that exist at the start are live or dead, and one more
is a login or a renewal; a life of two under a skew of one
leaves one instant at which a token is alive and too old. *Scoring*: three
checks of one name let first, last and worst differ, with a repeat after a
repair. *Streams*: one line each for handed, in the pipe and not written.
*Transcripts*: two calls make a group of results, and a third turn repeats
made-up ids after a turn without. *Validation*: one more attempt or run than one
makes a retry and a flake; the second round reads what the first wrote.
*Batches*: run, run again, grade. *Logs*: a window of two with five instants has
requests inside, on and past its edge; four requests exceed a budget of two
twice, and hold an attempt, its retry, the retry of that and one more. *Tunnel*:
a queue can be full with a unit in hand and one unread. *Stack*: two operations
on one vendor while the other one's port is recorded. *Workspace*: edit, commit, move of
the tag and another edit, any of them before, during or after the staging. *Provenance*: a change before
and one after the capture; a file that counts and one that is skipped; symmetry of
their contents, which are only ever compared.
*Scenarios*: a task after another one and back. *Tracer*: a chain of name, helper
and check; the cap of two makes its end lie beyond; of a scenario without a check
nothing is claimed. The theorems of section 4 do
not have these bounds.

Deadlock is not checked: attempts, operations and logs end, and two peers of a
tunnel may both be silent for ever.

### What the properties say

A module with several properties bundles them into one, named after it, which is
what its run checks; each part has its own comment in the module, and each bundle
has mutants that break one part of it each.

*Grading.* `GradingCorrect`, of a standalone grade and of the one inside an
attempt: `LeakedPatchNeverRuns`,
no leak is known once a patch is past its check; `ResolvedWasVerified`, published
as resolved implies no error, all mandatory checks, a score, a tree;
`InfrastructureKeepsOwner`, a registry failure inside the candidate's build is
not the candidate's; `ManifestCurrent`, the manifest is that of the metadata on
disk.

*AgentHome.* `HomeCorrect`: `GivenIsUsable`, what an undisturbed rollout is given
has the shape its CLI reads, and on macOS a Claude token lived when the
preparation began to look; `GivenIsRegistered`, it is among the secrets evidence
is searched for; `BillingIsRecorded`, the mode in `meta.json`, the mode of the
container and the credentials are one; `ProfileIsInputOnly`, whoever is
disturbed: what an agent renews is in no profile and in no other home.

*EvalRollout.* `LeakNeverCredited`, at every moment, the grader's intermediate
record included. `ResultIsOnDisk`: the caller and `meta.json` agree.
`ProviderFailureUnpaid`: a noticed provider failure has no reward and, in a CLI
lane, no grade. `GradeIsIsolated`: the participant is gone and vendors are fresh
before its diff is read. `EvidenceHasNoCredentials`: what a manifest hashes
holds no credential directory. `SettledManifestCurrent`; `BudgetIsNoResult`, a
rollout that its budget ended, noticed or not, is never recorded as a result of
the candidate, however well what it left grades; `CreditOnlyShrinks` (a step property over the two writers of terminal
metadata), `ImplementsOutcome`; `FollowsTurns`, the turn loop has the limits and the
ends of the one whose transcript is examined. Liveness, `RolloutEnds`:
`EndsUnlessCodeHangs`, an attempt ends unless it waits for ever for code of the
participant, and `AgentIsTornDown`; its run checks it of the attempts
(`AttemptEnds`).

*Scoring.* `LabelsDoNotScore`: the score of the buckets is that of the log.
`SilenceIsFailure`: recording a missing check as failed changes nothing.
`RepeatsScoreOnce`: recording a name again, no worse, changes nothing.
`MandatoryFailureBlocks`: no mandatory failure in a solved run.
`ImplementsBoard`.

*ValidateGauntlet.* `WrittenIsReproduced`: a sidecar changes only to a table
that all runs agree on. `GauntletCorrect`: `EvidenceIsCandidates`, no verdict
that counts is the benchmark's own fault; `WriterAgreesWithScorer`, two
implementations of the task score give one floor, where the probe records each
check as often as gold does and breaks none that it calls mandatory and the
sidecar does not require; `PerfectGoldIsUsable`, what is
written can be read.

*AgentExecStream.* `StreamCorrect`: `ReturnedStatusIsOwn`, never the status of a
killed client, never while the command works; `EveryLineHanded`;
`ClientDoesNotOutlive`. `ImplementsCall`: the call ends once, in one of the ways
the lanes tell apart, claims no time-out before its time, and shows no line after
its end; the host's deadline behind the one in the container is what a seeded
error removes. *DirectLoop.* `LoopCorrect`: `AnthropicWellFormed`, roles
alternate, and the calls of a message are answered in the next one, completely
and in order; `ResponsesPaired`, the k-th output is that of the k-th call,
repeated ids or not; `OvershootIsOneChat`. `ImplementsTurns`: no retry and no call
starts a turn, ends the loop or forgives a limit. *ExternalRun.* `RunCorrect`:
`ReturnedIsSettled`, `BlameNeedsCommand`, `VendorsTornDown`. *PredictionBatch.*
`BatchCorrect`: `LinesCoverTasks`, `NamedPredictionStays`, `GoldOnlyByDefault`.
Liveness of the four, `AgentsEnd`: a fired deadline ends the call unless another
process holds the pipe (`FiredDeadlineEnds`), runs end, and so do batches, unless a grade
waits for ever for the candidate (`BatchEnds`).

*ComposeStack.* `StackCorrect`: `OkMeansReachable`, `GivingUpIsHonest`.
*EgressTunnel.* `TunnelCorrect`: the ledger of units (`EgressTypeOK`) and
`EndIsInOrder`, an end of stream waits for what came before it. Liveness of both,
`NothingHangs`: `OperationsEnd`, `HandshakeEnds`, `NeverWedged`.

*ConductLog.* `ConductCorrect`: `EarlyRetryCaught`, `BudgetIsExact`,
`HotLoopIsExact`, `FixedWindowsFollow` compare a pass with its definition;
`ViolationsAreRecorded` and `SilenceBanksNothing` tie the rules to what is
recorded as a check; `OneTokenPerWrite`; `NothingIsForgiven`, later requests
clear no violation. *TokenPacing.* `PacingCorrect`: `CorrectNeverFlagged`.
*ScenarioRuntime.* `ScenariosApart`: `HelpersAreOwn`, `KnobsHold`, `ReadsItself`.
Liveness: `GradingEnds`, a grading ends unless the application it runs does not;
an output that never comes is given up.

*Workspace.* `WorkspaceCorrect`: `GradedIsWhatWasLeft`, what the participant
committed, reset or staged makes no difference, and what is left of it when its
work is extracted disturbs the files it touches itself and no other;
`CarriedPatchApplies`. Both are for contents the text of a patch can carry and for
files whose baseline nobody moved (`Uncarried`, `Rebased`). *Provenance.*
`ProvenanceCorrect`: `LockedRunsItsRecord`, of any attempt; `RecordsTellRunsApart`, of
attempts nobody disturbed, in checkouts that a digest looks at: for the others it
does not hold, which section 6 records; and the step property `MissingIsMissing`.
*EvidenceTracer.* `TracerCorrect`:
`NoEvidenceOverlooked`, a check that rests on the vendor directly is never taken
for less, under either cap, unless a parameter of a helper has the name of
something that is assigned (`Captured`) or the vendor is reached only through an
import that gets no label (`Quiet`); `GoldenOnlyIsReported`, a plain task graded on
golden files is found.

### Fairness

Nothing is ever assumed of the environment: participants, commands, peers,
containers, providers, operators and the owner of the machine may do nothing for
ever. Where a run holds several modules, each assumption is about the module a
behaviour is of (`WF(part = "stream" /\ Progress)`).

* `EvalRollout`: weak fairness of `Certain`, the steps of the harness itself and a
  chat, which has a request timeout and five attempts. Where code of the
  participant runs, nothing is assumed (`InParticipantCode`): `agent_exec` of the
  direct lane has no timeout (`commands/eval_core.py:182`); a streamed command is
  ended by `timeout --kill-after` or the backstop of the host, but the call reads on
  while another process holds its pipe (`compose_unit.py:1696`), which is what
  `AgentExecStream` examines; and a grade builds the candidate and runs its
  application through a `subprocess.run` without a timeout (`compose_unit.py:1446`).
  Hence the exception in `EndsUnlessCodeHangs`.
* `AgentExecStream`: both threads are scheduled and time passes.
* `ExternalRun`: `Main`; git and docker are waited for and the time of the
  command is limited (the command itself need never exit).
* `PredictionBatch`: `CertainBatchStep`, a run, which limits the time of its command,
  and the end of a batch; a grade, which runs the candidate without a limit, need
  never end.
* `EgressTunnel`: the thread of the proxy goes on when it can, and its socket
  timeouts pass when it cannot.
* `ComposeStack`: the thread of an operation; its attempts are counted against
  `startup_timeout_s`.
* `AgentHome`, `DirectLoop`, `Workspace`, `Provenance`, the logs and the tracer have
  no liveness property, and no fairness.
* `ScenarioRuntime`: the grading process, but not where it waits for the
  application (`InApp`); when an output appears on the host is up to the mount.

## 4. Proofs

TLAPS checks the following for every value of the constants.

* `GradingProofs`: the inductive invariant `GradingInv` and from it type
  correctness, `LeakedPatchNeverRuns`, `ResolvedWasVerified`,
  `InfrastructureKeepsOwner` and `ManifestCurrent`, together `GradingIsCorrect`. None of
  these is inductive by itself: that the final record is verified depends on what the phases left
  in `grade` step by step, and that the manifest is current depends on nothing
  being written between the last metadata and the return.
* `EvalRolloutProofs`: `RolloutInv`, the conjunction of type correctness,
  placement (which containers, directories and processes can exist at each
  `pc`), the state of the record while the agent works and while the grade
  runs, the isolation and credential facts, and what a settled attempt looks
  like. From it `TypeOK`, `LeakNeverCredited`, `ResultIsOnDisk`,
  `ProviderFailureUnpaid`, `SettledManifestCurrent`,
  `GradeIsIsolated`, `EvidenceHasNoCredentials`. Also that `EvalRollout`
  implements `RolloutOutcome` (initial states map to initial states, each action
  to `Learn`, `Publish`, `Abandon` or a stutter) and `CreditOnlyShrinks`.
  `BudgetIsNoResult` needs in addition what `cut`, which the harness cannot see,
  has to do with what it does see: the stop reason, the time-out and the exit
  status of the CLI (`CutShows`).
  `AttemptIsGradedCorrectly` is `GradingCorrect` once more, of the grade inside an
  attempt, where a leak may be known before the grade begins, a process writes
  beside it and the lane is a second writer of metadata: before the grade its
  variables rest and nothing is published (`BeforeTheGrade`), during it the steps
  are those of `Grading` and `GradingInv` carries over, and settling publishes no
  more than what the grade left (`SettlingGrades`).
* The turn loop (`AgentProofs`, `EvalRolloutProofs`): `LoopImplementsTurns` and
  `RolloutFollowsTurns`, step by step. So what `LoopCorrect` says of transcripts is
  said of a loop with the turns and ends that the attempt settles on.
  The second one needs what `RolloutInv` says of a run that is `raising`: while
  the agent works nothing has been raised, which is why the reason for the end
  is decided once.
* `AgentHomeProofs`: `HomeInv` adds to the properties whose tokens the profile,
  the Keychain and a seed can hold (`Sources`), in which homes a token can be
  (`Homes`), how far each preparation has come (`Path`), and what each has
  established of a profile that nobody has rewritten since (`LivedSince`,
  `Billed`, `Checked`, `Registered`). The latter are what carries a fact over the
  steps between the read it was seen in and the copy. From it `HomeIsCorrect`,
  for any number of rollouts at once and every life and skew of tokens.
* `ScoringProofs`: whether a name is held depends only on the *set* of recorded
  checks (`HeldByChecks`), and so does the verdict where each name has one
  mandatory flag (`MandatoryByChecks`). With the invariant that buckets and log
  hold the same set, this gives `LabelsDoNotScore`, `MandatoryFailureBlocks`,
  `SilenceIsFailure` and `RepeatsScoreOnce` for every manifest and runs of any
  length, under the assumption `OneFlagPerName`, and without it
  `ImplementsBoard`. `OneFlagPerName` is the authors' convention; the code
  enforces it only for names gold records, and section 6 says what happens
  without it.
* `AgentExecStream` (`AgentProofs`): `StreamInv` = `TypeOK`, `Exits` (which endings of
  command and client go together), `KillIsFlagged` (a client is killed by the
  watchdog only after the flag that makes the call report a timeout is set),
  `Place` (what holds at each step of the reader), `Outcomes` (how the call
  ended) and `Clocked` (who acts
  after which deadline). That a status is
  the command's own needs all of them: it is decided when the client exits and
  read three steps later, with the watchdog still armed. From it
  `ReturnedStatusIsOwn`, `EveryLineHanded` and `ClientDoesNotOutlive`, together
  `StreamIsCorrect`, for any number of lines. `StreamImplementsCall` is the
  refinement, step by step: the end is decided once, by `Check`, `DiskBudget` or
  `Unwind`, and `Clocked` accounts for the exit statuses of `timeout`.
* `ExternalRun` (`AgentProofs`): `RunInv` adds to `ExternalTypeOK` who can have been blamed at
  each step (`Blame`), what the metadata says there (`OnRecord`) and whose the
  vendors are (`Vendors`); `ReturnedIsSettled`, `BlameNeedsCommand`,
  `VendorsTornDown`, together `RunIsCorrect`.
* `DirectLoop` (`AgentProofs`): `LoopInv` says what both conversions of the
  transcript look like while calls are `pending`: on the Anthropic side turns
  alternate and every finished request is answered in order (`Open`), and while a
  group of results is being built it is the answered part of the last request
  (`Owing`); on the Responses side the ids of the calls are those of the outputs
  followed by the pending ones. `AnthropicWellFormed`, `ResponsesPaired` and
  `OvershootIsOneChat`, together `LoopIsCorrect`, for transcripts of any length.
* `PredictionBatch` (`AgentProofs`): `BatchInv` adds to `BatchCorrect` what a shelf can
  hold (`Shelved`): only predictions that were made, so that the one a line names
  is still the one that was graded. `BatchIsCorrect`.
* `Workspace` (`MaterialProofs`): `WorkspaceInv` adds to `WorkspaceCorrect` what index,
  patch and graded tree are at each stage of the extraction (`Carried`): of the
  files nobody has touched since it began, those still to be read are as they were
  left, and the others are in the index so. `WorkspaceIsCorrect`, for any number of
  files and edits, and any interleaving of the two.
* `Provenance` (`MaterialProofs`): `ProvenanceInv` = types (`Shapes`), how far the
  attempts have come (`Course`), what was captured of the tree and of the image
  before the stack is up (`Recorded`), and `LockedRunsItsRecord`. That records tell
  runs apart follows from it for any two attempts. `ProvenanceIsCorrect` and the
  step property `MissingImageIsMissing`.
* `ScenarioRuntime` (`VerifierProofs`): `RuntimeInv` follows one grading through its
  places: which scenario's output, store and log can hold what (`Holding`,
  `OutputsOwn`, `Reading`), which knobs are armed and running (`KnobsArmed`,
  `Booted`). `ScenariosStayApart`, for any scripts of the tasks.
* `TokenPacing` (`VerifierProofs`): `PacingInv` counts. With c full tokens in the
  present run and q lives that fit into the window, `Full <= (q + 1) * (runs - 1) + c`,
  and the tokens of a run are a life apart (`Counted`); c is then at most q + 1, and
  the ceiling of the rule follows. `PacingIsCorrect`, for every life, margin and
  number of restarts.
* `ConductLog` (`VerifierProofs`): the invariant is only that the log is a sequence of
  entries in the order of time (`LogInv`); the work is in the operators. A rule is
  a fold. It is shown to be a function over the prefixes of the log, by least
  counterexample, since the induction theorems are out of reach; then that
  function is compared with the quantified definition, one entry at a time.
  `ConductIsCorrect`, for logs, windows and budgets of any size.
* `Scoring` (`ScoringProofs`), type correctness: the range 0..100 needs the value of
  a sum over the rows of a manifest. The sum is shown to exist for every finite set
  by induction on its cardinality (`SumsExist`), to be an integer, and to give a
  share of gold that is at most the whole (`ShareOfGold`). `ScoringTypeCorrect`.
* `ValidateGauntlet` (`ScoringProofs`): `GauntletInv` = types, the bound on attempts,
  where each kept verdict comes from (`EvidenceOK`), what has been kept when
  (`Gathered`), and that what was written is the table of the first verdicts
  (`WrittenIsPayload`). That writer and scorer agree is a statement about two
  programs: occurrences of a check in the probe and in gold pair off one to one
  (`OccurrenceIsOne`), so a row is held for the one exactly when it is for the
  other (`HitsAreHeld`), and then both sum the same function. `GauntletIsCorrect`
  and the step property `OnlyReproducedIsWritten`, for any policies, verdicts and
  numbers of runs.
* `EgressTunnel` (`NetworkProofs`): `TunnelInv` adds to the ledger of units (`EgressTypeOK`) what
  counts are possible (`Counts`), what the thread holds at each place (`Hands`)
  and why a tunnel ended (`Ends`); `EndIsInOrder`, and with the ledger
  `TunnelIsCorrect`, for every size of buffers.
* `ComposeStack` (`NetworkProofs`): `StackInv` adds to `TypeOK` the types of the recorded
  ports (`Types`), how far an operation has come with which vendors
  (`Progress`) and what its result stands on (`Result`); `OkMeansReachable` and
  `GivingUpIsHonest`, together `StackIsCorrect`, for any number of vendors, tries
  and operations. Progress is
  needed because the ports are read one vendor after another while containers
  come and go.

The assumptions on constants are those named in the modules. Most say no more
than that bounds are natural numbers, positive where the code needs one
(`MaxLinesAssumption`, `TunnelAssumption`, `StackAssumption`, `EditsAssumption`,
`LoopAssumption`, `BatchAssumption`, `LogAssumption`, `RulesAssumption`), or that names
given to different things differ (`WorkspaceAssumption`, `ProvenanceAssumption`).
Those that say more:

* `ScoresAssumption`: scores are percentages, 0 among them. `RolloutAssumption`:
  known lanes, a positive turn cap.
* `HomeAssumption`: times are natural numbers, there are two platforms, and the
  operator is not a rollout.
* `ScoringAssumption`: manifests give finitely many names legal values.
  `OneFlagPerName` is a hypothesis of the four theorems on the score alone.
* `GauntletAssumption`: what a candidate comes back with is a list of recordings; a
  sidecar found at the start holds scores of -1 (none) to 100; what a policy scores
  positively it also requires (`commands/validate.py:303`); there is at least one run,
  attempt and round.
* `PacingAssumption`: a token lives at least one tick, a token cut short less than a
  full one, and the margin is positive.
* `RuntimeAssumption`: a script is at most four scenarios, the ones the model has
  names for, and a scenario that sets all knobs leaves none out.

Proof attempts changed four statements. What a scenario may meet of another one
had to name the service that was stuck when it was reset, not any that ever was
(`ScenariosApart`). The exception of `WriterAgreesWithScorer` had to be about the
checks the sidecar requires, not those the policy does. A manifest had to be
finite, without which its sum has no value. And `GradingInv` may
say of the tree only that there is one: in an attempt with `--keep` it need not be
the patched one any more, since a process of the participant writes beside the
grader.

Only model-checked:

* every liveness property (`AttemptEnds`, `AgentsEnd`, `NothingHangs`, `GradingEnds`),
  which is out of the prover's reach;
* `TracerCorrect` of `EvidenceTracer`, whose algorithm is recursive.

Every other property of a passing run is stated by a theorem.

## 5. Not modelled

* Text: prompts, schemas, usage and cost accounting, details of checks, reports,
  the layout of files, the rendering of the compose file.
* Docker, git and the CLIs: external; their possible outcomes are choices.
* A crash of the harness process itself, which leaves the last metadata written.
* Of `compose_unit.py` the rendering of the compose file, the resource policy and
  the builds of agent images: text and docker, without a state of their own.

* The provider gateway: one pass per request on a thread of its own, with no
  shared state. Two things were seen while reading it. The guard that should
  keep a second status line out of a body that has begun
  (`provider_gateway.py:211`) looks at a buffer that `end_headers` has emptied,
  so it holds only when the write of the head itself failed; and a request without `Content-Length` is forwarded without
  its body. No doc or test states what a client should get.
* Of `validate_suite.py` all but the evidence tracer: hashes, similarities and
  counts over files, without order or state. Of `validate.py` the rendering, of
  `scoring.py` the statistics over many attempts and the probe bar, which only
  tests call.
* How far the log of a vendor lags behind on its bind mount: nothing in the code
  says, so there is nothing to check.
* `config.py`, `credentials.py`, the SQLite export, the vendor contract: parsing,
  serialisation and interface types.
* The public tasks: 50 starter repositories and their scenario scripts. They are
  the content of the benchmark, some 57,000 of the repository's lines of code,
  and not the program these modules specify; the harness has about 12,800, and a
  third of them are what the modules translate. The rest of the harness is in
  the points above. Of the tasks the helpers that several share are in
  `ScenarioRuntime`.

## 6. Where the repository and the code disagree

Five statements have a run that finds them violated; `PROJECT.json` quotes them.

1. `truncation`. A CLI that ignores SIGTERM is killed by `timeout --kill-after`
   and exits with 137; only 124 counts as a time-out (`commands/eval_core.py:900`),
   so the rollout is recorded as complete.
2. `infrastructure_score`. The stop reason or a nonzero exit replaces the class
   of the grade, a host fault included, and the errored verdict is paid 0
   (`commands/eval_core.py:1013`).
3. `first_sidecar`. A task without a sidecar cannot be validated so as to write
   one (`commands/grading_core.py:346`).
4. `patch_text`. A change of a file with CRLF or bytes that are not UTF-8 is
   extracted as a patch that does not apply (`workspace.py:91`).
5. `tracer_scopes`. The limits of the evidence tracer are said to push "toward
   unknown", shared names of locals among them (`commands/validate_suite.py:560`);
   but a name that is a parameter of the helper being read, or is being traced
   already, is not looked up among the assignments (`:670`, `:672`). Where a helper's
   parameter has the name under which another keeps the request log, and both call
   their finding alike, a check that rests on the log is taken for a comparison
   with a golden file.

Others were met while modelling. The models have the behaviour, and the
properties are stated so as to allow it; no run is spent on them.

*Attempts.* The Codex lane refuses to grade a usage limit only, "for the
identical reason" as the Claude lane, which also refuses provider failures
(`commands/eval_core.py:1298`). A tool call that does not return outlives the
wall-clock budget (`:182`, `:309`), and a candidate whose build or application does
not end holds its grade, and a batch of grades, for ever (`compose_unit.py:1446`). The watchdog kills the docker client only,
and a process that holds the pipe keeps the call waiting
(`compose_unit.py:1696`). A response with a success status and a body that is no
JSON is no `ProviderError` (`providers.py:365`).

*Scoring and validation.* Where one name is recorded both with and without the
mandatory flag, an optional failure that comes first hides the mandatory one
(`scoring.py:261`). A failed hard check without the flag leaves the task solved,
against `docs/user-guide/conduct.md:29`. A gold that misses a soft check passes
and is written; every later grade refuses the sidecar (`scoring.py:315`).
`--strict --write-baseline` writes although the strict gate fails
(`commands/validate.py:898`). "The verifier's frozen gold record owns pass/fail
values and mandatory status" (`scoring.py:166`), but `solved` reads the flag a
candidate recorded (`:261`): a check that the scenario calls mandatory, and from
which `task-score-policy.json` takes the flag, still refuses the solve, and the floor
that is written differs from the score a grade gives. No shipped task has both a
policy and such a check. A probe that records a repeated check less often
than gold has a floor below its score (`commands/validate.py:387`).

*Batches.* grade-all takes the name that sorts last for the most recent
(`commands/grade_all.py:83`). A measured, unsolved task ends with 0
(`cli.py:689`). An exception `main` does not name ends with 1, which is kept for
results (`cli.py:852`).

*Conduct rules* (`verifier/logs.py`). Successful requests and one error at the
end are a hot loop "on error" (`:376`). Different writes to one endpoint are
retries "with no changed request" (`:354`). A restart after a failure on the
second page is not seen, and the retry of a first page is a restart
"mid-pagination" (`:306`). The second page of an incremental crawl is a full
resync (`:279`).

*Stack, workspace, provenance, scenarios.* A port that is published late ends the
start before the wait that tolerates it (`compose_unit.py:1540`). New files that
`.gitignore` lists are not in the patch (`workspace.py:161`). A tag `bench-baseline`
that the participant moved is diffed against all the same (`:162`): the files it
moved over are not graded as they were left, or the patch does not apply. Below a directory
called `output`, `.venv` or the like all trees have one digest
(`provenance.py:39`). Two attempts with one record may have run two images
(`provenance.py:153`). In locked mode an override with any digest runs
(`images.py:158`). A service whose stop failed fills the store of the next
scenario (`_scenario_util.py:84` of task 0005). An output that is not UTF-8 ends
the grade (`verifier/io.py:37`).

*Static lint* (`commands/validate_suite.py`). A flag that a loop over the request
log clears is traced to constants, and its check is no evidence (`:677`). The
generator of a comprehension is not visited (`:685`). An imported helper with an
underscore or in capitals gets no label, not "unknown" (`:679`), although nothing
being followed across modules is said to suppress a finding (`:559`): evidence had
through such an import alone is overlooked, which `NoEvidenceOverlooked` exempts. Checks recorded with `check()`
are not counted, which is all of them in 24 of the 50 public tasks (`:62`). A
name that held a golden file elsewhere makes a check a file compare (`:677`).

Visible in the models, without a statement in the repository to hold them
against:

* `stack.up()` is outside the `try`: a failed startup leaves containers and the
  provisioned agent home behind (`SetupRaises`); an external run does the same
  (`ExternalRun`, `containers = "partial"`).
* With `--keep` the agent container stays up while the grader works in the same
  workspace; `GradeIsIsolated` excludes it.
* A withheld rollout with a leak returns the provider's class while `meta.json`
  says the candidate's; `ResultIsOnDisk` makes the exception explicit.
* A direct rollout the provider failed is graded and can be recorded as resolved
  with no reward.
* The lane's final "done" overwrites the grade's "error" or "patch_failed".
* An exception during the rollout leaves the metadata at "running" or "grading".
* A run whose command could not be run leaves an empty prediction on the shelf,
  which a later grade-all grades.
* A unit whose `docker compose down` failed is deleted with its compose file.
* The profile is read three times and written in place without a lock. A rollout
  that seeds it while another prepares can hand that one an empty file, or a
  token that was not registered; a login in between makes the recorded billing
  mode that of the earlier login (`Given` excludes disturbed rollouts).
* A token that an agent renews inside its container is never registered for
  redaction, and a refused preparation leaves the copy behind.

## 7. State of the plan

Done: every module of section 2 with its run, and the theorems of section 4, which
state every safety and step property of the runs but the tracer's. Left, in the
order of what it would add: the refinement of the one-step `up` and `down` of
`Grading` by `ComposeStack`; the gate topology rule of the lint beside its tracer.

## 8. Checking it

`tlc -config X.cfg M` for each run of `PROJECT.json`, `tlapm M.tla` for the
modules whose names end in `Proofs`: `GradingProofs`, `EvalRolloutProofs`,
`AgentHomeProofs`, `ScoringProofs`, `AgentProofs`, `NetworkProofs`, `MaterialProofs`,
`VerifierProofs`. Each property of a passing run has
mutants in `PROJECT.json`, a bundle several: a definition with
a plausible error, kept in the module under the name `<definition>_<error>` and
marked "Seeded error", under which the property fails. The longest runs take one
to two minutes.
