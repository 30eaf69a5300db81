---------------------------- MODULE ScenarioRuntime ----------------------------
(***************************************************************************)
(* The scenarios of a grading, in the one process that grades many tasks:  *)
(* loading them (verifier/scenario_loader.py), arming and recreating their *)
(* vendor (verifier/context.py, compose_unit.py), and reading back what    *)
(* the connector wrote (verifier/io.py and the _scenario_util modules of   *)
(* the tasks).                                                             *)
(*                                                                         *)
(* Between tasks the process keeps its modules and its search path;        *)
(* between the scenarios of a grading the vendor's environment, the        *)
(* connector's store and output, and a service that was not stopped        *)
(* survive.  What a store, a log or an output holds is the set of the      *)
(* scenarios whose work is in it.                                          *)
(***************************************************************************)
EXTENDS Naturals, Sequences

CONSTANTS
  Tasks,
  Script,        \* [Tasks -> Seq([helpers, knobs, full, serves])]
  Helpers,       \* the names under which scenarios import their siblings
  Knobs,         \* the FAULT_* and other switches of the vendor
  MaxGradings,   \* bound on the gradings of one process
  MaxTries       \* how often read_json_output polls before its deadline

Off == "off"
None == "none"
Values == {Off, "on"}
Scenarios == 1..4
Setting == [Knobs -> Values \union {None}]  \* None: not stated

ASSUME RuntimeAssumption ==
  /\ \A t \in Tasks : Script[t] \in Seq([helpers : SUBSET Helpers, knobs : Setting,
                                         full : BOOLEAN, serves : BOOLEAN])
  /\ \A t \in Tasks : Len(Script[t]) <= 4
  /\ \A t \in Tasks, s \in Scenarios :
       s <= Len(Script[t]) /\ Script[t][s].full => \A k \in Knobs : Script[t][s].knobs[k] # None
  /\ MaxGradings \in Nat /\ MaxTries \in Nat
  /\ None \notin Tasks

VARIABLES
  modules,   \* sys.modules: the task each helper comes from
  path,      \* sys.path: the tasks whose directories were put in front
  graded,    \* the gradings begun
  task, at,  \* the task being graded and the number of its scenario
  pc,
  held,      \* the tasks from which the scenario has its helpers
  env,       \* vendor_envs of the stack
  file,      \* the environment in the rendered compose file
  running,   \* the environment of the vendor's container
  store,     \* the connector's database
  served,    \* the vendor's request log
  serve,     \* the scenario whose service still runs, 0 if none
  stuck,     \* the one whose service ran when the store was emptied (history)
  written,   \* the output as the container wrote it
  seen,      \* the output as the host sees it
  tries,
  got        \* what the scenario read: the output and the log

process == <<modules, path>>
vendor == <<env, file, running, served>>
output == <<written, seen, tries, got>>
runtimeVars == <<process, graded, task, at, pc, held, vendor, store, serve, stuck, output>>

\* An output file: absent, a part of it, which does not parse, a part that ends
\* within a character or a file that is no UTF-8, or whole.
File(state, of) == [state |-> state, of |-> of]
NoFile == File("absent", {})
Torn == File("torn", {})
Undecodable == File("undecodable", {})
Nothing == [out |-> {}, log |-> {}]
AllOff == [k \in Knobs |-> Off]

RuntimeInit ==
  /\ modules = [h \in Helpers |-> None] /\ path = <<>>
  /\ graded = 0 /\ task = None /\ at = 0 /\ pc = "idle" /\ held = {}
  /\ env = AllOff /\ file = AllOff /\ running = AllOff
  /\ store = {} /\ served = {} /\ serve = 0 /\ stuck = 0
  /\ written = NoFile /\ seen = NoFile /\ tries = 0 /\ got = Nothing

-------------------------------------------------------------------------------
Here == Script[task][at]

\* A grading has a stack, a store and an output directory of its own; it is over at
\* once if the task has no scenarios.
Grade(t) ==
  /\ pc = "idle" /\ graded < MaxGradings /\ graded' = graded + 1
  /\ task' = t /\ at' = 1 /\ held' = {}
  /\ pc' = IF Script[t] = << >> THEN "idle" ELSE "load"
  /\ env' = AllOff /\ file' = AllOff /\ running' = AllOff
  /\ store' = {} /\ served' = {} /\ serve' = 0 /\ stuck' = 0
  /\ written' = NoFile /\ seen' = NoFile /\ tries' = 0 /\ got' = Nothing
  /\ UNCHANGED process

\* The stack goes down, whatever is left of the scenarios.
Leave ==
  /\ pc' = "idle" /\ serve' = 0
  /\ UNCHANGED <<graded, task, at>>

\* Seeded error: the helpers of another task stay.
Purged_Nothing == modules

\* _purge_foreign_scenario_modules
Purged == [h \in Helpers |-> IF modules[h] = task THEN task ELSE None]

HasHelper(t, h) == \E s \in 1..Len(Script[t]) : h \in Script[t][s].helpers

\* The first directory on the path that has such a file; the current one is in front.
Found(h, dirs) == dirs[CHOOSE i \in 1..Len(dirs) :
  HasHelper(dirs[i], h) /\ \A j \in 1..(i - 1) : ~HasHelper(dirs[j], h)]

\* load_scenario_module, up to the import that raises if one does.
Load ==
  /\ pc = "load"
  /\ path' = <<task>> \o path
  /\ \E imported \in SUBSET Here.helpers :
       /\ modules' = [h \in Helpers |->
            IF h \in imported /\ Purged[h] = None THEN Found(h, path') ELSE Purged[h]]
       /\ held' = {modules'[h] : h \in imported}
       /\ \/ imported = Here.helpers /\ pc' = "reset" /\ UNCHANGED <<graded, task, at, serve>>
          \/ imported # Here.helpers /\ Leave
  /\ UNCHANGED <<vendor, store, stuck, output>>

-------------------------------------------------------------------------------
(***************************************************************************)
(* The steps of a scenario.                                                *)
(***************************************************************************)
Step(from, to) == pc = from /\ pc' = to /\ UNCHANGED <<process, graded, task, at, held>>

ResetStore ==
  /\ Step("reset", "arm")
  /\ store' = {} /\ got' = Nothing /\ stuck' = serve
  /\ UNCHANGED <<vendor, serve, written, seen, tries>>

\* Seeded error: the environment is replaced by what is stated.
Armed_Bare == Here.knobs

\* What is stated overrides what was, which holds for subsequent boots too.
Armed == [k \in Knobs |-> IF Here.knobs[k] = None THEN env[k] ELSE Here.knobs[k]]

Arm ==
  /\ Step("arm", "recreate")
  /\ env' = Armed
  /\ UNCHANGED <<file, running, served, store, serve, stuck, output>>

\* Seeded error: the container is recreated before the file is rendered.
Recreate_StaleFile ==
  /\ file' = env /\ running' = file
  /\ Step("recreate", "run")
  /\ served' = {}
  /\ UNCHANGED <<env, store, serve, stuck, output>>

\* recreate_vendor: the file is rendered, and a booting vendor deletes its logs.
Recreate ==
  /\ file' = env
  /\ \/ running' = file' /\ served' = {} /\ Step("recreate", "run") /\ UNCHANGED serve
     \/ pc = "recreate" /\ Leave /\ UNCHANGED <<process, held, running, served>>
  /\ UNCHANGED <<env, store, stuck, output>>

\* The connector runs, once or as a service, against the vendor and its store.
RunApp ==
  /\ Step("run", IF Here.serves THEN "stop" ELSE "unlink")
  /\ store' = store \union {at} /\ served' = served \union {at}
  /\ serve' = IF Here.serves THEN at ELSE serve
  /\ UNCHANGED <<env, file, running, stuck, output>>

\* A service goes on polling and stores what it has in memory.
ServicePolls ==
  /\ serve # 0 /\ store' = store \union {serve} /\ served' = served \union {serve}
  /\ UNCHANGED <<process, graded, task, at, pc, held, env, file, running, serve, stuck, output>>

\* serve_stop swallows a failure of docker compose stop, and the service goes on.
StopService ==
  /\ Step("stop", "unlink")
  /\ serve' \in {0, serve}
  /\ UNCHANGED <<vendor, store, stuck, output>>

\* Seeded error: the output of an earlier scenario stays.
Unlink_Nothing ==
  /\ Step("unlink", "dump")
  /\ UNCHANGED <<vendor, store, serve, stuck, output>>

Unlink ==
  /\ Step("unlink", "dump")
  /\ written' = NoFile /\ seen' = NoFile
  /\ UNCHANGED <<vendor, store, serve, stuck, tries, got>>

\* app.run(["dump"]): it exits with an error, or with 0, and then may not have written.
Dump ==
  /\ tries' = 0
  /\ Step("dump", "read") \/ Step("dump", "next")
  /\ written' \in {File("whole", store), Undecodable, written}
  /\ UNCHANGED <<vendor, store, serve, stuck, seen, got>>

\* The bind mount: a file appears on the host late, and in parts.
Sync ==
  /\ pc = "read" /\ written # NoFile /\ seen # written
  /\ seen' \in {Torn, Undecodable, written} /\ seen' # seen
  /\ UNCHANGED <<process, graded, task, at, pc, held, vendor, store, serve, stuck, written, tries, got>>

Parses == seen.state = "whole"

\* Seeded error: no deadline.
Late_Never == FALSE

Late == tries >= MaxTries

\* read_json_output, which expects no error of decoding.
Read ==
  /\ pc = "read"
  /\ \/ Parses /\ Step("read", "log") /\ got' = [out |-> seen.of, log |-> {}] /\ UNCHANGED <<serve, tries>>
     \/ seen = Undecodable /\ Leave /\ UNCHANGED <<process, held, tries, got>>
     \/ seen \in {NoFile, Torn} /\ Late /\ Step("read", "next") /\ UNCHANGED <<serve, tries, got>>
     \/ /\ seen \in {NoFile, Torn} /\ ~Late /\ Step("read", "read") /\ UNCHANGED <<serve, got>>
        /\ tries' = IF tries < MaxTries THEN tries + 1 ELSE tries
  /\ UNCHANGED <<vendor, store, stuck, written, seen>>

\* read_vendor_jsonl; a last line that is there in part raises.
ReadLog ==
  /\ \/ Step("log", "next") /\ got' = [got EXCEPT !.log = served] /\ UNCHANGED serve
     \/ pc = "log" /\ Leave /\ UNCHANGED <<process, held, got>>
  /\ UNCHANGED <<vendor, store, stuck, written, seen, tries>>

NextScenario ==
  /\ pc = "next"
  /\ \/ at < Len(Script[task]) /\ at' = at + 1 /\ pc' = "load" /\ UNCHANGED <<graded, task, serve>>
     \/ at = Len(Script[task]) /\ Leave
  /\ held' = {} /\ got' = Nothing
  /\ UNCHANGED <<process, vendor, store, stuck, written, seen, tries>>

Scenario ==
  Load \/ ResetStore \/ Arm \/ Recreate \/ RunApp \/ StopService \/ Unlink \/ Dump
  \/ Read \/ ReadLog \/ NextScenario

RuntimeNext == (\E t \in Tasks : Grade(t)) \/ Scenario \/ ServicePolls \/ Sync

\* The scenario waits for the connector, without a limit (context.py:37,
\* compose_unit.py:1446).
InApp == pc \in {"run", "dump"}

\* The process takes its own steps; when a file appears is up to the mount, and
\* whether the connector ever exits is up to the candidate.
RuntimeSpec ==
  RuntimeInit /\ [][RuntimeNext]_runtimeVars /\ WF_runtimeVars(~InApp /\ Scenario)

-------------------------------------------------------------------------------
(***************************************************************************)
(* Correctness.                                                            *)
(***************************************************************************)

\* The types.
RuntimeTypeOK ==
  /\ modules \in [Helpers -> Tasks \union {None}]
  /\ env \in [Knobs -> Values] /\ file \in [Knobs -> Values] /\ running \in [Knobs -> Values]
  /\ store \subseteq Scenarios /\ served \subseteq Scenarios /\ serve \in Scenarios \union {0}
  /\ tries <= MaxTries /\ at \in Scenarios \union {0}

\* scenario_loader.py:22: in whatever order tasks are graded, and however often one
\* failed while it was loaded, a scenario has the helpers of its own task.
HelpersAreOwn == held \subseteq {task}

\* context.py:66: a scenario's connector meets the vendor with every knob it
\* stated; one that states them all meets nothing that an earlier one armed.
KnobsHold ==
  pc = "run" => \A k \in Knobs :
    running[k] = IF Here.knobs[k] = None THEN env[k] ELSE Here.knobs[k]

\* What a scenario reads back is its own work, complete, and of no earlier one: not
\* from the store, the output of its predecessor, a torn file, or the old log.  The
\* exception is an earlier service that could not be stopped: it polled on after the
\* store was emptied.
ReadsItself ==
  pc \in {"log", "next"} =>
    /\ got.out \subseteq {at, stuck} /\ got.log \subseteq {at, stuck}
    /\ got # Nothing /\ pc = "next" /\ stuck = 0 => got = [out |-> {at}, log |-> {at}]

\* No scenario meets what an earlier one left in the process, in the vendor, on the
\* disk or in a service.
ScenariosApart ==
  /\ RuntimeTypeOK
  /\ HelpersAreOwn
  /\ KnobsHold
  /\ ReadsItself

\* A grading ends, also if no output ever appears on the host, unless it waits for
\* ever for the connector.
GradingEnds == (pc # "idle" ~> pc = "idle") \/ <>[]InApp

===============================================================================
