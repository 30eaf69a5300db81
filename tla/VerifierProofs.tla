---------------------------- MODULE VerifierProofs ----------------------------
(*****************************************************************************)
(* Theorems about what the scenarios of a task verify with: their runtime    *)
(* (module ScenarioRuntime), the pacing of tokens that they look for in a    *)
(* token log (TokenPacing) and the rules that they apply to a request log    *)
(* (ConductRules, ConductLog).                                               *)
(*****************************************************************************)
EXTENDS ConductLog, TokenPacing, ScenarioRuntime, FiniteSetTheorems, SequenceTheorems,
        WellFoundedInduction, TLAPS

(***************************************************************************)
(* ScenarioRuntime.  Every step of a scenario undoes one thing that an     *)
(* earlier one may have left, so the invariant says of each place in the   *)
(* scenario what is clean by then: the environment that was armed is what  *)
(* the vendor runs with from "run" on, the store is empty but for a stuck  *)
(* service from "arm" on, and an output is the scenario's own from "dump"  *)
(* on.                                                                     *)
(***************************************************************************)
Places == {"idle", "load", "reset", "arm", "recreate", "run", "stop", "unlink", "dump", "read",
           "log", "next"}

Emptied == {"arm", "recreate", "run", "stop", "unlink", "dump", "read", "log", "next"}
Worked == {"stop", "unlink", "dump", "read", "log", "next"}
Dumped == {"dump", "read", "log", "next"}

FileType == [state : {"absent", "torn", "undecodable", "whole"}, of : SUBSET Scenarios]

RuntimeTypes ==
  /\ modules \in [Helpers -> Tasks \union {None}] /\ path \in Seq(Tasks)
  /\ graded \in Nat /\ pc \in Places
  /\ task \in Tasks \union {None} /\ at \in Scenarios \union {0}
  /\ pc # "idle" => task \in Tasks /\ at \in 1..Len(Script[task])
  /\ env \in [Knobs -> Values] /\ file \in [Knobs -> Values] /\ running \in [Knobs -> Values]
  /\ store \subseteq Scenarios /\ served \subseteq Scenarios
  /\ serve \in Scenarios \union {0} /\ stuck \in Scenarios \union {0}
  /\ written \in FileType /\ seen \in FileType
  /\ tries \in 0..MaxTries
  /\ got \in [out : SUBSET Scenarios, log : SUBSET Scenarios]

KnobsArmed ==
  pc \in {"recreate", "run"} => \A k \in Knobs : Here.knobs[k] # None => env[k] = Here.knobs[k]

Booted == pc = "run" => running = env

\* Work of the present scenario, and of none but it and the stuck one.
Own(set) == at \in set /\ set \subseteq {at, stuck}

Holding ==
  /\ pc \in {"arm", "recreate", "run"} => store \subseteq {stuck} /\ serve = stuck
  /\ pc = "run" => served \subseteq {stuck}
  /\ pc \in Worked => Own(store) /\ Own(served) /\ serve \in {0, at, stuck}

OutputsOwn ==
  pc \in Dumped =>
    /\ written.state = "whole" => Own(written.of)
    /\ seen.state = "whole" => Own(seen.of)

Reading ==
  /\ pc \in Emptied \ {"log", "next"} => got = Nothing
  /\ pc = "log" => Own(got.out) /\ got.log = {}
  /\ pc = "next" => got = Nothing \/ (Own(got.out) /\ Own(got.log))

RuntimeInv ==
  RuntimeTypes /\ HelpersAreOwn /\ KnobsArmed /\ Booted /\ Holding /\ OutputsOwn /\ Reading

LEMMA RuntimeGives == RuntimeInv => ScenariosApart
<1> SUFFICES ASSUME RuntimeInv PROVE ScenariosApart
  OBVIOUS
<1>1. RuntimeTypeOK
  BY RuntimeAssumption DEF RuntimeInv, RuntimeTypes, RuntimeTypeOK
<1>2. KnobsHold
  BY DEF RuntimeInv, KnobsArmed, Booted, KnobsHold
<1>3. ReadsItself
  <2>1. CASE pc = "log"
    <3>1. Own(got.out) /\ got.log = {}
      BY <2>1 DEF RuntimeInv, Reading
    <3> QED
      BY <2>1, <3>1 DEF ReadsItself, Own
  <2>2. CASE pc = "next" /\ got = Nothing
    BY <2>2 DEF ReadsItself, Nothing
  <2>3. CASE pc = "next" /\ Own(got.out) /\ Own(got.log)
    <3>1. at \in 1..4 /\ got \in [out : SUBSET Scenarios, log : SUBSET Scenarios]
      BY <2>3, RuntimeAssumption DEF RuntimeInv, RuntimeTypes, Scenarios
    <3>2. 0 \notin got.out /\ 0 \notin got.log
      BY <3>1 DEF Scenarios
    <3>4. stuck = 0 => got.out = {at} /\ got.log = {at}
      BY <2>3, <3>2 DEF Own
    <3>3. stuck = 0 => got = [out |-> {at}, log |-> {at}]
      BY <3>1, <3>4
    <3> QED
      BY <2>3, <3>3 DEF ReadsItself, Own
  <2> QED
    BY <2>1, <2>2, <2>3 DEF RuntimeInv, Reading, ReadsItself
<1> QED
  BY <1>1, <1>2, <1>3 DEF ScenariosApart, RuntimeInv

LEMMA RuntimeInit_Keeps == RuntimeInit => RuntimeInv
  BY RuntimeAssumption
  DEF RuntimeInit, RuntimeInv, RuntimeTypes, HelpersAreOwn, KnobsArmed, Booted, Holding,
      OutputsOwn, Reading, Places, Emptied, Worked, Dumped, FileType, NoFile, File, Nothing,
      AllOff, Values, Scenarios

SceneType == [helpers : SUBSET Helpers, knobs : Setting, full : BOOLEAN, serves : BOOLEAN]

LEMMA HereType ==
  ASSUME RuntimeTypes, pc # "idle"
  PROVE  Here \in SceneType /\ task \in Tasks /\ at \in 1..Len(Script[task])
<1>1. task \in Tasks /\ at \in 1..Len(Script[task])
  BY DEF RuntimeTypes
<1>2. Script[task] \in Seq(SceneType)
  BY <1>1, RuntimeAssumption DEF SceneType
<1> QED
  BY <1>1, <1>2 DEF Here

\* The directory of the present task is in front of all others.
LEMMA OwnIsFound ==
  ASSUME NEW t \in Tasks, NEW dirs \in Seq(Tasks), NEW h, HasHelper(t, h)
  PROVE  Found(h, <<t>> \o dirs) = t
<1> DEFINE all == <<t>> \o dirs
           First(i) == HasHelper(all[i], h) /\ \A j \in 1..(i - 1) : ~HasHelper(all[j], h)
<1>1. all[1] = t /\ 1 \in 1..Len(all)
  OBVIOUS
<1>2. First(1)
  BY <1>1
<1>3. \A i \in 1..Len(all) : First(i) => i = 1
  BY <1>1
<1>4. (CHOOSE i \in 1..Len(all) : First(i)) = 1
  BY <1>1, <1>2, <1>3
<1> QED
  BY <1>1, <1>4 DEF Found

LEMMA RuntimeKeeps == RuntimeInv /\ UNCHANGED runtimeVars => RuntimeInv'
  BY DEF RuntimeInv, RuntimeTypes, HelpersAreOwn, KnobsArmed, Booted, Holding, OutputsOwn,
         Reading, Own, Here, runtimeVars, process, vendor, output

LEMMA GradeKeeps ==
  ASSUME RuntimeInv, NEW t \in Tasks, Grade(t)
  PROVE  RuntimeInv'
<1>1. /\ pc' \in {"idle", "load"} /\ (pc' = "load" => Script[t] # << >>)
      /\ task' = t /\ at' = 1 /\ held' = {} /\ graded' = graded + 1
      /\ env' = AllOff /\ file' = AllOff /\ running' = AllOff
      /\ store' = {} /\ served' = {} /\ serve' = 0 /\ stuck' = 0
      /\ written' = NoFile /\ seen' = NoFile /\ tries' = 0 /\ got' = Nothing
      /\ UNCHANGED <<modules, path>>
  BY DEF Grade, process
<1>2. Script[t] # << >> => 1 \in 1..Len(Script[t])
  BY RuntimeAssumption
<1>3. /\ AllOff \in [Knobs -> Values] /\ NoFile \in FileType
      /\ Nothing \in [out : SUBSET Scenarios, log : SUBSET Scenarios]
      /\ 0 \in 0..MaxTries /\ 1 \in Scenarios
  BY RuntimeAssumption DEF AllOff, Values, NoFile, File, FileType, Nothing, Scenarios
<1>4. RuntimeTypes'
  BY <1>1, <1>2, <1>3 DEF RuntimeInv, RuntimeTypes, Places
<1> QED
  BY <1>1, <1>4
  DEF RuntimeInv, HelpersAreOwn, KnobsArmed, Booted, Holding, OutputsOwn, Reading, Emptied,
      Worked, Dumped

\* A grading that is left keeps nothing running.
LEMMA LeaveKeeps ==
  ASSUME RuntimeInv, Leave,
         modules' \in [Helpers -> Tasks \union {None}], path' \in Seq(Tasks),
         held' \subseteq {task}, UNCHANGED <<env, running, stuck, written, seen, tries>>,
         file' \in {file, env}, got' \in {got, Nothing},
         store' = store, served' = served
  PROVE  RuntimeInv'
<1>1. RuntimeTypes'
  BY DEF RuntimeInv, RuntimeTypes, Leave, Places, Nothing
<1> QED
  BY <1>1
  DEF RuntimeInv, Leave, HelpersAreOwn, KnobsArmed, Booted, Holding, OutputsOwn, Reading,
      Emptied, Worked, Dumped

LEMMA LoadKeeps == RuntimeInv /\ Load => RuntimeInv'
<1> SUFFICES ASSUME RuntimeInv, Load PROVE RuntimeInv'
  OBVIOUS
<1>1. /\ pc = "load" /\ task \in Tasks /\ at \in 1..Len(Script[task])
      /\ Here.helpers \subseteq Helpers
      /\ path' = <<task>> \o path /\ path' \in Seq(Tasks)
      /\ UNCHANGED <<vendor, store, stuck, output>>
  <2>1. pc = "load" /\ path' = <<task>> \o path /\ UNCHANGED <<vendor, store, stuck, output>>
    BY DEF Load
  <2>2. task \in Tasks /\ at \in 1..Len(Script[task]) /\ Here.helpers \subseteq Helpers
    BY <2>1, HereType DEF RuntimeInv, SceneType
  <2> QED
    BY <2>1, <2>2 DEF RuntimeInv, RuntimeTypes
<1>2. PICK imported \in SUBSET Here.helpers :
        /\ modules' = [h \in Helpers |->
             IF h \in imported /\ Purged[h] = None THEN Found(h, path') ELSE Purged[h]]
        /\ held' = {modules'[h] : h \in imported}
        /\ \/ imported = Here.helpers /\ pc' = "reset" /\ UNCHANGED <<graded, task, at, serve>>
           \/ imported # Here.helpers /\ Leave
  BY DEF Load
<1>3. imported \subseteq Helpers
  BY <1>1
<1>4. \A h \in imported : HasHelper(task, h)
  BY <1>1 DEF Here, HasHelper
<1>5. \A h \in imported : Found(h, path') = task
  BY <1>1, <1>4, OwnIsFound DEF RuntimeInv, RuntimeTypes
<1>6. \A h \in Helpers : Purged[h] \in {task, None}
  BY DEF Purged
<1>7. \A h \in Helpers : modules'[h] \in {task, None} /\ (h \in imported => modules'[h] = task)
  BY <1>2, <1>5, <1>6
<1>8. modules' \in [Helpers -> Tasks \union {None}] /\ held' \subseteq {task}
  BY <1>1, <1>2, <1>3, <1>7
<1>9. CASE Leave
  BY <1>1, <1>8, <1>9, LeaveKeeps DEF vendor, output
<1>10. CASE pc' = "reset" /\ UNCHANGED <<graded, task, at, serve>>
  <2>1. RuntimeTypes'
    BY <1>1, <1>8, <1>10 DEF RuntimeInv, RuntimeTypes, Places, vendor, output
  <2> QED
    BY <1>8, <1>10, <2>1
    DEF RuntimeInv, HelpersAreOwn, KnobsArmed, Booted, Holding, OutputsOwn, Reading, Emptied,
        Worked, Dumped
<1> QED
  BY <1>2, <1>9, <1>10

LEMMA ResetStoreKeeps == RuntimeInv /\ ResetStore => RuntimeInv'
<1> SUFFICES ASSUME RuntimeInv, ResetStore PROVE RuntimeInv'
  OBVIOUS
<1>1. RuntimeTypes'
  BY DEF ResetStore, Step, RuntimeInv, RuntimeTypes, process, vendor, Places, Nothing
<1> QED
  BY <1>1
  DEF ResetStore, Step, RuntimeInv, HelpersAreOwn, KnobsArmed, Booted, Holding, OutputsOwn,
      Reading, Emptied, Worked, Dumped

LEMMA ArmKeeps == RuntimeInv /\ Arm => RuntimeInv'
<1> SUFFICES ASSUME RuntimeInv, Arm PROVE RuntimeInv'
  OBVIOUS
<1>1. Here.knobs \in Setting
  BY HereType DEF Arm, Step, RuntimeInv, SceneType
<1>2. /\ env' \in [Knobs -> Values]
      /\ \A k \in Knobs : Here.knobs[k] # None => env'[k] = Here.knobs[k]
  BY <1>1 DEF Arm, Armed, Setting, RuntimeInv, RuntimeTypes
<1>3. RuntimeTypes'
  BY <1>2 DEF Arm, Step, RuntimeInv, RuntimeTypes, process, output, Places
<1>4. KnobsArmed'
  BY <1>2 DEF Arm, Step, KnobsArmed, Here
<1> QED
  BY <1>3, <1>4
  DEF Arm, Step, RuntimeInv, HelpersAreOwn, Booted, Holding, OutputsOwn, Reading, Emptied,
      Worked, Dumped, output

LEMMA RecreateKeeps == RuntimeInv /\ Recreate => RuntimeInv'
<1> SUFFICES ASSUME RuntimeInv, Recreate PROVE RuntimeInv'
  OBVIOUS
<1>1. CASE Leave /\ UNCHANGED <<process, held, running, served>>
  BY <1>1, LeaveKeeps DEF Recreate, RuntimeInv, RuntimeTypes, HelpersAreOwn, process, output
<1>2. CASE running' = file' /\ served' = {} /\ Step("recreate", "run") /\ UNCHANGED serve
  <2>1. RuntimeTypes'
    BY <1>2 DEF Recreate, Step, RuntimeInv, RuntimeTypes, process, output, Places
  <2> QED
    BY <1>2, <2>1
    DEF Recreate, Step, RuntimeInv, HelpersAreOwn, KnobsArmed, Here, Booted, Holding,
        OutputsOwn, Reading, Emptied, Worked, Dumped, output
<1> QED
  BY <1>1, <1>2 DEF Recreate

LEMMA RunAppKeeps == RuntimeInv /\ RunApp => RuntimeInv'
<1> SUFFICES ASSUME RuntimeInv, RunApp PROVE RuntimeInv'
  OBVIOUS
<1>1. /\ pc = "run" /\ pc' \in {"stop", "unlink"}
      /\ store' = store \union {at} /\ served' = served \union {at} /\ serve' \in {at, serve}
      /\ UNCHANGED <<process, graded, task, at, held, env, file, running, stuck, output>>
  BY DEF RunApp, Step
<1>2. at \in Scenarios
  BY <1>1, RuntimeAssumption DEF RuntimeInv, RuntimeTypes, Scenarios
<1>3. RuntimeTypes'
  BY <1>1, <1>2 DEF RuntimeInv, RuntimeTypes, process, output, Places
<1>4. Holding'
  BY <1>1 DEF RuntimeInv, Holding, Own, Worked
<1> QED
  BY <1>1, <1>3, <1>4
  DEF RuntimeInv, HelpersAreOwn, KnobsArmed, Booted, OutputsOwn, Reading, Emptied, Dumped,
      output

LEMMA ServicePollsKeeps == RuntimeInv /\ ServicePolls => RuntimeInv'
<1> SUFFICES ASSUME RuntimeInv, ServicePolls PROVE RuntimeInv'
  OBVIOUS
<1>1. /\ serve # 0 /\ store' = store \union {serve} /\ served' = served \union {serve}
      /\ UNCHANGED <<process, graded, task, at, pc, held, env, file, running, serve, stuck, output>>
  BY DEF ServicePolls
<1>2. RuntimeTypes'
  BY <1>1 DEF RuntimeInv, RuntimeTypes, process, output
<1>3. Holding'
  BY <1>1 DEF RuntimeInv, Holding, Own
<1> QED
  BY <1>1, <1>2, <1>3
  DEF RuntimeInv, HelpersAreOwn, KnobsArmed, Here, Booted, OutputsOwn, Own, Reading, output

LEMMA StopServiceKeeps == RuntimeInv /\ StopService => RuntimeInv'
<1> SUFFICES ASSUME RuntimeInv, StopService PROVE RuntimeInv'
  OBVIOUS
<1>1. /\ pc = "stop" /\ pc' = "unlink" /\ serve' \in {0, serve}
      /\ UNCHANGED <<process, graded, task, at, held, vendor, store, stuck, output>>
  BY DEF StopService, Step
<1>2. RuntimeTypes'
  BY <1>1 DEF RuntimeInv, RuntimeTypes, process, vendor, output, Places
<1> QED
  BY <1>1, <1>2
  DEF RuntimeInv, HelpersAreOwn, KnobsArmed, Booted, Holding, OutputsOwn, Own, Reading,
      Emptied, Worked, Dumped, output, vendor

LEMMA UnlinkKeeps == RuntimeInv /\ Unlink => RuntimeInv'
<1> SUFFICES ASSUME RuntimeInv, Unlink PROVE RuntimeInv'
  OBVIOUS
<1>1. /\ pc = "unlink" /\ pc' = "dump" /\ written' = NoFile /\ seen' = NoFile
      /\ UNCHANGED <<process, graded, task, at, held, vendor, store, serve, stuck, tries, got>>
  BY DEF Unlink, Step
<1>2. NoFile \in FileType /\ NoFile.state # "whole"
  BY DEF NoFile, File, FileType
<1>3. RuntimeTypes'
  BY <1>1, <1>2 DEF RuntimeInv, RuntimeTypes, process, vendor, Places
<1> QED
  BY <1>1, <1>2, <1>3
  DEF RuntimeInv, HelpersAreOwn, KnobsArmed, Booted, Holding, OutputsOwn, Own, Reading,
      Emptied, Worked, Dumped, vendor

LEMMA DumpKeeps == RuntimeInv /\ Dump => RuntimeInv'
<1> SUFFICES ASSUME RuntimeInv, Dump PROVE RuntimeInv'
  OBVIOUS
<1>1. /\ pc = "dump" /\ pc' \in {"read", "next"} /\ tries' = 0
      /\ written' \in {File("whole", store), Undecodable, written}
      /\ UNCHANGED <<process, graded, task, at, held, vendor, store, serve, stuck, seen, got>>
  BY DEF Dump, Step
<1>2. /\ File("whole", store) \in FileType /\ Undecodable \in FileType
      /\ File("whole", store).of = store /\ Undecodable.state # "whole"
  BY DEF Undecodable, File, FileType, RuntimeInv, RuntimeTypes
<1>3. RuntimeTypes'
  BY <1>1, <1>2, RuntimeAssumption DEF RuntimeInv, RuntimeTypes, process, vendor, Places
<1>4. OutputsOwn'
  BY <1>1, <1>2 DEF RuntimeInv, Holding, OutputsOwn, Own, Worked, Dumped
<1> QED
  BY <1>1, <1>3, <1>4
  DEF RuntimeInv, HelpersAreOwn, KnobsArmed, Booted, Holding, Own, Reading, Emptied, Worked,
      vendor

LEMMA SyncKeeps == RuntimeInv /\ Sync => RuntimeInv'
<1> SUFFICES ASSUME RuntimeInv, Sync PROVE RuntimeInv'
  OBVIOUS
<1>1. /\ pc = "read" /\ seen' \in {Torn, Undecodable, written}
      /\ UNCHANGED <<process, graded, task, at, pc, held, vendor, store, serve, stuck, written,
                     tries, got>>
  BY DEF Sync
<1>2. /\ Torn \in FileType /\ Undecodable \in FileType
      /\ Torn.state # "whole" /\ Undecodable.state # "whole"
  BY DEF Torn, Undecodable, File, FileType
<1>3. RuntimeTypes'
  BY <1>1, <1>2 DEF RuntimeInv, RuntimeTypes, process, vendor
<1>4. OutputsOwn'
  BY <1>1, <1>2 DEF RuntimeInv, OutputsOwn, Own, Dumped
<1> QED
  BY <1>1, <1>3, <1>4
  DEF RuntimeInv, HelpersAreOwn, KnobsArmed, Booted, Holding, Own, Reading, Emptied, Worked,
      vendor

LEMMA ReadKeeps == RuntimeInv /\ Read => RuntimeInv'
<1> SUFFICES ASSUME RuntimeInv, Read PROVE RuntimeInv'
  OBVIOUS
<1>1. pc = "read" /\ UNCHANGED <<vendor, store, stuck, written, seen>>
  BY DEF Read
<1>2. CASE Parses /\ Step("read", "log") /\ got' = [out |-> seen.of, log |-> {}]
           /\ UNCHANGED <<serve, tries>>
  <2>1. RuntimeTypes'
    BY <1>1, <1>2 DEF Step, RuntimeInv, RuntimeTypes, FileType, process, vendor, Places
  <2>2. Reading'
    BY <1>1, <1>2 DEF Step, Parses, RuntimeInv, OutputsOwn, Reading, Own, Dumped, Emptied
  <2> QED
    BY <1>1, <1>2, <2>1, <2>2
    DEF Step, RuntimeInv, HelpersAreOwn, KnobsArmed, Booted, Holding, OutputsOwn, Own, Worked,
        Dumped, vendor
<1>3. CASE Leave /\ UNCHANGED <<process, held, tries, got>>
  BY <1>1, <1>3, LeaveKeeps DEF RuntimeInv, RuntimeTypes, HelpersAreOwn, process, vendor
<1>4. CASE \E to \in {"read", "next"} :
             Step("read", to) /\ UNCHANGED <<serve, got>> /\ tries' \in 0..MaxTries
  <2>1. RuntimeTypes'
    BY <1>1, <1>4 DEF Step, RuntimeInv, RuntimeTypes, process, vendor, Places
  <2>2. Reading'
    BY <1>1, <1>4 DEF Step, RuntimeInv, Reading, Emptied
  <2> QED
    BY <1>1, <1>4, <2>1, <2>2
    DEF Step, RuntimeInv, HelpersAreOwn, KnobsArmed, Booted, Holding, OutputsOwn, Own, Worked,
        Dumped, vendor
<1>5. tries \in 0..MaxTries /\ (tries < MaxTries => tries + 1 \in 0..MaxTries)
  BY RuntimeAssumption DEF RuntimeInv, RuntimeTypes
<1> QED
  BY <1>2, <1>3, <1>4, <1>5 DEF Read

LEMMA ReadLogKeeps == RuntimeInv /\ ReadLog => RuntimeInv'
<1> SUFFICES ASSUME RuntimeInv, ReadLog PROVE RuntimeInv'
  OBVIOUS
<1>1. pc = "log" /\ UNCHANGED <<vendor, store, stuck, written, seen, tries>>
  BY DEF ReadLog, Step
<1>2. CASE Step("log", "next") /\ got' = [got EXCEPT !.log = served] /\ UNCHANGED serve
  <2>1. RuntimeTypes'
    BY <1>1, <1>2 DEF Step, RuntimeInv, RuntimeTypes, process, vendor, Places
  <2>2. Reading'
    BY <1>1, <1>2 DEF Step, RuntimeInv, RuntimeTypes, Holding, Reading, Own, Worked, Emptied
  <2> QED
    BY <1>1, <1>2, <2>1, <2>2
    DEF Step, RuntimeInv, HelpersAreOwn, KnobsArmed, Booted, Holding, OutputsOwn, Own, Worked,
        Dumped, vendor
<1>3. CASE Leave /\ UNCHANGED <<process, held, got>>
  BY <1>1, <1>3, LeaveKeeps DEF RuntimeInv, RuntimeTypes, HelpersAreOwn, process, vendor
<1> QED
  BY <1>2, <1>3 DEF ReadLog

LEMMA NextScenarioKeeps == RuntimeInv /\ NextScenario => RuntimeInv'
<1> SUFFICES ASSUME RuntimeInv, NextScenario PROVE RuntimeInv'
  OBVIOUS
<1>1. /\ pc = "next" /\ held' = {} /\ got' = Nothing
      /\ UNCHANGED <<process, vendor, store, stuck, written, seen, tries>>
  BY DEF NextScenario
<1>2. CASE Leave
  BY <1>1, <1>2, LeaveKeeps DEF RuntimeInv, RuntimeTypes, process, vendor
<1>3. CASE at < Len(Script[task]) /\ at' = at + 1 /\ pc' = "load" /\ UNCHANGED <<graded, task, serve>>
  <2>1. task \in Tasks /\ at \in 1..Len(Script[task]) /\ Len(Script[task]) <= 4
        /\ Len(Script[task]) \in Nat
    BY <1>1, HereType, RuntimeAssumption DEF RuntimeInv
  <2>2. at' \in 1..Len(Script[task]) /\ at' \in Scenarios
    BY <1>3, <2>1 DEF Scenarios
  <2>3. RuntimeTypes'
    BY <1>1, <1>3, <2>1, <2>2 DEF RuntimeInv, RuntimeTypes, process, vendor, Places, Nothing
  <2> QED
    BY <1>1, <1>3, <2>3
    DEF RuntimeInv, HelpersAreOwn, KnobsArmed, Booted, Holding, OutputsOwn, Reading, Worked,
        Dumped, Emptied
<1> QED
  BY <1>2, <1>3 DEF NextScenario

\* The invariant holds in every reachable state.
THEOREM RuntimeInvariant == RuntimeSpec => []RuntimeInv
<1>1. RuntimeInit => RuntimeInv
  BY RuntimeInit_Keeps
<1>2. RuntimeInv /\ [RuntimeNext]_runtimeVars => RuntimeInv'
  BY RuntimeKeeps, GradeKeeps, LoadKeeps, ResetStoreKeeps, ArmKeeps, RecreateKeeps, RunAppKeeps,
     ServicePollsKeeps, StopServiceKeeps, UnlinkKeeps, DumpKeeps, SyncKeeps, ReadKeeps,
     ReadLogKeeps, NextScenarioKeeps
  DEF RuntimeNext, Scenario
<1> QED
  BY <1>1, <1>2, PTL DEF RuntimeSpec

\* ScenarioRuntime, ScenariosApart: whatever tasks a process grades, in whatever order, and
\* wherever a scenario of theirs fails, no scenario has the helpers, the knobs, the rows, the
\* output or the log of an earlier one, unless a service could not be stopped.
THEOREM ScenariosStayApart == RuntimeSpec => []ScenariosApart
  BY RuntimeInvariant, RuntimeGives, PTL

-------------------------------------------------------------------------------
(***************************************************************************)
(* TokenPacing.  The tokens that were granted for their full life are      *)
(* counted by runs: those of the present run lie TTL apart, and none of    *)
(* the earlier ones had more than one beyond what fits into the window.    *)
(***************************************************************************)

\* Facts of arithmetic that are used with products.
LEMMA ProductGrows ==
  ASSUME NEW a \in Nat, NEW b \in Nat, NEW c \in Nat, a <= b
  PROVE  a * c <= b * c /\ a * c \in Nat /\ b * c \in Nat
  OBVIOUS

LEMMA ProductCancels ==
  ASSUME NEW a \in Nat, NEW b \in Nat, NEW c \in Nat \ {0}, a * c <= b * c
  PROVE  a <= b
  OBVIOUS

LEMMA DivisionCovers ==
  ASSUME NEW x \in Nat, NEW d \in Nat \ {0}
  PROVE  /\ (x + d - 1) \div d \in Nat
         /\ x <= ((x + d - 1) \div d) * d
  OBVIOUS

PacingTypes ==
  /\ elapsed \in 0..MaxTicks /\ runs \in 1..MaxRuns /\ expires \in Int
  /\ grants \in Seq(Lives)
  /\ expires <= elapsed + TTL
  /\ window \in {<< >>} \union (Nat \X Nat)
  /\ window # << >> => window[1] <= window[2] /\ window[2] <= elapsed
  /\ window = << >> <=> grants = << >>
  /\ window = << >> => expires <= elapsed

Full == Len(grants) - ShortGrants

\* c counts the full tokens of the present run; q * TTL fits into the window.
Counted(c, q) ==
  /\ Full <= (q + 1) * (runs - 1) + c
  /\ q * TTL <= LogWindow
  /\ c # 0 => window # << >> /\ window[1] + c * TTL <= expires /\ expires <= window[2] + TTL

PacingInv == PacingTypes /\ \E c, q \in Nat : Counted(c, q)

LEMMA LivesType == Lives \subseteq 1..TTL /\ TTL \in Lives /\ TTL \in Nat \ {0}
  BY PacingAssumption DEF Lives

LEMMA ShortGrantsType ==
  ASSUME grants \in Seq(Lives)
  PROVE  ShortGrants \in Nat
<1>1. IsFiniteSet(1..Len(grants)) /\ DOMAIN grants = 1..Len(grants)
  BY FS_Interval
<1>2. {i \in DOMAIN grants : grants[i] < TTL} \subseteq 1..Len(grants)
  BY <1>1
<1> QED
  BY <1>1, <1>2, FS_Subset, FS_CardinalityType DEF ShortGrants

\* A grant adds one to the short ones if it is short.
LEMMA GrantCounts ==
  ASSUME grants \in Seq(Lives), NEW life \in Lives, grants' = Append(grants, life)
  PROVE  /\ Len(grants') = Len(grants) + 1
         /\ ShortGrants' = ShortGrants + (IF life < TTL THEN 1 ELSE 0)
<1> DEFINE before == {i \in DOMAIN grants : grants[i] < TTL}
           after == {i \in DOMAIN grants' : grants'[i] < TTL}
           len == Len(grants) + 1
<1>1. /\ DOMAIN grants = 1..Len(grants) /\ DOMAIN grants' = 1..len /\ Len(grants) \in Nat
      /\ grants'[len] = life /\ \A i \in 1..Len(grants) : grants'[i] = grants[i]
  OBVIOUS
<1>2. len \notin before /\ IsFiniteSet(before)
  <2>1. IsFiniteSet(1..Len(grants)) /\ before \subseteq 1..Len(grants)
    BY <1>1, FS_Interval
  <2>2. len \notin 1..Len(grants)
    BY <1>1
  <2> QED
    BY <2>1, <2>2, FS_Subset
<1>3. after = IF life < TTL THEN before \union {len} ELSE before
  <2>1. \A i : i \in after <=> (i \in before \/ (i = len /\ life < TTL))
    BY <1>1
  <2> QED
    BY <2>1
<1>4. Cardinality(after) = Cardinality(before) + (IF life < TTL THEN 1 ELSE 0)
  <2>1. Cardinality(before \union {len}) = Cardinality(before) + 1
    BY <1>2, FS_AddElement
  <2>2. Cardinality(before) \in Nat
    BY <1>2, FS_CardinalityType
  <2> HIDE DEF before, after, len
  <2> QED
    BY <1>3, <2>1, <2>2
<1>5. Len(grants') = Len(grants) + 1
  OBVIOUS
<1>6. ShortGrants = Cardinality(before) /\ ShortGrants' = Cardinality(after)
  BY DEF ShortGrants
<1> QED
  BY <1>4, <1>5, <1>6

LEMMA WindowType ==
  ASSUME PacingTypes
  PROVE  LogWindow \in Nat
  BY DEF PacingTypes, LogWindow

\* The rule's minimal number of tokens covers the window.
LEMMA MinimalCovers ==
  ASSUME PacingTypes
  PROVE  /\ MinimalNeeded \in Nat \ {0}
         /\ LogWindow <= MinimalNeeded * TTL
<1>1. LogWindow \in Nat /\ TTL \in Nat \ {0}
  BY WindowType, LivesType
<1>2. CASE LogWindow <= TTL
  BY <1>1, <1>2 DEF MinimalNeeded
<1>3. CASE LogWindow > TTL
  <2>1. /\ MinimalNeeded = (LogWindow + TTL - 1) \div TTL
        /\ MinimalNeeded \in Nat /\ LogWindow <= MinimalNeeded * TTL
    BY <1>1, <1>3, DivisionCovers DEF MinimalNeeded
  <2> QED
    BY <1>1, <1>3, <2>1
<1> QED
  BY <1>1, <1>2, <1>3

\* The full tokens of the present run, but for one, fit into the window as well.
LEMMA RunCounted ==
  ASSUME PacingTypes, NEW c \in Nat, NEW q \in Nat, Counted(c, q)
  PROVE  \E p \in Nat : Full <= (p + 1) * runs /\ p * TTL <= LogWindow
<1>1. /\ LogWindow \in Nat /\ TTL \in Nat \ {0} /\ runs \in Nat \ {0}
      /\ Len(grants) \in Nat /\ ShortGrants \in Nat
      /\ Full \in Int
  BY WindowType, LivesType, ShortGrantsType, PacingAssumption DEF PacingTypes, Full
<1>2. Full <= (q + 1) * (runs - 1) + c /\ q * TTL <= LogWindow
  BY DEF Counted
<1>3. CASE c <= q + 1
  <2>1. (q + 1) * (runs - 1) + c <= (q + 1) * runs
    BY <1>1, <1>3
  <2> QED
    BY <1>1, <1>2, <2>1
<1>4. CASE c > q + 1
  <2>1. window # << >> /\ window[1] + c * TTL <= expires /\ expires <= window[2] + TTL
        /\ LogWindow = window[2] - window[1] /\ window[1] \in Nat /\ window[2] \in Nat
        /\ expires \in Int
    BY <1>4 DEF Counted, PacingTypes, LogWindow
  <2>2. (c - 1) * TTL <= LogWindow
    BY <1>1, <2>1
  <2>3. (q + 1) * (runs - 1) <= c * (runs - 1)
    BY <1>1, <1>4, ProductGrows
  <2>4. Full <= ((c - 1) + 1) * runs
    BY <1>1, <1>2, <2>3
  <2> QED
    BY <1>4, <2>2, <2>4
<1> QED
  BY <1>3, <1>4

LEMMA PacingGives == PacingInv => PacingCorrect
<1> SUFFICES ASSUME PacingInv PROVE PacingCorrect
  OBVIOUS
<1>1. PacingTypeOK
  BY DEF PacingInv, PacingTypes, PacingTypeOK
<1>2. CorrectNeverFlagged
  <2>1. PICK p \in Nat : Full <= (p + 1) * runs /\ p * TTL <= LogWindow
    BY RunCounted DEF PacingInv
  <2>2. /\ LogWindow \in Nat /\ TTL \in Nat \ {0} /\ runs \in Nat \ {0} /\ Margin \in Nat \ {0}
        /\ Len(grants) \in Nat /\ ShortGrants \in Nat
    BY WindowType, LivesType, ShortGrantsType, PacingAssumption DEF PacingInv, PacingTypes
  <2>3. MinimalNeeded \in Nat \ {0} /\ LogWindow <= MinimalNeeded * TTL
    BY MinimalCovers DEF PacingInv
  <2>4. p <= MinimalNeeded
    <3>1. p * TTL <= MinimalNeeded * TTL
      BY <2>1, <2>2, <2>3
    <3> QED
      BY <2>2, <2>3, <3>1, ProductCancels
  <2>5. p + 1 <= MinimalNeeded * Margin + 1
    BY <2>2, <2>3, <2>4
  <2>6. (p + 1) * runs <= (MinimalNeeded * Margin + 1) * runs
    BY <2>2, <2>3, <2>5, ProductGrows
  <2>7. ShortGrants <= ShortGrants * runs
    BY <2>2
  <2>8. Allowed = (MinimalNeeded * Margin + 1) * runs + ShortGrants * runs
    BY <2>2, <2>3 DEF Allowed
  <2> QED
    BY <2>1, <2>2, <2>3, <2>6, <2>7, <2>8 DEF CorrectNeverFlagged, Full
<1> QED
  BY <1>1, <1>2 DEF PacingCorrect

LEMMA PacingInit_Holds == PacingInit => PacingInv
<1> SUFFICES ASSUME PacingInit PROVE PacingInv
  OBVIOUS
<1>1. PacingTypes
  BY PacingAssumption DEF PacingInit, PacingTypes
<1>2. Counted(0, 0)
  <2>1. ShortGrants \in Nat
    BY <1>1, ShortGrantsType DEF PacingTypes
  <2> QED
    BY <2>1, LivesType DEF PacingInit, Counted, Full, LogWindow
<1> QED
  BY <1>1, <1>2 DEF PacingInv

\* A request only widens the window.
LEMMA LogWidens ==
  ASSUME PacingTypes, Log, UNCHANGED elapsed
  PROVE  /\ window' \in Nat \X Nat /\ window'[1] <= window'[2] /\ window'[2] = elapsed
         /\ window # << >> => window'[1] = window[1] /\ window[2] <= window'[2]
         /\ window = << >> => window'[1] = elapsed
         /\ LogWindow <= LogWindow' /\ LogWindow' \in Nat
<1>1. elapsed \in Nat
  BY PacingAssumption DEF PacingTypes
<1>2. CASE window = << >>
  BY <1>1, <1>2 DEF Log, LogWindow
<1>3. CASE window # << >>
  <2>1. window \in Nat \X Nat /\ window' = [window EXCEPT ![2] = elapsed]
    BY <1>3 DEF Log, PacingTypes
  <2>2. window' = <<window[1], elapsed>>
    BY <2>1
  <2> QED
    BY <1>1, <1>3, <2>1, <2>2 DEF PacingTypes, LogWindow
<1> QED
  BY <1>2, <1>3

LEMMA CallKeeps == PacingInv /\ Call => PacingInv'
<1> SUFFICES ASSUME PacingInv, Call PROVE PacingInv'
  OBVIOUS
<1>1. /\ elapsed < expires /\ Log /\ UNCHANGED <<elapsed, runs, expires, grants>>
      /\ PacingTypes
  BY DEF Call, PacingInv
<1>2. window # << >>
  BY <1>1 DEF PacingTypes
<1>3. /\ elapsed \in Nat /\ TTL \in Nat \ {0} /\ Full \in Int /\ expires \in Int
      /\ window \in Nat \X Nat
  BY <1>1, <1>2, ShortGrantsType, LivesType, PacingAssumption DEF PacingTypes, Full
<1>4. /\ window' \in Nat \X Nat /\ window'[1] = window[1] /\ window'[1] <= window'[2]
      /\ window'[2] = elapsed /\ window[2] <= window'[2]
      /\ LogWindow <= LogWindow' /\ LogWindow' \in Nat /\ LogWindow \in Nat
  BY <1>1, <1>2, LogWidens, WindowType
<1>5. PacingTypes'
  BY <1>1, <1>2, <1>3, <1>4 DEF PacingTypes
<1>6. PICK c, q \in Nat : Counted(c, q)
  BY DEF PacingInv
<1>7. Full' = Full
  BY <1>1 DEF Full, ShortGrants
<1>8. Counted(c, q)'
  BY <1>1, <1>2, <1>3, <1>4, <1>6, <1>7 DEF Counted
<1> QED
  BY <1>5, <1>8 DEF PacingInv

LEMMA MintKeeps == PacingInv /\ MintAndCall => PacingInv'
<1> SUFFICES ASSUME PacingInv, MintAndCall PROVE PacingInv'
  OBVIOUS
<1>1. /\ elapsed >= expires /\ Log /\ UNCHANGED <<elapsed, runs>> /\ PacingTypes
      /\ grants \in Seq(Lives)
  BY DEF MintAndCall, PacingInv, PacingTypes
<1>2. PICK life \in Lives : grants' = Append(grants, life) /\ expires' = elapsed + life
  BY DEF MintAndCall
<1>3. /\ elapsed \in Nat /\ TTL \in Nat \ {0} /\ Full \in Int /\ expires \in Int
      /\ life \in 1..TTL /\ runs \in Nat \ {0}
  BY <1>1, <1>2, ShortGrantsType, LivesType, PacingAssumption DEF PacingTypes, Full
<1>4. /\ window' \in Nat \X Nat /\ window'[1] <= window'[2] /\ window'[2] = elapsed
      /\ window # << >> => window'[1] = window[1]
      /\ LogWindow <= LogWindow' /\ LogWindow' \in Nat /\ LogWindow \in Nat
      /\ window'[1] \in Nat
  BY <1>1, LogWidens, WindowType
<1>5. PacingTypes'
  BY <1>1, <1>2, <1>3, <1>4 DEF PacingTypes
<1>6. PICK c, q \in Nat : Counted(c, q)
  BY DEF PacingInv
<1>7. Full' = IF life < TTL THEN Full ELSE Full + 1
  BY <1>1, <1>2, <1>3, GrantCounts, ShortGrantsType DEF Full
<1>8. /\ Full <= (q + 1) * (runs - 1) + c
      /\ q * TTL <= LogWindow'
      /\ c # 0 => window'[1] + c * TTL <= elapsed
  BY <1>1, <1>3, <1>4, <1>6 DEF Counted
<1>11. window' # << >>
  BY <1>4
<1>9. CASE life < TTL
  <2>1. c # 0 => window'[1] + c * TTL <= expires' /\ expires' <= window'[2] + TTL
    BY <1>2, <1>3, <1>4, <1>8
  <2>2. Full' <= (q + 1) * (runs' - 1) + c
    BY <1>1, <1>7, <1>8, <1>9
  <2>3. Counted(c, q)'
    BY <1>8, <1>11, <2>1, <2>2 DEF Counted
  <2> QED
    BY <1>5, <2>3 DEF PacingInv
<1>10. CASE life = TTL
  <2>1. window'[1] + (c + 1) * TTL <= expires' /\ expires' = window'[2] + TTL
    BY <1>2, <1>3, <1>4, <1>8, <1>10
  <2>2. Full' <= (q + 1) * (runs' - 1) + (c + 1)
    BY <1>1, <1>3, <1>7, <1>8, <1>10
  <2>3. Counted(c + 1, q)'
    BY <1>4, <1>8, <1>11, <2>1, <2>2 DEF Counted
  <2> QED
    BY <1>5, <2>3 DEF PacingInv
<1> QED
  BY <1>3, <1>9, <1>10

LEMMA RestartKeeps == PacingInv /\ Restart => PacingInv'
<1> SUFFICES ASSUME PacingInv, Restart PROVE PacingInv'
  OBVIOUS
<1>1. /\ runs < MaxRuns /\ runs' = runs + 1 /\ expires' = elapsed
      /\ UNCHANGED <<elapsed, grants, window>> /\ PacingTypes
  BY DEF Restart, PacingInv
<1>2. PacingTypes'
  BY <1>1, LivesType, PacingAssumption DEF PacingTypes
<1>3. PICK p \in Nat : Full <= (p + 1) * runs /\ p * TTL <= LogWindow
  BY RunCounted DEF PacingInv
<1>4. Full' = Full /\ LogWindow' = LogWindow
  BY <1>1 DEF Full, ShortGrants, LogWindow
<1>5. Full \in Int /\ runs \in Nat
  BY <1>1, ShortGrantsType, PacingAssumption DEF PacingTypes, Full
<1>6. Counted(0, p)'
  BY <1>1, <1>3, <1>4, <1>5 DEF Counted
<1> QED
  BY <1>2, <1>6 DEF PacingInv

LEMMA TickKeeps == PacingInv /\ Tick => PacingInv'
<1> SUFFICES ASSUME PacingInv, Tick PROVE PacingInv'
  OBVIOUS
<1>1. /\ elapsed < MaxTicks /\ elapsed' = elapsed + 1
      /\ UNCHANGED <<runs, expires, grants, window>> /\ PacingTypes
  BY DEF Tick, PacingInv
<1>2. elapsed \in 0..MaxTicks /\ TTL \in Nat /\ MaxTicks \in Nat
  BY <1>1, LivesType, PacingAssumption DEF PacingTypes
<1>3. PacingTypes'
  BY <1>1, <1>2 DEF PacingTypes
<1>4. \A c, q \in Nat : Counted(c, q) => Counted(c, q)'
  BY <1>1 DEF Counted, Full, ShortGrants, LogWindow
<1> QED
  BY <1>3, <1>4 DEF PacingInv

\* The invariant holds in every reachable state.
THEOREM PacingInvariant == PacingSpec => []PacingInv
<1>1. PacingInv /\ [PacingNext]_pacingVars => PacingInv'
  <2>1. PacingInv /\ UNCHANGED pacingVars => PacingInv'
    BY DEF PacingInv, PacingTypes, Counted, Full, ShortGrants, LogWindow, pacingVars
  <2> QED
    BY <2>1, CallKeeps, MintKeeps, RestartKeeps, TickKeeps DEF PacingNext
<1> QED
  BY PacingInit_Holds, <1>1, PTL DEF PacingSpec

\* TokenPacing, PacingCorrect: a connector that mints a token only when it has none is
\* never flagged, for every life, margin and number of runs.
THEOREM PacingIsCorrect == PacingSpec => []PacingCorrect
  BY PacingInvariant, PacingGives, PTL

-------------------------------------------------------------------------------
(*****************************************************************************)
(* ConductLog.  Three of the rules pass once over the log and keep an        *)
(* account; what the account stands for after each entry is what such a      *)
(* rule finds.  The first lemmas are about numbers and about passes.         *)
(*****************************************************************************)

\* A set of natural numbers that is not empty has a least one.
LEMMA LeastNatural ==
  ASSUME NEW S \in SUBSET Nat, S # {}
  PROVE  \E m \in S : \A n \in S : m <= n
<1>1. IsWellFoundedOn(OpToRel(<, Nat), Nat)
  BY NatLessThanWellFounded
<1>2. PICK m \in S : \A n \in S : ~(<<n, m>> \in OpToRel(<, Nat))
  BY <1>1, WFMin
<1>3. ASSUME NEW n \in S PROVE m <= n
  <2>1. m \in Nat /\ n \in Nat
    OBVIOUS
  <2>2. n < m => <<n, m>> \in OpToRel(<, Nat)
    BY <2>1 DEF OpToRel
  <2>3. ~(n < m)
    BY <1>2, <2>2, Zenon
  <2> QED
    BY <2>1, <2>3
<1> QED
  BY <1>3

\* A set of positions that is not empty has a last one.
LEMMA LastPosition ==
  ASSUME NEW n \in Nat, NEW S \in SUBSET (1..n), S # {}
  PROVE  \E m \in S : \A i \in S : i <= m
<1> DEFINE bounds == {b \in Nat : \A i \in S : i <= b}
<1>1. n \in bounds
  OBVIOUS
<1>2. PICK b \in bounds : \A c \in bounds : b <= c
  BY <1>1, LeastNatural
<1>3. ASSUME b \notin S PROVE FALSE
  <2>1. PICK i \in S : TRUE
    OBVIOUS
  <2>2. b - 1 \in Nat /\ b \in Nat
    BY <1>2, <1>3, <2>1
  <2>3. \A j \in S : j <= b - 1
    BY <1>2, <1>3, <2>2
  <2> QED
    BY <1>2, <2>2, <2>3
<1> QED
  BY <1>2, <1>3

\* What holds of zero and of the next number whenever it holds of a number.
LEMMA Induction ==
  ASSUME NEW n \in Nat, NEW S \in SUBSET (0..n), 0 \in S, \A m \in 0..(n - 1) : m \in S => m + 1 \in S
  PROVE  S = 0..n
<1> SUFFICES ASSUME S # 0..n PROVE FALSE
  OBVIOUS
<1> DEFINE missing == (0..n) \ S
<1>1. missing \in SUBSET Nat /\ missing # {}
  <2>1. \E m \in 0..n : m \notin S
    BY Zenon
  <2> QED
    BY <2>1
<1>2. PICK m \in missing : \A k \in missing : m <= k
  BY <1>1, LeastNatural
<1>3. m - 1 \in 0..(n - 1) /\ m - 1 \in S /\ m \in Nat
  BY <1>1, <1>2
<1> QED
  BY <1>2, <1>3

(***************************************************************************)
(* The rules that pass once over the log are folds of their steps.         *)
(***************************************************************************)
OnePass == {"budget", "hot_loop", "resume"}

StepOf(rule, l, x, k) ==
  IF rule = "budget" THEN SlideOver(l, x, k)
  ELSE IF rule = "hot_loop" THEN StepBurst(l, x, k)
  ELSE StepResume(l, x, k)

StartOf(rule) ==
  IF rule = "budget" THEN [start |-> 1, found |-> {}]
  ELSE IF rule = "hot_loop" THEN [run |-> << >>, triggered |-> FALSE, found |-> {}]
  ELSE [pending |-> FALSE, watermark |-> FirstPage, found |-> {}]

\* g is what the pass has come to after each set of positions.
IsPass(rule, l, g, n) ==
  g = [s \in SUBSET (1..n) |->
         IF s = {} THEN StartOf(rule) ELSE StepOf(rule, l, g[s \ {Max(s)}], Max(s))]

\* h is what it has come to after each entry.
Steps(rule, l, h) ==
  /\ h[0] = StartOf(rule)
  /\ \A k \in 1..Len(l) : h[k] = StepOf(rule, l, h[k - 1], k)

LEMMA MaxIsLast ==
  ASSUME NEW n \in Nat, NEW s \in SUBSET (1..n), n \in s
  PROVE  Max(s) = n
<1>1. n \in s /\ \A y \in s : n >= y
  OBVIOUS
<1>2. \A x \in s : (\A y \in s : x >= y) => x = n
  OBVIOUS
<1> QED
  BY <1>1, <1>2 DEF Max

LEMMA PassExists ==
  ASSUME NEW rule, NEW l, NEW n \in Nat
  PROVE  \E g : IsPass(rule, l, g, n)
<1> DEFINE done == {m \in 0..n : \E g : IsPass(rule, l, g, m)}
<1>1. 0 \in done
  <2> DEFINE g == [s \in SUBSET (1..0) |-> StartOf(rule)]
  <2>1. \A s \in SUBSET (1..0) : s = {}
    OBVIOUS
  <2>2. IsPass(rule, l, g, 0)
    BY <2>1 DEF IsPass
  <2> QED
    BY <2>2
<1>2. ASSUME NEW m \in 0..(n - 1), m \in done PROVE m + 1 \in done
  <2>1. PICK f : IsPass(rule, l, f, m)
    BY <1>2
  <2> DEFINE body(s) == IF s \in SUBSET (1..m) THEN f[s]
                       ELSE StepOf(rule, l, f[s \ {m + 1}], m + 1)
             g == [s \in SUBSET (1..(m + 1)) |-> body(s)]
             value(s) == IF s = {} THEN StartOf(rule)
                         ELSE StepOf(rule, l, g[s \ {Max(s)}], Max(s))
  <2>2. ASSUME NEW s \in SUBSET (1..(m + 1)) PROVE g[s] = value(s)
    <3>1. CASE s \in SUBSET (1..m)
      <4>1. s \ {Max(s)} \in SUBSET (1..m) /\ s \ {Max(s)} \in SUBSET (1..(m + 1))
        BY <3>1
      <4>2. g[s] = f[s] /\ g[s \ {Max(s)}] = f[s \ {Max(s)}]
        BY <3>1, <4>1
      <4>3. f[s] = IF s = {} THEN StartOf(rule) ELSE StepOf(rule, l, f[s \ {Max(s)}], Max(s))
        BY <2>1, <3>1 DEF IsPass
      <4> QED
        BY <4>2, <4>3
    <3>2. CASE s \notin SUBSET (1..m)
      <4>1. m + 1 \in s /\ m + 1 \in Nat
        BY <3>2
      <4>2. Max(s) = m + 1
        BY <4>1, MaxIsLast
      <4>3. s \ {m + 1} \in SUBSET (1..m) /\ s \ {m + 1} \in SUBSET (1..(m + 1))
        OBVIOUS
      <4>4. g[s] = StepOf(rule, l, f[s \ {m + 1}], m + 1) /\ g[s \ {m + 1}] = f[s \ {m + 1}]
        BY <3>2, <4>3
      <4> QED
        BY <4>1, <4>2, <4>4
    <3> QED
      BY <3>1, <3>2
  <2>3. g = [s \in SUBSET (1..(m + 1)) |-> value(s)]
    <3>1. \A s \in SUBSET (1..(m + 1)) : body(s) = value(s)
      BY <2>2
    <3> HIDE DEF body, value
    <3> QED
      BY <3>1
  <2>4. IsPass(rule, l, g, m + 1)
    <3> HIDE DEF g
    <3> QED
      BY <2>3 DEF IsPass
  <2> QED
    BY <2>4
<1>3. done = 0..n
  <2>1. done \in SUBSET (0..n)
    OBVIOUS
  <2> HIDE DEF done
  <2> QED
    BY <1>1, <1>2, <2>1, Induction
<1> QED
  BY <1>3

LEMMA PassSteps ==
  ASSUME NEW rule, NEW l, Len(l) \in Nat, NEW g, IsPass(rule, l, g, Len(l))
  PROVE  \E h : Steps(rule, l, h) /\ h[Len(l)] = g[1..Len(l)]
<1> DEFINE h == [k \in 0..Len(l) |-> g[1..k]]
<1>1. h[0] = StartOf(rule)
  <2>1. 1..0 = {}
    OBVIOUS
  <2> QED
    BY <2>1 DEF IsPass
<1>2. ASSUME NEW k \in 1..Len(l) PROVE h[k] = StepOf(rule, l, h[k - 1], k)
  <2>1. 1..k \in SUBSET (1..Len(l)) /\ k \in 1..k /\ k \in Nat /\ 1..k \in SUBSET (1..k)
    OBVIOUS
  <2>2. Max(1..k) = k
    BY <2>1, MaxIsLast
  <2>3. (1..k) \ {k} = 1..(k - 1)
    OBVIOUS
  <2>4. g[1..k] = StepOf(rule, l, g[1..(k - 1)], k)
    BY <2>1, <2>2, <2>3 DEF IsPass
  <2> QED
    BY <2>4
<1>3. h[Len(l)] = g[1..Len(l)]
  OBVIOUS
<1> HIDE DEF h
<1> QED
  BY <1>1, <1>2, <1>3 DEF Steps

LEMMA PositionsOf ==
  ASSUME NEW l, DOMAIN l = 1..Len(l), NEW s \in SUBSET (DOMAIN l), s # {}, Len(l) \in Nat
  PROVE  Max(s) \in 1..Len(l) /\ [j \in DOMAIN l |-> j][Max(s)] = Max(s)
<1>1. \E m \in s : \A i \in s : i <= m
  BY LastPosition
<1>2. Max(s) \in s
  BY <1>1 DEF Max
<1> QED
  BY <1>2

LEMMA BudgetSteps ==
  ASSUME NEW l, DOMAIN l = 1..Len(l), Len(l) \in Nat, Limit # 0, Span # 0
  PROVE  \E h : Steps("budget", l, h) /\ BudgetViolations(l) = h[Len(l)].found
<1> DEFINE value(g, s) ==
      IF s = {} THEN [start |-> 1, found |-> {}]
      ELSE SlideOver(l, g[s \ {Max(s)}], [j \in DOMAIN l |-> j][Max(s)])
<1> DEFINE pass == CHOOSE g : g = [s \in SUBSET (DOMAIN l) |-> value(g, s)]
<1>1. DOMAIN [i \in DOMAIN l |-> i] = DOMAIN l
  OBVIOUS
<1>2. BudgetViolations(l) = FoldLeft(LAMBDA w, end : SlideOver(l, w, end),
                                     [start |-> 1, found |-> {}], [i \in DOMAIN l |-> i]).found
  BY DEF BudgetViolations
<1>3. BudgetViolations(l) =
        MapThenFoldSet(LAMBDA x, y : SlideOver(l, y, x), [start |-> 1, found |-> {}],
          LAMBDA i : [j \in DOMAIN l |-> j][i], LAMBDA S : Max(S), DOMAIN l).found
  BY <1>1, <1>2 DEF FoldLeft
<1>4. BudgetViolations(l) = pass[DOMAIN l].found
  BY <1>3 DEF MapThenFoldSet
<1>5. PICK g : IsPass("budget", l, g, Len(l))
  BY PassExists
<1>6. ASSUME NEW f
      PROVE  [s \in SUBSET (DOMAIN l) |-> value(f, s)] =
             [s \in SUBSET (1..Len(l)) |->
                IF s = {} THEN StartOf("budget") ELSE StepOf("budget", l, f[s \ {Max(s)}], Max(s))]
  BY PositionsOf DEF StartOf, StepOf
<1>7. g = [s \in SUBSET (DOMAIN l) |-> value(g, s)]
  BY <1>5, <1>6 DEF IsPass
<1>8. pass = [s \in SUBSET (DOMAIN l) |-> value(pass, s)]
  <2> HIDE DEF value
  <2> QED
    BY <1>7
<1>9. IsPass("budget", l, pass, Len(l))
  BY <1>6, <1>8 DEF IsPass
<1> HIDE DEF pass
<1> QED
  BY <1>4, <1>9, PassSteps
LEMMA BurstSteps ==
  ASSUME NEW l, DOMAIN l = 1..Len(l), Len(l) \in Nat
  PROVE  \E h : Steps("hot_loop", l, h) /\ HotLoopViolations(l) = h[Len(l)].found \union Excess(h[Len(l)])
<1> DEFINE value(g, s) ==
      IF s = {} THEN [run |-> << >>, triggered |-> FALSE, found |-> {}]
      ELSE StepBurst(l, g[s \ {Max(s)}], [j \in DOMAIN l |-> j][Max(s)])
<1> DEFINE pass == CHOOSE g : g = [s \in SUBSET (DOMAIN l) |-> value(g, s)]
<1>1. DOMAIN [i \in DOMAIN l |-> i] = DOMAIN l
  OBVIOUS
<1> DEFINE ends(b) == b.found \union Excess(b)
<1>2. HotLoopViolations(l) = ends(FoldLeft(LAMBDA a, i : StepBurst(l, a, i),
                                     [run |-> << >>, triggered |-> FALSE, found |-> {}], [i \in DOMAIN l |-> i]))
  BY DEF HotLoopViolations
<1>3. HotLoopViolations(l) =
        ends(MapThenFoldSet(LAMBDA x, y : StepBurst(l, y, x), [run |-> << >>, triggered |-> FALSE, found |-> {}],
          LAMBDA i : [j \in DOMAIN l |-> j][i], LAMBDA S : Max(S), DOMAIN l))
  BY <1>1, <1>2 DEF FoldLeft
<1>4. HotLoopViolations(l) = ends(pass[DOMAIN l])
  BY <1>3 DEF MapThenFoldSet
<1>5. PICK g : IsPass("hot_loop", l, g, Len(l))
  BY PassExists
<1>6. ASSUME NEW f
      PROVE  [s \in SUBSET (DOMAIN l) |-> value(f, s)] =
             [s \in SUBSET (1..Len(l)) |->
                IF s = {} THEN StartOf("hot_loop") ELSE StepOf("hot_loop", l, f[s \ {Max(s)}], Max(s))]
  BY PositionsOf DEF StartOf, StepOf
<1>7. g = [s \in SUBSET (DOMAIN l) |-> value(g, s)]
  BY <1>5, <1>6 DEF IsPass
<1>8. pass = [s \in SUBSET (DOMAIN l) |-> value(pass, s)]
  <2> HIDE DEF value
  <2> QED
    BY <1>7
<1>9. IsPass("hot_loop", l, pass, Len(l))
  BY <1>6, <1>8 DEF IsPass
<1> HIDE DEF pass
<1> QED
  BY <1>4, <1>9, PassSteps
LEMMA ResumeSteps ==
  ASSUME NEW l, DOMAIN l = 1..Len(l), Len(l) \in Nat
  PROVE  \E h : Steps("resume", l, h) /\ ResumeViolations(l) = h[Len(l)].found
<1> DEFINE value(g, s) ==
      IF s = {} THEN [pending |-> FALSE, watermark |-> FirstPage, found |-> {}]
      ELSE StepResume(l, g[s \ {Max(s)}], [j \in DOMAIN l |-> j][Max(s)])
<1> DEFINE pass == CHOOSE g : g = [s \in SUBSET (DOMAIN l) |-> value(g, s)]
<1>1. DOMAIN [i \in DOMAIN l |-> i] = DOMAIN l
  OBVIOUS
<1>2. ResumeViolations(l) = FoldLeft(LAMBDA r, i : StepResume(l, r, i),
                                     [pending |-> FALSE, watermark |-> FirstPage, found |-> {}], [i \in DOMAIN l |-> i]).found
  BY DEF ResumeViolations
<1>3. ResumeViolations(l) =
        MapThenFoldSet(LAMBDA x, y : StepResume(l, y, x), [pending |-> FALSE, watermark |-> FirstPage, found |-> {}],
          LAMBDA i : [j \in DOMAIN l |-> j][i], LAMBDA S : Max(S), DOMAIN l).found
  BY <1>1, <1>2 DEF FoldLeft
<1>4. ResumeViolations(l) = pass[DOMAIN l].found
  BY <1>3 DEF MapThenFoldSet
<1>5. PICK g : IsPass("resume", l, g, Len(l))
  BY PassExists
<1>6. ASSUME NEW f
      PROVE  [s \in SUBSET (DOMAIN l) |-> value(f, s)] =
             [s \in SUBSET (1..Len(l)) |->
                IF s = {} THEN StartOf("resume") ELSE StepOf("resume", l, f[s \ {Max(s)}], Max(s))]
  BY PositionsOf DEF StartOf, StepOf
<1>7. g = [s \in SUBSET (DOMAIN l) |-> value(g, s)]
  BY <1>5, <1>6 DEF IsPass
<1>8. pass = [s \in SUBSET (DOMAIN l) |-> value(pass, s)]
  <2> HIDE DEF value
  <2> QED
    BY <1>7
<1>9. IsPass("resume", l, pass, Len(l))
  BY <1>6, <1>8 DEF IsPass
<1> HIDE DEF pass
<1> QED
  BY <1>4, <1>9, PassSteps

(***************************************************************************)
(* Budget.                                                                 *)
(***************************************************************************)
Timed(l) ==
  /\ DOMAIN l = 1..Len(l) /\ Len(l) \in Nat
  /\ \A i \in 1..Len(l) : l[i].at \in Nat
  /\ \A i, j \in 1..Len(l) : i <= j => l[i].at <= l[j].at

InSpan(l, e) == {i \in 1..e : l[e].at - l[i].at < Span}

SpanFrom(l, k, s) ==
  /\ s \in 1..k /\ l[k].at - l[s].at < Span
  /\ \A i \in 1..(s - 1) : l[k].at - l[i].at >= Span

LEMMA SlideToSpan ==
  ASSUME NEW l, Timed(l), NEW k \in 1..Len(l), Span \in Nat \ {0}, NEW from \in 1..k,
         \A i \in 1..(from - 1) : l[k].at - l[i].at >= Span
  PROVE  SpanFrom(l, k, SlideTo(l, from, k))
<1> DEFINE within == {s \in from..k : l[k].at - l[s].at < Span}
           Slid(s) == /\ l[k].at - l[s].at < Span
                      /\ \A i \in from..(s - 1) : l[k].at - l[i].at >= Span
<1>1. k \in Nat /\ l[k].at \in Nat /\ Len(l) \in Nat
  BY DEF Timed
<1>2. k \in within /\ within \in SUBSET Nat
  BY <1>1
<1>3. PICK m \in within : \A s \in within : m <= s
  BY <1>2, LeastNatural
<1>4. m \in from..k /\ \A i \in from..(m - 1) : i \in from..k /\ i \notin within
  BY <1>3
<1>5. \A i \in from..k : l[i].at \in Nat
  BY <1>1 DEF Timed
<1>6. Slid(m)
  BY <1>1, <1>3, <1>4, <1>5
<1>7. SlideTo(l, from, k) \in from..k /\ Slid(SlideTo(l, from, k))
  <2>1. SlideTo(l, from, k) = CHOOSE s \in from..k : Slid(s)
    BY DEF SlideTo
  <2> HIDE DEF Slid
  <2> QED
    BY <1>4, <1>6, <2>1
<1> QED
  BY <1>1, <1>7 DEF SpanFrom

LEMMA SpanCounts ==
  ASSUME NEW l, Timed(l), NEW k \in 1..Len(l), NEW s, SpanFrom(l, k, s)
  PROVE  InSpan(l, k) = s..k /\ Cardinality(InSpan(l, k)) = k - s + 1
<1>1. k \in Nat /\ s \in 1..k /\ \A i \in 1..k : l[i].at \in Nat
  BY DEF Timed, SpanFrom
<1>2. ASSUME NEW i \in s..k PROVE l[k].at - l[i].at < Span
  <2>1. l[s].at <= l[i].at /\ l[i].at \in Nat /\ l[s].at \in Nat /\ l[k].at \in Nat
    BY <1>1 DEF Timed
  <2>2. l[k].at - l[s].at < Span /\ Span \in Nat
    BY RulesAssumption DEF SpanFrom
  <2> QED
    BY <2>1, <2>2
<1>3. ASSUME NEW i \in 1..(s - 1) PROVE ~(l[k].at - l[i].at < Span)
  BY <1>1, RulesAssumption DEF SpanFrom
<1>4. InSpan(l, k) = s..k
  BY <1>1, <1>2, <1>3 DEF InSpan
<1> QED
  BY <1>1, <1>4, FS_Interval

OverBudget(l, n) == {e \in 1..n : Cardinality(InSpan(l, e)) > Limit}

LEMMA BudgetFound ==
  ASSUME NEW l, Timed(l), Limit # 0, Span # 0
  PROVE  BudgetViolations(l) = OverBudget(l, Len(l))
<1>1. PICK h : Steps("budget", l, h) /\ BudgetViolations(l) = h[Len(l)].found
  BY BudgetSteps DEF Timed
<1> DEFINE right == {k \in 0..Len(l) :
                      /\ h[k].found = OverBudget(l, k)
                      /\ k = 0 => h[k].start = 1
                      /\ k # 0 => SpanFrom(l, k, h[k].start)}
<1>2. 0 \in right
  BY <1>1 DEF Steps, StartOf, OverBudget, Timed
<1>3. ASSUME NEW m \in 0..(Len(l) - 1), m \in right PROVE m + 1 \in right
  <2> DEFINE k == m + 1
             from == h[m].start
             s == SlideTo(l, from, k)
  <2>1. k \in 1..Len(l) /\ k - 1 = m /\ m \in Nat /\ Span \in Nat \ {0} /\ Limit \in Nat
    BY RulesAssumption DEF Timed
  <2>2. h[k] = SlideOver(l, h[m], k)
    BY <1>1, <2>1 DEF Steps, StepOf
  <2>3. from \in 1..k /\ \A i \in 1..(from - 1) : l[k].at - l[i].at >= Span
    <3>1. CASE m = 0
      BY <1>3, <2>1, <3>1
    <3>2. CASE m # 0
      <4>1. SpanFrom(l, m, from)
        BY <1>3, <3>2
      <4>2. m \in 1..Len(l) /\ l[m].at <= l[k].at /\ l[m].at \in Nat /\ l[k].at \in Nat
        BY <2>1, <3>2 DEF Timed
      <4>3. \A i \in 1..(from - 1) : l[i].at \in Nat /\ l[m].at - l[i].at >= Span
        BY <2>1, <4>1, <4>2 DEF SpanFrom, Timed
      <4> QED
        BY <2>1, <4>1, <4>2, <4>3, SMTT(30) DEF SpanFrom
    <3> QED
      BY <3>1, <3>2
  <2>4. SpanFrom(l, k, s)
    BY <2>1, <2>3, SlideToSpan
  <2>5. Cardinality(InSpan(l, k)) = k - s + 1
    BY <2>1, <2>4, SpanCounts
  <2>6. h[k].start = s /\ h[k].found = IF k - s + 1 > Limit THEN h[m].found \union {k} ELSE h[m].found
    BY <2>2 DEF SlideOver
  <2>7. OverBudget(l, k) = IF k - s + 1 > Limit THEN OverBudget(l, m) \union {k} ELSE OverBudget(l, m)
    BY <2>1, <2>5 DEF OverBudget
  <2>8. h[k].found = OverBudget(l, k)
    BY <1>3, <2>6, <2>7
  <2>9. k # 0 /\ k \in 0..Len(l) /\ SpanFrom(l, k, h[k].start)
    BY <2>1, <2>4, <2>6
  <2> QED
    BY <2>8, <2>9
<1>4. right = 0..Len(l)
  <2>1. right \in SUBSET (0..Len(l)) /\ Len(l) \in Nat
    BY DEF Timed
  <2> HIDE DEF right
  <2> QED
    BY <1>2, <1>3, <2>1, Induction
<1>5. Len(l) \in right
  BY <1>4 DEF Timed
<1> QED
  BY <1>1, <1>5

LEMMA FixedWindows ==
  ASSUME NEW l, Timed(l), BudgetViolations(l) = {}, NEW w \in Int
  PROVE  Cardinality({i \in DOMAIN l : w <= l[i].at /\ l[i].at < w + Span}) <= Limit
<1> DEFINE inside == {i \in DOMAIN l : w <= l[i].at /\ l[i].at < w + Span}
<1>1. Limit \in Nat /\ Span \in Nat /\ Len(l) \in Nat /\ DOMAIN l = 1..Len(l)
  BY RulesAssumption DEF Timed
<1>2. CASE inside = {}
  <2>1. Cardinality(inside) = 0
    BY <1>2, FS_EmptySet
  <2> QED
    BY <1>1, <2>1
<1>3. CASE inside # {}
  <2>1. Limit # 0 /\ Span # 0
    BY <1>3 DEF BudgetViolations
  <2>2. inside \in SUBSET (1..Len(l))
    BY <1>1
  <2>3. PICK e \in inside : \A i \in inside : i <= e
    BY <1>1, <1>3, <2>2, LastPosition
  <2>4. e \in 1..Len(l) /\ w <= l[e].at /\ l[e].at < w + Span /\ l[e].at \in Nat
    BY <1>1, <2>3 DEF Timed
  <2>5. \A i \in inside : i \in 1..e /\ l[i].at \in Nat /\ w <= l[i].at
    BY <1>1, <2>3, <2>4 DEF Timed
  <2>6. inside \subseteq InSpan(l, e)
    BY <1>1, <2>4, <2>5 DEF InSpan
  <2>7. Cardinality(InSpan(l, e)) <= Limit /\ IsFiniteSet(InSpan(l, e))
        /\ Cardinality(InSpan(l, e)) \in Nat
    <3>1. e \notin OverBudget(l, Len(l))
      BY <2>1, BudgetFound
    <3>2. IsFiniteSet(1..e) /\ InSpan(l, e) \subseteq 1..e
      BY <2>4, FS_Interval DEF InSpan
    <3>3. IsFiniteSet(InSpan(l, e)) /\ Cardinality(InSpan(l, e)) \in Nat
      BY <3>2, FS_Subset, FS_CardinalityType
    <3> QED
      BY <1>1, <2>4, <3>1, <3>3 DEF OverBudget
  <2>8. Cardinality(inside) <= Cardinality(InSpan(l, e)) /\ Cardinality(inside) \in Nat
    BY <2>6, <2>7, FS_Subset, FS_CardinalityType
  <2> QED
    BY <1>1, <2>7, <2>8
<1> QED
  BY <1>2, <1>3

(***************************************************************************)
(* Hot loop.                                                               *)
(***************************************************************************)
Indexed(l) == DOMAIN l = 1..Len(l) /\ Len(l) \in Nat

OneBurstOf(l, i, j) == \A m \in DOMAIN l : i < m /\ m <= j => Continues(l, m)

Burst(l, i) == {j \in DOMAIN l : OneBurstOf(l, i, j) /\ OneBurstOf(l, j, i)}

Hot(l, i) ==
  /\ Cardinality({j \in Burst(l, i) : j <= i}) > K
  /\ \E j \in Burst(l, i) : HardError(l[j])

\* Positions from..to are the beginning of a burst.
BurstFrom(l, from, to) ==
  /\ from \in 1..to /\ ~Continues(l, from)
  /\ \A i \in (from + 1)..to : Continues(l, i)

\* A burst that has come to position k ends there.
Over(l, k) == k = Len(l) \/ ~Continues(l, k + 1)

BurstType == [run : Seq(Nat), triggered : BOOLEAN, found : SUBSET Nat]

Counting(l, b, k) ==
  /\ b \in BurstType
  /\ k = 0 => b = StartOf("hot_loop")
  /\ k # 0 =>
       \E from \in 1..k :
         /\ BurstFrom(l, from, k)
         /\ b.run = [n \in 1..(k - from + 1) |-> from + n - 1]
         /\ b.triggered = (\E j \in from..k : HardError(l[j]))
         /\ b.found = {i \in 1..(from - 1) : Hot(l, i)}

LEMMA NextIsWithin ==
  \A a, b, n \in Nat : a < b /\ b <= n => a + 1 \in 1..n /\ a + 1 <= b /\ a # n
  OBVIOUS

\* A burst that is over is hot from its K-th repetition on if it met an error.
LEMMA WholeBurst ==
  ASSUME NEW l, Indexed(l), NEW k \in 1..Len(l), NEW from, BurstFrom(l, from, k),
         Over(l, k), NEW i \in from..k
  PROVE  Hot(l, i) <=> i >= from + K /\ \E j \in from..k : HardError(l[j])
<1>1. k \in Nat /\ from \in 1..k /\ i \in 1..Len(l) /\ Len(l) \in Nat /\ DOMAIN l = 1..Len(l)
  BY DEF Indexed, BurstFrom
<1>2. ASSUME NEW j \in 1..Len(l)
      PROVE  (OneBurstOf(l, i, j) /\ OneBurstOf(l, j, i)) <=> j \in from..k
  <2>1. CASE j < from
    <3>1. from \in DOMAIN l /\ j < from /\ from <= i
      BY <1>1, <2>1
    <3>2. ~OneBurstOf(l, j, i)
      BY <3>1 DEF OneBurstOf, BurstFrom
    <3> QED
      BY <1>1, <2>1, <3>2
  <2>2. CASE j > k
    <3>4. j \in Nat /\ j > k /\ j <= Len(l)
      BY <1>1, <2>2, SMTT(60)
    <3>5. k + 1 \in 1..Len(l) /\ k + 1 <= j /\ k # Len(l)
      BY <1>1, <3>4, NextIsWithin, ZenonT(60)
    <3>1. k # Len(l) /\ k + 1 \in DOMAIN l /\ k + 1 <= j
      BY <1>1, <3>5
    <3>3. i < k + 1
      BY <1>1
    <3>2. ~OneBurstOf(l, i, j)
      BY <3>1, <3>3 DEF OneBurstOf, Over
    <3> QED
      BY <1>1, <2>2, <3>2
  <2>3. CASE j \in from..k
    <3>1. \A m \in DOMAIN l : (i < m /\ m <= j) \/ (j < m /\ m <= i) => m \in (from + 1)..k
      BY <1>1, <2>3
    <3> QED
      BY <2>3, <3>1 DEF OneBurstOf, BurstFrom
  <2> QED
    BY <1>1, <2>1, <2>2, <2>3
<1>3. Burst(l, i) = from..k
  <2>1. from..k \subseteq DOMAIN l
    BY <1>1
  <2> QED
    BY <1>1, <1>2, <2>1 DEF Burst
<1>4. {j \in Burst(l, i) : j <= i} = from..i
  BY <1>1, <1>3
<1>5. Cardinality(from..i) = i - from + 1
  BY <1>1, FS_Interval
<1>6. Cardinality(from..i) > K <=> i >= from + K
  BY <1>1, <1>5, RulesAssumption
<1> QED
  BY <1>3, <1>4, <1>6 DEF Hot

\* What a burst adds when it is over.
LEMMA BurstAdds ==
  ASSUME NEW l, Indexed(l), NEW k \in 1..Len(l), NEW b, Counting(l, b, k),
         Over(l, k)
  PROVE  b.found \union Excess(b) = {i \in 1..k : Hot(l, i)}
<1>1. k \in Nat /\ k # 0 /\ Len(l) \in Nat
  BY DEF Indexed
<1>2. PICK from \in 1..k :
         /\ BurstFrom(l, from, k)
         /\ b.run = [n \in 1..(k - from + 1) |-> from + n - 1]
         /\ b.triggered = (\E j \in from..k : HardError(l[j]))
         /\ b.found = {i \in 1..(from - 1) : Hot(l, i)}
  BY <1>1 DEF Counting
<1>3. Len(b.run) = k - from + 1
  <2>1. b.run \in Seq(Nat) /\ DOMAIN b.run = 1..(k - from + 1) /\ k - from + 1 \in Nat
    BY <1>1, <1>2 DEF Counting, BurstType
  <2> QED
    BY <2>1
<1>4. {b.run[n] : n \in (K + 1)..Len(b.run)} = {i \in from..k : i >= from + K}
  <2>1. \A n \in (K + 1)..Len(b.run) : b.run[n] = from + n - 1
    BY <1>1, <1>2, <1>3, RulesAssumption
  <2>2. \A i \in from..k : i >= from + K =>
          i - from + 1 \in (K + 1)..Len(b.run) /\ b.run[i - from + 1] = i
    BY <1>1, <1>2, <1>3, RulesAssumption
  <2>3. \A n \in (K + 1)..Len(b.run) : from + n - 1 \in from..k /\ from + n - 1 >= from + K
    BY <1>1, <1>3, RulesAssumption
  <2> QED
    BY <2>1, <2>2, <2>3
<1>5. Excess(b) = {i \in from..k : Hot(l, i)}
  <2>1. \A i \in from..k : Hot(l, i) <=> i >= from + K /\ b.triggered
    BY <1>2, WholeBurst
  <2>2. CASE b.triggered
    BY <1>4, <2>1, <2>2 DEF Excess
  <2>3. CASE ~b.triggered
    BY <2>1, <2>3 DEF Excess
  <2> QED
    BY <2>2, <2>3
<1>6. 1..k = 1..(from - 1) \union from..k
  BY <1>1
<1> QED
  BY <1>2, <1>5, <1>6

LEMMA CountingContinues ==
  ASSUME NEW l, Indexed(l), NEW k \in 1..Len(l), NEW m, m = k - 1, NEW b, Counting(l, b, m),
         Continues(l, k)
  PROVE  Counting(l, StepBurst(l, b, k), k)
<1>1. k > 1 /\ m \in 1..Len(l) /\ m # 0 /\ k \in Nat /\ k = m + 1 /\ m \in Nat
  BY DEF Continues, Indexed
<1>2. b \in BurstType
  BY DEF Counting
<1>3. StepBurst(l, b, k) =
        [run |-> Append(b.run, k), triggered |-> b.triggered \/ HardError(l[k]), found |-> b.found]
  <2>1. StepBurst(l, b, k) = [b EXCEPT !.run = Append(@, k), !.triggered = @ \/ HardError(l[k])]
    BY DEF StepBurst
  <2> QED
    BY <1>2, <2>1 DEF BurstType
<1>4. PICK from \in 1..m :
         /\ BurstFrom(l, from, m)
         /\ b.run = [n \in 1..(m - from + 1) |-> from + n - 1]
         /\ b.triggered = (\E j \in from..m : HardError(l[j]))
         /\ b.found = {i \in 1..(from - 1) : Hot(l, i)}
  BY <1>1 DEF Counting
<1>5. from \in 1..k /\ BurstFrom(l, from, k)
  BY <1>1, <1>4 DEF BurstFrom
<1>6. Append(b.run, k) = [n \in 1..(k - from + 1) |-> from + n - 1]
  <2>1. b.run \in Seq(Nat) /\ Len(b.run) = m - from + 1
    <3>1. b.run \in Seq(Nat) /\ DOMAIN b.run = 1..(m - from + 1) /\ m - from + 1 \in Nat
      BY <1>1, <1>2, <1>4 DEF BurstType
    <3> QED
      BY <3>1
  <2> QED
    BY <1>1, <1>4, <2>1
<1>7. (b.triggered \/ HardError(l[k])) = (\E j \in from..k : HardError(l[j]))
  <2>1. \A j : j \in from..k <=> j \in from..m \/ j = k
    BY <1>1
  <2> QED
    BY <1>4, <2>1
<1>8. StepBurst(l, b, k) \in BurstType
  <2>1. Append(b.run, k) \in Seq(Nat) /\ b.found \in SUBSET Nat
    BY <1>1, <1>2 DEF BurstType
  <2>2. (b.triggered \/ HardError(l[k])) \in BOOLEAN
    BY Zenon
  <2> QED
    BY <1>3, <2>1, <2>2 DEF BurstType
<1> QED
  <2> DEFINE c == StepBurst(l, b, k)
  <2>1. c \in BurstType /\ c.run = Append(b.run, k) /\ c.found = b.found
        /\ c.triggered = (b.triggered \/ HardError(l[k]))
    BY <1>3, <1>8
  <2>2. /\ c.run = [n \in 1..(k - from + 1) |-> from + n - 1]
        /\ c.triggered = (\E j \in from..k : HardError(l[j]))
        /\ c.found = {i \in 1..(from - 1) : Hot(l, i)}
    BY <1>4, <1>6, <1>7, <2>1
  <2>3. k # 0
    BY <1>1
  <2> HIDE DEF c
  <2>4. Counting(l, c, k)
    BY <1>5, <2>1, <2>2, <2>3 DEF Counting
  <2> QED
    BY <2>4 DEF c

LEMMA CountingBegins ==
  ASSUME NEW l, Indexed(l), NEW k \in 1..Len(l), NEW m, m = k - 1, NEW b, Counting(l, b, m),
         ~Continues(l, k)
  PROVE  Counting(l, StepBurst(l, b, k), k)
<1>1. k \in Nat /\ k # 0 /\ m \in Nat /\ k = m + 1 /\ Len(l) \in Nat
  BY DEF Indexed
<1>2. b \in BurstType
  BY DEF Counting
<1>3. b.found \union Excess(b) = {i \in 1..m : Hot(l, i)}
  <2>1. CASE k = 1
    BY <1>1, <2>1 DEF Counting, StartOf, Excess
  <2>2. CASE k # 1
    <3>1. m \in 1..Len(l) /\ m + 1 = k
      BY <1>1, <2>2
    <3> QED
      BY <3>1, BurstAdds DEF Over
  <2> QED
    BY <2>1, <2>2
<1>4. StepBurst(l, b, k) =
        [run |-> <<k>>, triggered |-> FALSE \/ HardError(l[k]),
         found |-> {i \in 1..m : Hot(l, i)}]
  <2>1. StepBurst(l, b, k) =
          [[run |-> << >>, triggered |-> FALSE, found |-> b.found \union Excess(b)]
             EXCEPT !.run = Append(@, k), !.triggered = @ \/ HardError(l[k])]
    BY DEF StepBurst
  <2>2. Append(<< >>, k) = <<k>>
    OBVIOUS
  <2> QED
    BY <1>3, <2>1, <2>2
<1>5. BurstFrom(l, k, k)
  BY <1>1 DEF BurstFrom
<1>6. <<k>> = [n \in 1..(k - k + 1) |-> k + n - 1]
  BY <1>1
<1>7. (FALSE \/ HardError(l[k])) = (\E j \in k..k : HardError(l[j]))
  <2>1. \A j : j \in k..k <=> j = k
    BY <1>1
  <2> QED
    BY <2>1, Zenon
<1>8. StepBurst(l, b, k) \in BurstType
  <2>1. <<k>> \in Seq(Nat) /\ {i \in 1..m : Hot(l, i)} \in SUBSET Nat
    BY <1>1
  <2>2. (FALSE \/ HardError(l[k])) \in BOOLEAN
    BY Zenon
  <2> QED
    BY <1>4, <2>1, <2>2 DEF BurstType
<1> DEFINE c == StepBurst(l, b, k)
<1>9. /\ c.run = [n \in 1..(k - k + 1) |-> k + n - 1]
      /\ c.triggered = (\E j \in k..k : HardError(l[j]))
      /\ c.found = {i \in 1..m : Hot(l, i)}
  <2>1. /\ c.run = <<k>> /\ c.triggered = (FALSE \/ HardError(l[k]))
        /\ c.found = {i \in 1..m : Hot(l, i)}
    BY <1>4
  <2> HIDE DEF c
  <2> QED
    BY <1>6, <1>7, <2>1
<1>10. k \in 1..k /\ m = k - 1
  BY <1>1
<1> HIDE DEF c
<1>11. Counting(l, c, k)
  BY <1>1, <1>5, <1>8, <1>9, <1>10 DEF Counting, c
<1> QED
  BY <1>11 DEF c

LEMMA HotLoopFound ==
  ASSUME NEW l, Indexed(l)
  PROVE  HotLoopViolations(l) = {i \in DOMAIN l : Hot(l, i)}
<1>1. PICK h : Steps("hot_loop", l, h) /\ HotLoopViolations(l) = h[Len(l)].found \union Excess(h[Len(l)])
  BY BurstSteps DEF Indexed
<1> DEFINE right == {k \in 0..Len(l) : Counting(l, h[k], k)}
<1>2. 0 \in right
  <2>1. h[0] = StartOf("hot_loop") /\ StartOf("hot_loop") \in BurstType
    BY <1>1 DEF Steps, StartOf, BurstType
  <2> QED
    BY <2>1 DEF Counting, Indexed
<1>3. ASSUME NEW m \in 0..(Len(l) - 1), m \in right PROVE m + 1 \in right
  <2>1. m + 1 \in 1..Len(l) /\ (m + 1) - 1 = m /\ m + 1 \in 0..Len(l)
    BY DEF Indexed
  <2>2. h[m + 1] = StepBurst(l, h[m], m + 1)
    BY <1>1, <2>1 DEF Steps, StepOf
  <2> QED
    BY <1>3, <2>1, <2>2, CountingContinues, CountingBegins
<1>4. right = 0..Len(l)
  <2>1. right \in SUBSET (0..Len(l)) /\ Len(l) \in Nat
    BY DEF Indexed
  <2> HIDE DEF right
  <2> QED
    BY <1>2, <1>3, <2>1, Induction
<1>5. Counting(l, h[Len(l)], Len(l)) /\ Len(l) \in Nat
  BY <1>4 DEF Indexed
<1>6. CASE Len(l) = 0
  BY <1>1, <1>5, <1>6 DEF Counting, StartOf, Excess, Indexed
<1>7. CASE Len(l) # 0
  BY <1>1, <1>5, <1>7, BurstAdds DEF Indexed, Over
<1> QED
  BY <1>6, <1>7

(***************************************************************************)
(* Retry-After.                                                            *)
(***************************************************************************)
LEMMA NextIsFirst ==
  ASSUME NEW l, Indexed(l), NEW i \in DOMAIN l, LaterCalls(l, i) # {}
  PROVE  NextCall(l, i) \in LaterCalls(l, i) /\ \A j \in LaterCalls(l, i) : NextCall(l, i) <= j
<1>1. LaterCalls(l, i) \in SUBSET Nat
  BY DEF LaterCalls, Indexed
<1>2. \E j \in LaterCalls(l, i) : \A m \in LaterCalls(l, i) : j <= m
  BY <1>1, LeastNatural
<1> QED
  BY <1>2 DEF NextCall

LEMMA RetryCaught ==
  ASSUME NEW l, Timed(l), \A i \in DOMAIN l : l[i].after \in Nat
  PROVE  RetryAfterViolations(l) # {} <=>
           \E i, j \in DOMAIN l :
             /\ i < j /\ Limited(l[i]) /\ l[i].endpoint = l[j].endpoint
             /\ l[j].at - l[i].at < l[i].after
<1>1. Indexed(l) /\ DOMAIN l = 1..Len(l) /\ Len(l) \in Nat
  BY DEF Timed, Indexed
<1>2. ASSUME RetryAfterViolations(l) # {}
      PROVE  \E i, j \in DOMAIN l :
               /\ i < j /\ Limited(l[i]) /\ l[i].endpoint = l[j].endpoint
               /\ l[j].at - l[i].at < l[i].after
  <2>1. PICK i \in DOMAIN l : /\ Limited(l[i]) /\ LaterCalls(l, i) # {}
                              /\ l[NextCall(l, i)].at - l[i].at < l[i].after
    BY <1>2 DEF RetryAfterViolations
  <2>2. NextCall(l, i) \in LaterCalls(l, i)
    BY <1>1, <2>1, NextIsFirst
  <2>3. NextCall(l, i) \in DOMAIN l /\ NextCall(l, i) > i
        /\ l[NextCall(l, i)].endpoint = l[i].endpoint
    BY <2>2 DEF LaterCalls
  <2>4. i < NextCall(l, i)
    BY <1>1, <2>3
  <2> QED
    BY <2>1, <2>3, <2>4
<1>3. ASSUME NEW i \in DOMAIN l, NEW j \in DOMAIN l, i < j, Limited(l[i]),
             l[i].endpoint = l[j].endpoint, l[j].at - l[i].at < l[i].after
      PROVE  RetryAfterViolations(l) # {}
  <2>1. j \in LaterCalls(l, i)
    BY <1>1, <1>3 DEF LaterCalls
  <2>2. NextCall(l, i) \in LaterCalls(l, i) /\ NextCall(l, i) <= j
    BY <1>1, <2>1, NextIsFirst
  <2>3. NextCall(l, i) \in DOMAIN l
    BY <2>2 DEF LaterCalls
  <2>4. l[NextCall(l, i)].at <= l[j].at
    BY <1>1, <2>2, <2>3 DEF Timed
  <2>5. /\ l[NextCall(l, i)].at \in Nat /\ l[j].at \in Nat /\ l[i].at \in Nat
        /\ l[i].after \in Nat
    BY <1>1, <2>3 DEF Timed
  <2>6. l[NextCall(l, i)].at - l[i].at < l[i].after
    BY <1>3, <2>4, <2>5
  <2> QED
    BY <1>3, <2>1, <2>6 DEF RetryAfterViolations
<1> QED
  BY <1>2, <1>3

(***************************************************************************)
(* Writes.                                                                 *)
(***************************************************************************)
First(l, j) == CHOOSE i \in Attempts(l, j) : \A m \in Attempts(l, j) : i <= m

LEMMA FirstAttempt ==
  ASSUME NEW l, Indexed(l), NEW j \in RetriedWrites(l)
  PROVE  First(l, j) \in Attempts(l, j) /\ \A m \in Attempts(l, j) : First(l, j) <= m
<1>1. Attempts(l, j) # {} /\ Attempts(l, j) \in SUBSET Nat
  BY DEF RetriedWrites, Attempts, Writes, Positions, Indexed
<1>2. \E i \in Attempts(l, j) : \A m \in Attempts(l, j) : i <= m
  BY <1>1, LeastNatural
<1> QED
  BY <1>2 DEF First

LEMMA OneToken ==
  ASSUME NEW l, Indexed(l), BodyParam, ~VersionHeader
  PROVE  BlindRetries(l) = {} <=>
           \A i, j \in Writes(l) :
             i # j /\ SameWrite(l[i], l[j]) => l[i].token = l[j].token /\ l[i].token # ""
<1>1. Writes(l) \subseteq Nat
  BY DEF Writes, Positions, Indexed
<1>2. \A j \in RetriedWrites(l) :
        j \notin BlindRetries(l) <=> l[j].token # "" /\ l[j].token = l[First(l, j)].token
  BY DEF BlindRetries, Informed, KeepsToken, First
<1>3. \A j \in RetriedWrites(l) : First(l, j) \in Writes(l) /\ First(l, j) < j
                                /\ SameWrite(l[First(l, j)], l[j]) /\ j \in Writes(l)
  BY FirstAttempt DEF Attempts, RetriedWrites
<1>4. ASSUME BlindRetries(l) = {}, NEW i \in Writes(l), NEW j \in Writes(l), i < j,
             SameWrite(l[i], l[j])
      PROVE  l[i].token = l[j].token /\ l[i].token # ""
  <2>1. i \in Attempts(l, j) /\ j \in RetriedWrites(l)
    BY <1>4 DEF Attempts, RetriedWrites
  <2>2. l[j].token # "" /\ l[j].token = l[First(l, j)].token /\ First(l, j) <= i
    BY <1>2, <1>4, <2>1, FirstAttempt
  <2>3. CASE First(l, j) = i
    BY <2>2, <2>3
  <2>4. CASE First(l, j) # i
    <3> DEFINE f == First(l, j)
    <3>0. f \in Writes(l)
      BY <1>3, <2>1
    <3>a. f \in Nat /\ i \in Nat /\ f <= i /\ f # i
      BY <1>1, <2>2, <2>4, <3>0
    <3>1. First(l, j) < i /\ First(l, j) \in Writes(l)
      <4> HIDE DEF f
      <4>1. f < i
        BY <3>a
      <4> QED
        BY <3>0, <4>1 DEF f
    <3>2. First(l, j) \in Attempts(l, i) /\ i \in RetriedWrites(l)
      BY <1>3, <1>4, <2>1, <3>1 DEF Attempts, RetriedWrites, SameWrite
    <3>3. First(l, i) <= First(l, j) /\ First(l, i) \in Writes(l)
      BY <1>3, <3>2, FirstAttempt
    <3>4. First(l, i) \in Attempts(l, j)
      BY <1>1, <1>3, <1>4, <3>2, <3>3 DEF Attempts, SameWrite
    <3>5. First(l, j) <= First(l, i)
      BY <2>1, <3>4, FirstAttempt
    <3>6. First(l, i) = First(l, j)
      BY <1>1, <3>1, <3>3, <3>5
    <3>7. l[i].token = l[First(l, i)].token
      BY <1>2, <1>4, <3>2
    <3> QED
      BY <2>2, <3>6, <3>7
  <2> QED
    BY <2>3, <2>4
<1>5. ASSUME BlindRetries(l) = {}, NEW i \in Writes(l), NEW j \in Writes(l), i # j,
             SameWrite(l[i], l[j])
      PROVE  l[i].token = l[j].token /\ l[i].token # ""
  <2>1. SameWrite(l[j], l[i])
    BY <1>5 DEF SameWrite
  <2>2. i < j \/ j < i
    BY <1>1, <1>5
  <2>3. CASE i < j
    BY <1>4, <1>5, <2>3
  <2>4. CASE j < i
    <3>1. l[j].token = l[i].token /\ l[j].token # ""
      BY <1>4, <1>5, <2>1, <2>4
    <3> QED
      BY <3>1
  <2> QED
    BY <2>2, <2>3, <2>4
<1>6. ASSUME \A i, j \in Writes(l) :
               i # j /\ SameWrite(l[i], l[j]) => l[i].token = l[j].token /\ l[i].token # "",
             NEW j \in BlindRetries(l)
      PROVE  FALSE
  <2>1. j \in RetriedWrites(l)
    BY <1>6 DEF BlindRetries
  <2>2. First(l, j) # j
    BY <1>1, <1>3, <2>1
  <2> QED
    BY <1>2, <1>3, <1>6, <2>1, <2>2
<1> QED
  BY <1>5, <1>6

(***************************************************************************)
(* Prefixes of a log.                                                      *)
(***************************************************************************)
PrefixOf(f, l) ==
  /\ Indexed(f) /\ Indexed(l) /\ Len(l) = Len(f) + 1
  /\ \A i \in 1..Len(f) : f[i] = l[i]

LEMMA FrontIsPrefix ==
  ASSUME NEW T, NEW l \in Seq(T), l # << >>
  PROVE  PrefixOf(Front(l), l)
<1>1. Len(l) \in Nat \ {0}
  OBVIOUS
<1>2. Front(l) = SubSeq(l, 1, Len(l) - 1)
  BY DEF Front
<1>3. /\ Front(l) \in Seq(T) /\ Len(Front(l)) = Len(l) - 1
      /\ \A i \in 1..(Len(l) - 1) : Front(l)[i] = l[i]
  <2> DEFINE m == Len(l) - 1
  <2>1. m \in Nat /\ 1 \in Int /\ m \in Int /\ m - 1 + 1 = m
    BY <1>1
  <2>2. \A i \in 1..m : l[i] \in T
    BY <1>1
  <2>3. /\ SubSeq(l, 1, m) \in Seq(T)
        /\ Len(SubSeq(l, 1, m)) = IF 1 <= m THEN m - 1 + 1 ELSE 0
        /\ \A i \in 1..(m - 1 + 1) : SubSeq(l, 1, m)[i] = l[1 + i - 1]
    <3> HIDE DEF m
    <3> QED
      BY <2>1, <2>2, SubSeqProperties
  <2>4. Len(SubSeq(l, 1, m)) = m /\ \A i \in 1..m : SubSeq(l, 1, m)[i] = l[i]
    <3> HIDE DEF m
    <3> QED
      BY <2>1, <2>3
  <2> QED
    BY <1>2, <2>3, <2>4
<1> QED
  BY <1>1, <1>3 DEF PrefixOf, Indexed

LEMMA PrefixPositions ==
  ASSUME NEW f, NEW l, PrefixOf(f, l)
  PROVE  /\ DOMAIN f \subseteq DOMAIN l /\ DOMAIN f \subseteq Nat /\ DOMAIN l \subseteq Nat
         /\ \A i \in DOMAIN f : f[i] = l[i]
         /\ \A j \in DOMAIN f : \A i \in DOMAIN l : i <= j => i \in DOMAIN f
  BY DEF PrefixOf, Indexed

LEMMA RetriesStay ==
  ASSUME NEW f, NEW l, PrefixOf(f, l)
  PROVE  RetryAfterViolations(f) \subseteq RetryAfterViolations(l)
<1> SUFFICES ASSUME NEW i \in DOMAIN f, Limited(f[i]), LaterCalls(f, i) # {},
                    f[NextCall(f, i)].at - f[i].at < f[i].after
             PROVE  NextCall(f, i) \in RetryAfterViolations(l)
  BY DEF RetryAfterViolations
<1>1. Indexed(f) /\ Indexed(l)
  BY DEF PrefixOf
<1>2. NextCall(f, i) \in LaterCalls(f, i) /\ \A j \in LaterCalls(f, i) : NextCall(f, i) <= j
  BY <1>1, NextIsFirst
<1>3. LaterCalls(f, i) \subseteq LaterCalls(l, i) /\ i \in DOMAIN l
  BY PrefixPositions DEF LaterCalls
<1>4. NextCall(l, i) \in LaterCalls(l, i) /\ NextCall(l, i) <= NextCall(f, i)
  BY <1>1, <1>2, <1>3, NextIsFirst
<1>5. NextCall(f, i) \in DOMAIN f /\ NextCall(l, i) \in DOMAIN l
  BY <1>2, <1>4 DEF LaterCalls
<1>6. NextCall(l, i) \in DOMAIN f
  BY <1>4, <1>5, PrefixPositions
<1>7. NextCall(l, i) \in LaterCalls(f, i)
  BY <1>4, <1>6, PrefixPositions DEF LaterCalls
<1>8. NextCall(l, i) = NextCall(f, i)
  BY <1>2, <1>4, <1>5, <1>7, PrefixPositions
<1>9. f[i] = l[i] /\ f[NextCall(f, i)] = l[NextCall(f, i)]
  BY <1>5, PrefixPositions
<1> QED
  BY <1>3, <1>4, <1>8, <1>9 DEF RetryAfterViolations

LEMMA BlindStay ==
  ASSUME NEW f, NEW l, PrefixOf(f, l)
  PROVE  BlindRetries(f) \subseteq BlindRetries(l)
<1> SUFFICES ASSUME NEW j \in BlindRetries(f) PROVE j \in BlindRetries(l)
  OBVIOUS
<1>1. j \in Writes(f) /\ j \in DOMAIN f
  BY DEF BlindRetries, RetriedWrites, Writes, Positions
<1>2. Writes(f) \subseteq Writes(l) /\ \A i \in Writes(l) : i < j => i \in Writes(f)
  BY <1>1, PrefixPositions DEF Writes, Positions
<1>3. \A i \in Writes(f) : f[i] = l[i]
  BY PrefixPositions DEF Writes, Positions
<1>4. Attempts(f, j) = Attempts(l, j)
  BY <1>1, <1>2, <1>3 DEF Attempts
<1>5. Attempts(f, j) # {} /\ \A i \in Attempts(f, j) : f[i] = l[i]
  BY <1>3 DEF BlindRetries, RetriedWrites, Attempts
<1>6. j \in RetriedWrites(l)
  BY <1>1, <1>2, <1>4, <1>5 DEF RetriedWrites
<1>7. f[j] = l[j] /\ ~Informed(f, j) /\ ~KeepsToken(f, j)
  BY <1>1, <1>3 DEF BlindRetries
<1>8. First(f, j) = First(l, j) /\ f[First(f, j)] = l[First(l, j)]
  <2>1. First(f, j) \in Attempts(f, j)
    BY FirstAttempt DEF PrefixOf, BlindRetries
  <2> QED
    BY <1>4, <1>5, <2>1 DEF First
<1>9. ~KeepsToken(l, j)
  BY <1>7, <1>8 DEF KeepsToken, First
<1> DEFINE last == CHOOSE i \in Attempts(f, j) : \A m \in Attempts(f, j) : m <= i
<1>10. last \in Attempts(f, j)
  <2>1. Attempts(f, j) \in SUBSET (1..Len(f)) /\ Len(f) \in Nat
    BY DEF Attempts, Writes, Positions, PrefixOf, Indexed
  <2>2. \E i \in Attempts(f, j) : \A m \in Attempts(f, j) : m <= i
    BY <1>5, <2>1, LastPosition
  <2> QED
    BY <2>2
<1>11. ~Informed(l, j)
  <2>1. f[last] = l[last]
    BY <1>5, <1>10
  <2> QED
    BY <1>4, <1>7, <2>1 DEF Informed
<1> QED
  BY <1>6, <1>9, <1>11 DEF BlindRetries

LEMMA HotStays ==
  ASSUME NEW f, NEW l, PrefixOf(f, l)
  PROVE  HotLoopViolations(f) \subseteq HotLoopViolations(l)
<1>1. Indexed(f) /\ Indexed(l)
  BY DEF PrefixOf
<1> SUFFICES ASSUME NEW i \in DOMAIN f, Hot(f, i) PROVE i \in DOMAIN l /\ Hot(l, i)
  BY <1>1, HotLoopFound
<1>2. \A m \in DOMAIN f : Continues(f, m) <=> Continues(l, m)
  <2> SUFFICES ASSUME NEW m \in DOMAIN f, m > 1 PROVE f[m] = l[m] /\ f[m - 1] = l[m - 1]
    BY DEF Continues
  <2>1. m - 1 \in DOMAIN f
    BY <1>1 DEF Indexed
  <2> QED
    BY <2>1, PrefixPositions
<1>3. \A j, k \in DOMAIN f : OneBurstOf(f, j, k) => OneBurstOf(l, j, k)
  BY <1>2, PrefixPositions DEF OneBurstOf
<1>4. Burst(f, i) \subseteq Burst(l, i)
  BY <1>3, PrefixPositions DEF Burst
<1> DEFINE mine == {j \in Burst(f, i) : j <= i}
           all == {j \in Burst(l, i) : j <= i}
<1>5. IsFiniteSet(all) /\ mine \subseteq all
  <2>1. all \subseteq 1..Len(l) /\ IsFiniteSet(1..Len(l))
    BY <1>1, FS_Interval DEF Burst, Indexed
  <2> QED
    BY <1>4, <2>1, FS_Subset
<1>6. /\ Cardinality(mine) <= Cardinality(all)
      /\ Cardinality(mine) \in Nat /\ Cardinality(all) \in Nat
  BY <1>5, FS_Subset, FS_CardinalityType
<1>7. Cardinality(mine) > K
  BY DEF Hot
<1>8. Cardinality(all) > K
  <2> HIDE DEF mine, all
  <2> QED
    BY <1>6, <1>7, RulesAssumption
<1>9. \E j \in Burst(l, i) : HardError(l[j])
  <2>1. PICK j \in Burst(f, i) : HardError(f[j])
    BY DEF Hot
  <2>2. f[j] = l[j]
    BY <2>1, PrefixPositions DEF Burst
  <2> QED
    BY <1>4, <2>1, <2>2
<1> QED
  BY <1>8, <1>9, PrefixPositions DEF Hot

LEMMA ResumeStays ==
  ASSUME NEW f, NEW l, PrefixOf(f, l)
  PROVE  ResumeViolations(f) \subseteq ResumeViolations(l)
<1>1. Len(f) \in Nat /\ Len(l) \in Nat /\ Len(l) = Len(f) + 1
      /\ DOMAIN f = 1..Len(f) /\ DOMAIN l = 1..Len(l)
  BY DEF PrefixOf, Indexed
<1>2. PICK g : Steps("resume", f, g) /\ ResumeViolations(f) = g[Len(f)].found
  BY <1>1, ResumeSteps
<1>3. PICK h : Steps("resume", l, h) /\ ResumeViolations(l) = h[Len(l)].found
  BY <1>1, ResumeSteps
<1> DEFINE same == {k \in 0..Len(f) : g[k] = h[k]}
<1>4. 0 \in same
  BY <1>1, <1>2, <1>3 DEF Steps
<1>5. ASSUME NEW m \in 0..(Len(f) - 1), m \in same PROVE m + 1 \in same
  <2>1. m + 1 \in 1..Len(f) /\ m + 1 \in 1..Len(l) /\ (m + 1) - 1 = m /\ m + 1 \in 0..Len(f)
    BY <1>1
  <2>2. f[m + 1] = l[m + 1]
    BY <2>1 DEF PrefixOf
  <2>3. g[m + 1] = StepResume(f, g[m], m + 1) /\ h[m + 1] = StepResume(l, h[m], m + 1)
    BY <1>2, <1>3, <2>1 DEF Steps, StepOf
  <2>4. StepResume(f, g[m], m + 1) = StepResume(l, g[m], m + 1)
    BY <2>2 DEF StepResume
  <2> QED
    BY <1>5, <2>1, <2>3, <2>4
<1>6. same = 0..Len(f)
  <2>1. same \in SUBSET (0..Len(f))
    OBVIOUS
  <2> HIDE DEF same
  <2> QED
    BY <1>1, <1>4, <1>5, <2>1, Induction
<1>7. g[Len(f)] = h[Len(f)]
  <2>1. Len(f) \in same
    BY <1>1, <1>6
  <2> QED
    BY <2>1
<1>8. h[Len(l)] = StepResume(l, h[Len(f)], Len(l))
  <2>1. Len(l) \in 1..Len(l) /\ Len(l) - 1 = Len(f)
    BY <1>1
  <2> QED
    BY <1>3, <2>1 DEF Steps, StepOf
<1>9. h[Len(f)].found \subseteq h[Len(l)].found
  BY <1>8 DEF StepResume
<1> QED
  BY <1>2, <1>3, <1>7, <1>9

LEMMA BudgetStays ==
  ASSUME NEW f, NEW l, PrefixOf(f, l), Timed(f), Timed(l)
  PROVE  BudgetViolations(f) \subseteq BudgetViolations(l)
<1>1. CASE Limit = 0 \/ Span = 0
  BY <1>1, PrefixPositions DEF BudgetViolations
<1>2. CASE Limit # 0 /\ Span # 0
  <2>1. ASSUME NEW e \in 1..Len(f) PROVE InSpan(f, e) = InSpan(l, e) /\ e \in 1..Len(l)
    <3>1. \A i \in 1..e : f[i] = l[i]
      BY DEF PrefixOf, Indexed
    <3>2. e \in 1..e /\ e \in 1..Len(l)
      BY DEF PrefixOf, Indexed
    <3> QED
      BY <3>1, <3>2 DEF InSpan
  <2>2. OverBudget(f, Len(f)) \subseteq OverBudget(l, Len(l))
    BY <2>1 DEF OverBudget
  <2> QED
    BY <1>2, <2>2, BudgetFound
<1> QED
  BY <1>1, <1>2

(***************************************************************************)
(* Logs of the vendor.                                                     *)
(***************************************************************************)
Entry ==
  [endpoint : Endpoints, page : Nat, since : BOOLEAN, body : STRING, token : STRING,
   version : STRING, status : Nat, after : Nat, leak : {"none", "query", "body"}, at : Nat]

LEMMA EntriesAreTimed ==
  ASSUME NEW l \in Seq(Entry)
  PROVE  /\ DOMAIN l = 1..Len(l) /\ Len(l) \in Nat
         /\ \A i \in 1..Len(l) : l[i].at \in Nat /\ l[i].after \in Nat
<1>1. \A e \in Entry : e.at \in Nat /\ e.after \in Nat
  BY DEF Entry
<1>2. DOMAIN l = 1..Len(l) /\ Len(l) \in Nat /\ \A i \in 1..Len(l) : l[i] \in Entry
  <2> HIDE DEF Entry
  <2> QED
    OBVIOUS
<1> QED
  BY <1>1, <1>2

LogInv == log \in Seq(Entry) /\ now \in Nat /\ TypeOK

\* What the vendor appends is an entry.
LEMMA EntryIsTyped ==
  ASSUME NEW s \in Shapes, NEW t \in Nat
  PROVE  At(s, t) \in Entry /\ At(s, t).at = t
<1>1. s \in Shape
  BY LogAssumption
<1> QED
  BY <1>1 DEF At, Entry, Shape

\* The log keeps its type and stays in the order of time.
THEOREM LogInvariant == Spec => []LogInv
<1>1. Init => LogInv
  BY LogAssumption DEF Init, LogInv, TypeOK
<1>2. ASSUME LogInv, Serve PROVE LogInv'
  <2>1. PICK s \in Shapes : log' = Append(log, At(s, now))
    BY <1>2 DEF Serve
  <2>2. At(s, now) \in Entry /\ At(s, now).at = now /\ now \in Nat /\ log \in Seq(Entry)
    BY <1>2, EntryIsTyped DEF LogInv
  <2>3. log' \in Seq(Entry) /\ Len(log') = Len(log) + 1 /\ Len(log) \in Nat
    BY <2>1, <2>2
  <2>4. \A i \in DOMAIN log' : i \in 1..(Len(log) + 1)
    BY <2>3
  <2>5. \A i \in 1..Len(log) : log'[i] = log[i] /\ log[i].at \in Nat
    BY <2>1, <2>2, EntriesAreTimed
  <2>6. log'[Len(log) + 1] = At(s, now)
    BY <2>1, <2>2
  <2>7. Len(log') <= MaxLog /\ now' = now
    BY <1>2, <2>3, LogAssumption DEF Serve
  <2>8. ASSUME NEW i \in DOMAIN log', NEW j \in DOMAIN log', i <= j
        PROVE  log'[i].at <= log'[j].at /\ log'[j].at <= now
    <3>1. i \in 1..(Len(log) + 1) /\ j \in 1..(Len(log) + 1)
      BY <2>4
    <3>2. \A x, y \in 1..Len(log) : x <= y => log[x].at <= log[y].at /\ log[y].at <= now
      BY <1>2, <2>3 DEF LogInv, TypeOK
    <3>3. CASE j = Len(log) + 1
      <4>1. CASE i = j
        BY <2>2, <2>6, <3>3, <4>1
      <4>2. CASE i # j
        <5>1. i \in 1..Len(log)
          BY <2>3, <2>8, <3>1, <3>3, <4>2
        <5>2. log[i].at <= now
          BY <3>2, <5>1
        <5> QED
          BY <2>2, <2>5, <2>6, <3>3, <5>1, <5>2
      <4> QED
        BY <4>1, <4>2
    <3>4. CASE j # Len(log) + 1
      <4>1. i \in 1..Len(log) /\ j \in 1..Len(log)
        BY <2>3, <2>8, <3>1, <3>4
      <4> QED
        BY <2>5, <2>8, <3>2, <4>1
    <3> QED
      BY <3>3, <3>4
  <2>9. now \in 0..MaxTime
    BY <1>2 DEF LogInv, TypeOK
  <2> QED
    BY <2>2, <2>3, <2>7, <2>8, <2>9 DEF LogInv, TypeOK
<1>3. ASSUME LogInv, Pass PROVE LogInv'
  <2>1. now \in Nat /\ now' = now + 1 /\ now < MaxTime /\ MaxTime \in Nat /\ log' = log
    BY <1>3, LogAssumption DEF LogInv, Pass
  <2>2. now' \in 0..MaxTime /\ now' \in Nat
    BY <2>1
  <2>3. \A i, j \in DOMAIN log : i <= j => log[i].at <= log[j].at /\ log[j].at <= now
    BY <1>3 DEF LogInv, TypeOK
  <2>4. \A j \in DOMAIN log : log[j].at \in Nat
    BY <1>3, EntriesAreTimed DEF LogInv
  <2>5. \A j \in DOMAIN log : log[j].at <= now => log[j].at <= now + 1
    BY <2>1, <2>4
  <2> QED
    BY <1>3, <2>1, <2>2, <2>3, <2>5 DEF LogInv, TypeOK
<1>4. ASSUME LogInv, UNCHANGED vars PROVE LogInv'
  BY <1>4 DEF vars, LogInv, TypeOK
<1> QED
  BY <1>1, <1>2, <1>3, <1>4, PTL DEF Spec, Next

LEMMA LogIsTimed ==
  ASSUME LogInv
  PROVE  Timed(log) /\ Indexed(log) /\ \A i \in DOMAIN log : log[i].after \in Nat
<1>1. /\ DOMAIN log = 1..Len(log) /\ Len(log) \in Nat
      /\ \A i \in 1..Len(log) : log[i].at \in Nat /\ log[i].after \in Nat
  BY EntriesAreTimed DEF LogInv
<1>2. \A i, j \in 1..Len(log) : i <= j => log[i].at <= log[j].at
  BY <1>1 DEF LogInv, TypeOK
<1> QED
  BY <1>1, <1>2 DEF Timed, Indexed

LEMMA FrontIsTimed ==
  ASSUME LogInv, log # << >>
  PROVE  PrefixOf(Front(log), log) /\ Timed(Front(log))
<1>1. PrefixOf(Front(log), log)
  BY FrontIsPrefix DEF LogInv
<1>2. \A i \in 1..Len(Front(log)) : i \in 1..Len(log) /\ Front(log)[i] = log[i]
  BY <1>1 DEF PrefixOf, Indexed
<1>3. DOMAIN Front(log) = 1..Len(Front(log)) /\ Len(Front(log)) \in Nat
  BY <1>1 DEF PrefixOf, Indexed
<1> HIDE DEF Front
<1> QED
  BY <1>1, <1>2, <1>3, LogIsTimed DEF Timed

(***************************************************************************)
(* What is recorded.                                                       *)
(***************************************************************************)

\* A restart from the first page is told only after a listing that failed.
LEMMA ResumeHasFailure ==
  ASSUME NEW l, Indexed(l), ResumeViolations(l) # {}
  PROVE  \E i \in Listings(l) : ServerError(l[i])
<1>1. DOMAIN l = 1..Len(l) /\ Len(l) \in Nat
  BY DEF Indexed
<1>2. PICK h : Steps("resume", l, h) /\ ResumeViolations(l) = h[Len(l)].found
  BY <1>1, ResumeSteps
<1> DEFINE failed == \E i \in Listings(l) : ServerError(l[i])
           quiet == {k \in 0..Len(l) : h[k].pending \/ h[k].found # {} => failed}
<1>3. 0 \in quiet
  BY <1>1, <1>2 DEF Steps, StartOf
<1>4. ASSUME NEW m \in 0..(Len(l) - 1), m \in quiet PROVE m + 1 \in quiet
  <2>1. m + 1 \in 1..Len(l) /\ (m + 1) - 1 = m /\ m + 1 \in 0..Len(l)
    BY <1>1
  <2>2. h[m + 1] = StepResume(l, h[m], m + 1)
    BY <1>2, <2>1 DEF Steps, StepOf
  <2>3. h[m].pending \/ h[m].found # {} => failed
    BY <1>4
  <2> SUFFICES h[m + 1].pending \/ h[m + 1].found # {} => failed
    BY <2>1
  <2>4. CASE l[m + 1].endpoint # "list"
    <3>1. h[m + 1] = h[m]
      BY <2>2, <2>4 DEF StepResume
    <3> QED
      BY <2>3, <3>1
  <2>5. CASE l[m + 1].endpoint = "list"
    <3> DEFINE e == l[m + 1]
               restart == h[m].pending /\ e.page = FirstPage /\ h[m].watermark # FirstPage
    <3>1. h[m + 1].pending <=> ServerError(e)
      BY <2>2, <2>5 DEF StepResume
    <3>2. h[m + 1].found # {} => restart \/ h[m].found # {}
      BY <2>2, <2>5 DEF StepResume
    <3>3. m + 1 \in Listings(l)
      BY <1>1, <2>1, <2>5 DEF Listings, Positions
    <3> QED
      BY <2>3, <3>1, <3>2, <3>3
  <2> QED
    BY <2>4, <2>5
<1>5. quiet = 0..Len(l)
  <2>1. quiet \in SUBSET (0..Len(l))
    OBVIOUS
  <2> HIDE DEF quiet
  <2> QED
    BY <1>1, <1>3, <1>4, <2>1, Induction
<1>6. Len(l) \in quiet
  BY <1>1, <1>5
<1> QED
  BY <1>2, <1>6

\* No rule is violated without its evidence.
LEMMA ViolationHasEvidence ==
  ASSUME NEW l, Indexed(l), NEW r \in Rules, NEW i \in Violations(r, l), l[i].endpoint # "root"
  PROVE  Evidence(r, l) # {}
<1>1. CASE r = "creds"
  <2>1. i \in DOMAIN l /\ l[i].endpoint # "mint"
    BY <1>1 DEF Violations, CredsInQuery, Positions
  <2>2. i \in {k \in DOMAIN l : DataPlane(l[k])}
    BY <2>1 DEF DataPlane
  <2> QED
    BY <1>1, <2>2 DEF Evidence, Positions
<1>2. CASE r = "secrets"
  <2>1. i \in DOMAIN l /\ l[i].endpoint # "mint"
    BY <1>2 DEF Violations, SecretsEchoed, Positions
  <2>2. i \in {k \in DOMAIN l : DataPlane(l[k])}
    BY <2>1 DEF DataPlane
  <2> QED
    BY <1>2, <2>2 DEF Evidence, Positions
<1>3. CASE r = "retry_after"
  <2>1. \E k \in DOMAIN l : Limited(l[k])
    BY <1>3 DEF Violations, RetryAfterViolations
  <2> QED
    BY <1>3, <2>1 DEF Evidence, Positions
<1>4. CASE r = "resync"
  <2>1. i \in DOMAIN l /\ l[i].endpoint = "list"
    BY <1>4 DEF Violations, FullResyncViolations, Listings, Positions
  <2> QED
    BY <1>4, <2>1 DEF Evidence, Positions
<1>5. CASE r = "resume"
  <2>1. ResumeViolations(l) # {}
    BY <1>5 DEF Violations
  <2> QED
    BY <1>5, <2>1, ResumeHasFailure DEF Evidence
<1>6. CASE r = "hot_loop"
  <2>1. Hot(l, i)
    BY <1>6, HotLoopFound DEF Violations
  <2>2. \E j \in DOMAIN l : HardError(l[j])
    BY <2>1 DEF Hot, Burst
  <2> QED
    BY <1>6, <2>2 DEF Evidence, Positions
<1>7. CASE r = "idempotent"
  <2>1. i \in RetriedWrites(l)
    BY <1>7 DEF Violations, BlindRetries
  <2> QED
    BY <1>7, <2>1 DEF Evidence
<1> QED
  BY <1>1, <1>2, <1>3, <1>4, <1>5, <1>6, <1>7 DEF Rules

LEMMA ViolationIsRecorded ==
  ASSUME NEW l, Indexed(l), NEW r \in Rules, NEW i \in Violations(r, l), l[i].endpoint # "root"
  PROVE  [rule |-> r, ok |-> FALSE] \in Recorded(l)
<1>1. r \in {q \in Rules : Evidence(q, l) # {}}
  BY ViolationHasEvidence
<1>2. (Violations(r, l) = {}) = FALSE
  OBVIOUS
<1>3. [rule |-> r, ok |-> Violations(r, l) = {}] \in Recorded(l)
  BY <1>1 DEF Recorded
<1> QED
  BY <1>2, <1>3

LEMMA SilenceIsNoEvidence ==
  ASSUME NEW l, \A i \in DOMAIN l : l[i].endpoint \in {"mint", "root"}, NEW r \in Rules,
         Evidence(r, l) # {}
  PROVE  r \in {"retry_after", "hot_loop"}
<1>1. Positions(l, DataPlane) = {}
  BY DEF Positions, DataPlane
<1>2. {i \in DOMAIN l : l[i].endpoint \in {"list", "item"}} = {}
  OBVIOUS
<1>3. Listings(l) = {} /\ Writes(l) = {}
  BY DEF Listings, Writes, Positions
<1>4. r \notin {"creds", "secrets"}
  BY <1>1 DEF Evidence
<1>5. r # "resync"
  BY <1>2 DEF Evidence, Positions
<1>6. r # "resume" /\ r # "idempotent"
  BY <1>3 DEF Evidence, RetriedWrites
<1> QED
  BY <1>4, <1>5, <1>6 DEF Rules

\* No rule forgets what it has found.
LEMMA ViolationsStay ==
  ASSUME NEW f, NEW l, PrefixOf(f, l), NEW r \in Rules
  PROVE  Violations(r, f) \subseteq Violations(r, l)
<1>1. CredsInQuery(f) \subseteq CredsInQuery(l)
  BY PrefixPositions DEF CredsInQuery, Positions
<1>2. SecretsEchoed(f) \subseteq SecretsEchoed(l)
  BY PrefixPositions DEF SecretsEchoed, Positions
<1>3. FullResyncViolations(f) \subseteq FullResyncViolations(l)
  BY PrefixPositions DEF FullResyncViolations, Listings, Positions
<1> QED
  BY <1>1, <1>2, <1>3, RetriesStay, ResumeStays, HotStays, BlindStay DEF Rules, Violations

\* The rules find what they are defined to find, and neither lose it nor bank on
\* silence.
THEOREM ConductIsCorrect == Spec => []ConductCorrect
<1> SUFFICES ASSUME LogInv PROVE ConductCorrect
  BY LogInvariant, PTL
<1>1. Timed(log) /\ Indexed(log)
  BY LogIsTimed
<1>2. EarlyRetryCaught
  BY LogIsTimed, RetryCaught DEF EarlyRetryCaught
<1>3. BudgetIsExact
  <2>1. Limit > 0 /\ Span > 0 => BudgetViolations(log) = OverBudget(log, Len(log))
    BY <1>1, BudgetFound, RulesAssumption
  <2>2. DOMAIN log = 1..Len(log)
    BY <1>1 DEF Timed
  <2>3. OverBudget(log, Len(log)) =
          {e \in DOMAIN log : Cardinality({i \in 1..e : log[e].at - log[i].at < Span}) > Limit}
    BY <2>2, Zenon DEF OverBudget, InSpan
  <2> QED
    BY <2>1, <2>3 DEF BudgetIsExact
<1>4. FixedWindowsFollow
  <2>1. Span \in Nat /\ now \in Int
    BY RulesAssumption DEF LogInv
  <2>2. \A w \in (1 - Span)..now : w \in Int
    BY <2>1
  <2> QED
    BY <1>1, <2>2, FixedWindows DEF FixedWindowsFollow
<1>5. HotLoopIsExact
  BY <1>1, HotLoopFound DEF HotLoopIsExact, Hot, Burst, BurstOf, OneBurst, OneBurstOf
<1>6. OneTokenPerWrite
  BY <1>1, OneToken DEF OneTokenPerWrite
<1>7. NothingIsForgiven
  BY <1>1, FrontIsTimed, ViolationsStay, BudgetStays DEF NothingIsForgiven
<1>8. ViolationsAreRecorded
  BY <1>1, ViolationIsRecorded DEF ViolationsAreRecorded
<1>9. SilenceBanksNothing
  <2> SUFFICES ASSUME \A i \in DOMAIN log : log[i].endpoint \in {"mint", "root"},
                      NEW r \in Rules, Evidence(r, log) # {}
               PROVE  r \in {"retry_after", "hot_loop"}
    BY DEF SilenceBanksNothing, Recorded
  <2> QED
    BY SilenceIsNoEvidence
<1> QED
  BY <1>2, <1>3, <1>4, <1>5, <1>6, <1>7, <1>8, <1>9 DEF ConductCorrect, LogInv

===============================================================================
