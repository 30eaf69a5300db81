-------------------------------- MODULE MCAgent --------------------------------
(***************************************************************************)
(* The agent: the homes with credentials that its rollouts are given, and  *)
(* the four ways in which it is driven.  A CLI lane streams its exec, the  *)
(* direct lane keeps a conversation, an external command is run beside its *)
(* vendors, and a batch shelves and grades what such runs predicted.       *)
(*                                                                         *)
(* The harness is in one of them, so `part` says which, and the others     *)
(* rest in an initial state.  They share no variable.                      *)
(***************************************************************************)
EXTENDS AgentExecStream, DirectLoop, ExternalRun, PredictionBatch, AgentHome

\* Two rollouts that prepare their homes at once.
CONSTANTS r1, r2

VARIABLE part

\* Three lines: one handed on, one in the pipe, one still to be written.
MCMaxLines == 3

\* Three turns of up to two calls: a group of two results, a repeated made-up id
\* and a turn without calls fit into one transcript.
MCMaxTurns == 3
MCMaxAttempts == 5
MCMaxCalls == 2

\* A command that edits twice, once more by a child that outlives it.
MCScores == {0, 100}
MCMaxEdits == 3

\* Two tasks, run ids whose random ends sort in an order of their own, and three
\* commands: run, run again and grade.
MCNTasks == 2
MCNameEnds == 1..3
MCMaxCommands == 3

MCRollouts == {r1, r2}
MCPlatforms == {"linux", "darwin"}

HomeAtRest ==
  /\ platform = "linux" /\ lane = "opencode" /\ profile = Missing
  /\ keychain = NoToken /\ \A k \in DOMAIN tokens : tokens[k].until = 0

MCInit ==
  /\ part \in {"stream", "loop", "external", "batch", "home"}
  /\ Init /\ LoopInit /\ ExternalInit /\ BatchInit /\ HomeInit
  /\ part # "stream" => ~wedged /\ ~helper /\ timer = "off"
  /\ part # "external" => ~keep
  /\ part # "home" => HomeAtRest

MCNext ==
  /\ UNCHANGED part
  /\ \/ /\ part = "stream" /\ Next
        /\ UNCHANGED <<loopVars, externalVars, batchVars, homeVars>>
     \/ /\ part = "loop" /\ LoopNext
        /\ UNCHANGED <<vars, externalVars, batchVars, homeVars>>
     \/ /\ part = "external" /\ ExternalNext
        /\ UNCHANGED <<vars, loopVars, batchVars, homeVars>>
     \/ /\ part = "batch" /\ BatchNext
        /\ UNCHANGED <<vars, loopVars, externalVars, homeVars>>
     \/ /\ part = "home" /\ HomeNext
        /\ UNCHANGED <<vars, loopVars, externalVars, batchVars>>

\* The fairness of each part, while it is the one that runs.
MCSpec ==
  /\ MCInit /\ [][MCNext]_<<part, vars, loopVars, externalVars, batchVars, homeVars>>
  /\ WF_vars(part = "stream" /\ Progress)
  /\ WF_vars(part = "stream" /\ Watchdog)
  /\ WF_vars(part = "stream" /\ Tick)
  /\ WF_externalVars(part = "external" /\ Main)
  /\ WF_batchVars(part = "batch" /\ CertainBatchStep)

\* RunEnds of an external run: with its command hanging, its vendors failing or
\* its workspace lost, run_once comes to an end.
ExternalRunEnds == part = "external" => RunEnds

\* An exec whose deadline fired, an external run whose command hangs, and a batch
\* none of whose grades hangs come to an end.
AgentsEnd == FiredDeadlineEnds /\ ExternalRunEnds /\ BatchEnds

===============================================================================
