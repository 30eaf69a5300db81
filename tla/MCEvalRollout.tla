---------------------------- MODULE MCEvalRollout ----------------------------
(***************************************************************************)
(* The two ways to a verdict: an evaluation attempt in any of its lanes,   *)
(* which grades its own patch at the end, and a standalone grade of a      *)
(* patch that is submitted.  Both write one attempt directory; `part` says *)
(* which of them a behaviour is.                                           *)
(***************************************************************************)
EXTENDS EvalRollout

\* A zero, a partial and a full score.
MCScores == {0, 60, 100}

MCLanes == CliLanes \union {"direct"}

VARIABLE part

MCInit ==
  \/ part = "attempt" /\ Init
  \/ /\ part = "grade" /\ GradingInit
     /\ lane = "direct" /\ pc = "prepare" /\ turn = 0 /\ expired = FALSE /\ run = NotRun
     /\ cut = "none" /\ agentBox = FALSE /\ busy = FALSE /\ home = {} /\ result = NoResult

MCNext ==
  \/ part = "attempt" /\ Next /\ UNCHANGED part
  \/ part = "grade" /\ GradingNext /\ UNCHANGED <<part, rolloutVars>>

MCSpec ==
  /\ MCInit /\ [][MCNext]_<<part, vars>>
  /\ WF_vars(part = "attempt" /\ Certain)

\* RolloutEnds of an attempt: it ends unless code of the participant hangs, and its
\* agent is taken down, also when phases of its grade fail.
AttemptEnds == part = "attempt" => RolloutEnds

===============================================================================
