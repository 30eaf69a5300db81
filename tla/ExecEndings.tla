------------------------------ MODULE ExecEndings ------------------------------
(***************************************************************************)
(* The endings of the streamed command of a CLI lane, as the lanes see     *)
(* them in eval_core.py.  They are what EvalRollout takes for granted and  *)
(* AgentExecStream implements.                                             *)
(***************************************************************************)

\* The CLI exits with 0 or fails; the in-container `timeout` answers 124 when its
\* SIGTERM ends the CLI, but dies of its own SIGKILL (137) when it has to escalate;
\* the host backstop raises TimeoutExpired; the disk of the participant is full;
\* anything else is raised.
Endings == {"exit", "fail", "term", "kill", "backstop", "disk", "raise"}

\* The endings that only a used up budget brings about.
OverBudget == {"term", "kill", "backstop"}

MayEnd(how, expired) == how \in Endings /\ (how \in OverBudget => expired)

===============================================================================
