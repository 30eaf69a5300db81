-------------------------------- MODULE ExecCall --------------------------------
(***************************************************************************)
(* What a lane of eval_core.py relies on in agent_exec_stream: one call    *)
(* that shows it lines, and ends once, in one of the ways the lane         *)
(* distinguishes, none of which claims a time-out before its time.  No     *)
(* line is shown after the end.                                            *)
(***************************************************************************)
EXTENDS Naturals, ExecEndings

VARIABLES
  expired,   \* the budget of the lane is used up
  shown,     \* lines shown to the lane
  ending     \* how the call ended, "none" before

callVars == <<expired, shown, ending>>

CallInit == ~expired /\ shown = 0 /\ ending = "none"

Expires ==
  /\ expired' = TRUE
  /\ UNCHANGED <<shown, ending>>

Shows ==
  /\ ending = "none"
  /\ shown' = shown + 1
  /\ UNCHANGED <<expired, ending>>

Ends(how) ==
  /\ ending = "none" /\ MayEnd(how, expired)
  /\ ending' = how
  /\ UNCHANGED <<expired, shown>>

CallNext == Expires \/ Shows \/ \E how \in Endings : Ends(how)

CallSpec == CallInit /\ [][CallNext]_callVars

===============================================================================
