-------------------------------- MODULE TurnLoop --------------------------------
(***************************************************************************)
(* The turn loop of the direct lane (eval_once in                          *)
(* harness/bench/commands/eval_core.py) as far as its two models have to   *)
(* agree on it: EvalRollout, which goes on to settle the attempt and takes *)
(* a chat and the tool calls of a turn for one step each, and DirectLoop,  *)
(* which has the requests, the calls and the transcript.                   *)
(***************************************************************************)
EXTENDS Naturals

CONSTANT MaxTurns

VARIABLES
  stage,     \* "turn", "chat", "tool" or "over"
  turn,      \* turns started
  expired,   \* the wall-clock budget is used up
  stop       \* why the loop ended, "none" before

turnVars == <<stage, turn, expired, stop>>

TurnInit == stage = "turn" /\ turn = 0 /\ ~expired /\ stop = "none"

Expires ==
  /\ stage # "over" /\ ~expired
  /\ expired' = TRUE
  /\ UNCHANGED <<stage, turn, stop>>

Goes(from, to) == stage = from /\ stage' = to

\* A turn is begun inside both limits, and nothing else begins a chat.
Begins ==
  /\ Goes("turn", "chat")
  /\ turn < MaxTurns /\ ~expired
  /\ turn' = turn + 1
  /\ UNCHANGED <<expired, stop>>

\* At a limit the loop is over; the cap on turns is named before the clock.
CutsOff ==
  /\ Goes("turn", "over")
  /\ \/ turn = MaxTurns /\ stop' = "turn_cap"
     \/ turn < MaxTurns /\ expired /\ stop' = "wall_clock"
  /\ UNCHANGED <<turn, expired>>

Replies ==
  /\ Goes("chat", "tool") \/ Goes("chat", "turn")
  /\ UNCHANGED <<turn, expired, stop>>

Answers ==
  /\ Goes("tool", "turn")
  /\ UNCHANGED <<turn, expired, stop>>

\* A chat ends the loop by its failure, a tool call by its success or its failure.
Ends(why) ==
  /\ \/ Goes("chat", "over") /\ why \in {"provider_error", "crashed"}
     \/ Goes("tool", "over") /\ why \in {"done", "resource_limit", "crashed"}
  /\ stop' = why
  /\ UNCHANGED <<turn, expired>>

TurnNext ==
  \/ Expires \/ Begins \/ CutsOff \/ Replies \/ Answers
  \/ \E why \in {"done", "resource_limit", "provider_error", "crashed"} : Ends(why)

TurnSpec == TurnInit /\ [][TurnNext]_turnVars

===============================================================================
