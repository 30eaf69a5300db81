------------------------------ MODULE DirectLoop ------------------------------
(***************************************************************************)
(* The conversation of the direct lane: the turn loop of eval_once         *)
(* (harness/bench/commands/eval_core.py), the retries of chat() and the    *)
(* two conversions of the transcript to a provider's own message format    *)
(* (harness/bench/providers.py).                                           *)
(*                                                                         *)
(* EvalRollout has the same loop with a chat as one step and no            *)
(* transcript; here the transcript is the subject.  A message keeps its    *)
(* role, whether it has text, the ids of the tool calls it makes and the   *)
(* id it answers.  An id is a number: below MaxCalls the ones the client   *)
(* makes up when the provider sent none ("call_0", "call_1", ...), above   *)
(* that the provider's own, which never repeat.                            *)
(***************************************************************************)
EXTENDS Naturals, Sequences, SequencesExt

CONSTANTS
  MaxTurns,      \* max_turns of eval_once
  MaxAttempts,   \* _TRANSIENT_ATTEMPTS of chat()
  MaxCalls       \* tool calls in one reply at most

ASSUME LoopAssumption ==
  MaxTurns \in Nat /\ MaxAttempts \in Nat \ {0} /\ MaxCalls \in Nat \ {0}

VARIABLES
  stage,     \* where the loop stands
  turn,      \* turns started
  attempt,   \* requests of the current chat()
  messages,  \* the transcript resent with every request
  pending,   \* tool calls of the last reply still to run
  fresh,     \* ids the provider has given out
  expired,   \* has the wall-clock budget run out?
  late,      \* requests begun after it had (a history variable)
  stop       \* why the loop ended

loopVars == <<stage, turn, attempt, messages, pending, fresh, expired, late, stop>>

Ids == 0..(MaxCalls + MaxTurns * MaxCalls)
NoId == MaxCalls + MaxTurns * MaxCalls + 1

MessageType ==
  [role : {"user", "assistant", "tool"}, text : BOOLEAN,
   calls : Seq(Ids), answers : Ids \union {NoId}]

LoopTypeOK ==
  /\ stage \in {"turn", "request", "tools", "over"}
  /\ turn \in 0..MaxTurns
  /\ attempt \in 0..MaxAttempts
  /\ messages \in Seq(MessageType)
  /\ pending \in Seq(Ids)
  /\ fresh \in 0..(MaxTurns * MaxCalls)
  /\ expired \in BOOLEAN
  /\ late \in Nat
  /\ stop \in {"none", "turn_cap", "wall_clock", "done", "resource_limit",
               "provider_error", "crashed"}
  /\ stage = "over" <=> stop # "none"

UserSays == [role |-> "user", text |-> TRUE, calls |-> <<>>, answers |-> NoId]
Reply(text, calls) == [role |-> "assistant", text |-> text, calls |-> calls, answers |-> NoId]
ToolResult(id) == [role |-> "tool", text |-> TRUE, calls |-> <<>>, answers |-> id]

LoopInit ==
  /\ stage = "turn"
  /\ turn = 0
  /\ attempt = 0
  /\ messages = <<UserSays>>
  /\ pending = <<>>
  /\ fresh = 0
  /\ expired = FALSE
  /\ late = 0
  /\ stop = "none"

Stop(why) == stage' = "over" /\ stop' = why

-------------------------------------------------------------------------------
(***************************************************************************)
(* The turn loop and chat().                                               *)
(***************************************************************************)

BudgetExpires ==
  /\ stage # "over" /\ ~expired
  /\ expired' = TRUE
  /\ UNCHANGED <<stage, turn, attempt, messages, pending, fresh, late, stop>>

\* Seeded error: the deadline is for reporting only.
TurnStart_NoDeadline ==
  /\ stage = "turn"
  /\ IF turn = MaxTurns
     THEN Stop("turn_cap") /\ UNCHANGED <<turn, attempt, late>>
     ELSE /\ turn' = turn + 1 /\ attempt' = 1
          /\ late' = IF expired THEN late + 1 ELSE late
          /\ stage' = "request" /\ UNCHANGED stop
  /\ UNCHANGED <<messages, pending, fresh, expired>>

\* Exhausting the range is looked at before the deadline of the next turn.
TurnStart ==
  /\ stage = "turn"
  /\ CASE turn = MaxTurns -> Stop("turn_cap") /\ UNCHANGED <<turn, attempt>>
       [] turn < MaxTurns /\ expired -> Stop("wall_clock") /\ UNCHANGED <<turn, attempt>>
       [] OTHER -> /\ turn' = turn + 1 /\ attempt' = 1
                   /\ stage' = "request" /\ UNCHANGED stop
  /\ UNCHANGED <<messages, pending, fresh, expired, late>>

\* Seeded error: one attempt too many.
TransportFails_OneMore ==
  /\ stage = "request"
  /\ IF attempt <= MaxAttempts
     THEN /\ attempt' = attempt + 1
          /\ late' = IF expired THEN late + 1 ELSE late
          /\ UNCHANGED <<stage, stop>>
     ELSE Stop("provider_error") /\ UNCHANGED <<attempt, late>>
  /\ UNCHANGED <<turn, messages, pending, fresh, expired>>

\* A timeout or transport error: sleep and send the same transcript again, or
\* give up with ProviderError.
TransportFails ==
  /\ stage = "request"
  /\ IF attempt < MaxAttempts
     THEN /\ attempt' = attempt + 1
          /\ late' = IF expired THEN late + 1 ELSE late
          /\ UNCHANGED <<stage, stop>>
     ELSE Stop("provider_error") /\ UNCHANGED <<attempt, late>>
  /\ UNCHANGED <<turn, messages, pending, fresh, expired>>

\* Status 400 and above is a ProviderError at once.
HttpError ==
  /\ stage = "request"
  /\ Stop("provider_error")
  /\ UNCHANGED <<turn, attempt, messages, pending, fresh, expired, late>>

\* A success whose body is no JSON: resp.json() raises what neither chat() nor
\* eval_once catches.
UnreadableBody ==
  /\ stage = "request"
  /\ Stop("crashed")
  /\ UNCHANGED <<turn, attempt, messages, pending, fresh, expired, late>>

\* The ids of a reply's n calls: the provider's, or made up by position.
CallIds(n, omitted) ==
  [k \in 1..n |-> IF omitted THEN k - 1 ELSE MaxCalls + fresh + k - 1]

\* Seeded error: a reply without tool calls is not answered.
Replied_Unanswered(text, n, omitted) ==
  /\ stage = "request"
  /\ LET calls == CallIds(n, omitted)
     IN  /\ messages' = Append(messages, Reply(text, calls))
         /\ pending' = calls
  /\ fresh' = IF omitted THEN fresh ELSE fresh + n
  /\ stage' = IF n = 0 THEN "turn" ELSE "tools"
  /\ UNCHANGED <<turn, attempt, expired, late, stop>>

\* The reply joins the transcript; without tool calls the model is told to go on.
Replied(text, n, omitted) ==
  /\ stage = "request"
  /\ LET calls == CallIds(n, omitted)
         said  == Append(messages, Reply(text, calls))
     IN  /\ messages' = IF n = 0 THEN Append(said, UserSays) ELSE said
         /\ pending' = calls
  /\ fresh' = IF omitted THEN fresh ELSE fresh + n
  /\ stage' = IF n = 0 THEN "turn" ELSE "tools"
  /\ UNCHANGED <<turn, attempt, expired, late, stop>>

\* The next tool call returns; done() and a disk budget error end the loop after
\* their result is appended, whatever calls are left.
ToolReturns(how) ==
  /\ stage = "tools"
  /\ messages' = Append(messages, ToolResult(Head(pending)))
  /\ pending' = Tail(pending)
  /\ IF how # "result" THEN Stop(how)
     ELSE stage' = (IF Tail(pending) = <<>> THEN "turn" ELSE "tools") /\ UNCHANGED stop
  /\ UNCHANGED <<turn, attempt, fresh, expired, late>>

\* _run_tool raises anything else, as with arguments that are no JSON object.
ToolRaises ==
  /\ stage = "tools"
  /\ Stop("crashed")
  /\ UNCHANGED <<turn, attempt, messages, pending, fresh, expired, late>>

LoopNext ==
  \/ BudgetExpires
  \/ TurnStart
  \/ TransportFails
  \/ HttpError
  \/ UnreadableBody
  \/ \E text, omitted \in BOOLEAN, n \in 0..MaxCalls : Replied(text, n, omitted)
  \/ \E how \in {"result", "done", "resource_limit"} : ToolReturns(how)
  \/ ToolRaises

LoopSpec == LoopInit /\ [][LoopNext]_loopVars

-------------------------------------------------------------------------------
(***************************************************************************)
(* Conversions.                                                            *)
(***************************************************************************)

\* Seeded error: every tool result becomes a message of its own.
AnthropicAdd_OneByOne(out, m) ==
  CASE m.role = "tool" -> Append(out, [role |-> "user", uses |-> <<>>, results |-> <<m.answers>>])
    [] m.role = "assistant" -> Append(out, [role |-> "assistant", uses |-> m.calls, results |-> <<>>])
    [] m.role = "user" -> Append(out, [role |-> "user", uses |-> <<>>, results |-> <<>>])

\* _openai_messages_to_anthropic, one message: tool calls become tool_use blocks,
\* and a run of tool results becomes the blocks of one user message.
AnthropicAdd(out, m) ==
  CASE m.role = "tool" /\ Last(out).results # <<>> ->
         Front(out) \o <<[Last(out) EXCEPT !.results = Append(@, m.answers)]>>
    [] m.role = "tool" /\ Last(out).results = <<>> ->
         Append(out, [role |-> "user", uses |-> <<>>, results |-> <<m.answers>>])
    [] m.role = "assistant" ->
         Append(out, [role |-> "assistant", uses |-> m.calls, results |-> <<>>])
    [] m.role = "user" -> Append(out, [role |-> "user", uses |-> <<>>, results |-> <<>>])

ToAnthropic(ms) == FoldLeft(LAMBDA out, m : AnthropicAdd(out, m), <<>>, ms)

\* Seeded error: an assistant message is either text or calls.
ResponsesItems_TextWins(m) ==
  CASE m.role = "tool" -> <<[type |-> "function_call_output", id |-> m.answers]>>
    [] m.role = "assistant" /\ m.text -> <<[type |-> "message", id |-> NoId]>>
    [] m.role = "assistant" /\ ~m.text ->
         [k \in DOMAIN m.calls |-> [type |-> "function_call", id |-> m.calls[k]]]
    [] m.role = "user" -> <<[type |-> "message", id |-> NoId]>>

\* _to_responses_input, one message: an assistant message is its text, if it has
\* any, and one item per call.
ResponsesItems(m) ==
  CASE m.role = "tool" -> <<[type |-> "function_call_output", id |-> m.answers]>>
    [] m.role = "assistant" ->
         (IF m.text THEN <<[type |-> "message", id |-> NoId]>> ELSE <<>>)
         \o [k \in DOMAIN m.calls |-> [type |-> "function_call", id |-> m.calls[k]]]
    [] m.role = "user" -> <<[type |-> "message", id |-> NoId]>>

ToResponses(ms) == FoldLeft(LAMBDA out, m : out \o ResponsesItems(m), <<>>, ms)

\* The ids of the items of one type, in their order.
IdsOf(items, type) ==
  FoldLeft(LAMBDA ids, x : IF x.type = type THEN Append(ids, x.id) ELSE ids, <<>>, items)

-------------------------------------------------------------------------------
(***************************************************************************)
(* Correctness.                                                            *)
(***************************************************************************)

\* Whatever turns, failed requests and tool results came before, the transcript
\* that eval_once sends through _openai_messages_to_anthropic alternates between
\* user and assistant, begins and ends with the user, and answers the tool_use
\* blocks of a message completely, in order and in the very next message.
AnthropicWellFormed ==
  stage = "request" =>
    LET a == ToAnthropic(messages)
    IN  /\ \A i \in DOMAIN a : a[i].role = IF i % 2 = 1 THEN "user" ELSE "assistant"
        /\ Len(a) % 2 = 1
        /\ \A i \in 1..(Len(a) - 1) : a[i + 1].results = a[i].uses

\* In what _to_responses_input sends, calls and outputs pair up without an id left
\* over: the k-th output is that of the k-th call, also where made-up ids repeat
\* from turn to turn.
ResponsesPaired ==
  stage = "request" =>
    LET items == ToResponses(messages)
    IN  IdsOf(items, "function_call") = IdsOf(items, "function_call_output")

\* Wall clock is the real budget: after it is over no further chat() begins, and
\* the one under way sends at most its remaining attempts.
OvershootIsOneChat == late < MaxAttempts

\* What chat() sends is well formed for either provider, and the loop stops.
LoopCorrect ==
  /\ LoopTypeOK
  /\ AnthropicWellFormed
  /\ ResponsesPaired
  /\ OvershootIsOneChat

(***************************************************************************)
(* Refinement.                                                             *)
(***************************************************************************)
\* Where the loop stands, for one who sees a chat and the calls of a turn as one step.
LoopStage == CASE stage = "request" -> "chat" [] stage = "tools" -> "tool" [] OTHER -> stage

Loop == INSTANCE TurnLoop WITH stage <- LoopStage

\* The requests of a chat and the calls of a turn are inside of the one step that
\* EvalRollout has for them: a retry or a call that is not the last starts no turn,
\* ends no loop and forgives no limit.
ImplementsTurns == Loop!TurnSpec

===============================================================================
