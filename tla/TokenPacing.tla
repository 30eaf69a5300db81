----------------------------- MODULE TokenPacing -----------------------------
(***************************************************************************)
(* The re-authentication rule (harness/bench/verifier/logs.py              *)
(* excess_token_mints and builtin_l2.py) against a connector that does     *)
(* nothing wrong: it mints a token only when it has none that is valid.    *)
(* It is a new process, without a token, every time a scenario starts it,  *)
(* and the vendor may grant tokens that expire early.                      *)
(***************************************************************************)
EXTENDS Integers, Sequences, FiniteSets

CONSTANTS
  TTL,        \* the nominal life of a token
  Short,      \* lives of the tokens a vendor grants on purpose
  Margin,     \* DEFAULT_REAUTH_MARGIN
  MaxTicks,   \* bound on the clock
  MaxRuns     \* bound on the starts of the connector

ASSUME PacingAssumption ==
  /\ TTL \in Nat \ {0} /\ Margin \in Nat \ {0} /\ Short \subseteq 1..(TTL - 1)
  /\ MaxTicks \in Nat /\ MaxRuns \in Nat \ {0}

VARIABLES
  elapsed,
  runs,      \* starts of the connector so far
  expires,   \* when the token in its memory expires
  grants,    \* GET /control/tokens: the life of every token
  window     \* the times of the first and the last request of the log

pacingVars == <<elapsed, runs, expires, grants, window>>

Lives == {TTL} \union Short

PacingInit ==
  /\ elapsed = 0 /\ runs = 1 /\ expires = 0
  /\ grants = << >>
  /\ window = << >>

\* Seeded error: the window of a single request ends at zero.
Log_LastOnly == window' = IF window = << >> THEN <<elapsed, 0>> ELSE [window EXCEPT ![2] = elapsed]

Log == window' = IF window = << >> THEN <<elapsed, elapsed>> ELSE [window EXCEPT ![2] = elapsed]

\* A request with the token there is.
Call == elapsed < expires /\ Log /\ UNCHANGED <<elapsed, runs, expires, grants>>

\* A request that needs a token first.
MintAndCall ==
  /\ elapsed >= expires
  /\ \E life \in Lives : grants' = Append(grants, life) /\ expires' = elapsed + life
  /\ Log
  /\ UNCHANGED <<elapsed, runs>>

\* A scenario starts the connector again: its memory is gone.
Restart ==
  /\ runs < MaxRuns
  /\ runs' = runs + 1 /\ expires' = elapsed
  /\ UNCHANGED <<elapsed, grants, window>>

Tick == elapsed < MaxTicks /\ elapsed' = elapsed + 1 /\ UNCHANGED <<runs, expires, grants, window>>

PacingNext == Call \/ MintAndCall \/ Restart \/ Tick

PacingSpec == PacingInit /\ [][PacingNext]_pacingVars

-------------------------------------------------------------------------------
(***************************************************************************)
(* The rule.                                                               *)
(***************************************************************************)
LogWindow == IF window = << >> THEN 0 ELSE window[2] - window[1]

MinimalNeeded == IF LogWindow <= TTL THEN 1 ELSE (LogWindow + TTL - 1) \div TTL

\* Seeded error: a short grant does not raise the ceiling.
ShortGrants_None == 0

ShortGrants == Cardinality({i \in DOMAIN grants : grants[i] < TTL})

\* app_runs scales the ceiling, short grants and all.
Allowed == (MinimalNeeded * Margin + 1 + ShortGrants) * runs

-------------------------------------------------------------------------------
\* The rule has integers to work with, and a token never outlives its grant.
PacingTypeOK ==
  /\ elapsed \in 0..MaxTicks /\ runs \in 1..MaxRuns
  /\ grants \in Seq(Lives)
  /\ expires <= elapsed + TTL
  /\ window = << >> \/ (window[1] <= window[2] /\ window[2] <= elapsed)
  /\ window = << >> <=> grants = << >>

\* docs/user-guide/conduct.md:12: a fully correct connector does not trip the
\* rule, however its runs, its requests and the early expiries fall.
CorrectNeverFlagged == Len(grants) <= Allowed

\* The rule is defined on what it is given, and no correct connector trips it.
PacingCorrect == PacingTypeOK /\ CorrectNeverFlagged

===============================================================================
