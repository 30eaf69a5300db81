------------------------------ MODULE ConductLog ------------------------------
(***************************************************************************)
(* A vendor's request log as it grows while a connector is at work, and    *)
(* what the rules of module ConductRules make of it.  The connector may    *)
(* send any request of Shapes at any time, and the vendor gives the answer *)
(* that belongs to the shape.                                              *)
(***************************************************************************)
EXTENDS ConductRules

CONSTANTS
  Shapes,    \* requests with their answers
  MaxLog,    \* bound on the requests
  MaxTime    \* bound on the clock

ASSUME LogAssumption == Shapes \subseteq Shape /\ MaxLog \in Nat /\ MaxTime \in Nat

VARIABLES
  log,   \* GET /control/request-log
  now    \* the vendor's clock

vars == <<log, now>>

\* Seeded error: the entry is stamped with the tick that comes next.
At_Late(s, t) ==
  [endpoint |-> s.endpoint, page |-> s.page, since |-> s.since, body |-> s.body,
   token |-> s.token, version |-> s.version, status |-> s.status, after |-> s.after,
   leak |-> s.leak, at |-> t + 1]

At(s, t) ==
  [endpoint |-> s.endpoint, page |-> s.page, since |-> s.since, body |-> s.body,
   token |-> s.token, version |-> s.version, status |-> s.status, after |-> s.after,
   leak |-> s.leak, at |-> t]

Init == log = << >> /\ now = 0

Serve ==
  /\ Len(log) < MaxLog
  /\ \E s \in Shapes : log' = Append(log, At(s, now))
  /\ UNCHANGED now

Pass == now < MaxTime /\ now' = now + 1 /\ UNCHANGED log

Next == Serve \/ Pass

Spec == Init /\ [][Next]_vars

-------------------------------------------------------------------------------
(***************************************************************************)
(* Correctness.                                                            *)
(***************************************************************************)

\* The log is in the order of time.
TypeOK ==
  /\ now \in 0..MaxTime /\ Len(log) <= MaxLog
  /\ \A i, j \in DOMAIN log : i <= j => log[i].at <= log[j].at /\ log[j].at <= now

\* logs.py:205 looks at the next request to an endpoint only: that is enough to
\* find out whether any request to it came before the delay was over.
EarlyRetryCaught ==
  RetryAfterViolations(log) # {} <=>
    \E i, j \in DOMAIN log :
      /\ i < j /\ Limited(log[i]) /\ log[i].endpoint = log[j].endpoint
      /\ log[j].at - log[i].at < log[i].after

\* The window that slides along the log in logs.py:249 finds exactly the entries
\* that make more than Limit in the Span that ends with them.
BudgetIsExact ==
  Limit > 0 /\ Span > 0 =>
    BudgetViolations(log) =
      {e \in DOMAIN log : Cardinality({i \in 1..e : log[e].at - log[i].at < Span}) > Limit}

\* logs.py:232: a connector that stays inside every rolling window cannot exceed
\* any fixed window either, wherever the windows of the vendor begin.
FixedWindowsFollow ==
  BudgetViolations(log) = {} =>
    \A w \in (1 - Span)..now :
      Cardinality({i \in DOMAIN log : w <= log[i].at /\ log[i].at < w + Span}) <= Limit

\* The entries of one burst: no change of the fingerprint and no pause between.
OneBurst(i, j) == \A l \in DOMAIN log : i < l /\ l <= j => Continues(log, l)

BurstOf(i) == {j \in DOMAIN log : OneBurst(i, j) /\ OneBurst(j, i)}

\* The single pass of logs.py:368 finds exactly what comes after the first K
\* requests of a burst that meets an error anywhere.
HotLoopIsExact ==
  HotLoopViolations(log) =
    {i \in DOMAIN log :
       /\ Cardinality({j \in BurstOf(i) : j <= i}) > K
       /\ \E j \in BurstOf(i) : HardError(log[j])}

\* A violation stays one whatever the connector does afterwards: no later
\* request makes a rule forget it.
NothingIsForgiven ==
  log # << >> =>
    LET before == Front(log)
    IN  /\ \A r \in Rules : Violations(r, before) \subseteq Violations(r, log)
        /\ BudgetViolations(before) \subseteq BudgetViolations(log)

\* builtin_l2.py:391: a violation is always recorded as a failed check, the
\* evidence that a rule asks for never hides it.  Requests to GET / alone are no
\* evidence, whatever they carry.
ViolationsAreRecorded ==
  LET recorded == Recorded(log)
  IN  \A r \in Rules :
        (\E i \in Violations(r, log) : log[i].endpoint # "root")
          => [rule |-> r, ok |-> FALSE] \in recorded

\* builtin_l2.py:5: requests to the endpoints of the authentication and the
\* health checks that compose sends record neither of the credential gates.
SilenceBanksNothing ==
  (\A i \in DOMAIN log : log[i].endpoint \in {"mint", "root"}) =>
    \A c \in Recorded(log) : c.rule \in {"retry_after", "hot_loop"}

\* logs.py:467: where the token is in the body and there are no versions, a log
\* is clean exactly if all attempts of a write carry one token.
OneTokenPerWrite ==
  BodyParam /\ ~VersionHeader =>
    (BlindRetries(log) = {} <=>
       \A i, j \in Writes(log) :
         i # j /\ SameWrite(log[i], log[j]) => log[i].token = log[j].token /\ log[i].token # "")

\* The one-pass rules of logs.py find what they are defined to find, and what
\* builtin_l2.py records of it can neither be lost nor be earned by silence.
ConductCorrect ==
  /\ TypeOK
  /\ EarlyRetryCaught /\ BudgetIsExact /\ FixedWindowsFollow
  /\ HotLoopIsExact /\ OneTokenPerWrite
  /\ NothingIsForgiven /\ ViolationsAreRecorded /\ SilenceBanksNothing

===============================================================================
