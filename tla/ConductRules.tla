----------------------------- MODULE ConductRules -----------------------------
(***************************************************************************)
(* The conduct rules as functions of a vendor's request log                *)
(* (harness/bench/verifier/logs.py), and the evidence without which a rule *)
(* is not recorded as a check (builtin_l2.py).                             *)
(*                                                                         *)
(* A log is a sequence of entries in the order of their time, which makes  *)
(* the sorting of every rule the identity.  A rule yields the positions of *)
(* the entries that violate it.                                            *)
(***************************************************************************)
EXTENDS Integers, FiniteSets, SequencesExt

CONSTANTS
  Window,     \* two identical requests closer than this belong to one burst
  K,          \* requests a burst may have
  Limit,      \* requests a budget grants
  Span,       \* the rolling window of the budget
  BodyParam,  \* the vendor takes the idempotency token in the body
  VersionHeader \* the vendor takes a version of what is written

ASSUME RulesAssumption ==
  /\ Window \in Nat /\ K \in Nat \ {0} /\ Limit \in Nat /\ Span \in Nat
  /\ BodyParam \in BOOLEAN /\ VersionHeader \in BOOLEAN

(***************************************************************************)
(* An entry.  endpoint stands for method and path: GET of a collection or  *)
(* one of its items, a write, an endpoint of the authentication, or GET /. *)
(* body is what is left of a body without its token; after is the          *)
(* Retry-After of a response that limits the rate; leak is a secret of     *)
(* the run in the query or body.                                           *)
(***************************************************************************)
Endpoints == {"list", "item", "write", "mint", "root"}

NoDelay == 0

FirstPage == 0    \* no cursor and no offset, or offset 0

Shape ==
  [endpoint : Endpoints, page : Nat, since : BOOLEAN, body : STRING, token : STRING,
   version : STRING, status : Nat, after : Nat, leak : {"none", "query", "body"}]

Positions(log, Test(_)) == {i \in DOMAIN log : Test(log[i])}

Limited(e) == e.after # NoDelay

ServerError(e) == e.status >= 500

HardError(e) == e.status = 401 \/ ServerError(e)

\* Seeded error: the health checks of compose count as the connector's traffic.
DataPlane_Health(e) == e.endpoint # "mint"

DataPlane(e) == e.endpoint \notin {"mint", "root"}

-------------------------------------------------------------------------------
(***************************************************************************)
(* Secrets.                                                                *)
(***************************************************************************)
CredsInQuery(log) == Positions(log, LAMBDA e : e.endpoint # "mint" /\ e.leak = "query")

SecretsEchoed(log) == Positions(log, LAMBDA e : e.endpoint # "mint" /\ e.leak = "body")

-------------------------------------------------------------------------------
(***************************************************************************)
(* Retry-After: the next request to the endpoint comes too early.          *)
(***************************************************************************)
LaterCalls(log, i) == {j \in DOMAIN log : j > i /\ log[j].endpoint = log[i].endpoint}

\* Seeded error: the last request counts as the retry.
NextCall_Last(log, i) == CHOOSE j \in LaterCalls(log, i) : \A l \in LaterCalls(log, i) : l <= j

NextCall(log, i) == CHOOSE j \in LaterCalls(log, i) : \A l \in LaterCalls(log, i) : j <= l

RetryAfterViolations(log) ==
  {NextCall(log, i) :
     i \in {l \in DOMAIN log :
              /\ Limited(log[l]) /\ LaterCalls(log, l) # {}
              /\ log[NextCall(log, l)].at - log[l].at < log[l].after}}

-------------------------------------------------------------------------------
(***************************************************************************)
(* Request budget: a window that slides along the log.                     *)
(***************************************************************************)

\* Seeded error: the window keeps an entry that is a full span old.
SlideTo_Inclusive(log, from, end) ==
  CHOOSE s \in from..end :
    /\ log[end].at - log[s].at <= Span
    /\ \A l \in from..(s - 1) : log[end].at - log[l].at > Span

\* The oldest entry that is still in the window of entry end.
SlideTo(log, from, end) ==
  CHOOSE s \in from..end :
    /\ log[end].at - log[s].at < Span
    /\ \A l \in from..(s - 1) : log[end].at - log[l].at >= Span

\* Seeded error: one request too many is let through.
SlideOver_OneMore(log, w, end) ==
  LET s == SlideTo(log, w.start, end)
  IN  [start |-> s, found |-> IF end - s > Limit THEN w.found \union {end} ELSE w.found]

\* start never moves back.
SlideOver(log, w, end) ==
  LET s == SlideTo(log, w.start, end)
  IN  [start |-> s, found |-> IF end - s + 1 > Limit THEN w.found \union {end} ELSE w.found]

BudgetViolations(log) ==
  IF Limit = 0 \/ Span = 0 THEN DOMAIN log
  ELSE FoldLeft(LAMBDA w, end : SlideOver(log, w, end), [start |-> 1, found |-> {}],
                [i \in DOMAIN log |-> i]).found

-------------------------------------------------------------------------------
(***************************************************************************)
(* Hot loop: a burst of requests with one fingerprint.                     *)
(***************************************************************************)
Fingerprint(e) == <<e.endpoint, e.page, e.since>>

Continues(log, i) ==
  /\ i > 1
  /\ Fingerprint(log[i - 1]) = Fingerprint(log[i])
  /\ Window = 0 \/ log[i].at - log[i - 1].at < Window

\* What a burst adds when it is over: everything after its first K requests.
Excess(b) == IF b.triggered THEN {b.run[n] : n \in (K + 1)..Len(b.run)} ELSE {}

\* Seeded error: an error in an earlier burst still counts.
StepBurst_Sticky(log, b, i) ==
  LET over == IF Continues(log, i) THEN b
              ELSE [b EXCEPT !.run = << >>, !.found = @ \union Excess(b)]
  IN  [over EXCEPT !.run = Append(@, i), !.triggered = @ \/ HardError(log[i])]

StepBurst(log, b, i) ==
  LET over == IF Continues(log, i) THEN b
              ELSE [run |-> << >>, triggered |-> FALSE, found |-> b.found \union Excess(b)]
  IN  [over EXCEPT !.run = Append(@, i), !.triggered = @ \/ HardError(log[i])]

HotLoopViolations(log) ==
  LET b == FoldLeft(LAMBDA a, i : StepBurst(log, a, i),
                    [run |-> << >>, triggered |-> FALSE, found |-> {}],
                    [i \in DOMAIN log |-> i])
  IN  b.found \union Excess(b)

-------------------------------------------------------------------------------
(***************************************************************************)
(* Listings of a collection.                                               *)
(***************************************************************************)
Listings(log) == Positions(log, LAMBDA e : e.endpoint = "list")

FullResyncViolations(log) ==
  {j \in Listings(log) : ~log[j].since /\ \E i \in Listings(log) : i < j /\ log[i].since}

\* Seeded error: a listing that succeeds forgives the restart before it.
StepResume_Forgives(log, r, i) ==
  LET e == log[i]
      restart == r.pending /\ e.page = FirstPage /\ r.watermark # FirstPage
  IN  IF e.endpoint # "list" THEN r
      ELSE [pending   |-> ServerError(e),
            watermark |-> IF ServerError(e) THEN r.watermark ELSE e.page,
            found     |-> IF restart THEN r.found \union {i}
                          ELSE IF ServerError(e) THEN r.found ELSE {}]

\* Entries that are no listings are left out.
StepResume(log, r, i) ==
  LET e == log[i]
      restart == r.pending /\ e.page = FirstPage /\ r.watermark # FirstPage
  IN  IF e.endpoint # "list" THEN r
      ELSE [pending   |-> ServerError(e),
            watermark |-> IF ServerError(e) THEN r.watermark ELSE e.page,
            found     |-> IF restart THEN r.found \union {i} ELSE r.found]

ResumeViolations(log) ==
  FoldLeft(LAMBDA r, i : StepResume(log, r, i),
           [pending |-> FALSE, watermark |-> FirstPage, found |-> {}],
           [i \in DOMAIN log |-> i]).found

-------------------------------------------------------------------------------
(***************************************************************************)
(* Writes that are sent again.                                             *)
(***************************************************************************)
Writes(log) == Positions(log, LAMBDA e : e.endpoint = "write")

\* Seeded error: the token in a body tells two attempts apart.
SameWrite_TokenInKey(e, f) == e.body = f.body /\ e.token = f.token

\* One group of retried_write_groups.  The token is no part of the body here.
SameWrite(e, f) == e.body = f.body

Attempts(log, j) == {i \in Writes(log) : i < j /\ SameWrite(log[i], log[j])}

RetriedWrites(log) == {j \in Writes(log) : Attempts(log, j) # {}}

Informed(log, j) ==
  LET previous == CHOOSE i \in Attempts(log, j) : \A l \in Attempts(log, j) : l <= i
  IN  VersionHeader /\ log[j].version \notin {"", log[previous].version}

\* Seeded error: any token will do.
KeepsToken_Any(log, j) == log[j].token # ""

KeepsToken(log, j) ==
  LET first == CHOOSE i \in Attempts(log, j) : \A l \in Attempts(log, j) : i <= l
  IN  log[j].token # "" /\ (BodyParam => log[j].token = log[first].token)

BlindRetries(log) == {j \in RetriedWrites(log) : ~Informed(log, j) /\ ~KeepsToken(log, j)}

-------------------------------------------------------------------------------
(***************************************************************************)
(* builtin_l2: the checks a log gives rise to.                             *)
(***************************************************************************)
Rules == {"creds", "secrets", "retry_after", "resync", "resume", "hot_loop", "idempotent"}

Violations(rule, log) ==
  CASE rule = "creds"       -> CredsInQuery(log)
    [] rule = "secrets"     -> SecretsEchoed(log)
    [] rule = "retry_after" -> RetryAfterViolations(log)
    [] rule = "resync"      -> FullResyncViolations(log)
    [] rule = "resume"      -> ResumeViolations(log)
    [] rule = "hot_loop"    -> HotLoopViolations(log)
    [] rule = "idempotent"  -> BlindRetries(log)

\* Seeded error: the groups of the evidence have the token in their key.
Evidence_OtherGroups(rule, log) ==
  CASE rule \in {"creds", "secrets"} -> Positions(log, DataPlane)
    [] rule = "retry_after" -> Positions(log, Limited)
    [] rule = "resync" -> Positions(log, LAMBDA e : e.endpoint \in {"list", "item"})
    [] rule = "resume" -> {i \in Listings(log) : ServerError(log[i])}
    [] rule = "hot_loop" -> Positions(log, HardError)
    [] rule = "idempotent" ->
         {j \in Writes(log) : \E i \in Writes(log) : i < j /\ SameWrite_TokenInKey(log[i], log[j])}

\* What a rule has to judge by.
Evidence(rule, log) ==
  CASE rule \in {"creds", "secrets"} -> Positions(log, DataPlane)
    [] rule = "retry_after" -> Positions(log, Limited)
    [] rule = "resync" -> Positions(log, LAMBDA e : e.endpoint \in {"list", "item"})
    [] rule = "resume" -> {i \in Listings(log) : ServerError(log[i])}
    [] rule = "hot_loop" -> Positions(log, HardError)
    [] rule = "idempotent" -> RetriedWrites(log)

\* The checks that are recorded, and how.
Recorded(log) ==
  {[rule |-> r, ok |-> Violations(r, log) = {}] : r \in {q \in Rules : Evidence(q, log) # {}}}

===============================================================================
