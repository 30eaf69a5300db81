------------------------------- MODULE MCVerifier -------------------------------
(***************************************************************************)
(* What the scenarios of a task verify with: their runtime, and the rules  *)
(* they apply to the request log and to the token log of a vendor.  The    *)
(* rules are functions of a finished log, so that `part` says what is      *)
(* observed: the scenarios of a process, a token log, or a request log of  *)
(* requests that are paced, or of every kind of traffic at one instant.    *)
(***************************************************************************)
EXTENDS ConductLog, TokenPacing, ScenarioRuntime

VARIABLE part

Ask(endpoint, status) ==
  [endpoint |-> endpoint, page |-> FirstPage, since |-> FALSE, body |-> "", token |-> "",
   version |-> "", status |-> status, after |-> NoDelay, leak |-> "none"]

\* Listings that succeed, fail or are limited for two ticks; a write that fails.
PacedShapes ==
  { Ask("list", 200), Ask("list", 500), [Ask("list", 429) EXCEPT !.after = 2], Ask("write", 401) }

\* Two pages, with and without a watermark; writes with their tokens; leaks; the
\* authentication and a health check.
TrafficShapes ==
  { [Ask("list", 200) EXCEPT !.page = p, !.since = s] : p \in 0..1, s \in BOOLEAN }
  \union { [Ask("list", 500) EXCEPT !.page = p] : p \in 0..1 }
  \union { [Ask("write", 200) EXCEPT !.body = "x", !.token = k] : k \in {"", "a", "b"} }
  \union { [Ask("write", 500) EXCEPT !.body = "y", !.token = "a"],
           [Ask("item", 200) EXCEPT !.leak = "query"],
           [Ask("mint", 401) EXCEPT !.leak = "body"],
           [Ask("root", 200) EXCEPT !.leak = "query"] }

MCShapes == PacedShapes \union TrafficShapes

Logs(shapes) == log' # log => \E s \in shapes : log' = Append(log, At(s, now))

\* Some tokens live for one tick.
MCShort == {1}

\* Two tasks that name a helper alike: one states all knobs in each of its
\* scenarios and serves in both, the other states one at a time.
CONSTANTS t1, t2

TasksMC == {t1, t2}
KnobsMC == {"page", "token"}

Scene(helpers, page, token, full, serves) ==
  [helpers |-> helpers, knobs |-> [k \in KnobsMC |-> IF k = "page" THEN page ELSE token],
   full |-> full, serves |-> serves]

ScriptMC == [t \in TasksMC |->
  IF t = t1
  THEN <<Scene({"_util"}, "on", "off", TRUE, TRUE), Scene({"_util"}, "off", "off", TRUE, TRUE)>>
  ELSE <<Scene({"_util", "_family"}, "on", "none", FALSE, FALSE),
         Scene({"_family"}, "none", "on", FALSE, TRUE),
         Scene({}, "off", "none", FALSE, FALSE)>>]

MCInit ==
  /\ part \in {"pacing", "traffic", "tokens", "scenarios"}
  /\ Init /\ PacingInit /\ RuntimeInit

MCNext ==
  \/ /\ part = "pacing" /\ Next /\ Logs(PacedShapes)
     /\ UNCHANGED <<part, pacingVars, runtimeVars>>
  \/ /\ part = "traffic" /\ Next /\ Logs(TrafficShapes) /\ now' = 0
     /\ UNCHANGED <<part, pacingVars, runtimeVars>>
  \/ /\ part = "tokens" /\ PacingNext
     /\ UNCHANGED <<part, vars, runtimeVars>>
  \/ /\ part = "scenarios" /\ RuntimeNext
     /\ UNCHANGED <<part, vars, pacingVars>>

MCSpec ==
  /\ MCInit /\ [][MCNext]_<<part, vars, pacingVars, runtimeVars>>
  /\ WF_runtimeVars(part = "scenarios" /\ ~InApp /\ Scenario)

===============================================================================
