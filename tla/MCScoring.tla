------------------------------- MODULE MCScoring -------------------------------
(***************************************************************************)
(* The scorer and the command that writes what it scores against.  Both    *)
(* are built on the one scorer of module Scorer; a validation writes the   *)
(* manifest of a task and a run of the task is scored against it, in two   *)
(* processes that share the file only.  `part` says which one runs.        *)
(***************************************************************************)
EXTENDS Scoring, ValidateGauntlet

VARIABLE part

\* Four names: a required one, a graded one, one that only preserves conduct, and
\* one that is recorded on a failure path only.
MCNames == {"pushed", "quota", "conduct", "late"}

GoldRow(p, f, m) == [ok |-> TRUE, pass |-> p, fail |-> f, mandatory |-> m]

\* A required and a preserved check; three graded ones; one that gold fails; one
\* that earns nothing.
MCManifests ==
  { [n \in {"pushed", "conduct"} |->
       IF n = "pushed" THEN GoldRow(2, 0, TRUE) ELSE GoldRow(0, -1, FALSE)],
    [n \in {"pushed", "quota", "conduct"} |->
       CASE n = "pushed" -> GoldRow(1, 0, TRUE)
         [] n = "quota" -> GoldRow(1, -1, FALSE)
         [] n = "conduct" -> GoldRow(0, -1, FALSE)],
    [n \in {"pushed", "quota"} |->
       IF n = "pushed" THEN GoldRow(2, 0, TRUE) ELSE [GoldRow(1, 0, FALSE) EXCEPT !.ok = FALSE]],
    [n \in {"conduct"} |-> GoldRow(0, -1, TRUE)] }

\* Every name is recorded with one flag.
MCRecordable ==
  { [name |-> "pushed", mandatory |-> TRUE], [name |-> "quota", mandatory |-> FALSE],
    [name |-> "conduct", mandatory |-> FALSE], [name |-> "late", mandatory |-> TRUE] }

-------------------------------------------------------------------------------
\* Gold of a validation records "pushed" twice, once in each of two scenarios, a
\* check that preserves conduct, and a cosmetic one.
C(n, b, ok, p, f, m) ==
  [name |-> n, bucket |-> b, ok |-> ok, pass |-> p, fail |-> f, mandatory |-> m]

Pushed(ok)  == C("pushed", "l1", ok, 1, 0, TRUE)
Quota(ok)   == C("quota", "l1", ok, 1, -1, FALSE)
Conduct(ok) == C("conduct", "hard", ok, 0, -1, FALSE)
Style(ok)   == C("style", "soft", ok, 0, 0, FALSE)
Late(ok)    == C("late", "l3", ok, 1, 0, TRUE)

V(checks) == [failed |-> FALSE, checks |-> checks, owner |-> "candidate"]
Errored   == [failed |-> TRUE, checks |-> <<>>, owner |-> "candidate"]

GoldGood == V(<<Pushed(TRUE), Pushed(TRUE), Quota(TRUE), Conduct(TRUE), Style(TRUE)>>)
GoldPlain == V(<<Quota(TRUE), Conduct(TRUE)>>)

MCOutcomes ==
  [gold  |-> { GoldGood, Errored, GoldPlain,
               V(<<Pushed(TRUE), Pushed(TRUE), Quota(TRUE), Conduct(TRUE), Style(FALSE)>>) },
   empty |-> { V(<<Pushed(FALSE), Pushed(FALSE), Quota(TRUE), Conduct(TRUE), Style(TRUE)>>),
               V(<<Quota(FALSE), Conduct(TRUE), Late(FALSE)>>),
               V(<<Conduct(TRUE)>>) },
   stub  |-> { V(<<Pushed(TRUE), Quota(TRUE), Conduct(TRUE), Style(TRUE)>>),
               V(<<Pushed(TRUE), Pushed(TRUE), Quota(TRUE), Conduct(FALSE), Style(TRUE)>>),
               V(<<Pushed(TRUE), Pushed(TRUE), Quota(FALSE), Conduct(FALSE), Style(TRUE)>>) }]

\* What an earlier validation of the task wrote, before a check was added.
OldRow == [name |-> "pushed", gold |-> TRUE, empty |-> FALSE, stub |-> FALSE,
           pass |-> 1, fail |-> 0, mandatory |-> TRUE]
OldSidecar == Payload(<<OldRow>>, TRUE)

MCSidecars == {NoSidecar, OldSidecar}

\* No policy; one that fits gold though it takes the flag from what is authored as
\* mandatory, and is refused where gold has no cosmetic check; one under which
\* nothing is earned.
NoPolicy == [on |-> FALSE, positive |-> {}, mandatory |-> {}]

MCPolicies ==
  { NoPolicy,
    [on |-> TRUE, positive |-> {"quota"}, mandatory |-> {"quota", "style"}],
    [on |-> TRUE, positive |-> {"conduct"}, mandatory |-> {"conduct"}] }

MCRuns == 2
MCMaxAttempts == 2
MCMaxRounds == 2

-------------------------------------------------------------------------------
MCInit ==
  /\ part \in {"scoring", "validation"}
  /\ Init /\ GauntletInit
  /\ part = "validation" => gold = CHOOSE m \in Manifests : TRUE
  /\ part = "scoring" =>
       sidecar = NoSidecar /\ options = CHOOSE o \in OptionType : ~o.write /\ o.policy = NoPolicy

MCNext ==
  \/ part = "scoring" /\ Next /\ UNCHANGED <<part, gauntletVars>>
  \/ part = "validation" /\ GauntletNext /\ UNCHANGED <<part, vars>>

MCSpec == MCInit /\ [][MCNext]_<<part, vars, gauntletVars>>

===============================================================================
