---------------------------- MODULE RolloutOutcome ----------------------------
(***************************************************************************)
(* What an evaluation attempt promises whoever collects its result: it is  *)
(* open until it is either published, once and for good, or abandoned      *)
(* without a result.  An attempt tainted by a leaked secret or faulted by  *)
(* its provider can be published, but never with a reward, and a tainted   *)
(* one never as resolved.                                                  *)
(***************************************************************************)
CONSTANTS
  Rewards,   \* the rewards an attempt can earn
  NoReward   \* None

VARIABLES
  stage,     \* "open", "published" or "abandoned"
  tainted,   \* a runtime secret was found in what the attempt retains
  faulted,   \* the provider is known to have failed the attempt
  resolved,
  reward

vars == <<stage, tainted, faulted, resolved, reward>>

Init ==
  /\ stage = "open"
  /\ tainted = FALSE
  /\ faulted = FALSE
  /\ resolved = FALSE
  /\ reward = NoReward

\* While the attempt is open, bad news about it arrives and is never taken back.
Learn ==
  /\ stage = "open"
  /\ tainted' \in {tainted, TRUE}
  /\ faulted' \in {faulted, TRUE}
  /\ UNCHANGED <<stage, resolved, reward>>

Publish ==
  /\ stage = "open"
  /\ stage' = "published"
  /\ resolved' \in IF tainted THEN {FALSE} ELSE BOOLEAN
  /\ reward' \in IF tainted \/ faulted THEN {NoReward} ELSE Rewards \union {NoReward}
  /\ UNCHANGED <<tainted, faulted>>

\* Giving up may itself turn up bad news: the workspace is still scrubbed.
Abandon ==
  /\ stage = "open"
  /\ stage' = "abandoned"
  /\ tainted' \in {tainted, TRUE}
  /\ faulted' \in {faulted, TRUE}
  /\ UNCHANGED <<resolved, reward>>

Next == Learn \/ Publish \/ Abandon

Spec == Init /\ [][Next]_vars

===============================================================================
