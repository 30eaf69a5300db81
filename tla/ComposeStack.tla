----------------------------- MODULE ComposeStack -----------------------------
(***************************************************************************)
(* The life of a compose unit on the host (harness/bench/compose_unit.py): *)
(* up, recreate_vendor, down and cleanup_override_file, with the discovery *)
(* of published ports and the waiting for vendors, against containers that *)
(* are published late, become ready late, or die.                          *)
(*                                                                         *)
(* Grading, EvalRollout and ExternalRun have up and down as one step each. *)
(***************************************************************************)
EXTENDS Integers, FiniteSets

CONSTANTS
  NVendors,     \* vendor services, in the order of the task
  MaxTries,     \* attempts that fit into startup_timeout_s
  MaxCommands,  \* bound on the operations
  MaxPorts      \* bound on the ports the host gives out

ASSUME StackAssumption ==
  NVendors \in Nat \ {0} /\ MaxTries \in Nat \ {0} /\ MaxCommands \in Nat /\ MaxPorts \in Nat

Vendors == 1..NVendors

NoPort == 0

VARIABLES
  container,   \* [Vendors -> "none", "created", "published", "ready" or "dead"]
  port,        \* the host port of each container
  issued,      \* ports the host has given out
  dataPorts,   \* self.data_ports
  started,     \* self._started
  unit,        \* the evaluation directory, with its compose file, exists
  pc,          \* "idle", "compose", "discover", "refresh", "check" or "poll"
  op,          \* the operation: 0 is up, v is recreate_vendor of v
  at,          \* the vendor an operation has come to
  tries,       \* attempts of the operation
  outcome,     \* how the last operation ended
  answered,    \* vendors whose present container has answered (history)
  honest,      \* the last failed attempt met a vendor that was not ready (history)
  commands

vars == <<container, port, issued, dataPorts, started, unit, pc, op, at, tries, outcome,
          answered, honest, commands>>

docker == <<container, port, issued>>
control == <<started, unit, commands>>

Up == 0

Init ==
  /\ container = [v \in Vendors |-> "none"]
  /\ port = [v \in Vendors |-> NoPort]
  /\ issued = 0
  /\ dataPorts = [v \in Vendors |-> NoPort]
  /\ started = FALSE /\ unit = TRUE
  /\ pc = "idle" /\ op = Up /\ at = 1 /\ tries = 0
  /\ outcome = "none" /\ answered = {} /\ honest = TRUE
  /\ commands = 0

-------------------------------------------------------------------------------
(***************************************************************************)
(* The containers.                                                         *)
(***************************************************************************)
Publish(v) ==
  /\ container[v] = "created" /\ issued < MaxPorts
  /\ container' = [container EXCEPT ![v] = "published"]
  /\ issued' = issued + 1
  /\ port' = [port EXCEPT ![v] = issued + 1]
  /\ UNCHANGED <<dataPorts, control, pc, op, at, tries, outcome, answered, honest>>

BecomeReady(v) ==
  /\ container[v] = "published"
  /\ container' = [container EXCEPT ![v] = "ready"]
  /\ UNCHANGED <<port, issued, dataPorts, control, pc, op, at, tries, outcome, answered, honest>>

Die(v) ==
  /\ container[v] \in {"created", "published", "ready"}
  /\ container' = [container EXCEPT ![v] = "dead"]
  /\ port' = [port EXCEPT ![v] = NoPort]
  /\ UNCHANGED <<issued, dataPorts, control, pc, op, at, tries, outcome, answered, honest>>

-------------------------------------------------------------------------------
(***************************************************************************)
(* Operations.                                                             *)
(***************************************************************************)
Begin(o) ==
  /\ pc = "idle" /\ unit /\ commands < MaxCommands
  /\ o = Up \/ started
  /\ commands' = commands + 1
  /\ pc' = "compose" /\ op' = o /\ at' = 1 /\ tries' = 0
  /\ outcome' = "none"
  /\ UNCHANGED <<docker, dataPorts, started, unit, answered, honest>>

End(o) == pc' = "idle" /\ outcome' = o

\* docker compose up -d makes what is not there, or the one vendor anew.
Replaced == IF op = Up THEN {v \in Vendors : container[v] \in {"none", "dead"}} ELSE {op}

\* Seeded error: a new container is taken to have the port of the old one.
Make_KeepsPorts(vs) ==
  /\ container' = [v \in Vendors |-> IF v \in vs THEN "created" ELSE container[v]]
  /\ answered' = answered \ vs
  /\ UNCHANGED port

Make(vs) ==
  /\ container' = [v \in Vendors |-> IF v \in vs THEN "created" ELSE container[v]]
  /\ port' = [v \in Vendors |-> IF v \in vs THEN NoPort ELSE port[v]]
  /\ answered' = answered \ vs

Compose ==
  /\ pc = "compose"
  /\ Make(Replaced)
  /\ started' = TRUE
  /\ pc' = "discover"
  /\ UNCHANGED <<issued, dataPorts, unit, commands, op, at, tries, outcome, honest>>

\* The command fails, after it has made some of the containers.
ComposeFails ==
  /\ pc = "compose"
  /\ \E vs \in SUBSET Replaced : Make(vs)
  /\ End("compose failed")
  /\ UNCHANGED <<issued, dataPorts, control, op, at, tries, honest>>

Published(v) == port[v] # NoPort

Discovered == dataPorts' = [dataPorts EXCEPT ![at] = port[at]]

\* Seeded error: recreate_vendor asks under the address it has.
Discover_UpOnly ==
  /\ pc = "discover"
  /\ IF op = Up /\ ~Published(at)
     THEN End("no port") /\ UNCHANGED <<dataPorts, at>>
     ELSE /\ UNCHANGED <<outcome, dataPorts>>
          /\ at' = IF op = Up THEN 1 ELSE op
          /\ pc' = IF op = Up THEN "refresh" ELSE "poll"
  /\ UNCHANGED <<docker, control, op, tries, answered, honest>>

\* _discover_published_port outside of the wait: the first port that is missing
\* ends the operation.
Discover ==
  /\ pc = "discover"
  /\ IF ~Published(at)
     THEN End("no port") /\ UNCHANGED <<dataPorts, at>>
     ELSE /\ Discovered /\ UNCHANGED outcome
          /\ IF at < NVendors THEN at' = at + 1 /\ UNCHANGED pc
             ELSE /\ at' = IF op = Up THEN 1 ELSE op
                  /\ pc' = IF op = Up THEN "refresh" ELSE "poll"
  /\ UNCHANGED <<docker, control, op, tries, answered, honest>>

\* An attempt of the wait failed.
Retry ==
  /\ tries' = tries + 1 /\ at' = IF op = Up THEN 1 ELSE op
  /\ honest' = (container[at] # "ready")
  /\ IF tries + 1 < MaxTries
     THEN pc' = (IF op = Up THEN "refresh" ELSE "poll") /\ UNCHANGED outcome
     ELSE End("not healthy")

\* _wait_healthy discovers all ports again on every attempt.
Refresh ==
  /\ pc = "refresh"
  /\ IF ~Published(at) THEN Retry /\ UNCHANGED dataPorts
     ELSE /\ Discovered /\ UNCHANGED <<tries, outcome, honest>>
          /\ IF at < NVendors THEN at' = at + 1 /\ UNCHANGED pc ELSE at' = 1 /\ pc' = "check"
  /\ UNCHANGED <<docker, control, op, answered>>

Reaches(v) == container[v] = "ready" /\ dataPorts[v] = port[v]

\* Seeded error: an answer of one vendor is enough.
Check_First ==
  /\ pc = "check"
  /\ IF ~Reaches(at) THEN Retry /\ UNCHANGED answered
     ELSE /\ answered' = answered \union {at} /\ UNCHANGED <<at, tries, honest>>
          /\ End("ok")
  /\ UNCHANGED <<docker, dataPorts, control, op>>

\* ... and asks every vendor.
Check ==
  /\ pc = "check"
  /\ IF ~Reaches(at) THEN Retry /\ UNCHANGED answered
     ELSE /\ answered' = answered \union {at} /\ UNCHANGED <<tries, honest>>
          /\ IF at < NVendors THEN at' = at + 1 /\ UNCHANGED <<pc, outcome>>
             ELSE End("ok") /\ UNCHANGED at
  /\ UNCHANGED <<docker, dataPorts, control, op>>

\* Seeded error: recreate_vendor waits for as long as it takes.
Poll_Endless ==
  /\ pc = "poll"
  /\ Reaches(at)
  /\ answered' = answered \union {at} /\ End("ok") /\ UNCHANGED <<at, tries, honest>>
  /\ UNCHANGED <<docker, dataPorts, control, op>>

\* recreate_vendor asks the new container under the port found before.
Poll ==
  /\ pc = "poll"
  /\ IF ~Reaches(at) THEN Retry /\ UNCHANGED answered
     ELSE answered' = answered \union {at} /\ End("ok") /\ UNCHANGED <<at, tries, honest>>
  /\ UNCHANGED <<docker, dataPorts, control, op>>

\* The exit status of docker compose down is not looked at.
Down ==
  /\ pc = "idle" /\ unit
  /\ started' = FALSE
  /\ \/ /\ container' = [v \in Vendors |-> "none"]
        /\ port' = [v \in Vendors |-> NoPort]
        /\ answered' = {}
     \/ UNCHANGED <<container, port, answered>>
  /\ outcome' = "none"
  /\ UNCHANGED <<issued, dataPorts, unit, commands, pc, op, at, tries, honest>>

\* cleanup_override_file of an ephemeral unit.
Cleanup ==
  /\ pc = "idle" /\ unit /\ ~started /\ commands > 0
  /\ unit' = FALSE
  /\ UNCHANGED <<docker, dataPorts, started, commands, pc, op, at, tries, outcome, answered, honest>>

-------------------------------------------------------------------------------
Docker == \E v \in Vendors : Publish(v) \/ BecomeReady(v) \/ Die(v)

Advance == Compose \/ ComposeFails \/ Discover \/ Refresh \/ Check \/ Poll

Next ==
  \/ Docker \/ Advance \/ Down \/ Cleanup
  \/ \E o \in {Up} \union Vendors : Begin(o)

Spec == Init /\ [][Next]_vars

\* The thread of an operation goes on; the containers owe it nothing.
FairSpec == Spec /\ WF_vars(Advance)

-------------------------------------------------------------------------------
(***************************************************************************)
(* Correctness.                                                            *)
(***************************************************************************)

\* A port belongs to one container, and only a container that is there has one.
TypeOK ==
  /\ pc \in {"idle", "compose", "discover", "refresh", "check", "poll"}
  /\ at \in Vendors /\ op \in {Up} \union Vendors /\ tries \in 0..MaxTries
  /\ \A v \in Vendors : Published(v) <=> container[v] \in {"published", "ready"}
  /\ \A v, w \in Vendors : Published(v) /\ port[v] = port[w] => v = w

\* compose_unit.py:1476: when an operation succeeds, every container it made has
\* answered, and the address of every vendor that lives is the present one, in
\* spite of all that were recreated before.
OkMeansReachable ==
  outcome = "ok" =>
    /\ \A v \in Vendors : container[v] \in {"published", "ready"} => dataPorts[v] = port[v]
    /\ IF op = Up THEN answered = Vendors ELSE op \in answered

\* compose_unit.py:1471: a wait is given up only if a vendor was not ready in its
\* last attempt, never because of ports that were read too early.
GivingUpIsHonest == outcome = "not healthy" => honest

\* up and recreate_vendor end, whatever the containers do.
OperationsEnd == (pc # "idle") ~> (pc = "idle")

\* What up and recreate_vendor promise while Docker changes under them.
StackCorrect ==
  /\ TypeOK
  /\ OkMeansReachable
  /\ GivingUpIsHonest

===============================================================================
