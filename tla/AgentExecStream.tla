--------------------------- MODULE AgentExecStream ---------------------------
(***************************************************************************)
(* ComposeUnitStack.agent_exec_stream (harness/bench/compose_unit.py): a   *)
(* `docker compose exec agent ...` client whose output lines are handed to *)
(* a callback as they arrive, under a deadline that a watchdog thread      *)
(* enforces by killing the client.                                         *)
(*                                                                         *)
(* The client is a process of this host.  What it runs in the container    *)
(* sits under coreutils `timeout --kill-after=60 T` (the CLI lanes of      *)
(* eval_core.py); the host's own deadline is T + 120.  A second process    *)
(* may have inherited the client's end of the pipe, as a Compose CLI       *)
(* plugin does, and SIGKILL to the client does not reach it.               *)
(*                                                                         *)
(* Lines are counted, not written out: line n is the n-th line.            *)
(***************************************************************************)
EXTENDS Naturals

CONSTANT MaxLines   \* lines the command writes at most

ASSUME MaxLinesAssumption == MaxLines \in Nat

VARIABLES
  clock,     \* 0: before T, 1: T passed, 2: T + 60 passed, 3: T + 120 passed
  wedged,    \* the exec never starts its command and never comes back
  command,   \* the command in the container, and how it ended
  client,    \* the docker client process
  helper,    \* another process holds the write end of the pipe
  written,   \* lines put into the pipe
  handed,    \* lines given to on_line
  timer,     \* the watchdog
  pc,        \* where agent_exec_stream stands
  outcome    \* how it ended

outside == <<clock, wedged, command, helper>>
vars == <<outside, client, written, handed, timer, pc, outcome>>

Steps == {"read", "wait", "check", "disk", "unwind", "close", "over"}

TypeOK ==
  /\ clock \in 0..3
  /\ wedged \in BOOLEAN
  /\ command \in {"works", "exit", "fail", "term", "kill"}
  /\ client \in {"running", "exited", "killed"}
  /\ helper \in BOOLEAN
  /\ written \in 0..MaxLines
  /\ handed \in 0..MaxLines
  /\ timer \in {"off", "armed", "flagged", "fired", "cancelled"}
  /\ pc \in Steps
  /\ outcome \in {"none", "returned", "timeout", "resource", "raised"}
  /\ handed <= written
  /\ pc \in {"close", "over"} => outcome # "none"

\* Popen, and the timer when the call has a timeout.
Init ==
  /\ clock = 0
  /\ wedged \in BOOLEAN
  /\ command = "works"
  /\ client = "running"
  /\ helper \in BOOLEAN
  /\ written = 0
  /\ handed = 0
  /\ timer \in {"off", "armed"}
  /\ pc = "read"
  /\ outcome = "none"

TimedOut == timer \in {"flagged", "fired"}

Killed == IF client = "running" THEN "killed" ELSE client

-------------------------------------------------------------------------------
(***************************************************************************)
(* Outside this process.                                                   *)
(***************************************************************************)

\* Nothing traps SIGKILL, so a command that was started is gone when T + 120
\* comes.
Tick ==
  /\ clock < 3
  /\ clock = 2 => wedged \/ command # "works"
  /\ clock' = clock + 1
  /\ UNCHANGED <<wedged, command, helper, client, written, handed, timer, pc, outcome>>

\* The command prints a line, which reaches the pipe through its client or
\* through the helper.
Write ==
  /\ command = "works" /\ ~wedged
  /\ client = "running" \/ helper
  /\ written < MaxLines
  /\ written' = written + 1
  /\ UNCHANGED <<outside, client, handed, timer, pc, outcome>>

\* It ends by itself, or by the `timeout` around it.
CommandEnds ==
  /\ command = "works" /\ ~wedged
  /\ command' \in {"exit", "fail"} \union (IF clock >= 1 THEN {"term"} ELSE {})
                                   \union (IF clock >= 2 THEN {"kill"} ELSE {})
  /\ UNCHANGED <<clock, wedged, helper, client, written, handed, timer, pc, outcome>>

ClientExits ==
  /\ client = "running" /\ command # "works"
  /\ client' = "exited"
  /\ UNCHANGED <<outside, written, handed, timer, pc, outcome>>

HelperEnds ==
  /\ helper
  /\ helper' = FALSE
  /\ UNCHANGED <<clock, wedged, command, client, written, handed, timer, pc, outcome>>

-------------------------------------------------------------------------------
(***************************************************************************)
(* The watchdog thread, _kill_on_deadline: two steps the main thread can   *)
(* run between.                                                            *)
(***************************************************************************)
\* Seeded error: the client is killed before the flag says why.
WatchdogFlags_KillFirst ==
  /\ timer = "armed" /\ clock = 3
  /\ \/ client = "running" /\ client' = "killed" /\ UNCHANGED timer
     \/ client # "running" /\ timer' = "flagged" /\ UNCHANGED client
  /\ UNCHANGED <<outside, written, handed, pc, outcome>>

\* Seeded error: the backstop is set to the deadline inside the container.
WatchdogFlags_NoGrace ==
  /\ timer = "armed"
  /\ timer' = "flagged"
  /\ UNCHANGED <<outside, client, written, handed, pc, outcome>>

WatchdogFlags ==
  /\ timer = "armed" /\ clock = 3
  /\ timer' = "flagged"
  /\ UNCHANGED <<outside, client, written, handed, pc, outcome>>

\* Seeded error: SIGTERM, which the client may ignore.
WatchdogKills_Terminate ==
  /\ timer = "flagged"
  /\ timer' = "fired"
  /\ client' \in {client, Killed}
  /\ UNCHANGED <<outside, written, handed, pc, outcome>>

\* proc.kill(): no effect on a client that was reaped.
WatchdogKills ==
  /\ timer = "flagged"
  /\ timer' = "fired"
  /\ client' = Killed
  /\ UNCHANGED <<outside, written, handed, pc, outcome>>

-------------------------------------------------------------------------------
(***************************************************************************)
(* The calling thread.                                                     *)
(***************************************************************************)

\* Next line of proc.stdout; on_line may raise.
ReadLine ==
  /\ pc = "read" /\ handed < written
  /\ handed' = handed + 1
  /\ pc' \in {"read", "unwind"}
  /\ UNCHANGED <<outside, client, written, timer, outcome>>

\* Seeded error: the loop also ends when the client has exited.
ReadEof_OnClientExit ==
  /\ pc = "read" /\ client # "running"
  /\ pc' = "wait"
  /\ UNCHANGED <<outside, client, written, handed, timer, outcome>>

\* End of file: everything is read and nobody holds the write end.
ReadEof ==
  /\ pc = "read" /\ handed = written
  /\ client # "running" /\ ~helper
  /\ pc' = "wait"
  /\ UNCHANGED <<outside, client, written, handed, timer, outcome>>

\* KeyboardInterrupt or SystemExit while the thread blocks.
Interrupt ==
  /\ pc \in {"read", "wait"}
  /\ pc' = "unwind"
  /\ UNCHANGED <<outside, client, written, handed, timer, outcome>>

Wait ==
  /\ pc = "wait" /\ client # "running"
  /\ pc' = "check"
  /\ UNCHANGED <<outside, client, written, handed, timer, outcome>>

\* timed_out.is_set(): the deadline wins over the exit status.
Check ==
  /\ pc = "check"
  /\ IF TimedOut THEN pc' = "unwind" /\ outcome' = "timeout"
                 ELSE pc' = "disk" /\ UNCHANGED outcome
  /\ UNCHANGED <<outside, client, written, handed, timer>>

\* assert_participant_disk_budget, then return rc.
DiskBudget ==
  /\ pc = "disk"
  /\ \/ pc' = "close" /\ outcome' = "returned"
     \/ pc' = "unwind" /\ outcome' = "resource"
  /\ UNCHANGED <<outside, client, written, handed, timer>>

\* Seeded error: the handler re-raises without killing the client.
Unwind_LeaveRunning ==
  /\ pc = "unwind"
  /\ outcome' = IF outcome = "none" THEN "raised" ELSE outcome
  /\ pc' = "close"
  /\ UNCHANGED <<outside, client, written, handed, timer>>

\* Seeded error: the exception is swallowed.
Unwind_Swallow ==
  /\ pc = "unwind"
  /\ client' = Killed
  /\ pc' = "close"
  /\ UNCHANGED <<outside, written, handed, timer, outcome>>

\* except BaseException: kill, reap, re-raise.
Unwind ==
  /\ pc = "unwind"
  /\ client' = Killed
  /\ outcome' = IF outcome = "none" THEN "raised" ELSE outcome
  /\ pc' = "close"
  /\ UNCHANGED <<outside, written, handed, timer>>

\* finally: a timer that has begun to fire cannot be cancelled any more.
Close ==
  /\ pc = "close"
  /\ pc' = "over"
  /\ timer' = IF timer = "armed" THEN "cancelled" ELSE timer
  /\ UNCHANGED <<outside, client, written, handed, outcome>>

-------------------------------------------------------------------------------
Environment == Tick \/ Write \/ CommandEnds \/ ClientExits \/ HelperEnds
Watchdog == WatchdogFlags \/ WatchdogKills
Progress == ReadLine \/ ReadEof \/ Wait \/ Check \/ DiskBudget \/ Unwind \/ Close

Next == Environment \/ Watchdog \/ Progress \/ Interrupt

\* Both threads of this process are scheduled and time passes.  Nothing is
\* assumed of the command, the client, the helper or an interrupt.
Spec ==
  /\ Init /\ [][Next]_vars
  /\ WF_vars(Progress) /\ WF_vars(Watchdog) /\ WF_vars(Tick)

-------------------------------------------------------------------------------
(***************************************************************************)
(* Correctness.                                                            *)
(***************************************************************************)

\* The lanes read the returned status as the command's own (124 is "exceeded the
\* task timeout", anything else but 0 a failure of the CLI).  So agent_exec_stream
\* never returns the status of a client that was killed, by either thread, nor
\* returns while the command still works in the container.
ReturnedStatusIsOwn ==
  outcome = "returned" => client = "exited" /\ command # "works"

\* The log and the stream parsers of the lanes (usage limits, provider failures,
\* cost) see every line: a call that returns, or that reports the deadline, has
\* handed on all that was written, and no late writer adds to it afterwards.
EveryLineHanded ==
  outcome \in {"returned", "timeout", "resource"} => handed = written

\* Whichever way the call ends, the client it started does not outlive it.
ClientDoesNotOutlive == pc = "over" => client # "running"

\* What the watchdog is for: once it has fired, the call ends, unless a process
\* the kill does not reach still holds the pipe.
FiredDeadlineEnds == timer = "fired" ~> (pc = "over" \/ helper)

\* How the call ended, for the lane that made it.
EndedHow ==
  CASE outcome = "returned" -> command
    [] outcome = "timeout"  -> "backstop"
    [] outcome = "resource" -> "disk"
    [] outcome = "raised"   -> "raise"
    [] OTHER -> "none"

Call == INSTANCE ExecCall WITH expired <- clock >= 1, shown <- handed, ending <- EndedHow

\* eval_core.py reads an ending as one of ExecEndings: with its threads, its client
\* and its helpers, the streamed exec is one call that ends once, calls nothing a
\* time-out that is none, and shows nothing after its end.
ImplementsCall == Call!CallSpec

\* What a caller of agent_exec_stream may rely on, in every interleaving of its
\* two threads with the processes outside.
StreamCorrect ==
  /\ TypeOK
  /\ ReturnedStatusIsOwn
  /\ EveryLineHanded
  /\ ClientDoesNotOutlive

===============================================================================
