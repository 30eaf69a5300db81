----------------------------- MODULE AgentProofs ------------------------------
(*****************************************************************************)
(* Theorems about what runs beside or around an evaluation: the streaming    *)
(* exec of an agent (module AgentExecStream), bench run around a command of  *)
(* the user (ExternalRun), the grading of a file of predictions              *)
(* (PredictionBatch) and the conversation of the direct lane (DirectLoop).   *)
(*****************************************************************************)
EXTENDS AgentExecStream, ExternalRun, PredictionBatch, DirectLoop,
        SequenceTheorems, WellFoundedInduction, TLAPS

-------------------------------------------------------------------------------
(*****************************************************************************)
(* AgentExecStream, for every number of lines and every order of the two     *)
(* threads, the client, the helper and the command.                          *)
(*****************************************************************************)

\* Nobody will write to the pipe any more, and all of it has been handed on.
Drained == handed = written /\ client # "running" /\ ~helper

\* An exit status is that of a command that has ended.
Exits == client = "exited" => command # "works"

\* While the thread may still return, only the watchdog has killed, and it had
\* said so before: what the check after the wait relies on.
KillIsFlagged == pc \in {"read", "wait", "check"} /\ client = "killed" => TimedOut

\* What each step of the calling thread may rely on.
Place ==
  /\ pc \in {"read", "wait", "check", "disk"} => outcome = "none"
  /\ pc = "unwind" => outcome \in {"none", "timeout", "resource"}
  /\ pc \in {"wait", "check", "disk"} => Drained
  /\ pc = "disk" => client = "exited"
  /\ pc \in {"close", "over"} => client # "running"

\* What an outcome says for good.
Outcomes ==
  /\ outcome \in {"returned", "timeout", "resource"} => Drained
  /\ outcome = "returned" => client = "exited"

\* The watchdog acts after its deadline, the `timeout` after its own two.
Clocked ==
  /\ TimedOut => clock = 3
  /\ command = "term" => clock >= 1
  /\ command = "kill" => clock >= 2
  /\ outcome = "timeout" => clock = 3

StreamInv == TypeOK /\ Exits /\ KillIsFlagged /\ Place /\ Outcomes /\ Clocked

\* A call starts with nothing read, nothing killed and no outcome.
LEMMA StreamInit == Init => StreamInv
  BY MaxLinesAssumption
  DEF Init, StreamInv, TypeOK, Steps, Exits, KillIsFlagged, Place, Outcomes, Clocked, TimedOut, Drained

\* What runs outside cannot undo an end of file: once the client and the helper
\* are gone, nobody writes.
LEMMA EnvironmentKeeps == StreamInv /\ Environment => StreamInv'
<1> USE MaxLinesAssumption
        DEF StreamInv, TypeOK, Steps, Exits, KillIsFlagged, Place, Outcomes, Clocked, TimedOut, Drained, outside
<1> SUFFICES ASSUME StreamInv, Environment PROVE StreamInv'
  OBVIOUS
<1>1. CASE Tick         BY <1>1 DEF Tick
<1>2. CASE Write        BY <1>2 DEF Write
<1>3. CASE CommandEnds  BY <1>3 DEF CommandEnds
<1>4. CASE ClientExits  BY <1>4 DEF ClientExits
<1>5. CASE HelperEnds
  <2>1. TypeOK'
    BY <1>5 DEF HelperEnds
  <2>2. Clocked'
    BY <1>5 DEF HelperEnds
  <2>3. Exits' /\ KillIsFlagged' /\ Place' /\ Outcomes'
    BY <1>5 DEF HelperEnds
  <2> QED
    BY <2>1, <2>2, <2>3
<1> QED BY <1>1, <1>2, <1>3, <1>4, <1>5 DEF Environment

\* The watchdog says why before it kills, so that the calling thread, between any
\* two steps of it, never takes a killed client for one that exited.
LEMMA WatchdogKeeps == StreamInv /\ Watchdog => StreamInv'
<1> USE DEF StreamInv, TypeOK, Steps, Exits, KillIsFlagged, Place, Outcomes, Clocked, TimedOut, Drained,
            outside, Killed
<1> SUFFICES ASSUME StreamInv, Watchdog PROVE StreamInv'
  OBVIOUS
<1>1. CASE WatchdogFlags  BY <1>1 DEF WatchdogFlags
<1>2. CASE WatchdogKills  BY <1>2 DEF WatchdogKills
<1> QED BY <1>1, <1>2 DEF Watchdog

\* The calling thread, up to its finally clause.
LEMMA CallerKeeps == StreamInv /\ (Progress \/ Interrupt) => StreamInv'
<1> USE MaxLinesAssumption
        DEF StreamInv, TypeOK, Steps, Exits, KillIsFlagged, Place, Outcomes, Clocked, TimedOut, Drained, outside
<1> SUFFICES ASSUME StreamInv, Progress \/ Interrupt PROVE StreamInv'
  OBVIOUS
<1>1. CASE ReadLine    BY <1>1 DEF ReadLine
<1>2. CASE ReadEof     BY <1>2 DEF ReadEof
<1>3. CASE Wait        BY <1>3 DEF Wait
<1>4. CASE Check       BY <1>4 DEF Check
<1>5. CASE DiskBudget  BY <1>5 DEF DiskBudget
<1>6. CASE Unwind      BY <1>6 DEF Unwind, Killed
<1>7. CASE Close       BY <1>7 DEF Close
<1>8. CASE Interrupt   BY <1>8 DEF Interrupt
<1> QED BY <1>1, <1>2, <1>3, <1>4, <1>5, <1>6, <1>7, <1>8 DEF Progress

\* Between the steps of the two threads of agent_exec_stream, whatever the
\* processes outside do, the parts of StreamInv hold.
THEOREM StreamInvariant == Spec => []StreamInv
<1>1. Init => StreamInv
  BY StreamInit
<1>2. StreamInv /\ [Next]_vars => StreamInv'
  <2> SUFFICES ASSUME StreamInv, [Next]_vars PROVE StreamInv'
    OBVIOUS
  <2>1. CASE UNCHANGED vars
    BY <2>1 DEF vars, outside, StreamInv, TypeOK, Exits, KillIsFlagged, Place, Outcomes, Clocked, TimedOut,
                Drained
  <2> QED BY <2>1, EnvironmentKeeps, WatchdogKeeps, CallerKeeps DEF Next
<1> QED BY <1>1, <1>2, PTL DEF Spec

\* The types, and that no line is handed on before it is written.
THEOREM StreamTypeCorrect == Spec => []TypeOK
  BY StreamInvariant, PTL DEF StreamInv

\* The streamed exec begins as a call that has shown nothing and not ended.
LEMMA CallBegins == Init => Call!CallInit
  BY DEF Init, Call!CallInit, EndedHow

\* Each step of the two threads and of the processes outside is a step of the call
\* or none: time runs on for the lane once, with T; a line is shown by ReadLine, when
\* nothing has ended yet; and what the lane takes for the end is decided once, by
\* Check, DiskBudget or Unwind, from an exit status that Clocked accounts for.
LEMMA CallSteps == StreamInv /\ [Next]_vars => [Call!CallNext]_(Call!callVars)
<1> USE DEF Call!callVars
<1> SUFFICES ASSUME StreamInv, [Next]_vars PROVE [Call!CallNext]_(Call!callVars)
  OBVIOUS
<1> DEFINE Unseen == UNCHANGED <<clock, handed, EndedHow>>
<1>0. Unseen => UNCHANGED Call!callVars
  OBVIOUS
<1>1. CASE Tick
  <2>1. clock' >= 1 /\ handed' = handed /\ EndedHow' = EndedHow
    BY <1>1 DEF Tick, StreamInv, TypeOK, EndedHow
  <2>2. (clock' >= 1) = TRUE
    BY <2>1
  <2>3. Call!Expires
    BY <2>1, <2>2 DEF Call!Expires
  <2> QED
    BY <2>3 DEF Call!CallNext
<1>2. CASE Write \/ ClientExits \/ HelperEnds \/ Watchdog
  BY <1>2, <1>0 DEF Write, ClientExits, HelperEnds, Watchdog, WatchdogFlags, WatchdogKills,
                    outside, EndedHow
<1>3. CASE CommandEnds
  <2>1. outcome # "returned"
    BY <1>3 DEF CommandEnds, StreamInv, Exits, Outcomes
  <2> QED
    BY <1>3, <2>1, <1>0 DEF CommandEnds, EndedHow
<1>4. CASE ReadLine
  <2>1. outcome = "none" /\ EndedHow = "none" /\ EndedHow' = "none"
    BY <1>4 DEF ReadLine, StreamInv, Place, EndedHow
  <2>2. Call!Shows
    BY <1>4, <2>1 DEF ReadLine, outside, Call!Shows
  <2> QED
    BY <2>2 DEF Call!CallNext
<1>5. CASE ReadEof \/ Wait \/ Close \/ Interrupt
  BY <1>5, <1>0 DEF ReadEof, Wait, Close, Interrupt, outside, EndedHow
<1>6. CASE Check
  <2>1. CASE TimedOut
    <3>1. EndedHow = "none" /\ EndedHow' = "backstop" /\ clock >= 1
      BY <1>6, <2>1 DEF Check, StreamInv, Place, Clocked, EndedHow
    <3>2. Call!Ends("backstop")
      BY <1>6, <3>1 DEF Check, outside, Call!Ends, Call!MayEnd, Call!Endings, Call!OverBudget
    <3> QED
      BY <3>2 DEF Call!CallNext, Call!Endings
  <2>2. CASE ~TimedOut
    BY <1>6, <2>2, <1>0 DEF Check, outside, EndedHow
  <2> QED
    BY <2>1, <2>2
<1>7. CASE DiskBudget
  <2>1. outcome = "none" /\ EndedHow = "none"
    BY <1>7 DEF DiskBudget, StreamInv, Place, EndedHow
  <2>2. command \in {"exit", "fail", "term", "kill"}
    BY <1>7 DEF DiskBudget, StreamInv, TypeOK, Place, Exits
  <2>3. command \in {"term", "kill"} => clock >= 1
    BY DEF StreamInv, TypeOK, Clocked
  <2>4. CASE outcome' = "returned"
    <3>1. EndedHow' = command
      BY <1>7, <2>4 DEF DiskBudget, outside, EndedHow
    <3>2. Call!Ends(command)
      BY <1>7, <2>1, <2>2, <2>3, <3>1
      DEF DiskBudget, outside, Call!Ends, Call!MayEnd, Call!Endings, Call!OverBudget
    <3> QED
      BY <3>2, <2>2 DEF Call!CallNext, Call!Endings
  <2>5. CASE outcome' = "resource"
    <3>1. EndedHow' = "disk"
      BY <2>5 DEF EndedHow
    <3>2. Call!Ends("disk")
      BY <1>7, <2>1, <3>1
      DEF DiskBudget, outside, Call!Ends, Call!MayEnd, Call!Endings, Call!OverBudget
    <3> QED
      BY <3>2 DEF Call!CallNext, Call!Endings
  <2> QED
    BY <1>7, <2>4, <2>5 DEF DiskBudget
<1>8. CASE Unwind
  <2>1. CASE outcome = "none"
    <3>1. EndedHow = "none" /\ EndedHow' = "raise"
      BY <1>8, <2>1 DEF Unwind, EndedHow
    <3>2. Call!Ends("raise")
      BY <1>8, <3>1 DEF Unwind, outside, Call!Ends, Call!MayEnd, Call!Endings, Call!OverBudget
    <3> QED
      BY <3>2 DEF Call!CallNext, Call!Endings
  <2>2. CASE outcome # "none"
    BY <1>8, <2>2, <1>0 DEF Unwind, outside, EndedHow
  <2> QED
    BY <2>1, <2>2
<1>9. CASE UNCHANGED vars
  BY <1>9, <1>0 DEF vars, outside, EndedHow
<1> QED
  BY <1>1, <1>2, <1>3, <1>4, <1>5, <1>6, <1>7, <1>8, <1>9 DEF Next, Environment, Progress

\* agent_exec_stream, with its reader, its watchdog and the processes they wait for,
\* implements the one call the lanes of eval_core.py make of it.
THEOREM StreamImplementsCall == Spec => ImplementsCall
  BY CallBegins, CallSteps, StreamInvariant, PTL DEF Spec, ImplementsCall, Call!CallSpec

\* The status agent_exec_stream returns is the command's own, however the
\* watchdog runs between its steps.
THEOREM StreamStatusIsOwn == Spec => []ReturnedStatusIsOwn
<1>1. StreamInv => ReturnedStatusIsOwn
  BY DEF StreamInv, Exits, Outcomes, ReturnedStatusIsOwn
<1> QED BY <1>1, StreamInvariant, PTL

\* No line is lost to a call that returns or reports its deadline.
THEOREM StreamHandsEveryLine == Spec => []EveryLineHanded
<1>1. StreamInv => EveryLineHanded
  BY DEF StreamInv, Outcomes, Drained, EveryLineHanded
<1> QED BY <1>1, StreamInvariant, PTL

\* The client is dead or has exited when the call is over.
THEOREM StreamClientDoesNotOutlive == Spec => []ClientDoesNotOutlive
<1>1. StreamInv => ClientDoesNotOutlive
  BY DEF StreamInv, Place, ClientDoesNotOutlive
<1> QED BY <1>1, StreamInvariant, PTL

\* All of what agent_exec_stream promises its callers holds at every step.
THEOREM StreamIsCorrect == Spec => []StreamCorrect
  BY StreamTypeCorrect, StreamStatusIsOwn, StreamHandsEveryLine, StreamClientDoesNotOutlive, PTL
  DEF StreamCorrect

-------------------------------------------------------------------------------
(*****************************************************************************)
(* ExternalRun, for every command, every order of its edits and every        *)
(* failure of a step.                                                        *)
(*****************************************************************************)

\* A command that has not been started is behind a run that has got past it only
\* as a fault, which the disk measurement can replace but not forgive.
Blame ==
  /\ phase \in {"provenance", "workspace", "vendors"} => agent = "idle"
  /\ phase \in {"provenance", "workspace", "vendors", "command"} => ending.fault = "none"
  /\ phase \in {"disk", "teardown", "extract", "settle"} /\ agent = "idle" =>
       ending.fault \in {"runtime", "raising"}
  /\ phase \in {"disk", "extract", "settle"} => ending.fault # "raising"

\* Nothing is classified before the run ends, and the provenance and the patch
\* that a settled run needs are there when it is settled.
OnRecord ==
  /\ phase \notin Ended => meta.class = NoClass
  /\ phase \notin Ended \union {"provenance"} => meta.provenance
  /\ phase = "settle" => patch # NoPatch

\* The vendors run from their start to the finally clause.
Vendors ==
  /\ phase \in {"provenance", "workspace", "vendors"} => containers # "up"
  /\ phase \in {"extract", "settle"} /\ ~keep => containers # "up"

RunInv ==
  /\ ExternalTypeOK /\ Blame /\ OnRecord /\ Vendors
  /\ ReturnedIsSettled /\ BlameNeedsCommand /\ VendorsTornDown

\* The metadata write_meta is given by a run is well formed.
LEMMA RunMetaType ==
  ASSUME NEW m \in MetaType
  PROVE  /\ [m EXCEPT !.status = "running", !.provenance = TRUE] \in MetaType
         /\ [m EXCEPT !.provenance = TRUE] \in MetaType
         /\ \A st \in {"done", "error"}, cl \in FailureClasses, f \in BOOLEAN :
              [m EXCEPT !.status = st, !.class = cl, !.failed = f] \in MetaType
  BY DEF MetaType, Statuses, TerminalStatuses

\* Without a leak what is written is what was given; terminal metadata with
\* provenance brings the manifest up to date.
LEMMA WriteWithoutLeak ==
  ASSUME StoreTypeOK, NEW m \in MetaType, WriteMeta(m, FALSE)
  PROVE  /\ meta' = m
         /\ manifest' \in MetaType /\ stale' \subseteq Artifacts
         /\ m.status \in TerminalStatuses /\ m.provenance => manifest' = m /\ stale' = {}
  BY DEF WriteMeta, Sealed, Finalize, StoreTypeOK

\* An exception of the benchmark is recorded as nothing else.
LEMMA InfrastructureErrorRecorded ==
  ASSUME StoreTypeOK, ~leak, NEW m \in MetaType, InfrastructureError(m)
  PROVE  /\ meta' \in MetaType /\ manifest' \in MetaType /\ stale' \subseteq Artifacts
         /\ meta'.class = "benchmark_infrastructure_failure"
<1> DEFINE e == [m EXCEPT !.status = "error", !.class = "benchmark_infrastructure_failure",
                          !.failed = TRUE]
<1>1. e \in MetaType
  BY RunMetaType DEF FailureClasses, BenchmarkOwned
<1>2. WriteMeta(e, FALSE)
  BY DEF InfrastructureError, StoreTypeOK
<1>3. e.class = "benchmark_infrastructure_failure"
  BY DEF MetaType
<1> QED BY <1>1, <1>2, <1>3, WriteWithoutLeak

\* What a patch can hold is not what stands for its absence.
LEMMA PatchOfTree ==
  /\ NoPatch \in -1..MaxEdits
  /\ \A t \in 0..MaxEdits : t \in -1..MaxEdits /\ t # NoPatch
  BY EditsAssumption DEF NoPatch

\* A run starts with a fresh attempt directory.
LEMMA RunInit == ExternalInit => RunInv
<1> SUFFICES ASSUME ExternalInit PROVE RunInv
  OBVIOUS
<1>1. CreatedMeta \in MetaType /\ CreatedMeta.class = NoClass
  BY DEF CreatedMeta, MetaType, Statuses, NoStop, NoClass
<1>2. ExternalTypeOK
  <2>1. StoreTypeOK /\ ~leak
    BY <1>1 DEF ExternalInit, StoreInit, StoreTypeOK
  <2>2. ending \in OutcomeType
    BY DEF ExternalInit, OutcomeType
  <2>3. tree \in 0..MaxEdits /\ patch \in -1..MaxEdits
    BY EditsAssumption, PatchOfTree DEF ExternalInit
  <2> QED BY <2>1, <2>2, <2>3 DEF ExternalInit, ExternalTypeOK
<1> QED BY <1>1, <1>2
        DEF ExternalInit, StoreInit, RunInv, Blame, OnRecord, Vendors, ReturnedIsSettled,
            BlameNeedsCommand, VendorsTornDown, Ended

\* The steps before the command.
LEMMA PreparationKeeps ==
  RunInv /\ (Captured \/ ProvenanceFails \/ Prepared \/ VendorsUp \/ VendorsFail) => RunInv'
<1> USE DEF RunInv, Step, work, host, storeVars
<1> SUFFICES ASSUME RunInv, Captured \/ ProvenanceFails \/ Prepared \/ VendorsUp \/ VendorsFail
             PROVE  RunInv'
  OBVIOUS
<1>m. StoreTypeOK /\ meta \in MetaType /\ leak = FALSE
  BY DEF ExternalTypeOK, StoreTypeOK
<1>1. CASE Captured
  <2> DEFINE m == [meta EXCEPT !.status = "running", !.provenance = TRUE]
  <2>1. m \in MetaType /\ WriteMeta(m, FALSE) /\ m.class = meta.class /\ m.provenance
    BY <1>m, <1>1, RunMetaType DEF Captured, MetaType
  <2>2. meta' = m /\ manifest' \in MetaType /\ stale' \subseteq Artifacts
    BY <1>m, <2>1, WriteWithoutLeak
  <2>3. ExternalTypeOK'
    BY <1>1, <2>1, <2>2 DEF Captured, ExternalTypeOK, StoreTypeOK
  <2> QED BY <1>1, <2>1, <2>2, <2>3
          DEF Captured, Blame, OnRecord, Vendors, ReturnedIsSettled, BlameNeedsCommand,
              VendorsTornDown, Ended
<1>2. CASE ProvenanceFails
  <2>1. [meta EXCEPT !.provenance = TRUE] \in MetaType
    BY <1>m, RunMetaType
  <2>2. /\ meta' \in MetaType /\ manifest' \in MetaType /\ stale' \subseteq Artifacts
        /\ meta'.class \in {NoClass, "benchmark_infrastructure_failure"}
    <3>1. CASE InfrastructureError([meta EXCEPT !.provenance = TRUE])
      BY <1>m, <2>1, <3>1, InfrastructureErrorRecorded
    <3>2. CASE UNCHANGED <<meta, manifest, stale>>
      BY <1>m, <1>2, <3>2 DEF ProvenanceFails, OnRecord, Ended, StoreTypeOK
    <3> QED BY <1>2, <3>1, <3>2 DEF ProvenanceFails
  <2>3. ExternalTypeOK'
    BY <1>2, <2>2 DEF ProvenanceFails, ExternalTypeOK, StoreTypeOK, Ended
  <2> QED BY <1>2, <2>2, <2>3
          DEF ProvenanceFails, Blame, OnRecord, Vendors, ReturnedIsSettled, BlameNeedsCommand,
              VendorsTornDown, Ended
<1>3. CASE Prepared
  BY <1>3 DEF Prepared, ExternalTypeOK, StoreTypeOK, Blame, OnRecord, Vendors, ReturnedIsSettled,
              BlameNeedsCommand, VendorsTornDown, Ended
<1>4. CASE VendorsUp
  BY <1>4 DEF VendorsUp, ExternalTypeOK, StoreTypeOK, Blame, OnRecord, Vendors, ReturnedIsSettled,
              BlameNeedsCommand, VendorsTornDown, Ended
<1>5. CASE VendorsFail
  <2>1. /\ meta' \in MetaType /\ manifest' \in MetaType /\ stale' \subseteq Artifacts
        /\ meta'.class = "benchmark_infrastructure_failure"
    BY <1>m, <1>5, InfrastructureErrorRecorded DEF VendorsFail
  <2>2. ExternalTypeOK'
    BY <1>5, <2>1 DEF VendorsFail, ExternalTypeOK, StoreTypeOK, Ended
  <2> QED BY <1>5, <2>1, <2>2
          DEF VendorsFail, Blame, OnRecord, Vendors, ReturnedIsSettled, BlameNeedsCommand,
              VendorsTornDown, Ended
<1> QED BY <1>1, <1>2, <1>3, <1>4, <1>5

\* The command, its children and its end.
LEMMA CommandKeeps ==
  RunInv /\ (CommandStarts \/ CommandCannotRun \/ Edits \/ CommandExits \/ CommandTimesOut
             \/ DiskMeasured) => RunInv'
<1> USE EditsAssumption
    DEF RunInv, Step, work, host, storeVars, Blame, OnRecord, Vendors, ReturnedIsSettled,
        BlameNeedsCommand, VendorsTornDown, Ended
<1> SUFFICES ASSUME RunInv, \/ CommandStarts \/ CommandCannotRun \/ Edits \/ CommandExits
                            \/ CommandTimesOut \/ DiskMeasured
             PROVE  RunInv'
  OBVIOUS
<1>1. CASE CommandStarts
  BY <1>1 DEF CommandStarts, ExternalTypeOK, StoreTypeOK
<1>2. CASE CommandCannotRun
  BY <1>2 DEF CommandCannotRun, ExternalTypeOK, StoreTypeOK, OutcomeType
<1>3. CASE Edits
  BY <1>3 DEF Edits, ExternalTypeOK, StoreTypeOK
<1>4. CASE CommandExits
  BY <1>4 DEF CommandExits, ExternalTypeOK, StoreTypeOK, OutcomeType
<1>5. CASE CommandTimesOut
  BY <1>5 DEF CommandTimesOut, ExternalTypeOK, StoreTypeOK, OutcomeType
<1>6. CASE DiskMeasured
  <2>1. PICK f \in {ending.fault, "raising"}
                      \union (IF ending.fault = "runtime" THEN {} ELSE {"disk"}) :
          ending' = [ending EXCEPT !.fault = f]
    BY <1>6 DEF DiskMeasured
  <2>2. ending \in OutcomeType
    BY DEF ExternalTypeOK
  <2>3. f \in {"none", "runtime", "disk", "raising"}
    BY <2>1, <2>2 DEF OutcomeType
  <2>4. ending' \in OutcomeType /\ ending'.fault = f
    BY <2>1, <2>2, <2>3 DEF OutcomeType
  <2>5. ending.fault = "runtime" => f \in {"runtime", "raising"}
    BY <2>1
  <2> QED BY <1>6, <2>4, <2>5 DEF DiskMeasured, ExternalTypeOK, StoreTypeOK
<1> QED BY <1>1, <1>2, <1>3, <1>4, <1>5, <1>6

\* The finally clause, the patch and the final metadata.
LEMMA SettlementKeeps == RunInv /\ (Teardown \/ Extract \/ Settle) => RunInv'
<1> USE DEF RunInv, Step, work, host, storeVars
<1> SUFFICES ASSUME RunInv, Teardown \/ Extract \/ Settle PROVE RunInv'
  OBVIOUS
<1>m. StoreTypeOK /\ meta \in MetaType /\ leak = FALSE
  BY DEF ExternalTypeOK, StoreTypeOK
<1>1. CASE Teardown
  <2>1. leak' = FALSE /\ stale' \subseteq Artifacts
    BY <1>1, <1>m DEF Teardown, Retain, Redact, Touch, StoreTypeOK, Artifacts
  <2>2. containers' \in {"none", "partial", "up", "left"} /\ (~keep => containers' # "up")
    BY <1>1 DEF Teardown, ExternalTypeOK
  <2>3. ExternalTypeOK'
    BY <1>1, <2>1, <2>2 DEF Teardown, AfterTeardown, ExternalTypeOK, StoreTypeOK, Ended
  <2> QED BY <1>1, <2>1, <2>2, <2>3
          DEF Teardown, AfterTeardown, Blame, OnRecord, Vendors, ReturnedIsSettled,
              BlameNeedsCommand, VendorsTornDown, Ended
<1>2. CASE Extract
  <2>1. leak' = FALSE /\ stale' \subseteq Artifacts
    BY <1>2, <1>m DEF Extract, Retain, Redact, Touch, StoreTypeOK, Artifacts
  <2>2. patch' \in -1..MaxEdits /\ (phase' = "settle" => patch' # NoPatch)
    BY <1>2, PatchOfTree DEF Extract, ExternalTypeOK
  <2>3. ExternalTypeOK'
    BY <1>2, <2>1, <2>2 DEF Extract, ExternalTypeOK, StoreTypeOK, Ended
  <2> QED BY <1>2, <2>1, <2>2, <2>3
          DEF Extract, Blame, OnRecord, Vendors, ReturnedIsSettled, BlameNeedsCommand,
              VendorsTornDown, Ended
<1>3. CASE Settle
  <2> DEFINE st == IF ending.fault = "runtime" THEN "error" ELSE "done"
             m  == [meta EXCEPT !.status = st, !.class = ClassOf, !.failed = ending.fault # "none"]
  <2>1. ClassOf \in FailureClasses
    BY DEF ClassOf, FailureClasses, BenchmarkOwned, CandidateOwned
  <2>2. ending.fault = "runtime" => ClassOf = "benchmark_infrastructure_failure"
    BY SMTT(30) DEF ClassOf
  <2>3. m \in MetaType
    BY <1>m, <2>1, RunMetaType
  <2>4. m.status = st /\ m.class = ClassOf /\ m.provenance
    BY <1>m, <1>3 DEF MetaType, Settle, OnRecord, Ended
  <2>5. WriteMeta(m, FALSE)
    BY <1>m, <1>3 DEF Settle
  <2>6. meta' = m /\ manifest' = m /\ stale' = {}
    BY <1>m, <2>3, <2>4, <2>5, WriteWithoutLeak DEF TerminalStatuses
  <2>7. ExternalTypeOK'
    BY <1>3, <2>3, <2>6 DEF Settle, ExternalTypeOK, StoreTypeOK, Ended
  <2>8. phase' \in Ended /\ (phase' = "returned" => ending.fault # "runtime")
        /\ phase = "settle" /\ UNCHANGED <<keep, containers, patch, agent, tree, ending>>
    BY <1>3 DEF Settle, Ended
  <2>9. ending.fault # "runtime" => agent # "idle"
    BY <2>8 DEF Blame
  <2>10. ReturnedIsSettled' /\ BlameNeedsCommand'
    BY <2>2, <2>4, <2>6, <2>8, <2>9 DEF ReturnedIsSettled, BlameNeedsCommand, OnRecord
  <2> QED BY <2>7, <2>8, <2>10 DEF Blame, OnRecord, Vendors, VendorsTornDown, Ended
<1> QED BY <1>1, <1>2, <1>3

\* At every step of a run, the parts of RunInv hold.
THEOREM RunInvariant == ExternalSpec => []RunInv
<1>1. ExternalInit => RunInv
  BY RunInit
<1>2. RunInv /\ [ExternalNext]_externalVars => RunInv'
  <2> SUFFICES ASSUME RunInv, [ExternalNext]_externalVars PROVE RunInv'
    OBVIOUS
  <2>1. CASE UNCHANGED externalVars
    BY <2>1 DEF externalVars, storeVars, work, host, RunInv, ExternalTypeOK, StoreTypeOK, Blame, OnRecord, Vendors,
                ReturnedIsSettled, BlameNeedsCommand, VendorsTornDown
  <2> QED BY <2>1, PreparationKeeps, CommandKeeps, SettlementKeeps DEF ExternalNext, Main
<1> QED BY <1>1, <1>2, PTL DEF ExternalSpec

\* The types of a run and its attempt directory, in which no secret is found.
THEOREM RunTypeCorrect == ExternalSpec => []ExternalTypeOK
  BY RunInvariant, PTL DEF RunInv

\* A run that returns has settled: final metadata, the manifest over it, and the
\* patch of a command that ran, even one that a child of the command outlives.
THEOREM RunReturnsSettled == ExternalSpec => []ReturnedIsSettled
  BY RunInvariant, PTL DEF RunInv

\* Whatever fails, no candidate is blamed, or held to have produced something to
\* grade, for a command that was never started.
THEOREM RunBlamesOnlyCommands == ExternalSpec => []BlameNeedsCommand
  BY RunInvariant, PTL DEF RunInv

\* Every way out of a run that got its vendors goes through their teardown.
THEOREM RunTearsDown == ExternalSpec => []VendorsTornDown
  BY RunInvariant, PTL DEF RunInv

\* All of what run_once owes its readers and its host holds at every step.
THEOREM RunIsCorrect == ExternalSpec => []RunCorrect
  BY RunTypeCorrect, RunReturnsSettled, RunBlamesOnlyCommands, RunTearsDown, PTL DEF RunCorrect

-------------------------------------------------------------------------------
(*****************************************************************************)
(* PredictionBatch, for every file of predictions and every shelf of         *)
(* earlier ones.  The numbers of the directories are the reason for the      *)
(* first two lemmas.                                                         *)
(*****************************************************************************)

Line == [task : Tasks, patch : Nat, error : BOOLEAN, at : Nat]

\* Names and times as far as they are used, and lines as far as there are any.
Shelved ==
  /\ shelf \in [Tasks -> SUBSET Prediction]
  /\ \A t \in Tasks : \A p \in shelf[t] : p.made \in 1..made
  /\ \E b \in Nat : \A t \in Tasks : \A p \in shelf[t] : p.suffix <= b
  /\ results \in Seq(Line)

BatchInv == BatchCorrect /\ Shelved

\* A set of natural numbers that is not empty has a least one.
LEMMA LeastNatural ==
  ASSUME NEW S \in SUBSET Nat, S # {}
  PROVE  \E m \in S : \A n \in S : m <= n
<1>1. IsWellFoundedOn(OpToRel(<, Nat), Nat)
  BY NatLessThanWellFounded
<1>2. PICK m \in S : \A n \in S : ~(<<n, m>> \in OpToRel(<, Nat))
  BY <1>1, WFMin
<1>3. ASSUME NEW n \in S PROVE m <= n
  <2>1. m \in Nat /\ n \in Nat
    OBVIOUS
  <2>2. n < m => <<n, m>> \in OpToRel(<, Nat)
    BY <2>1 DEF OpToRel
  <2>3. ~(n < m)
    BY <1>2, <2>2, Zenon
  <2> QED
    BY <2>1, <2>3
<1> QED
  BY <1>3

\* Names that have a bound have a last one.
LEMMA LastName ==
  ASSUME NEW S \in SUBSET Prediction, S # {}, NEW b \in Nat, \A p \in S : p.suffix <= b
  PROVE  \E p \in S : \A q \in S : q.suffix <= p.suffix
<1> DEFINE U == {n \in Nat : \A p \in S : p.suffix <= n}
<1>1. PICK m \in U : \A n \in U : m <= n
  BY LeastNatural
<1>2. \A p \in S : p.suffix \in Nat
  BY BatchAssumption DEF Prediction
<1>3. ASSUME \A p \in S : p.suffix # m PROVE FALSE
  <2>1. PICK p \in S : TRUE
    OBVIOUS
  <2>2. m - 1 \in Nat
    BY <2>1, <1>1, <1>2, <1>3
  <2>3. \A q \in S : q.suffix <= m - 1
    BY <1>1, <1>2, <1>3
  <2> QED
    BY <2>2, <2>3, <1>1
<1> QED
  BY <1>1, <1>3

\* What grade-all takes for a task that has predictions is one of them.
LEMMA ResolvedIsShelved ==
  ASSUME Shelved, NEW t \in Tasks, shelf[t] # {}
  PROVE  \E p \in shelf[t] : Resolved(t) = p.made
<1>1. shelf[t] \in SUBSET Prediction
  BY DEF Shelved
<1>2. PICK b \in Nat : \A p \in shelf[t] : p.suffix <= b
  BY DEF Shelved
<1>3. \E p \in shelf[t] : \A q \in shelf[t] : q.suffix <= p.suffix
  BY <1>1, <1>2, LastName
<1> QED
  BY <1>3 DEF Resolved

LEMMA BatchBegins == BatchInit => BatchInv
<1> SUFFICES ASSUME BatchInit PROVE BatchInv
  OBVIOUS
<1>1. BatchTypeOK
  BY BatchAssumption DEF BatchInit, BatchTypeOK, NoExit
<1>2. LinesCoverTasks /\ NamedPredictionStays /\ GoldOnlyByDefault
  BY DEF BatchInit, LinesCoverTasks, NamedPredictionStays, GoldOnlyByDefault
<1>3. Shelved
  BY DEF BatchInit, Shelved
<1> QED
  BY <1>1, <1>2, <1>3 DEF BatchInv, BatchCorrect

\* A line more for the task a batch has come to.
LEMMA RecordKeeps ==
  ASSUME BatchInv, subcommand # "none", next <= NTasks,
         NEW r \in Line, r.task = next, Record(r)
  PROVE  LinesCoverTasks' /\ results' \in Seq(Line) /\ next' \in 1..(NTasks + 1)
<1> USE DEF BatchInv, BatchCorrect
<1>1. results' \in Seq(Line) /\ Len(results') = Len(results) + 1
      /\ \A i \in 1..Len(results') : results'[i] = IF i = Len(results) + 1 THEN r ELSE results[i]
  BY DEF Record, Shelved
<1>2. next' = next + 1 /\ next \in 1..NTasks
  BY BatchAssumption DEF Record, BatchTypeOK
<1>3. DOMAIN results = 1..Len(results) /\ DOMAIN results' = 1..Len(results')
  BY <1>1 DEF Shelved
<1> QED
  BY <1>1, <1>2, <1>3, BatchAssumption DEF LinesCoverTasks, Shelved

\* One prediction more, with the time that comes next.
LEMMA ShelveKeeps ==
  ASSUME BatchInv, NEW t \in Tasks, NEW p \in Prediction, p.made = made + 1, Shelve(t, p)
  PROVE  /\ made' = made + 1
         /\ shelf' \in [Tasks -> SUBSET Prediction]
         /\ \A u \in Tasks : \A q \in shelf'[u] : q.made \in 1..made'
         /\ \E b \in Nat : \A u \in Tasks : \A q \in shelf'[u] : q.suffix <= b
         /\ \A u, v \in Tasks : \A q \in shelf'[u], r \in shelf'[v] :
              q.made = r.made => u = v /\ q = r
         /\ NamedPredictionStays'
<1> USE DEF BatchInv, BatchCorrect
<1>1. made \in Nat /\ made' = made + 1
  BY DEF BatchTypeOK, Shelve
<1>2. shelf' \in [Tasks -> SUBSET Prediction]
      /\ \A u \in Tasks : shelf'[u] = IF u = t THEN shelf[t] \union {p} ELSE shelf[u]
  BY DEF Shelved, Shelve
<1>3. \A u \in Tasks : \A q \in shelf'[u] : (q = p /\ u = t) \/ (q \in shelf[u] /\ q.made \in 1..made)
  BY <1>2 DEF Shelved
<1>4. \A u \in Tasks : \A q \in shelf'[u] : q.made \in 1..made'
  BY <1>1, <1>3
<1>5. \E b \in Nat : \A u \in Tasks : \A q \in shelf'[u] : q.suffix <= b
  <2>1. PICK b \in Nat : \A u \in Tasks : \A q \in shelf[u] : q.suffix <= b
    BY DEF Shelved
  <2>2. p.suffix \in Nat /\ \A u \in Tasks : \A q \in shelf[u] : q.suffix \in Nat
    <3>1. \A q \in Prediction : q.suffix \in Nat
      BY BatchAssumption DEF Prediction
    <3>2. \A u \in Tasks : shelf[u] \subseteq Prediction
      BY DEF Shelved
    <3> QED
      BY <3>1, <3>2
  <2>3. \A u \in Tasks : \A q \in shelf'[u] : q.suffix <= b + p.suffix
    BY <2>1, <2>2, <1>3
  <2> QED
    BY <2>2, <2>3
<1>6. \A u, v \in Tasks : \A q \in shelf'[u], r \in shelf'[v] : q.made = r.made => u = v /\ q = r
  BY <1>1, <1>3 DEF BatchTypeOK
<1>7. NamedPredictionStays'
  <2> SUFFICES ASSUME NEW k \in 1..made' PROVE \E u \in Tasks : \E q \in shelf'[u] : q.made = k
    BY DEF NamedPredictionStays
  <2>1. CASE k = made + 1
    BY <2>1, <1>2
  <2>2. CASE k # made + 1
    BY <2>2, <1>1, <1>2 DEF NamedPredictionStays
  <2> QED
    BY <2>1, <2>2
<1> QED
  BY <1>1, <1>2, <1>4, <1>5, <1>6, <1>7

\* The shelf and its names, when neither changes.
LEMMA ShelfAtRest ==
  ASSUME BatchInv, UNCHANGED <<shelf, made>>
  PROVE  /\ made' \in Nat
         /\ shelf' \in [Tasks -> SUBSET Prediction]
         /\ \A u \in Tasks : \A q \in shelf'[u] : q.made \in 1..made'
         /\ \E b \in Nat : \A u \in Tasks : \A q \in shelf'[u] : q.suffix <= b
         /\ \A u, v \in Tasks : \A q \in shelf'[u], r \in shelf'[v] :
              q.made = r.made => u = v /\ q = r
         /\ NamedPredictionStays'
  BY DEF BatchInv, BatchCorrect, BatchTypeOK, Shelved, NamedPredictionStays

\* A task of run-all leaves its prediction on the shelf, or nothing, and a line.
LEMMA RunKeeps == BatchInv /\ (RunTask \/ RunTaskFails) => BatchInv'
<1> SUFFICES ASSUME BatchInv, RunTask \/ RunTaskFails PROVE BatchInv'
  OBVIOUS
<1>1. subcommand = "run-all" /\ next \in Tasks /\ next <= NTasks /\ made \in Nat
  BY BatchAssumption DEF BatchInv, BatchCorrect, BatchTypeOK, RunTask, RunTaskFails, Working, Tasks
<1> DEFINE Shelving == UNCHANGED <<shelf, made>>
                       \/ \E p \in Prediction : p.made = made + 1 /\ Shelve(next, p)
<1>2. (\E r \in Line : r.task = next /\ Record(r)) /\ Shelving
  <2>1. CASE RunTask
    <3>1. PICK s \in FreshSuffixes(next) :
            LET p == [suffix |-> s, made |-> made + 1, faulty |-> FALSE]
            IN  /\ Shelve(next, p)
                /\ Record([task |-> next, patch |-> p.made, error |-> FALSE, at |-> made + 1])
      BY <2>1 DEF RunTask
    <3>2. [suffix |-> s, made |-> made + 1, faulty |-> FALSE] \in Prediction
      BY <1>1 DEF Prediction, FreshSuffixes
    <3>3. [task |-> next, patch |-> made + 1, error |-> FALSE, at |-> made + 1] \in Line
      BY <1>1 DEF Line
    <3> QED
      BY <3>1, <3>2, <3>3
  <2>2. CASE RunTaskFails
    <3>1. \A n \in Nat : [task |-> next, patch |-> None, error |-> TRUE, at |-> n] \in Line
      BY <1>1 DEF Line, None
    <3>2. CASE UNCHANGED <<shelf, made>>
               /\ Record([task |-> next, patch |-> None, error |-> TRUE, at |-> made])
      BY <3>1, <3>2, <1>1
    <3>3. ASSUME NEW s \in FreshSuffixes(next),
                 Shelve(next, [suffix |-> s, made |-> made + 1, faulty |-> TRUE]),
                 Record([task |-> next, patch |-> None, error |-> TRUE, at |-> made + 1])
          PROVE  (\E r \in Line : r.task = next /\ Record(r)) /\ Shelving
      <4>1. [suffix |-> s, made |-> made + 1, faulty |-> TRUE] \in Prediction
        BY <1>1 DEF Prediction, FreshSuffixes
      <4> QED
        BY <3>1, <3>3, <4>1, <1>1
    <3> QED
      BY <2>2, <3>2, <3>3 DEF RunTaskFails
  <2> QED
    BY <2>1, <2>2
<1>3. PICK line \in Line : line.task = next /\ Record(line)
  BY <1>2
<1>4. LinesCoverTasks' /\ results' \in Seq(Line) /\ next' \in 1..(NTasks + 1)
  BY <1>1, <1>3, RecordKeeps
<1>5. /\ made' \in Nat
      /\ shelf' \in [Tasks -> SUBSET Prediction]
      /\ \A u \in Tasks : \A q \in shelf'[u] : q.made \in 1..made'
      /\ \E b \in Nat : \A u \in Tasks : \A q \in shelf'[u] : q.suffix <= b
      /\ \A u, v \in Tasks : \A q \in shelf'[u], r \in shelf'[v] :
           q.made = r.made => u = v /\ q = r
      /\ NamedPredictionStays'
  <2>1. CASE UNCHANGED <<shelf, made>>
    BY <2>1, ShelfAtRest
  <2>2. CASE \E p \in Prediction : p.made = made + 1 /\ Shelve(next, p)
    BY <2>2, <1>1, ShelveKeeps
  <2> QED
    BY <2>1, <2>2, <1>2
<1>6. subcommand' = "run-all" /\ exit' = exit /\ issued' = issued
  BY <1>1, <1>3 DEF Record
<1>7. BatchTypeOK'
  BY <1>4, <1>5, <1>6, <1>1 DEF BatchInv, BatchCorrect, BatchTypeOK
<1> QED
  BY <1>4, <1>5, <1>6, <1>7 DEF BatchInv, BatchCorrect, Shelved, GoldOnlyByDefault

\* A task of grade-all leaves a line, of the gold solution only where the shelf has
\* nothing for it.
LEMMA GradeKeeps == BatchInv /\ GradeTask => BatchInv'
<1> SUFFICES ASSUME BatchInv, GradeTask PROVE BatchInv'
  OBVIOUS
<1>1. subcommand = "grade-all" /\ next \in Tasks /\ next <= NTasks /\ made \in Nat
  BY BatchAssumption DEF BatchInv, BatchCorrect, BatchTypeOK, GradeTask, Working, Tasks
<1>2. Shelved /\ GoldOnlyByDefault /\ LinesCoverTasks
  BY DEF BatchInv, BatchCorrect
<1>3. Resolved(next) \in Nat /\ (Resolved(next) = None => shelf[next] = {})
  <2>1. CASE shelf[next] = {}
    BY <2>1 DEF Resolved, None
  <2>2. CASE shelf[next] # {}
    <3>1. PICK p \in shelf[next] : Resolved(next) = p.made
      BY <2>2, <1>1, <1>2, ResolvedIsShelved
    <3> QED
      BY <3>1, <1>1, <1>2 DEF Shelved, None
  <2> QED
    BY <2>1, <2>2
<1>4. PICK error \in BOOLEAN :
        Record([task |-> next, patch |-> Resolved(next), error |-> error, at |-> made])
  BY DEF GradeTask
<1> DEFINE r == [task |-> next, patch |-> Resolved(next), error |-> error, at |-> made]
<1>5. r \in Line
  BY <1>1, <1>3 DEF Line
<1>6. LinesCoverTasks' /\ results' \in Seq(Line) /\ next' \in 1..(NTasks + 1)
  BY <1>1, <1>4, <1>5, RecordKeeps
<1>7. UNCHANGED <<shelf, made, subcommand, exit, issued>>
  BY <1>4 DEF GradeTask, Record
<1>8. BatchTypeOK'
  BY <1>6, <1>7, ShelfAtRest DEF BatchInv, BatchCorrect, BatchTypeOK
<1>9. NamedPredictionStays' /\ Shelved'
  BY <1>6, <1>7, ShelfAtRest DEF Shelved
<1>10. GoldOnlyByDefault'
  <2> SUFFICES ASSUME NEW i \in DOMAIN results', results'[i].patch = None,
                      NEW p \in shelf'[results'[i].task]
               PROVE  p.made > results'[i].at
    BY DEF GoldOnlyByDefault
  <2>1. Len(results) \in Nat /\ DOMAIN results = 1..Len(results)
        /\ DOMAIN results' = 1..(Len(results) + 1)
        /\ results'[Len(results) + 1] = r
        /\ \A j \in 1..Len(results) : results'[j] = results[j]
    BY <1>2, <1>4, <1>5 DEF Record, Shelved
  <2>2. CASE i = Len(results) + 1
    BY <2>1, <2>2, <1>3, <1>7
  <2>3. CASE i # Len(results) + 1
    BY <2>1, <2>3, <1>1, <1>2, <1>7 DEF GoldOnlyByDefault
  <2> QED
    BY <2>2, <2>3
<1> QED
  BY <1>6, <1>8, <1>9, <1>10 DEF BatchInv, BatchCorrect

\* A batch begins with an empty file, and ends or is cut short with the lines it has.
LEMMA CommandsKeepBatch ==
  BatchInv /\ ((\E c \in {"run-all", "grade-all"} : BeginBatch(c)) \/ EndBatch \/ Interrupted
               \/ ReportResult \/ Raises)
    => BatchInv'
<1> SUFFICES ASSUME BatchInv,
                    (\E c \in {"run-all", "grade-all"} : BeginBatch(c)) \/ EndBatch \/ Interrupted
                    \/ ReportResult \/ Raises
             PROVE  BatchInv'
  OBVIOUS
<1>1. UNCHANGED <<shelf, made>>
  BY DEF BeginBatch, EndBatch, Interrupted, ReportResult, Raises
<1>2. (NamedPredictionStays' /\ Shelved') \/ results' # results
  BY <1>1, ShelfAtRest DEF Shelved, BatchInv
<1>3. CASE \E c \in {"run-all", "grade-all"} : BeginBatch(c)
  <2>1. subcommand' \in {"run-all", "grade-all"} /\ next' = 1 /\ results' = <<>> /\ exit' = exit
        /\ issued' \in 0..MaxCommands
    BY <1>3, BatchAssumption DEF BeginBatch, Issue, BatchInv, BatchCorrect, BatchTypeOK
  <2>2. BatchTypeOK'
    BY <2>1, <1>1, ShelfAtRest, BatchAssumption DEF BatchInv, BatchCorrect, BatchTypeOK
  <2>3. LinesCoverTasks' /\ GoldOnlyByDefault'
    BY <2>1 DEF LinesCoverTasks, GoldOnlyByDefault
  <2>4. NamedPredictionStays' /\ Shelved'
    BY <2>1, <1>1, ShelfAtRest DEF Shelved
  <2> QED
    BY <2>2, <2>3, <2>4 DEF BatchInv, BatchCorrect
<1>4. CASE EndBatch \/ Interrupted \/ ReportResult \/ Raises
  <2>1. results' = results /\ next' = next /\ subcommand' = "none"
    BY <1>4 DEF EndBatch, Interrupted, ReportResult, Raises, Issue
  <2>2. issued' \in 0..MaxCommands
    BY <1>4, BatchAssumption
    DEF EndBatch, Interrupted, ReportResult, Raises, Issue, BatchInv, BatchCorrect, BatchTypeOK
  <2>3. exit'.code \in {0, 1, 2, 130}
    BY <1>4 DEF EndBatch, Interrupted, ReportResult, Raises, NegativeCode
  <2>4. BatchTypeOK'
    BY <2>1, <2>2, <2>3, <1>1, ShelfAtRest DEF BatchInv, BatchCorrect, BatchTypeOK
  <2>5. LinesCoverTasks' /\ GoldOnlyByDefault'
    BY <2>1 DEF LinesCoverTasks, GoldOnlyByDefault, BatchInv, BatchCorrect
  <2> QED
    BY <2>1, <2>4, <2>5, <1>2 DEF BatchInv, BatchCorrect
<1> QED
  BY <1>3, <1>4

THEOREM BatchInvariant == BatchSpec => []BatchInv
<1>1. BatchInit => BatchInv
  BY BatchBegins
<1>2. BatchInv /\ [BatchNext]_batchVars => BatchInv'
  <2> SUFFICES ASSUME BatchInv, [BatchNext]_batchVars PROVE BatchInv'
    OBVIOUS
  <2>1. CASE UNCHANGED batchVars
    BY <2>1 DEF batchVars, BatchInv, BatchCorrect, BatchTypeOK, LinesCoverTasks,
                NamedPredictionStays, GoldOnlyByDefault, Shelved
  <2> QED
    BY <2>1, RunKeeps, GradeKeeps, CommandsKeepBatch DEF BatchNext, BatchStep
<1> QED
  BY <1>1, <1>2, PTL DEF BatchSpec

THEOREM BatchIsCorrect == BatchSpec => []BatchCorrect
  BY BatchInvariant, PTL DEF BatchInv

-------------------------------------------------------------------------------
(*****************************************************************************)
(* DirectLoop, for every number of turns, attempts and calls.                *)
(*****************************************************************************)

\* A set of positions that is not empty has a last one.
LEMMA LastPosition ==
  ASSUME NEW n \in Nat, NEW S \in SUBSET (1..n), S # {}
  PROVE  \E m \in S : \A i \in S : i <= m
<1> DEFINE bounds == {b \in Nat : \A i \in S : i <= b}
<1>1. n \in bounds
  OBVIOUS
<1>2. PICK b \in bounds : \A c \in bounds : b <= c
  BY <1>1, LeastNatural
<1>3. ASSUME b \notin S PROVE FALSE
  <2>1. PICK i \in S : TRUE
    OBVIOUS
  <2>2. b - 1 \in Nat /\ b \in Nat
    BY <1>2, <1>3, <2>1
  <2>3. \A j \in S : j <= b - 1
    BY <1>2, <1>3, <2>2
  <2> QED
    BY <1>2, <2>2, <2>3
<1> QED
  BY <1>2, <1>3

\* What holds of zero and of the next number whenever it holds of a number.
LEMMA Induction ==
  ASSUME NEW n \in Nat, NEW S \in SUBSET (0..n), 0 \in S, \A m \in 0..(n - 1) : m \in S => m + 1 \in S
  PROVE  S = 0..n
<1> SUFFICES ASSUME S # 0..n PROVE FALSE
  OBVIOUS
<1> DEFINE missing == (0..n) \ S
<1>1. missing \in SUBSET Nat /\ missing # {}
  <2>1. \E m \in 0..n : m \notin S
    BY Zenon
  <2> QED
    BY <2>1
<1>2. PICK m \in missing : \A k \in missing : m <= k
  BY <1>1, LeastNatural
<1>3. m - 1 \in 0..(n - 1) /\ m - 1 \in S /\ m \in Nat
  BY <1>1, <1>2
<1> QED
  BY <1>2, <1>3


(***************************************************************************)
(* The conversions are folds of what they do with one message or item.     *)
(***************************************************************************)
StepOf(rule, l, x, k) ==
  IF rule = "anthropic" THEN AnthropicAdd(x, l[k])
  ELSE IF rule = "responses" THEN x \o ResponsesItems(l[k])
  ELSE IF l[k].type = rule THEN Append(x, l[k].id) ELSE x

\* g is what the pass has come to after each set of positions.
IsPass(rule, l, g, n) ==
  g = [s \in SUBSET (1..n) |->
         IF s = {} THEN <<>> ELSE StepOf(rule, l, g[s \ {Max(s)}], Max(s))]

\* h is what it has come to after each entry.
GoesThrough(rule, l, h) ==
  /\ h[0] = <<>>
  /\ \A k \in 1..Len(l) : h[k] = StepOf(rule, l, h[k - 1], k)

LEMMA MaxIsLast ==
  ASSUME NEW n \in Nat, NEW s \in SUBSET (1..n), n \in s
  PROVE  Max(s) = n
<1>1. n \in s /\ \A y \in s : n >= y
  OBVIOUS
<1>2. \A x \in s : (\A y \in s : x >= y) => x = n
  OBVIOUS
<1> QED
  BY <1>1, <1>2 DEF Max

LEMMA PassExists ==
  ASSUME NEW rule, NEW l, NEW n \in Nat
  PROVE  \E g : IsPass(rule, l, g, n)
<1> DEFINE done == {m \in 0..n : \E g : IsPass(rule, l, g, m)}
<1>1. 0 \in done
  <2> DEFINE g == [s \in SUBSET (1..0) |-> <<>>]
  <2>1. \A s \in SUBSET (1..0) : s = {}
    OBVIOUS
  <2>2. IsPass(rule, l, g, 0)
    BY <2>1 DEF IsPass
  <2> QED
    BY <2>2
<1>2. ASSUME NEW m \in 0..(n - 1), m \in done PROVE m + 1 \in done
  <2>1. PICK f : IsPass(rule, l, f, m)
    BY <1>2
  <2> DEFINE body(s) == IF s \in SUBSET (1..m) THEN f[s]
                       ELSE StepOf(rule, l, f[s \ {m + 1}], m + 1)
             g == [s \in SUBSET (1..(m + 1)) |-> body(s)]
             value(s) == IF s = {} THEN <<>>
                         ELSE StepOf(rule, l, g[s \ {Max(s)}], Max(s))
  <2>2. ASSUME NEW s \in SUBSET (1..(m + 1)) PROVE g[s] = value(s)
    <3>1. CASE s \in SUBSET (1..m)
      <4>1. s \ {Max(s)} \in SUBSET (1..m) /\ s \ {Max(s)} \in SUBSET (1..(m + 1))
        BY <3>1
      <4>2. g[s] = f[s] /\ g[s \ {Max(s)}] = f[s \ {Max(s)}]
        BY <3>1, <4>1
      <4>3. f[s] = IF s = {} THEN <<>> ELSE StepOf(rule, l, f[s \ {Max(s)}], Max(s))
        BY <2>1, <3>1 DEF IsPass
      <4> QED
        BY <4>2, <4>3
    <3>2. CASE s \notin SUBSET (1..m)
      <4>1. m + 1 \in s /\ m + 1 \in Nat
        BY <3>2
      <4>2. Max(s) = m + 1
        BY <4>1, MaxIsLast
      <4>3. s \ {m + 1} \in SUBSET (1..m) /\ s \ {m + 1} \in SUBSET (1..(m + 1))
        OBVIOUS
      <4>4. g[s] = StepOf(rule, l, f[s \ {m + 1}], m + 1) /\ g[s \ {m + 1}] = f[s \ {m + 1}]
        BY <3>2, <4>3
      <4> QED
        BY <4>1, <4>2, <4>4
    <3> QED
      BY <3>1, <3>2
  <2>3. g = [s \in SUBSET (1..(m + 1)) |-> value(s)]
    <3>1. \A s \in SUBSET (1..(m + 1)) : body(s) = value(s)
      BY <2>2
    <3> HIDE DEF body, value
    <3> QED
      BY <3>1
  <2>4. IsPass(rule, l, g, m + 1)
    <3> HIDE DEF g
    <3> QED
      BY <2>3 DEF IsPass
  <2> QED
    BY <2>4
<1>3. done = 0..n
  <2>1. done \in SUBSET (0..n)
    OBVIOUS
  <2> HIDE DEF done
  <2> QED
    BY <1>1, <1>2, <2>1, Induction
<1> QED
  BY <1>3

LEMMA PassSteps ==
  ASSUME NEW rule, NEW l, Len(l) \in Nat, NEW g, IsPass(rule, l, g, Len(l))
  PROVE  \E h : GoesThrough(rule, l, h) /\ h[Len(l)] = g[1..Len(l)]
<1> DEFINE h == [k \in 0..Len(l) |-> g[1..k]]
<1>1. h[0] = <<>>
  <2>1. 1..0 = {}
    OBVIOUS
  <2> QED
    BY <2>1 DEF IsPass
<1>2. ASSUME NEW k \in 1..Len(l) PROVE h[k] = StepOf(rule, l, h[k - 1], k)
  <2>1. 1..k \in SUBSET (1..Len(l)) /\ k \in 1..k /\ k \in Nat /\ 1..k \in SUBSET (1..k)
    OBVIOUS
  <2>2. Max(1..k) = k
    BY <2>1, MaxIsLast
  <2>3. (1..k) \ {k} = 1..(k - 1)
    OBVIOUS
  <2>4. g[1..k] = StepOf(rule, l, g[1..(k - 1)], k)
    BY <2>1, <2>2, <2>3 DEF IsPass
  <2> QED
    BY <2>4
<1>3. h[Len(l)] = g[1..Len(l)]
  OBVIOUS
<1> HIDE DEF h
<1> QED
  BY <1>1, <1>2, <1>3 DEF GoesThrough

LEMMA AnthropicSteps ==
  ASSUME NEW l, DOMAIN l = 1..Len(l), Len(l) \in Nat
  PROVE  \E h : GoesThrough("anthropic", l, h) /\ ToAnthropic(l) = h[Len(l)]
<1> DEFINE value(g, s) ==
      IF s = {} THEN <<>> ELSE AnthropicAdd(g[s \ {Max(s)}], l[Max(s)])
<1> DEFINE pass == CHOOSE g : g = [s \in SUBSET (DOMAIN l) |-> value(g, s)]
<1>1. ToAnthropic(l) = FoldLeft(LAMBDA out, m : AnthropicAdd(out, m), <<>>, l)
  BY DEF ToAnthropic
<1>2. ToAnthropic(l) =
        MapThenFoldSet(LAMBDA x, y : AnthropicAdd(y, x), <<>>, LAMBDA i : l[i], LAMBDA S : Max(S), DOMAIN l)
  BY <1>1 DEF FoldLeft
<1>3. ToAnthropic(l) = pass[DOMAIN l]
  BY <1>2 DEF MapThenFoldSet
<1>4. PICK g : IsPass("anthropic", l, g, Len(l))
  BY PassExists
<1>5. ASSUME NEW f
      PROVE  [s \in SUBSET (DOMAIN l) |-> value(f, s)] =
             [s \in SUBSET (1..Len(l)) |->
                IF s = {} THEN <<>> ELSE StepOf("anthropic", l, f[s \ {Max(s)}], Max(s))]
  BY DEF StepOf
<1>6. g = [s \in SUBSET (DOMAIN l) |-> value(g, s)]
  BY <1>4, <1>5 DEF IsPass
<1>7. pass = [s \in SUBSET (DOMAIN l) |-> value(pass, s)]
  <2> HIDE DEF value
  <2> QED
    BY <1>6
<1>8. IsPass("anthropic", l, pass, Len(l))
  BY <1>5, <1>7 DEF IsPass
<1> HIDE DEF pass
<1> QED
  BY <1>3, <1>8, PassSteps

LEMMA ResponsesSteps ==
  ASSUME NEW l, DOMAIN l = 1..Len(l), Len(l) \in Nat
  PROVE  \E h : GoesThrough("responses", l, h) /\ ToResponses(l) = h[Len(l)]
<1> DEFINE value(g, s) ==
      IF s = {} THEN <<>> ELSE g[s \ {Max(s)}] \o ResponsesItems(l[Max(s)])
<1> DEFINE pass == CHOOSE g : g = [s \in SUBSET (DOMAIN l) |-> value(g, s)]
<1>1. ToResponses(l) = FoldLeft(LAMBDA out, m : out \o ResponsesItems(m), <<>>, l)
  BY DEF ToResponses
<1>2. ToResponses(l) =
        MapThenFoldSet(LAMBDA x, y : y \o ResponsesItems(x), <<>>, LAMBDA i : l[i], LAMBDA S : Max(S), DOMAIN l)
  BY <1>1 DEF FoldLeft
<1>3. ToResponses(l) = pass[DOMAIN l]
  BY <1>2 DEF MapThenFoldSet
<1>4. PICK g : IsPass("responses", l, g, Len(l))
  BY PassExists
<1>5. ASSUME NEW f
      PROVE  [s \in SUBSET (DOMAIN l) |-> value(f, s)] =
             [s \in SUBSET (1..Len(l)) |->
                IF s = {} THEN <<>> ELSE StepOf("responses", l, f[s \ {Max(s)}], Max(s))]
  BY DEF StepOf
<1>6. g = [s \in SUBSET (DOMAIN l) |-> value(g, s)]
  BY <1>4, <1>5 DEF IsPass
<1>7. pass = [s \in SUBSET (DOMAIN l) |-> value(pass, s)]
  <2> HIDE DEF value
  <2> QED
    BY <1>6
<1>8. IsPass("responses", l, pass, Len(l))
  BY <1>5, <1>7 DEF IsPass
<1> HIDE DEF pass
<1> QED
  BY <1>3, <1>8, PassSteps

LEMMA IdsSteps ==
  ASSUME NEW l, DOMAIN l = 1..Len(l), Len(l) \in Nat, NEW type, type \notin {"anthropic", "responses"}
  PROVE  \E h : GoesThrough(type, l, h) /\ IdsOf(l, type) = h[Len(l)]
<1> DEFINE value(g, s) ==
      IF s = {} THEN <<>> ELSE IF l[Max(s)].type = type THEN Append(g[s \ {Max(s)}], l[Max(s)].id) ELSE g[s \ {Max(s)}]
<1> DEFINE pass == CHOOSE g : g = [s \in SUBSET (DOMAIN l) |-> value(g, s)]
<1>1. IdsOf(l, type) = FoldLeft(LAMBDA out, m : IF m.type = type THEN Append(out, m.id) ELSE out, <<>>, l)
  BY DEF IdsOf
<1>2. IdsOf(l, type) =
        MapThenFoldSet(LAMBDA x, y : IF x.type = type THEN Append(y, x.id) ELSE y, <<>>, LAMBDA i : l[i], LAMBDA S : Max(S), DOMAIN l)
  BY <1>1 DEF FoldLeft
<1>3. IdsOf(l, type) = pass[DOMAIN l]
  BY <1>2 DEF MapThenFoldSet
<1>4. PICK g : IsPass(type, l, g, Len(l))
  BY PassExists
<1>5. ASSUME NEW f
      PROVE  [s \in SUBSET (DOMAIN l) |-> value(f, s)] =
             [s \in SUBSET (1..Len(l)) |->
                IF s = {} THEN <<>> ELSE StepOf(type, l, f[s \ {Max(s)}], Max(s))]
  BY DEF StepOf
<1>6. g = [s \in SUBSET (DOMAIN l) |-> value(g, s)]
  BY <1>4, <1>5 DEF IsPass
<1>7. pass = [s \in SUBSET (DOMAIN l) |-> value(pass, s)]
  <2> HIDE DEF value
  <2> QED
    BY <1>6
<1>8. IsPass(type, l, pass, Len(l))
  BY <1>5, <1>7 DEF IsPass
<1> HIDE DEF pass
<1> QED
  BY <1>3, <1>8, PassSteps

(***************************************************************************)
(* What a conversion makes of one message more.                            *)
(***************************************************************************)

\* A list with one element more goes through the same steps.
LEMMA OneMore ==
  ASSUME NEW rule, NEW T, NEW f \in Seq(T), NEW m \in T, NEW g, NEW h,
         GoesThrough(rule, f, g), GoesThrough(rule, Append(f, m), h)
  PROVE  h[Len(f) + 1] = StepOf(rule, Append(f, m), g[Len(f)], Len(f) + 1)
<1> DEFINE l == Append(f, m)
           n == Len(f)
<1>1. n \in Nat /\ Len(l) = n + 1 /\ \A i \in 1..n : l[i] = f[i]
  OBVIOUS
<1> DEFINE same == {k \in 0..n : g[k] = h[k]}
<1>2. 0 \in same
  BY <1>1 DEF GoesThrough
<1>3. ASSUME NEW k \in 0..(n - 1), k \in same PROVE k + 1 \in same
  <2>1. k + 1 \in 1..n /\ k + 1 \in 1..Len(l) /\ (k + 1) - 1 = k /\ k + 1 \in 0..n
    BY <1>1
  <2>2. l[k + 1] = f[k + 1]
    BY <1>1, <2>1
  <2>3. g[k + 1] = StepOf(rule, f, g[k], k + 1) /\ h[k + 1] = StepOf(rule, l, h[k], k + 1)
    BY <2>1 DEF GoesThrough
  <2>4. StepOf(rule, f, g[k], k + 1) = StepOf(rule, l, g[k], k + 1)
    BY <2>2 DEF StepOf
  <2> QED
    BY <1>3, <2>1, <2>3, <2>4
<1>4. same = 0..n
  <2>1. same \in SUBSET (0..n)
    OBVIOUS
  <2> HIDE DEF same, n
  <2> QED
    BY <1>1, <1>2, <1>3, <2>1, Induction
<1>5. g[n] = h[n]
  <2>1. n \in same
    BY <1>1, <1>4
  <2> QED
    BY <2>1
<1>6. n + 1 \in 1..Len(l) /\ (n + 1) - 1 = n
  BY <1>1
<1>7. h[n + 1] = StepOf(rule, l, h[n], n + 1)
  BY <1>6 DEF GoesThrough
<1> QED
  BY <1>5, <1>7

LEMMA AppendGives ==
  ASSUME NEW T, NEW f \in Seq(T), NEW m \in T
  PROVE  /\ DOMAIN f = 1..Len(f) /\ Len(f) \in Nat
         /\ DOMAIN Append(f, m) = 1..Len(Append(f, m)) /\ Len(Append(f, m)) = Len(f) + 1
         /\ Append(f, m)[Len(f) + 1] = m
  OBVIOUS

LEMMA AnthropicOneMore ==
  ASSUME NEW T, NEW f \in Seq(T), NEW m \in T
  PROVE  ToAnthropic(Append(f, m)) = AnthropicAdd(ToAnthropic(f), m)
<1>1. PICK g : GoesThrough("anthropic", f, g) /\ ToAnthropic(f) = g[Len(f)]
  BY AppendGives, AnthropicSteps
<1>2. DOMAIN Append(f, m) = 1..Len(Append(f, m)) /\ Len(Append(f, m)) \in Nat
  BY AppendGives
<1>3. PICK h : GoesThrough("anthropic", Append(f, m), h) /\ ToAnthropic(Append(f, m)) = h[Len(Append(f, m))]
  BY <1>2, AnthropicSteps, Zenon
<1>4. h[Len(f) + 1] = StepOf("anthropic", Append(f, m), g[Len(f)], Len(f) + 1)
  BY <1>1, <1>3, OneMore
<1> QED
  BY <1>1, <1>3, <1>4, AppendGives DEF StepOf

LEMMA ResponsesOneMore ==
  ASSUME NEW T, NEW f \in Seq(T), NEW m \in T
  PROVE  ToResponses(Append(f, m)) = ToResponses(f) \o ResponsesItems(m)
<1>1. PICK g : GoesThrough("responses", f, g) /\ ToResponses(f) = g[Len(f)]
  BY AppendGives, ResponsesSteps
<1>2. DOMAIN Append(f, m) = 1..Len(Append(f, m)) /\ Len(Append(f, m)) \in Nat
  BY AppendGives
<1>3. PICK h : GoesThrough("responses", Append(f, m), h) /\ ToResponses(Append(f, m)) = h[Len(Append(f, m))]
  BY <1>2, ResponsesSteps, Zenon
<1>4. h[Len(f) + 1] = StepOf("responses", Append(f, m), g[Len(f)], Len(f) + 1)
  BY <1>1, <1>3, OneMore
<1> QED
  BY <1>1, <1>3, <1>4, AppendGives, ZenonT(60) DEF StepOf

Types == {"function_call", "function_call_output"}

LEMMA IdsOneMore ==
  ASSUME NEW T, NEW f \in Seq(T), NEW m \in T, NEW type \in Types
  PROVE  IdsOf(Append(f, m), type) = IF m.type = type THEN Append(IdsOf(f, type), m.id) ELSE IdsOf(f, type)
<1>0. type \notin {"anthropic", "responses"}
  BY DEF Types
<1>1. PICK g : GoesThrough(type, f, g) /\ IdsOf(f, type) = g[Len(f)]
  BY <1>0, AppendGives, IdsSteps
<1>2. DOMAIN Append(f, m) = 1..Len(Append(f, m)) /\ Len(Append(f, m)) \in Nat
  BY AppendGives
<1>3. PICK h : GoesThrough(type, Append(f, m), h) /\ IdsOf(Append(f, m), type) = h[Len(Append(f, m))]
  BY <1>0, <1>2, IdsSteps, Zenon
<1>4. h[Len(f) + 1] = StepOf(type, Append(f, m), g[Len(f)], Len(f) + 1)
  BY <1>1, <1>3, OneMore
<1> QED
  BY <1>0, <1>1, <1>3, <1>4, AppendGives DEF StepOf

LEMMA NothingConverted ==
  /\ ToAnthropic(<<>>) = <<>> /\ ToResponses(<<>>) = <<>>
  /\ \A type \in Types : IdsOf(<<>>, type) = <<>>
<1>1. DOMAIN <<>> = 1..Len(<<>>) /\ Len(<<>>) \in Nat /\ Len(<<>>) = 0
  OBVIOUS
<1>2. \A type \in Types : type \notin {"anthropic", "responses"}
  BY DEF Types
<1>3. ToAnthropic(<<>>) = <<>>
  BY <1>1, AnthropicSteps DEF GoesThrough
<1>4. ToResponses(<<>>) = <<>>
  BY <1>1, ResponsesSteps DEF GoesThrough
<1>5. \A type \in Types : IdsOf(<<>>, type) = <<>>
  BY <1>1, <1>2, IdsSteps DEF GoesThrough
<1> QED
  BY <1>3, <1>4, <1>5

(***************************************************************************)
(* The ids of the items.                                                   *)
(***************************************************************************)
Item == [type : {"message", "function_call", "function_call_output"}, id : Nat]

\* A prefix of t with one element more.
LEMMA PrefixGrows ==
  ASSUME NEW T, NEW t \in Seq(T), NEW k \in 0..(Len(t) - 1)
  PROVE  /\ SubSeq(t, 1, k) \in Seq(T) /\ t[k + 1] \in T
         /\ SubSeq(t, 1, k + 1) = Append(SubSeq(t, 1, k), t[k + 1])
<1>1. Len(t) \in Nat /\ k \in Nat /\ k + 1 \in 1..Len(t) /\ 1 \in 1..Len(t) /\ k + 1 \in 1..Len(t)
  OBVIOUS
<1>2. \A i \in 1..k : t[i] \in T
  BY <1>1
<1>3. SubSeq(t, 1, k) \in Seq(T)
  BY <1>1, <1>2, SubSeqProperties
<1>4. SubSeq(t, 1, k + 1) = SubSeq(t, 1, k + 1 - 1) \o <<t[k + 1]>>
  BY <1>1, SubSeqRecursiveSecond
<1>5. k + 1 - 1 = k /\ t[k + 1] \in T
  BY <1>1
<1>6. SubSeq(t, 1, k) \o <<t[k + 1]>> = Append(SubSeq(t, 1, k), t[k + 1])
  BY <1>3, <1>5
<1> QED
  BY <1>3, <1>4, <1>5, <1>6

\* What holds of the empty list and of a list with one element more whenever it
\* holds of the list.
LEMMA ListInduction ==
  ASSUME NEW T, NEW Q \in SUBSET Seq(T), <<>> \in Q, \A q \in Q : \A x \in T : Append(q, x) \in Q
  PROVE  Q = Seq(T)
<1> SUFFICES ASSUME NEW t \in Seq(T) PROVE t \in Q
  OBVIOUS
<1> DEFINE good == {k \in 0..Len(t) : SubSeq(t, 1, k) \in Q}
<1>1. Len(t) \in Nat /\ SubSeq(t, 1, 0) = <<>>
  BY SubSeqEmpty
<1>2. 0 \in good
  <2>1. SubSeq(t, 1, 0) \in Q
    BY <1>1, Zenon
  <2>2. 0 \in 0..Len(t)
    BY <1>1
  <2> QED
    BY <2>1, <2>2
<1>3. ASSUME NEW k \in 0..(Len(t) - 1), k \in good PROVE k + 1 \in good
  <2>1. t[k + 1] \in T /\ SubSeq(t, 1, k + 1) = Append(SubSeq(t, 1, k), t[k + 1])
    BY PrefixGrows
  <2>2. SubSeq(t, 1, k) \in Q /\ k + 1 \in 0..Len(t)
    BY <1>1, <1>3
  <2>3. Append(SubSeq(t, 1, k), t[k + 1]) \in Q
    BY <2>1, <2>2, Zenon
  <2>4. SubSeq(t, 1, k + 1) \in Q
    BY <2>1, <2>3, Zenon
  <2> QED
    BY <2>2, <2>4
<1>4. good = 0..Len(t)
  <2>1. good \in SUBSET (0..Len(t))
    OBVIOUS
  <2> HIDE DEF good
  <2> QED
    BY <1>1, <1>2, <1>3, <2>1, Induction
<1>5. Len(t) \in good
  BY <1>1, <1>4, SMTT(30)
<1> QED
  BY <1>5, SubSeqFull

LEMMA JoinsAssociate ==
  ASSUME NEW r \in Seq(Nat), NEW u \in Seq(Nat), NEW v \in Seq(Nat)
  PROVE  r \o (u \o v) = (r \o u) \o v
<1> DEFINE lhs == r \o (u \o v)
           rhs == (r \o u) \o v
<1>1. lhs \in Seq(Nat) /\ rhs \in Seq(Nat)
  OBVIOUS
<1>2. Len(lhs) = Len(rhs)
  OBVIOUS
<1>3. \A i \in 1..Len(lhs) : lhs[i] = rhs[i]
  OBVIOUS
<1> HIDE DEF lhs, rhs
<1>4. lhs = rhs
  BY <1>1, <1>2, <1>3, SeqEqual, Zenon
<1> QED
  BY <1>4, Zenon DEF lhs, rhs

LEMMA IdsTyped ==
  ASSUME NEW type \in Types
  PROVE  \A t \in Seq(Item) : IdsOf(t, type) \in Seq(Nat)
<1> DEFINE Q == {t \in Seq(Item) : IdsOf(t, type) \in Seq(Nat)}
<1>1. <<>> \in Q
  <2>1. IdsOf(<<>>, type) = <<>>
    BY NothingConverted, Zenon
  <2>2. <<>> \in Seq(Nat) /\ <<>> \in Seq(Item)
    OBVIOUS
  <2> QED
    BY <2>1, <2>2, Zenon
<1>2. ASSUME NEW q \in Q, NEW x \in Item PROVE Append(q, x) \in Q
  <2>1. q \in Seq(Item) /\ IdsOf(q, type) \in Seq(Nat) /\ Append(q, x) \in Seq(Item)
    OBVIOUS
  <2>2. x.id \in Nat
    BY DEF Item
  <2>3. IdsOf(Append(q, x), type) = IF x.type = type THEN Append(IdsOf(q, type), x.id)
                                   ELSE IdsOf(q, type)
    BY <2>1, IdsOneMore, Zenon
  <2>4. Append(IdsOf(q, type), x.id) \in Seq(Nat)
    BY <2>1, <2>2
  <2>5. IdsOf(Append(q, x), type) \in Seq(Nat)
    BY <2>1, <2>3, <2>4, Zenon
  <2> QED
    BY <2>1, <2>5
<1>3. Q = Seq(Item)
  <2>1. Q \in SUBSET Seq(Item)
    OBVIOUS
  <2> HIDE DEF Q
  <2> QED
    BY <1>1, <1>2, <2>1, ListInduction
<1> QED
  BY <1>3

LEMMA IdsJoin ==
  ASSUME NEW s \in Seq(Item), NEW type \in Types
  PROVE  \A t \in Seq(Item) : IdsOf(s \o t, type) = IdsOf(s, type) \o IdsOf(t, type)
<1> DEFINE Q == {t \in Seq(Item) : IdsOf(s \o t, type) = IdsOf(s, type) \o IdsOf(t, type)}
<1>0. IdsOf(s, type) \in Seq(Nat)
  BY IdsTyped
<1>1. <<>> \in Q
  <2>1. IdsOf(<<>>, type) = <<>>
    BY NothingConverted, Zenon
  <2>2. s \o <<>> = s /\ IdsOf(s, type) \o <<>> = IdsOf(s, type)
    BY <1>0
  <2>3. IdsOf(s \o <<>>, type) = IdsOf(s, type) \o IdsOf(<<>>, type)
    BY <2>1, <2>2, Zenon
  <2>4. <<>> \in Seq(Item)
    OBVIOUS
  <2> QED
    BY <2>3, <2>4, Zenon
<1>2. ASSUME NEW q \in Q, NEW x \in Item PROVE Append(q, x) \in Q
  <2>1. q \in Seq(Item) /\ Append(q, x) \in Seq(Item) /\ s \o q \in Seq(Item)
        /\ s \o Append(q, x) = Append(s \o q, x)
    OBVIOUS
  <2>2. x.id \in Nat /\ IdsOf(q, type) \in Seq(Nat) /\ IdsOf(s \o q, type) = IdsOf(s, type) \o IdsOf(q, type)
    <3>1. x.id \in Nat
      BY DEF Item
    <3> QED
      BY <2>1, <3>1, IdsTyped
  <2>3. /\ IdsOf(Append(q, x), type) =
             IF x.type = type THEN Append(IdsOf(q, type), x.id) ELSE IdsOf(q, type)
        /\ IdsOf(Append(s \o q, x), type) =
             IF x.type = type THEN Append(IdsOf(s \o q, type), x.id) ELSE IdsOf(s \o q, type)
    BY <2>1, IdsOneMore, Zenon
  <2>4. ASSUME NEW a \in Seq(Nat), NEW b \in Seq(Nat), NEW i \in Nat
        PROVE  Append(a \o b, i) = a \o Append(b, i)
    <3>1. (a \o b) \o <<i>> = a \o (b \o <<i>>)
      <4>1. <<i>> \in Seq(Nat)
        OBVIOUS
      <4> QED
        BY <4>1, JoinsAssociate, Zenon
    <3>2. ASSUME NEW e \in Seq(Nat) PROVE Append(e, i) = e \o <<i>>
      OBVIOUS
    <3>3. Append(a \o b, i) = (a \o b) \o <<i>> /\ Append(b, i) = b \o <<i>>
      <4>1. a \o b \in Seq(Nat)
        OBVIOUS
      <4> QED
        BY <3>2, <4>1, Zenon
    <3> QED
      BY <3>1, <3>3, Zenon
  <2>5. Append(IdsOf(s, type) \o IdsOf(q, type), x.id) = IdsOf(s, type) \o Append(IdsOf(q, type), x.id)
    BY <1>0, <2>2, <2>4, Zenon
  <2>6. CASE x.type = type
    <3>1. IdsOf(s \o Append(q, x), type) = IdsOf(s, type) \o IdsOf(Append(q, x), type)
      BY <2>1, <2>2, <2>3, <2>5, <2>6, Zenon
    <3> QED
      BY <2>1, <3>1, Zenon
  <2>7. CASE x.type # type
    <3>1. IdsOf(s \o Append(q, x), type) = IdsOf(s, type) \o IdsOf(Append(q, x), type)
      BY <2>1, <2>2, <2>3, <2>7, Zenon
    <3> QED
      BY <2>1, <3>1, Zenon
  <2> QED
    BY <2>6, <2>7
<1>3. Q = Seq(Item)
  <2>1. Q \in SUBSET Seq(Item)
    OBVIOUS
  <2> HIDE DEF Q
  <2> QED
    BY <1>1, <1>2, <2>1, ListInduction
<1> QED
  BY <1>3

Calls(c) == [k \in DOMAIN c |-> [type |-> "function_call", id |-> c[k]]]

LEMMA IdsOfCalls ==
  /\ \A c \in Seq(Nat) : Calls(c) \in Seq(Item)
  /\ \A c \in Seq(Nat) : /\ IdsOf(Calls(c), "function_call") = c
                         /\ IdsOf(Calls(c), "function_call_output") = <<>>
<1>1. ASSUME NEW c \in Seq(Nat) PROVE Calls(c) \in Seq(Item)
  <2>1. DOMAIN c = 1..Len(c) /\ Len(c) \in Nat /\ \A k \in 1..Len(c) : c[k] \in Nat
    OBVIOUS
  <2>2. \A i \in Nat : [type |-> "function_call", id |-> i] \in Item
    BY DEF Item
  <2> DEFINE call(i) == [type |-> "function_call", id |-> i]
  <2>3. \A k \in 1..Len(c) : call(c[k]) \in Item
    BY <2>1, <2>2
  <2>4. Calls(c) = [k \in 1..Len(c) |-> call(c[k])]
    BY <2>1 DEF Calls
  <2> HIDE DEF call
  <2> QED
    BY <2>1, <2>3, <2>4
<1> DEFINE Q == {c \in Seq(Nat) : /\ IdsOf(Calls(c), "function_call") = c
                                 /\ IdsOf(Calls(c), "function_call_output") = <<>>}
<1>2. <<>> \in Q
  <2>1. Calls(<<>>) = <<>> /\ <<>> \in Seq(Nat)
    BY DEF Calls
  <2>2. "function_call" \in Types /\ "function_call_output" \in Types
    BY DEF Types
  <2>3. IdsOf(<<>>, "function_call") = <<>> /\ IdsOf(<<>>, "function_call_output") = <<>>
    BY <2>2, NothingConverted, Zenon
  <2> QED
    BY <2>1, <2>3, Zenon
<1>3. ASSUME NEW q \in Q, NEW i \in Nat PROVE Append(q, i) \in Q
  <2> DEFINE x == [type |-> "function_call", id |-> i]
  <2>1. q \in Seq(Nat) /\ Append(q, i) \in Seq(Nat) /\ Calls(q) \in Seq(Item)
    BY <1>1
  <2>2. Calls(Append(q, i)) = Append(Calls(q), x)
    <3>1. Len(Append(q, i)) = Len(q) + 1 /\ Len(q) \in Nat /\ DOMAIN q = 1..Len(q)
          /\ DOMAIN Append(q, i) = 1..(Len(q) + 1)
      BY <2>1
    <3>2. Calls(Append(q, i)) = [k \in 1..(Len(q) + 1) |-> [type |-> "function_call", id |-> Append(q, i)[k]]]
      BY <3>1 DEF Calls
    <3>3. Calls(q) = [k \in 1..Len(q) |-> [type |-> "function_call", id |-> q[k]]]
      BY <3>1 DEF Calls
    <3>4. Append(Calls(q), x) = [k \in 1..(Len(q) + 1) |-> IF k = Len(q) + 1 THEN x ELSE Calls(q)[k]]
      <4> DEFINE c == Calls(q)
                 longer == [k \in 1..(Len(q) + 1) |-> IF k = Len(q) + 1 THEN x ELSE c[k]]
      <4>1. Len(c) = Len(q) /\ c \in Seq(Item) /\ x \in Item
        BY <2>1, <3>1, <3>3 DEF Item
      <4> HIDE DEF x, c
      <4>2. longer \in Seq(Item) /\ Len(longer) = Len(q) + 1
        <5>1. \A k \in 1..(Len(q) + 1) : (IF k = Len(q) + 1 THEN x ELSE c[k]) \in Item
          BY <3>1, <4>1
        <5> QED
          BY <3>1, <5>1
      <4>3. Append(c, x) \in Seq(Item) /\ Len(Append(c, x)) = Len(q) + 1
            /\ \A k \in 1..(Len(q) + 1) : Append(c, x)[k] = longer[k]
        BY <3>1, <4>1
      <4>4. Append(c, x) = longer
        <5> HIDE DEF longer
        <5> QED
          BY <4>2, <4>3, SeqEqual
      <4> QED
        BY <4>4 DEF c
    <3>5. \A k \in 1..(Len(q) + 1) :
            [type |-> "function_call", id |-> Append(q, i)[k]] = IF k = Len(q) + 1 THEN x ELSE Calls(q)[k]
      BY <2>1, <3>1, <3>3
    <3> QED
      BY <3>2, <3>4, <3>5
  <2>3. x \in Item /\ x.type = "function_call" /\ x.id = i
    BY DEF Item
  <2>4. "function_call" # "function_call_output" /\ "function_call" \in Types
        /\ "function_call_output" \in Types
    BY DEF Types
  <2>5. /\ IdsOf(Append(Calls(q), x), "function_call") = Append(IdsOf(Calls(q), "function_call"), x.id)
        /\ IdsOf(Append(Calls(q), x), "function_call_output") = IdsOf(Calls(q), "function_call_output")
    <3> HIDE DEF x
    <3> QED
      BY <2>1, <2>3, <2>4, IdsOneMore, Zenon
  <2>6. IdsOf(Calls(q), "function_call") = q /\ IdsOf(Calls(q), "function_call_output") = <<>>
    OBVIOUS
  <2> HIDE DEF x
  <2> QED
    BY <2>1, <2>2, <2>3, <2>5, <2>6, Zenon
<1>4. Q = Seq(Nat)
  <2>1. Q \in SUBSET Seq(Nat)
    OBVIOUS
  <2> HIDE DEF Q
  <2> QED
    BY <1>2, <1>3, <2>1, ListInduction
<1> QED
  BY <1>1, <1>4

(***************************************************************************)
(* The Anthropic transcript.                                               *)
(***************************************************************************)
Block == [role : {"user", "assistant"}, uses : Seq(Nat), results : Seq(Nat)]
Asked(c) == [role |-> "assistant", uses |-> c, results |-> <<>>]
Told(r) == [role |-> "user", uses |-> <<>>, results |-> r]

\* May a message stand at position i?
Fits(x, i) ==
  IF i % 2 = 1 THEN x.role = "user" /\ x.uses = <<>>
  ELSE x.role = "assistant" /\ x.results = <<>>

\* A transcript that begins with the user and alternates.
Turns(a) == a \in Seq(Block) /\ Len(a) >= 1 /\ \A i \in 1..Len(a) : Fits(a[i], i)

\* Of the first n messages each answers the one before.
AnsweredTo(a, n) == \A i \in 1..(n - 1) : a[i + 1].results = a[i].uses

\* It is the model's turn.
Open(a) == Turns(a) /\ Len(a) % 2 = 1 /\ AnsweredTo(a, Len(a))

\* The last reply's calls p are still to be answered.
Owing(a, p) ==
  /\ Turns(a) /\ p # <<>>
  /\ \/ /\ Len(a) % 2 = 0
        /\ AnsweredTo(a, Len(a))
        /\ a[Len(a)].uses = p
     \/ /\ Len(a) % 2 = 1 /\ Len(a) > 1
        /\ AnsweredTo(a, Len(a) - 1)
        /\ a[Len(a)].results # <<>>
        /\ a[Len(a) - 1].uses = a[Len(a)].results \o p

LEMMA OneBlockMore ==
  ASSUME NEW a, Turns(a), NEW x \in Block, Fits(x, Len(a) + 1)
  PROVE  /\ Turns(Append(a, x))
         /\ Len(Append(a, x)) = Len(a) + 1 /\ Append(a, x)[Len(a) + 1] = x
         /\ \A i \in 1..Len(a) : Append(a, x)[i] = a[i]
         /\ AnsweredTo(a, Len(a)) => AnsweredTo(Append(a, x), Len(a))
<1>1. a \in Seq(Block) /\ Len(a) \in Nat /\ Len(a) >= 1 /\ \A i \in 1..Len(a) : Fits(a[i], i)
  BY DEF Turns
<1>2. /\ Append(a, x) \in Seq(Block) /\ Len(Append(a, x)) = Len(a) + 1
      /\ Append(a, x)[Len(a) + 1] = x
      /\ \A i \in 1..Len(a) : Append(a, x)[i] = a[i]
  BY <1>1
<1> DEFINE b == Append(a, x)
<1> HIDE DEF b
<1>3. ASSUME NEW i \in 1..Len(b) PROVE Fits(b[i], i)
  <2>1. CASE i \in 1..Len(a)
    <3>1. b[i] = a[i] /\ Fits(a[i], i)
      BY <1>1, <1>2, <2>1 DEF b
    <3> QED
      BY <3>1, Zenon
  <2>2. CASE i \notin 1..Len(a)
    <3>1. i = Len(a) + 1
      BY <1>1, <1>2, <2>2 DEF b
    <3>2. b[i] = x
      BY <1>2, <3>1 DEF b
    <3> QED
      BY <3>1, <3>2, Zenon
  <2> QED
    BY <2>1, <2>2
<1>4. Turns(b)
  BY <1>1, <1>2, <1>3 DEF Turns, b
<1>5. ASSUME AnsweredTo(a, Len(a)) PROVE AnsweredTo(b, Len(a))
  <2>1. ASSUME NEW i \in 1..(Len(a) - 1) PROVE b[i + 1].results = b[i].uses
    <3>1. i \in 1..Len(a) /\ i + 1 \in 1..Len(a)
      BY <1>1
    <3>2. b[i] = a[i] /\ b[i + 1] = a[i + 1]
      BY <1>2, <3>1 DEF b
    <3> QED
      BY <1>5, <3>2 DEF AnsweredTo
  <2> QED
    BY <2>1 DEF AnsweredTo
<1> QED
  BY <1>2, <1>4, <1>5 DEF b

LEMMA Parity ==
  \A n \in Nat : /\ n % 2 \in {0, 1}
                 /\ n % 2 = 1 => (n + 1) % 2 = 0 /\ (n + 2) % 2 = 1
                 /\ n % 2 = 0 => (n + 1) % 2 = 1
  OBVIOUS

LEMMA ModelAsks ==
  ASSUME NEW a, Open(a), NEW c \in Seq(Nat)
  PROVE  /\ Turns(Append(a, Asked(c))) /\ Len(Append(a, Asked(c))) % 2 = 0
         /\ AnsweredTo(Append(a, Asked(c)), Len(a) + 1)
         /\ Len(Append(a, Asked(c))) = Len(a) + 1
         /\ Append(a, Asked(c))[Len(a) + 1] = Asked(c)
<1> DEFINE b == Append(a, Asked(c))
<1>1. Len(a) \in Nat /\ Len(a) >= 1 /\ Len(a) % 2 = 1 /\ (Len(a) + 1) % 2 = 0 /\ Turns(a)
      /\ AnsweredTo(a, Len(a)) /\ Fits(a[Len(a)], Len(a))
  <2>1. Turns(a) /\ Len(a) % 2 = 1 /\ AnsweredTo(a, Len(a))
    BY DEF Open
  <2>2. Len(a) \in Nat /\ Len(a) >= 1 /\ \A i \in 1..Len(a) : Fits(a[i], i)
    BY <2>1 DEF Turns
  <2>3. Len(a) \in 1..Len(a)
    BY <2>2
  <2> QED
    BY <2>1, <2>2, <2>3, Parity
<1>2. Asked(c) \in Block /\ Asked(c).role = "assistant" /\ Asked(c).results = <<>>
  BY DEF Asked, Block
<1>3. Fits(Asked(c), Len(a) + 1)
  BY <1>1, <1>2 DEF Fits
<1>4. /\ Turns(b) /\ Len(b) = Len(a) + 1 /\ b[Len(a) + 1] = Asked(c)
      /\ \A i \in 1..Len(a) : b[i] = a[i]
      /\ AnsweredTo(b, Len(a))
  BY <1>1, <1>2, <1>3, OneBlockMore
<1> HIDE DEF b
<1>5. a[Len(a)].uses = <<>>
  BY <1>1 DEF Fits
<1>6. b[Len(a) + 1].results = b[Len(a)].uses
  BY <1>1, <1>2, <1>4, <1>5
<1>7. AnsweredTo(b, Len(a) + 1)
  <2>1. ASSUME NEW i \in 1..((Len(a) + 1) - 1) PROVE b[i + 1].results = b[i].uses
    <3>1. CASE i = Len(a)
      BY <1>6, <3>1
    <3>2. CASE i # Len(a)
      <4>1. i \in 1..(Len(a) - 1)
        BY <1>1, <3>2
      <4> QED
        BY <1>4, <4>1 DEF AnsweredTo
    <3> QED
      BY <3>1, <3>2
  <2> QED
    BY <2>1 DEF AnsweredTo
<1> QED
  BY <1>1, <1>4, <1>7 DEF b

\* A user message that answers what the model asked last hands the turn back.
LEMMA UserAnswers ==
  ASSUME NEW a, Turns(a), Len(a) % 2 = 0, AnsweredTo(a, Len(a)),
         NEW r \in Seq(Nat)
  PROVE  LET b == Append(a, Told(r))
         IN  /\ Turns(b) /\ Len(b) = Len(a) + 1 /\ Len(b) % 2 = 1
             /\ b[Len(b)] = Told(r) /\ b[Len(a)] = a[Len(a)]
             /\ AnsweredTo(b, Len(a))
             /\ a[Len(a)].uses = r => Open(b)
<1> DEFINE b == Append(a, Told(r))
<1>1. Len(a) \in Nat /\ Len(a) >= 1 /\ (Len(a) + 1) % 2 = 1 /\ Len(a) \in 1..Len(a)
  BY Parity DEF Turns
<1>2. Told(r) \in Block /\ Told(r).role = "user" /\ Told(r).uses = <<>> /\ Told(r).results = r
  BY DEF Told, Block
<1>3. Fits(Told(r), Len(a) + 1)
  BY <1>1, <1>2 DEF Fits
<1>4. /\ Turns(b) /\ Len(b) = Len(a) + 1 /\ b[Len(a) + 1] = Told(r)
      /\ \A i \in 1..Len(a) : b[i] = a[i]
      /\ AnsweredTo(b, Len(a))
  BY <1>2, <1>3, OneBlockMore
<1> HIDE DEF b
<1>5. Len(b) % 2 = 1 /\ b[Len(b)] = Told(r) /\ b[Len(a)] = a[Len(a)]
  BY <1>1, <1>4
<1>6. ASSUME a[Len(a)].uses = r PROVE Open(b)
  <2>1. ASSUME NEW i \in 1..(Len(b) - 1) PROVE b[i + 1].results = b[i].uses
    <3>1. CASE i = Len(a)
      BY <1>2, <1>4, <1>5, <1>6, <3>1
    <3>2. CASE i # Len(a)
      <4>1. i \in 1..(Len(a) - 1)
        BY <1>1, <1>4, <3>2
      <4> QED
        BY <1>4, <4>1 DEF AnsweredTo
    <3> QED
      BY <3>1, <3>2
  <2> QED
    BY <1>4, <1>5, <2>1 DEF Open, AnsweredTo
<1> QED
  BY <1>4, <1>5, <1>6 DEF b

\* A message that adds a result to the last one.
LEMMA LastReplaced ==
  ASSUME NEW T, NEW a \in Seq(T), Len(a) >= 1, NEW y \in T
  PROVE  LET b == Front(a) \o <<y>>
         IN  /\ b \in Seq(T) /\ Len(b) = Len(a) /\ b[Len(a)] = y
             /\ \A i \in 1..(Len(a) - 1) : b[i] = a[i]
<1> DEFINE n == Len(a)
<1>1. n \in Nat /\ n >= 1 /\ \A i \in 1..(n - 1) : a[i] \in T
  OBVIOUS
<1>2. Front(a) = SubSeq(a, 1, n - 1)
  BY DEF Front
<1>3. Front(a) \in Seq(T) /\ Len(Front(a)) = n - 1 /\ \A i \in 1..(n - 1) : Front(a)[i] = a[i]
  <2>1. 1 \in 1..(n + 1) /\ n - 1 \in 0..n /\ n - 1 \in Nat
    BY <1>1
  <2>2. \A i \in 1..(n - 1) : a[i] \in T
    BY <1>1
  <2> DEFINE k == n - 1
  <2>3. k \in 0..Len(a) /\ k \in Nat
    BY <1>1
  <2> HIDE DEF k
  <2>4. /\ SubSeq(a, 1, k) \in Seq(T)
        /\ Len(SubSeq(a, 1, k)) = k
        /\ \A i \in 1..k : SubSeq(a, 1, k)[i] = a[i]
    BY <2>3
  <2> QED
    BY <1>2, <2>4, Zenon DEF k
<1> QED
  BY <1>1, <1>3

LEMMA LastBlock ==
  ASSUME NEW T, NEW a \in Seq(T)
  PROVE  Last(a) = a[Len(a)]
BY DEF Last

LEMMA AppendIsJoin ==
  ASSUME NEW r \in Seq(Nat), NEW i \in Nat
  PROVE  Append(r, i) \in Seq(Nat) /\ Append(r, i) # <<>> /\ Append(r, i) = r \o <<i>>
<1>1. Append(r, i) \in Seq(Nat) /\ Append(r, i) = r \o <<i>>
  OBVIOUS
<1>2. Len(Append(r, i)) = Len(r) + 1 /\ Len(r) \in Nat /\ Len(<<>>) = 0
  OBVIOUS
<1>3. Append(r, i) # <<>>
  BY <1>2
<1> QED
  BY <1>1, <1>3

\* What a list of ids owes less its first.
LEMMA FirstAndRest ==
  ASSUME NEW p \in Seq(Nat), p # <<>>
  PROVE  /\ Head(p) \in Nat /\ Tail(p) \in Seq(Nat) /\ <<Head(p)>> \in Seq(Nat)
         /\ p = <<Head(p)>> \o Tail(p)
         /\ <<Head(p)>> # <<>>
         /\ Tail(p) = <<>> => p = <<Head(p)>>
         /\ \A r \in Seq(Nat) : /\ Append(r, Head(p)) \in Seq(Nat) /\ Append(r, Head(p)) # <<>>
                                /\ r \o p = Append(r, Head(p)) \o Tail(p)
                                /\ Tail(p) = <<>> => r \o p = Append(r, Head(p))
<1>1. Head(p) \in Nat /\ Tail(p) \in Seq(Nat) /\ <<Head(p)>> \in Seq(Nat) /\ <<Head(p)>> # <<>>
  OBVIOUS
<1>2. p = <<Head(p)>> \o Tail(p)
  <2>1. Len(p) \in Nat \ {0}
    OBVIOUS
  <2>2. /\ <<Head(p)>> \o Tail(p) \in Seq(Nat)
        /\ Len(<<Head(p)>> \o Tail(p)) = Len(p)
        /\ \A i \in 1..Len(p) : (<<Head(p)>> \o Tail(p))[i] = p[i]
    BY <1>1, <2>1
  <2> QED
    BY <2>2, SeqEqual
<1>3. Tail(p) = <<>> => p = <<Head(p)>>
  <2>1. <<Head(p)>> \o <<>> = <<Head(p)>>
    BY <1>1
  <2> QED
    BY <1>2, <2>1, Zenon
<1>4. ASSUME NEW r \in Seq(Nat)
      PROVE  /\ Append(r, Head(p)) \in Seq(Nat) /\ Append(r, Head(p)) # <<>>
             /\ r \o p = Append(r, Head(p)) \o Tail(p)
             /\ Tail(p) = <<>> => r \o p = Append(r, Head(p))
  <2>1. Append(r, Head(p)) \in Seq(Nat) /\ Append(r, Head(p)) # <<>>
        /\ Append(r, Head(p)) = r \o <<Head(p)>>
    BY <1>1, AppendIsJoin, Zenon
  <2>2. r \o (<<Head(p)>> \o Tail(p)) = (r \o <<Head(p)>>) \o Tail(p)
    BY <1>1, JoinsAssociate, Zenon
  <2>3. r \o p = Append(r, Head(p)) \o Tail(p)
    BY <1>2, <2>1, <2>2, Zenon
  <2>4. ASSUME Tail(p) = <<>> PROVE r \o p = Append(r, Head(p))
    <3>1. Append(r, Head(p)) \o <<>> = Append(r, Head(p))
      BY <2>1
    <3> QED
      BY <2>3, <2>4, <3>1, Zenon
  <2> QED
    BY <2>1, <2>3, <2>4
<1> QED
  BY <1>1, <1>2, <1>3, <1>4

\* The result of the first call owed is answered where it belongs.
LEMMA ResultAnswers ==
  ASSUME NEW a, NEW p \in Seq(Nat), Owing(a, p)
  PROVE  LET b == AnthropicAdd(a, ToolResult(Head(p)))
         IN  IF Tail(p) = <<>> THEN Open(b) ELSE Owing(b, Tail(p))
<1> DEFINE m == ToolResult(Head(p))
<1>0. m.role = "tool" /\ m.answers = Head(p)
  BY DEF ToolResult
<1>1. Turns(a) /\ p # <<>> /\ a \in Seq(Block) /\ Len(a) \in Nat /\ Len(a) >= 1 /\ Last(a) = a[Len(a)]
      /\ Len(a) \in 1..Len(a) /\ Fits(a[Len(a)], Len(a)) /\ a[Len(a)] \in Block
  <2>1. Turns(a) /\ p # <<>>
    BY DEF Owing
  <2>2. a \in Seq(Block) /\ Len(a) \in Nat /\ Len(a) >= 1 /\ \A i \in 1..Len(a) : Fits(a[i], i)
    BY <2>1 DEF Turns
  <2>3. Len(a) \in 1..Len(a)
    BY <2>2
  <2>4. a[Len(a)] \in Block
    BY <2>2, <2>3
  <2> QED
    BY <2>1, <2>2, <2>3, <2>4, LastBlock
<1> HIDE DEF m
<1>2. CASE Len(a) % 2 = 0
  <2>1. AnsweredTo(a, Len(a)) /\ a[Len(a)].uses = p
    BY <1>2 DEF Owing
  <2>2. Last(a).results = <<>>
    BY <1>1, <1>2 DEF Fits
  <2> DEFINE b == Append(a, Told(<<Head(p)>>))
  <2>3. AnthropicAdd(a, m) = b
    BY <1>0, <2>2 DEF AnthropicAdd, Told
  <2>4. /\ Turns(b) /\ Len(b) = Len(a) + 1 /\ Len(b) % 2 = 1
        /\ b[Len(b)] = Told(<<Head(p)>>) /\ b[Len(a)] = a[Len(a)]
        /\ AnsweredTo(b, Len(a))
        /\ a[Len(a)].uses = <<Head(p)>> => Open(b)
    BY <1>1, <1>2, <2>1, UserAnswers, FirstAndRest
  <2> HIDE DEF b
  <2>5. CASE Tail(p) = <<>>
    <3>1. Open(b)
      BY <1>1, <2>1, <2>4, <2>5, FirstAndRest
    <3> QED
      BY <2>3, <2>5, <3>1, Zenon DEF m
  <2>6. CASE Tail(p) # <<>>
    <3>1. b[Len(b)].results = <<Head(p)>>
      BY <2>4 DEF Told
    <3>2. b[Len(b) - 1].uses = p /\ Len(b) > 1 /\ AnsweredTo(b, Len(b) - 1)
      BY <1>1, <2>1, <2>4
    <3>3. p = <<Head(p)>> \o Tail(p) /\ <<Head(p)>> # <<>>
      BY <1>1, FirstAndRest
    <3>4. b[Len(b)].results # <<>> /\ b[Len(b) - 1].uses = b[Len(b)].results \o Tail(p)
      BY <3>1, <3>2, <3>3, Zenon
    <3>5. Owing(b, Tail(p))
      BY <2>4, <2>6, <3>2, <3>4, Zenon DEF Owing
    <3> QED
      BY <2>3, <2>6, <3>5, Zenon DEF m
  <2> QED
    BY <2>5, <2>6
<1>3. CASE Len(a) % 2 = 1
  <2>1. /\ Len(a) > 1 /\ AnsweredTo(a, Len(a) - 1) /\ a[Len(a)].results # <<>>
        /\ a[Len(a) - 1].uses = a[Len(a)].results \o p
    BY <1>3 DEF Owing
  <2> DEFINE r == a[Len(a)].results
             y == Told(Append(r, Head(p)))
             b == Front(a) \o <<y>>
  <2>2. a[Len(a)].role = "user" /\ a[Len(a)].uses = <<>> /\ r \in Seq(Nat)
        /\ a[Len(a)] = [role |-> "user", uses |-> <<>>, results |-> r]
    BY <1>1, <1>3 DEF Fits, Block
  <2>3. AnthropicAdd(a, m) = b
    <3>1. [a[Len(a)] EXCEPT !.results = Append(@, m.answers)] = y
      <4>1. ASSUME NEW u, NEW v
            PROVE  [[role |-> "user", uses |-> <<>>, results |-> u] EXCEPT !.results = Append(@, v)]
                       = Told(Append(u, v))
        BY DEF Told
      <4> HIDE DEF r
      <4>2. [[role |-> "user", uses |-> <<>>, results |-> r] EXCEPT !.results = Append(@, m.answers)]
              = Told(Append(r, m.answers))
        BY <4>1
      <4> QED
        BY <1>0, <2>2, <4>2, Zenon
    <3>2. AnthropicAdd(a, m) = Front(a) \o <<[a[Len(a)] EXCEPT !.results = Append(@, m.answers)]>>
      <4>1. Last(a).results # <<>>
        BY <1>1, <2>1
      <4> QED
        BY <1>0, <1>1, <4>1, Zenon DEF AnthropicAdd
    <3> QED
      BY <3>1, <3>2, Zenon
  <2>4. y \in Block /\ y.role = "user" /\ y.uses = <<>> /\ y.results = Append(r, Head(p))
    <3>1. Append(r, Head(p)) \in Seq(Nat)
      BY <1>1, <2>2, FirstAndRest
    <3> HIDE DEF r
    <3> QED
      BY <3>1 DEF Told, Block
  <2>5. /\ b \in Seq(Block) /\ Len(b) = Len(a) /\ b[Len(a)] = y
        /\ \A i \in 1..(Len(a) - 1) : b[i] = a[i]
    <3>1. \A z \in Block : LET c == Front(a) \o <<z>>
                          IN  /\ c \in Seq(Block) /\ Len(c) = Len(a) /\ c[Len(a)] = z
                              /\ \A i \in 1..(Len(a) - 1) : c[i] = a[i]
      BY <1>1, LastReplaced, ZenonT(60)
    <3> HIDE DEF y
    <3> QED
      BY <2>4, <3>1
  <2> HIDE DEF b, y
  <2>6. Turns(b)
    <3>1. ASSUME NEW i \in 1..Len(b) PROVE Fits(b[i], i)
      <4>1. CASE i = Len(a)
        BY <1>3, <2>4, <2>5, <4>1 DEF Fits
      <4>2. CASE i # Len(a)
        <5>1. i \in 1..(Len(a) - 1) /\ i \in 1..Len(a)
          BY <1>1, <2>5, <4>2
        <5>2. b[i] = a[i] /\ Fits(a[i], i)
          BY <1>1, <2>5, <5>1 DEF Turns
        <5> QED
          BY <5>2, Zenon
      <4> QED
        BY <4>1, <4>2
    <3> QED
      BY <1>1, <2>5, <3>1 DEF Turns
  <2>7. AnsweredTo(b, Len(a) - 1)
    <3>1. ASSUME NEW i \in 1..((Len(a) - 1) - 1) PROVE b[i + 1].results = b[i].uses
      <4>1. i \in 1..(Len(a) - 1) /\ i + 1 \in 1..(Len(a) - 1)
        BY <1>1
      <4>2. b[i] = a[i] /\ b[i + 1] = a[i + 1]
        BY <2>5, <4>1
      <4> QED
        BY <2>1, <4>2 DEF AnsweredTo
    <3> QED
      BY <3>1 DEF AnsweredTo
  <2>8. Len(a) - 1 \in 1..(Len(a) - 1)
    BY <1>1, <2>1
  <2>9. b[Len(a) - 1].uses = r \o p
    BY <2>1, <2>5, <2>8
  <2>10. CASE Tail(p) = <<>>
    <3>1. b[Len(a)].results = b[Len(a) - 1].uses
      BY <1>1, <2>2, <2>4, <2>5, <2>9, <2>10, FirstAndRest
    <3>2. ASSUME NEW i \in 1..(Len(b) - 1) PROVE b[i + 1].results = b[i].uses
      <4>1. CASE i = Len(a) - 1
        <5>1. i + 1 = Len(a)
          BY <1>1, <4>1
        <5> QED
          BY <3>1, <4>1, <5>1, Zenon
      <4>2. CASE i # Len(a) - 1
        <5>1. i \in 1..((Len(a) - 1) - 1)
          BY <1>1, <2>5, <4>2
        <5> QED
          BY <2>7, <5>1 DEF AnsweredTo
      <4> QED
        BY <4>1, <4>2
    <3>3. Open(b)
      BY <1>3, <2>5, <2>6, <3>2 DEF Open, AnsweredTo
    <3> QED
      BY <2>3, <2>10, <3>3, Zenon DEF m
  <2>11. CASE Tail(p) # <<>>
    <3>1. b[Len(b)].results # <<>> /\ b[Len(b) - 1].uses = b[Len(b)].results \o Tail(p)
      <4>1. r \o p = Append(r, Head(p)) \o Tail(p) /\ Append(r, Head(p)) # <<>>
        BY <1>1, <2>2, FirstAndRest
      <4> QED
        BY <2>4, <2>5, <2>9, <4>1, Zenon
    <3>2. Owing(b, Tail(p))
      BY <1>3, <2>1, <2>5, <2>6, <2>7, <2>11, <3>1, Zenon DEF Owing
    <3> QED
      BY <2>3, <2>11, <3>2, Zenon DEF m
  <2> QED
    BY <2>10, <2>11
<1> QED
  BY <1>1, <1>2, <1>3, Parity

(***************************************************************************)
(* The inductive invariant.                                                *)
(***************************************************************************)

\* A chat() begins inside the budget; what it sends after is bounded by its
\* attempts, and every turn gives out at most MaxCalls ids.
LoopCounts ==
  /\ late > 0 => expired
  /\ stage = "request" => turn >= 1 /\ late < attempt
  /\ fresh <= (IF stage = "request" THEN turn - 1 ELSE turn) * MaxCalls

\* The Anthropic form of the transcript is whole between replies, and owes the
\* results still pending while the tools run.
AnthropicGrows ==
  /\ stage \in {"turn", "request"} => Open(ToAnthropic(messages)) /\ pending = <<>>
  /\ stage = "tools" => Owing(ToAnthropic(messages), pending)

\* So does its Responses form.
ResponsesGrow ==
  LET items == ToResponses(messages)
  IN  /\ items \in Seq(Item)
      /\ stage # "over" =>
           IdsOf(items, "function_call") = IdsOf(items, "function_call_output") \o pending

LoopInv ==
  /\ LoopTypeOK
  /\ OvershootIsOneChat
  /\ LoopCounts
  /\ AnthropicGrows
  /\ ResponsesGrow

LEMMA Products ==
  \A k, m, c \in Nat : /\ k * c \in Nat
                       /\ k <= m => k * c <= m * c
                       /\ (k + 1) * c = k * c + c
<1>1. ASSUME NEW k \in Nat, NEW m \in Nat, NEW c \in Nat PROVE k * c \in Nat /\ (k + 1) * c = k * c + c
  OBVIOUS
<1>2. ASSUME NEW k \in Nat, NEW m \in Nat, NEW c \in Nat, k <= m PROVE k * c <= m * c
  <2>1. PICK d \in Nat : m = k + d
    <3>1. m - k \in Nat /\ m = k + (m - k)
      BY <1>2
    <3> QED
      BY <3>1
  <2>2. m * c = k * c + d * c
    BY <2>1
  <2>3. d * c \in Nat /\ k * c \in Nat
    OBVIOUS
  <2> QED
    BY <2>2, <2>3
<1> QED
  BY <1>1, <1>2

LEMMA IdsAreNumbers ==
  /\ Ids \in SUBSET Nat /\ NoId \in Nat /\ MaxTurns * MaxCalls \in Nat
  /\ Seq(Ids) \in SUBSET Seq(Nat)
<1>1. MaxTurns \in Nat /\ MaxCalls \in Nat
  BY LoopAssumption
<1>2. MaxTurns * MaxCalls \in Nat
  BY <1>1, Products
<1>3. Ids \in SUBSET Nat /\ NoId \in Nat
  BY <1>1, <1>2 DEF Ids, NoId
<1>4. ASSUME NEW s \in Seq(Ids) PROVE s \in Seq(Nat)
  <2>1. Len(s) \in Nat /\ s \in [1..Len(s) -> Ids]
    OBVIOUS
  <2>2. s \in [1..Len(s) -> Nat]
    BY <1>3, <2>1
  <2> QED
    BY <2>1, <2>2
<1> QED
  BY <1>2, <1>3, <1>4

LEMMA IdOfOne ==
  ASSUME NEW x \in Item, NEW type \in Types
  PROVE  /\ <<x>> \in Seq(Item)
         /\ x.type = type => IdsOf(<<x>>, type) = <<x.id>>
         /\ x.type # type => IdsOf(<<x>>, type) = <<>>
<1>1. <<x>> = Append(<<>>, x) /\ <<>> \in Seq(Item) /\ <<x>> \in Seq(Item)
  OBVIOUS
<1>2. IdsOf(Append(<<>>, x), type) =
        IF x.type = type THEN Append(IdsOf(<<>>, type), x.id) ELSE IdsOf(<<>>, type)
  BY <1>1, IdsOneMore
<1>3. IdsOf(<<>>, type) = <<>>
  BY NothingConverted
<1>4. Append(<<>>, x.id) = <<x.id>>
  OBVIOUS
<1>5. IdsOf(<<x>>, type) = IF x.type = type THEN <<x.id>> ELSE <<>>
  BY <1>1, <1>2, <1>3, <1>4, Zenon
<1> QED
  BY <1>1, <1>5

LEMMA UserConverted ==
  /\ UserSays \in MessageType
  /\ \A a : AnthropicAdd(a, UserSays) = Append(a, Told(<<>>))
  /\ ResponsesItems(UserSays) \in Seq(Item)
  /\ \A type \in Types : IdsOf(ResponsesItems(UserSays), type) = <<>>
<1> DEFINE x == [type |-> "message", id |-> NoId]
<1>1. UserSays \in MessageType
  BY DEF UserSays, MessageType
<1>2. \A a : AnthropicAdd(a, UserSays) = Append(a, Told(<<>>))
  BY DEF UserSays, AnthropicAdd, Told
<1>3. ResponsesItems(UserSays) = <<x>>
  BY DEF UserSays, ResponsesItems
<1>4. x \in Item /\ \A type \in Types : x.type # type
  BY IdsAreNumbers DEF Item, Types
<1> HIDE DEF x
<1>5. <<>> \in Seq(Item) /\ <<x>> \in Seq(Item)
  BY <1>4
<1>6. ASSUME NEW type \in Types PROVE IdsOf(<<x>>, type) = <<>>
  BY <1>4, IdOfOne
<1> QED
  BY <1>1, <1>2, <1>3, <1>5, <1>6

LEMMA ResultConverted ==
  ASSUME NEW id \in Ids
  PROVE  /\ ToolResult(id) \in MessageType
         /\ ResponsesItems(ToolResult(id)) \in Seq(Item)
         /\ IdsOf(ResponsesItems(ToolResult(id)), "function_call") = <<>>
         /\ IdsOf(ResponsesItems(ToolResult(id)), "function_call_output") = <<id>>
<1> DEFINE x == [type |-> "function_call_output", id |-> id]
<1>1. ToolResult(id) \in MessageType
  BY DEF ToolResult, MessageType
<1>3. ResponsesItems(ToolResult(id)) = <<x>>
  BY DEF ToolResult, ResponsesItems
<1>4. x \in Item /\ x.type # "function_call" /\ x.type = "function_call_output" /\ x.id = id
  BY IdsAreNumbers DEF Item
<1> HIDE DEF x
<1>5. <<>> \in Seq(Item) /\ <<x>> \in Seq(Item)
  BY <1>4
<1>6. "function_call" \in Types /\ "function_call_output" \in Types
  BY DEF Types
<1>7. IdsOf(<<x>>, "function_call") = <<>> /\ IdsOf(<<x>>, "function_call_output") = <<id>>
  BY <1>4, <1>6, IdOfOne
<1> QED
  BY <1>1, <1>3, <1>5, <1>7

LEMMA ReplyConverted ==
  ASSUME NEW text \in BOOLEAN, NEW c \in Seq(Ids)
  PROVE  /\ Reply(text, c) \in MessageType
         /\ \A a : AnthropicAdd(a, Reply(text, c)) = Append(a, Asked(c))
         /\ ResponsesItems(Reply(text, c)) \in Seq(Item)
         /\ IdsOf(ResponsesItems(Reply(text, c)), "function_call") = c
         /\ IdsOf(ResponsesItems(Reply(text, c)), "function_call_output") = <<>>
<1> DEFINE x == [type |-> "message", id |-> NoId]
           said == IF text THEN <<x>> ELSE <<>>
<1>1. Reply(text, c) \in MessageType
  BY DEF Reply, MessageType
<1>2. \A a : AnthropicAdd(a, Reply(text, c)) = Append(a, Asked(c))
  BY DEF Reply, AnthropicAdd, Asked
<1>3. ResponsesItems(Reply(text, c)) = said \o Calls(c)
  BY DEF Reply, ResponsesItems, Calls
<1>4. x \in Item /\ \A type \in Types : x.type # type
  BY IdsAreNumbers DEF Item, Types
<1> HIDE DEF x
<1>5. <<>> \in Seq(Item) /\ <<x>> \in Seq(Item)
  BY <1>4
<1>6. ASSUME NEW type \in Types PROVE IdsOf(said, type) = <<>>
  <2>1. IdsOf(<<x>>, type) = <<>> /\ IdsOf(<<>>, type) = <<>>
    BY <1>4, IdOfOne, NothingConverted
  <2> QED
    BY <2>1
<1>7. said \in Seq(Item)
  BY <1>5
<1> HIDE DEF said
<1>8. c \in Seq(Nat)
  BY IdsAreNumbers
<1>9. Calls(c) \in Seq(Item) /\ IdsOf(Calls(c), "function_call") = c
      /\ IdsOf(Calls(c), "function_call_output") = <<>>
  BY <1>8, IdsOfCalls, Zenon
<1>10. "function_call" \in Types /\ "function_call_output" \in Types
  BY DEF Types
<1>11. said \o Calls(c) \in Seq(Item)
  <2> DEFINE d == Calls(c)
  <2>1. d \in Seq(Item)
    BY <1>9
  <2> HIDE DEF d
  <2> QED
    BY <1>7, <2>1 DEF d
<1>12. /\ IdsOf(said \o Calls(c), "function_call") = <<>> \o c
       /\ IdsOf(said \o Calls(c), "function_call_output") = <<>> \o <<>>
  BY <1>6, <1>7, <1>9, <1>10, IdsJoin, ZenonT(60)
<1>13. <<>> \o c = c /\ <<>> \o <<>> = <<>>
  OBVIOUS
<1> QED
  BY <1>1, <1>2, <1>3, <1>11, <1>12, <1>13, Zenon

\* One message more, in either form.
LEMMA MessageConverted ==
  ASSUME NEW ms \in Seq(MessageType), NEW m \in MessageType,
         ToResponses(ms) \in Seq(Item), ResponsesItems(m) \in Seq(Item)
  PROVE  /\ ToAnthropic(Append(ms, m)) = AnthropicAdd(ToAnthropic(ms), m)
         /\ ToResponses(Append(ms, m)) \in Seq(Item)
         /\ \A type \in Types :
              IdsOf(ToResponses(Append(ms, m)), type) =
              IdsOf(ToResponses(ms), type) \o IdsOf(ResponsesItems(m), type)
         /\ \A type \in Types : IdsOf(ToResponses(ms), type) \in Seq(Nat)
<1>1. ToAnthropic(Append(ms, m)) = AnthropicAdd(ToAnthropic(ms), m)
  BY AnthropicOneMore
<1>2. ToResponses(Append(ms, m)) = ToResponses(ms) \o ResponsesItems(m)
  BY ResponsesOneMore
<1>3. \A s, u \in Seq(Item) : s \o u \in Seq(Item)
  OBVIOUS
<1>4. ToResponses(Append(ms, m)) \in Seq(Item)
  BY <1>2, <1>3, Zenon
<1>5. \A type \in Types : IdsOf(ToResponses(Append(ms, m)), type) =
              IdsOf(ToResponses(ms), type) \o IdsOf(ResponsesItems(m), type)
  BY <1>2, IdsJoin, Zenon
<1>6. \A type \in Types : IdsOf(ToResponses(ms), type) \in Seq(Nat)
  BY IdsTyped, Zenon
<1> QED
  BY <1>1, <1>4, <1>5, <1>6

LEMMA CallIdsTyped ==
  ASSUME NEW n \in 0..MaxCalls, NEW omitted \in BOOLEAN, fresh \in Nat,
         ~omitted => fresh + n <= MaxTurns * MaxCalls
  PROVE  /\ CallIds(n, omitted) \in Seq(Ids)
         /\ n = 0 <=> CallIds(n, omitted) = <<>>
<1>1. MaxCalls \in Nat /\ MaxTurns * MaxCalls \in Nat /\ n \in Nat
  BY LoopAssumption, IdsAreNumbers
<1>2. ASSUME NEW k \in 1..n PROVE (IF omitted THEN k - 1 ELSE MaxCalls + fresh + k - 1) \in Ids
  <2>1. CASE omitted
    BY <1>1, <2>1 DEF Ids
  <2>2. CASE ~omitted
    BY <1>1, <2>2 DEF Ids
  <2> QED
    BY <2>1, <2>2
<1>3. CallIds(n, omitted) \in [1..n -> Ids]
  BY <1>2 DEF CallIds
<1>4. CallIds(n, omitted) \in Seq(Ids) /\ Len(CallIds(n, omitted)) = n
  BY <1>1, <1>3
<1>5. n = 0 <=> CallIds(n, omitted) = <<>>
  BY <1>4
<1> QED
  BY <1>4, <1>5

LEMMA ProductsHere ==
  ASSUME NEW t \in 0..MaxTurns
  PROVE  /\ t * MaxCalls \in Nat /\ t * MaxCalls <= MaxTurns * MaxCalls
         /\ (t + 1) * MaxCalls = t * MaxCalls + MaxCalls
         /\ t >= 1 => (t - 1) * MaxCalls \in Nat /\ t * MaxCalls = (t - 1) * MaxCalls + MaxCalls
<1>1. t \in Nat /\ MaxTurns \in Nat /\ MaxCalls \in Nat /\ t <= MaxTurns
  BY LoopAssumption
<1>2. t * MaxCalls \in Nat /\ t * MaxCalls <= MaxTurns * MaxCalls /\ (t + 1) * MaxCalls = t * MaxCalls + MaxCalls
  BY <1>1, Products, Zenon
<1>3. ASSUME t >= 1 PROVE (t - 1) * MaxCalls \in Nat /\ t * MaxCalls = (t - 1) * MaxCalls + MaxCalls
  <2>1. PICK k \in Nat : t = k + 1 /\ t - 1 = k
    <3>1. t - 1 \in Nat /\ t = (t - 1) + 1
      BY <1>1, <1>3
    <3> QED
      BY <3>1
  <2>2. k * MaxCalls \in Nat /\ (k + 1) * MaxCalls = k * MaxCalls + MaxCalls
    BY <1>1, Products, Zenon
  <2> QED
    BY <2>1, <2>2
<1> QED
  BY <1>2, <1>3

LEMMA Outputs == "function_call" \in Types /\ "function_call_output" \in Types
BY DEF Types

LEMMA JoinTyped ==
  \A s \in Seq(Nat) : s \o <<>> = s /\ \A u \in Seq(Nat) : s \o u \in Seq(Nat)
OBVIOUS

LEMMA LoopInitInv == LoopInit => LoopInv
<1> SUFFICES ASSUME LoopInit PROVE LoopInv
  OBVIOUS
<1>1. UserSays \in MessageType /\ <<>> \in Seq(MessageType) /\ messages = Append(<<>>, UserSays)
      /\ <<UserSays>> \in Seq(MessageType)
  BY UserConverted DEF LoopInit
<1>2. MaxTurns \in Nat /\ MaxAttempts \in Nat \ {0} /\ MaxCalls \in Nat /\ MaxTurns * MaxCalls \in Nat
  BY LoopAssumption, IdsAreNumbers
<1>3. LoopTypeOK
  <2>1. messages \in Seq(MessageType) /\ pending \in Seq(Ids)
    BY <1>1 DEF LoopInit
  <2>2. turn \in 0..MaxTurns /\ attempt \in 0..MaxAttempts /\ fresh \in 0..(MaxTurns * MaxCalls)
        /\ late \in Nat
    BY <1>2 DEF LoopInit
  <2> QED
    BY <2>1, <2>2 DEF LoopInit, LoopTypeOK
<1>4. ToAnthropic(<<>>) = <<>> /\ ToResponses(<<>>) = <<>> /\ <<>> \in Seq(Item)
  BY NothingConverted
<1>5. /\ ToAnthropic(messages) = AnthropicAdd(<<>>, UserSays)
      /\ ToResponses(messages) \in Seq(Item)
      /\ \A type \in Types : IdsOf(ToResponses(messages), type) =
              IdsOf(<<>>, type) \o IdsOf(ResponsesItems(UserSays), type)
  BY <1>1, <1>4, UserConverted, MessageConverted, Zenon
<1>6. ToAnthropic(messages) = <<Told(<<>>)>>
  <2>1. ToAnthropic(messages) = Append(<<>>, Told(<<>>))
    BY <1>5, UserConverted, Zenon
  <2>2. ASSUME NEW x PROVE Append(<<>>, x) = <<x>>
    OBVIOUS
  <2> QED
    BY <2>1, <2>2, Zenon
<1>7. Open(<<Told(<<>>)>>)
  <2>1. Told(<<>>) \in Block /\ Fits(Told(<<>>), 1)
    BY DEF Told, Block, Fits
  <2> DEFINE x == Told(<<>>)
  <2> HIDE DEF x
  <2>2. <<x>> \in Seq(Block) /\ Len(<<x>>) = 1 /\ <<x>>[1] = x
    BY <2>1 DEF x
  <2>3. Turns(<<x>>)
    BY <2>1, <2>2 DEF Turns, x
  <2>4. Open(<<x>>)
    BY <2>2, <2>3 DEF Open, AnsweredTo
  <2> QED
    BY <2>4 DEF x
<1>8. AnthropicGrows
  BY <1>6, <1>7 DEF AnthropicGrows, LoopInit
<1>9. ResponsesGrow
  <2>1. \A type \in Types : IdsOf(ToResponses(messages), type) = <<>> \o <<>>
    BY <1>5, UserConverted, NothingConverted, Zenon
  <2>2. <<>> \o <<>> = <<>> /\ pending = <<>>
    BY DEF LoopInit
  <2>3. IdsOf(ToResponses(messages), "function_call") = IdsOf(ToResponses(messages), "function_call_output") \o pending
    BY <2>1, <2>2, Outputs, Zenon
  <2> QED
    BY <1>5, <2>3, Zenon DEF ResponsesGrow
<1>10. OvershootIsOneChat /\ LoopCounts
  BY <1>2 DEF OvershootIsOneChat, LoopCounts, LoopInit
<1> QED
  BY <1>3, <1>8, <1>9, <1>10 DEF LoopInv

\* The transcript as the last step left it.
LEMMA SameTranscript ==
  ASSUME LoopInv, UNCHANGED <<messages, pending>>,
         stage' \in {"turn", "request"} => stage \in {"turn", "request"},
         stage' = "tools" => stage = "tools",
         stage' # "over" => stage # "over"
  PROVE  AnthropicGrows' /\ ResponsesGrow'
<1>1. ToAnthropic(messages)' = ToAnthropic(messages) /\ ToResponses(messages)' = ToResponses(messages)
  OBVIOUS
<1>2. AnthropicGrows'
  BY <1>1, Zenon DEF LoopInv, AnthropicGrows
<1>3. ResponsesGrow'
  BY <1>1, Zenon DEF LoopInv, ResponsesGrow
<1> QED
  BY <1>2, <1>3

LEMMA LoopFacts ==
  ASSUME LoopInv
  PROVE  /\ turn \in Nat /\ attempt \in Nat /\ fresh \in Nat /\ late \in Nat
         /\ turn <= MaxTurns /\ attempt <= MaxAttempts /\ late < MaxAttempts
         /\ MaxTurns \in Nat /\ MaxAttempts \in Nat /\ MaxAttempts >= 1 /\ MaxCalls \in Nat
         /\ MaxTurns * MaxCalls \in Nat /\ fresh <= MaxTurns * MaxCalls
         /\ turn * MaxCalls \in Nat /\ turn * MaxCalls <= MaxTurns * MaxCalls
         /\ turn >= 1 => (turn - 1) * MaxCalls \in Nat /\ turn * MaxCalls = (turn - 1) * MaxCalls + MaxCalls
<1>1. turn \in 0..MaxTurns /\ attempt \in 0..MaxAttempts /\ fresh \in 0..(MaxTurns * MaxCalls) /\ late \in Nat
      /\ late < MaxAttempts
  BY DEF LoopInv, LoopTypeOK, OvershootIsOneChat
<1>2. MaxTurns \in Nat /\ MaxAttempts \in Nat \ {0} /\ MaxCalls \in Nat /\ MaxTurns * MaxCalls \in Nat
  BY LoopAssumption, IdsAreNumbers
<1>3. /\ turn * MaxCalls \in Nat /\ turn * MaxCalls <= MaxTurns * MaxCalls
      /\ turn >= 1 => (turn - 1) * MaxCalls \in Nat /\ turn * MaxCalls = (turn - 1) * MaxCalls + MaxCalls
  BY <1>1, ProductsHere
<1>4. turn \in Nat /\ turn <= MaxTurns /\ attempt \in Nat /\ attempt <= MaxAttempts
      /\ fresh \in Nat /\ fresh <= MaxTurns * MaxCalls /\ MaxAttempts >= 1
  BY <1>1, <1>2
<1> QED
  BY <1>1, <1>2, <1>3, <1>4

\* A step that is not the provider's reply or a tool's result.
LEMMA LoopControlStep ==
  ASSUME LoopInv,
         BudgetExpires \/ TurnStart \/ TransportFails \/ HttpError \/ UnreadableBody \/ ToolRaises
  PROVE  LoopInv'
<1>0. LoopTypeOK /\ LoopCounts /\ OvershootIsOneChat
  BY DEF LoopInv
<1>1. /\ turn \in Nat /\ attempt \in Nat /\ fresh \in Nat /\ late \in Nat
      /\ turn <= MaxTurns /\ attempt <= MaxAttempts /\ late < MaxAttempts
      /\ MaxTurns \in Nat /\ MaxAttempts \in Nat /\ MaxAttempts >= 1
  BY LoopFacts
<1>2. UNCHANGED <<messages, pending, fresh>>
  BY DEF BudgetExpires, TurnStart, TransportFails, HttpError, UnreadableBody, ToolRaises
<1>3. AnthropicGrows' /\ ResponsesGrow'
  <2>1. /\ stage' \in {"turn", "request"} => stage \in {"turn", "request"}
        /\ stage' = "tools" => stage = "tools"
        /\ stage' # "over" => stage # "over"
    BY DEF BudgetExpires, TurnStart, TransportFails, HttpError, UnreadableBody, ToolRaises, Stop
  <2> QED
    BY <1>2, <2>1, SameTranscript, Zenon
<1>4. messages \in Seq(MessageType) /\ pending \in Seq(Ids) /\ fresh \in 0..(MaxTurns * MaxCalls)
  BY <1>0 DEF LoopTypeOK
<1>5. stage = "over" <=> stop # "none"
  BY <1>0 DEF LoopTypeOK
<1>6. /\ turn * MaxCalls \in Nat
      /\ turn >= 1 => (turn - 1) * MaxCalls \in Nat /\ turn * MaxCalls = (turn - 1) * MaxCalls + MaxCalls
      /\ MaxCalls \in Nat
  BY LoopFacts
<1>7. fresh <= turn * MaxCalls
  BY <1>0, <1>1, <1>6 DEF LoopCounts
<1>8. CASE TurnStart
  <2>1. CASE turn = MaxTurns \/ expired
    <3>1. stage' = "over" /\ stop' \in {"turn_cap", "wall_clock"} /\ UNCHANGED <<turn, attempt, expired, late>>
      BY <1>1, <1>8, <2>1 DEF TurnStart, Stop
    <3>2. LoopTypeOK'
      BY <1>0, <1>2, <1>4, <3>1 DEF LoopTypeOK
    <3>3. OvershootIsOneChat' /\ LoopCounts'
      <4>1. fresh' <= turn' * MaxCalls
        BY <1>2, <1>7, <3>1, Zenon
      <4> QED
        BY <1>0, <3>1, <4>1 DEF OvershootIsOneChat, LoopCounts
    <3> QED
      BY <1>3, <3>2, <3>3 DEF LoopInv
  <2>2. CASE turn # MaxTurns /\ ~expired
    <3>1. /\ turn' = turn + 1 /\ attempt' = 1 /\ stage' = "request" /\ stage = "turn"
          /\ UNCHANGED <<stop, expired, late>>
      BY <1>1, <1>8, <2>2 DEF TurnStart
    <3>2. turn + 1 \in 0..MaxTurns /\ 1 \in 0..MaxAttempts
      BY <1>1, <2>2
    <3>3. LoopTypeOK'
      BY <1>0, <1>2, <1>4, <3>1, <3>2 DEF LoopTypeOK
    <3>4. late = 0
      BY <1>0, <1>1, <2>2 DEF LoopCounts
    <3>5. (turn + 1) - 1 = turn
      BY <1>1
    <3>6. fresh' <= (turn' - 1) * MaxCalls
      BY <1>2, <1>7, <3>1, <3>5, Zenon
    <3>7. OvershootIsOneChat' /\ LoopCounts'
      BY <1>0, <1>1, <3>1, <3>4, <3>6 DEF OvershootIsOneChat, LoopCounts
    <3> QED
      BY <1>3, <3>3, <3>7 DEF LoopInv
  <2> QED
    BY <2>1, <2>2
<1>9. CASE BudgetExpires
  <2>1. expired' = TRUE /\ UNCHANGED <<stage, turn, attempt, late, stop>>
    BY <1>9 DEF BudgetExpires
  <2>2. LoopTypeOK'
    BY <1>0, <1>2, <1>4, <2>1 DEF LoopTypeOK
  <2>3. OvershootIsOneChat' /\ LoopCounts'
    BY <1>0, <1>2, <2>1 DEF OvershootIsOneChat, LoopCounts
  <2> QED
    BY <1>3, <2>2, <2>3 DEF LoopInv
<1>10. CASE TransportFails /\ attempt < MaxAttempts
  <2>1. /\ attempt' = attempt + 1 /\ stage = "request" /\ UNCHANGED <<stage, turn, stop, expired>>
        /\ late' = IF expired THEN late + 1 ELSE late
    BY <1>10 DEF TransportFails
  <2>2. attempt + 1 \in 0..MaxAttempts /\ late' \in Nat
    BY <1>1, <1>10, <2>1
  <2>3. LoopTypeOK'
    BY <1>0, <1>2, <1>4, <2>1, <2>2 DEF LoopTypeOK
  <2>4. late < attempt
    BY <1>0, <2>1 DEF LoopCounts
  <2>5. late' < attempt + 1 /\ late' < MaxAttempts
    BY <1>1, <1>10, <2>1, <2>4
  <2>6. late' > 0 => expired
    BY <1>0, <1>1, <2>1 DEF LoopCounts
  <2>7. fresh' <= (turn' - 1) * MaxCalls /\ turn' >= 1
    BY <1>0, <1>2, <2>1 DEF LoopCounts
  <2>8. OvershootIsOneChat' /\ LoopCounts'
    BY <2>1, <2>5, <2>6, <2>7 DEF OvershootIsOneChat, LoopCounts
  <2> QED
    BY <1>3, <2>3, <2>8 DEF LoopInv
<1>11. CASE (TransportFails /\ ~(attempt < MaxAttempts)) \/ HttpError \/ UnreadableBody \/ ToolRaises
  <2>1. /\ stage' = "over" /\ stop' \in {"provider_error", "crashed"}
        /\ UNCHANGED <<turn, attempt, expired, late>>
    BY <1>11 DEF TransportFails, HttpError, UnreadableBody, ToolRaises, Stop
  <2>2. LoopTypeOK'
    BY <1>0, <1>2, <1>4, <2>1 DEF LoopTypeOK
  <2>3. fresh' <= turn' * MaxCalls
    BY <1>2, <1>7, <2>1, Zenon
  <2>4. OvershootIsOneChat' /\ LoopCounts'
    BY <1>0, <2>1, <2>3 DEF OvershootIsOneChat, LoopCounts
  <2> QED
    BY <1>3, <2>2, <2>4 DEF LoopInv
<1> QED
  BY <1>8, <1>9, <1>10, <1>11

LEMMA RepliedStep ==
  ASSUME LoopInv, NEW text \in BOOLEAN, NEW omitted \in BOOLEAN, NEW n \in 0..MaxCalls,
         Replied(text, n, omitted)
  PROVE  LoopInv'
<1>0. LoopTypeOK /\ LoopCounts /\ OvershootIsOneChat
  BY DEF LoopInv
<1>1. /\ turn \in Nat /\ attempt \in Nat /\ fresh \in Nat /\ late \in Nat
      /\ MaxTurns \in Nat /\ MaxAttempts \in Nat /\ MaxCalls \in Nat /\ MaxTurns * MaxCalls \in Nat
      /\ turn * MaxCalls \in Nat /\ turn * MaxCalls <= MaxTurns * MaxCalls /\ fresh <= MaxTurns * MaxCalls
      /\ n \in Nat /\ n <= MaxCalls
  <2>1. MaxCalls \in Nat
    BY LoopFacts
  <2>2. n \in Nat /\ n <= MaxCalls
    BY <2>1
  <2> QED
    BY <2>2, LoopFacts
<1> DEFINE c == CallIds(n, omitted)
           said == Append(messages, Reply(text, c))
<1>2. /\ stage = "request"
      /\ messages' = IF n = 0 THEN Append(said, UserSays) ELSE said
      /\ pending' = c
      /\ fresh' = IF omitted THEN fresh ELSE fresh + n
      /\ stage' = IF n = 0 THEN "turn" ELSE "tools"
      /\ UNCHANGED <<turn, attempt, expired, late, stop>>
  BY DEF Replied
<1>3. fresh + n <= turn * MaxCalls /\ fresh <= turn * MaxCalls
  <2>1. turn >= 1 /\ fresh <= (turn - 1) * MaxCalls
    BY <1>0, <1>2 DEF LoopCounts
  <2>2. (turn - 1) * MaxCalls \in Nat /\ turn * MaxCalls = (turn - 1) * MaxCalls + MaxCalls
    BY <2>1, LoopFacts
  <2> DEFINE before == (turn - 1) * MaxCalls
             after == turn * MaxCalls
  <2>3. before \in Nat /\ after = before + MaxCalls /\ fresh <= before
    BY <2>1, <2>2
  <2> HIDE DEF before, after
  <2>4. fresh + n <= after /\ fresh <= after
    BY <1>1, <2>3
  <2> QED
    BY <2>4 DEF after
<1>4. c \in Seq(Ids) /\ (n = 0 <=> c = <<>>)
  <2>1. fresh + n <= MaxTurns * MaxCalls
    <3> DEFINE all == MaxTurns * MaxCalls
               after == turn * MaxCalls
    <3>1. all \in Nat /\ after \in Nat /\ after <= all /\ fresh + n <= after
      BY <1>1, <1>3
    <3> HIDE DEF all, after
    <3>2. fresh + n <= all
      BY <1>1, <3>1
    <3> QED
      BY <3>2 DEF all
  <2> QED
    BY <1>1, <2>1, CallIdsTyped
<1> HIDE DEF c
<1>5. messages \in Seq(MessageType) /\ Reply(text, c) \in MessageType /\ UserSays \in MessageType
      /\ said \in Seq(MessageType) /\ Append(said, UserSays) \in Seq(MessageType)
  <2>1. messages \in Seq(MessageType) /\ Reply(text, c) \in MessageType /\ UserSays \in MessageType
    BY <1>0, <1>4, ReplyConverted, UserConverted DEF LoopTypeOK
  <2>2. \A s \in Seq(MessageType), m \in MessageType : Append(s, m) \in Seq(MessageType)
    OBVIOUS
  <2> QED
    BY <2>1, <2>2, Zenon
<1> DEFINE a == ToAnthropic(messages)
           told == IdsOf(ToResponses(messages), "function_call_output")
<1>6. Open(a) /\ pending = <<>> /\ ToResponses(messages) \in Seq(Item)
      /\ IdsOf(ToResponses(messages), "function_call") = told \o <<>>
  BY <1>2 DEF LoopInv, AnthropicGrows, ResponsesGrow
<1>7. told \in Seq(Nat) /\ c \in Seq(Nat)
  BY <1>4, <1>6, IdsTyped, Outputs, IdsAreNumbers
<1>8. /\ ToAnthropic(said) = Append(a, Asked(c))
      /\ ToResponses(said) \in Seq(Item)
      /\ IdsOf(ToResponses(said), "function_call") = told \o c
      /\ IdsOf(ToResponses(said), "function_call_output") = told
  <2>1. /\ \A b : AnthropicAdd(b, Reply(text, c)) = Append(b, Asked(c))
        /\ ResponsesItems(Reply(text, c)) \in Seq(Item)
        /\ IdsOf(ResponsesItems(Reply(text, c)), "function_call") = c
        /\ IdsOf(ResponsesItems(Reply(text, c)), "function_call_output") = <<>>
    BY <1>4, ReplyConverted
  <2>2. /\ ToAnthropic(said) = AnthropicAdd(a, Reply(text, c))
        /\ ToResponses(said) \in Seq(Item)
        /\ \A type \in Types : IdsOf(ToResponses(said), type) =
              IdsOf(ToResponses(messages), type) \o IdsOf(ResponsesItems(Reply(text, c)), type)
    BY <1>5, <1>6, <2>1, MessageConverted, Zenon
  <2>3. told \o <<>> = told
    BY <1>7, JoinTyped, Zenon
  <2>4. IdsOf(ToResponses(said), "function_call") = told \o c
    BY <1>6, <2>1, <2>2, <2>3, Outputs, Zenon
  <2>5. IdsOf(ToResponses(said), "function_call_output") = told
    BY <2>1, <2>2, <2>3, Outputs, Zenon
  <2> QED
    BY <2>1, <2>2, <2>4, <2>5, Zenon
<1>9. /\ Turns(Append(a, Asked(c))) /\ Len(Append(a, Asked(c))) % 2 = 0
      /\ AnsweredTo(Append(a, Asked(c)), Len(a) + 1)
      /\ Len(Append(a, Asked(c))) = Len(a) + 1
      /\ Append(a, Asked(c))[Len(a) + 1] = Asked(c)
  BY <1>6, <1>7, ModelAsks
<1>10. Asked(c).uses = c
  BY DEF Asked
<1> HIDE DEF a, told, said
<1>11. AnthropicGrows' /\ ResponsesGrow'
  <2>1. CASE n = 0
    <3>1. messages' = Append(said, UserSays) /\ pending' = <<>> /\ stage' = "turn" /\ c = <<>>
      BY <1>2, <1>4, <2>1
    <3>2. /\ ToAnthropic(messages') = AnthropicAdd(ToAnthropic(said), UserSays)
          /\ ToResponses(messages') \in Seq(Item)
          /\ \A type \in Types : IdsOf(ToResponses(messages'), type) =
                IdsOf(ToResponses(said), type) \o IdsOf(ResponsesItems(UserSays), type)
      BY <1>5, <1>8, <3>1, MessageConverted, UserConverted, Zenon
    <3>3. ToAnthropic(messages') = Append(Append(a, Asked(c)), Told(<<>>))
      BY <1>8, <3>2, UserConverted, Zenon
    <3>4. Open(Append(Append(a, Asked(c)), Told(<<>>)))
      <4> DEFINE b == Append(a, Asked(c))
      <4>1. Turns(b) /\ Len(b) % 2 = 0 /\ AnsweredTo(b, Len(b)) /\ b[Len(b)].uses = <<>>
        BY <1>9, <1>10, <3>1
      <4> HIDE DEF b
      <4>2. <<>> \in Seq(Nat)
        OBVIOUS
      <4>3. Open(Append(b, Told(<<>>)))
        BY <4>1, <4>2, UserAnswers
      <4> QED
        BY <4>3 DEF b
    <3>5. AnthropicGrows'
      <4>1. Open(ToAnthropic(messages'))
        BY <3>3, <3>4, Zenon
      <4> QED
        BY <3>1, <4>1 DEF AnthropicGrows
    <3>6. told \o <<>> = told
      BY <1>7, JoinTyped, Zenon
    <3>7. IdsOf(ToResponses(messages'), "function_call") = told
          /\ IdsOf(ToResponses(messages'), "function_call_output") = told
      <4>1. \A type \in Types : IdsOf(ResponsesItems(UserSays), type) = <<>>
        BY UserConverted, Zenon
      <4>2. IdsOf(ToResponses(said), "function_call") = told
        BY <1>8, <3>1, <3>6, Zenon
      <4> QED
        BY <1>8, <3>2, <3>6, <4>1, <4>2, Outputs, Zenon
    <3>8. ResponsesGrow'
      <4>1. IdsOf(ToResponses(messages'), "function_call") =
              IdsOf(ToResponses(messages'), "function_call_output") \o pending'
        BY <3>1, <3>6, <3>7, Zenon
      <4> QED
        BY <3>2, <4>1, Zenon DEF ResponsesGrow
    <3> QED
      BY <3>5, <3>8
  <2>2. CASE n # 0
    <3>1. messages' = said /\ pending' = c /\ stage' = "tools" /\ c # <<>>
      BY <1>2, <1>4, <2>2
    <3>2. Owing(Append(a, Asked(c)), c)
      <4> DEFINE b == Append(a, Asked(c))
      <4>1. Turns(b) /\ Len(b) % 2 = 0 /\ AnsweredTo(b, Len(b)) /\ b[Len(b)].uses = c
        BY <1>9, <1>10
      <4> QED
        BY <3>1, <4>1, Zenon DEF Owing
    <3>3. AnthropicGrows'
      <4>1. Owing(ToAnthropic(messages'), pending')
        BY <1>8, <3>1, <3>2, Zenon
      <4> QED
        BY <3>1, <4>1 DEF AnthropicGrows
    <3>4. ResponsesGrow'
      <4>1. /\ ToResponses(messages') \in Seq(Item)
            /\ IdsOf(ToResponses(messages'), "function_call") =
                 IdsOf(ToResponses(messages'), "function_call_output") \o pending'
        BY <1>8, <3>1, Zenon
      <4> QED
        BY <4>1, Zenon DEF ResponsesGrow
    <3> QED
      BY <3>3, <3>4
  <2> QED
    BY <2>1, <2>2
<1>12. fresh' \in 0..(MaxTurns * MaxCalls) /\ fresh' <= turn' * MaxCalls
  <2> DEFINE all == MaxTurns * MaxCalls
             after == turn * MaxCalls
  <2>1. all \in Nat /\ after \in Nat /\ after <= all /\ fresh + n <= after /\ fresh <= after
        /\ turn' * MaxCalls = after
    BY <1>1, <1>2, <1>3
  <2> HIDE DEF all, after
  <2>2. fresh' \in 0..all /\ fresh' <= after
    BY <1>1, <1>2, <2>1
  <2> QED
    BY <2>1, <2>2, Zenon DEF all
<1>13. LoopTypeOK'
  <2>1. messages' \in Seq(MessageType) /\ pending' \in Seq(Ids)
    BY <1>2, <1>4, <1>5
  <2>2. stage = "request" /\ stop = "none" /\ stop' = stop /\ stage' \in {"turn", "tools"}
    BY <1>0, <1>2 DEF LoopTypeOK
  <2> QED
    BY <1>0, <1>2, <1>12, <2>1, <2>2 DEF LoopTypeOK
<1>14. OvershootIsOneChat' /\ LoopCounts'
  BY <1>0, <1>2, <1>12 DEF OvershootIsOneChat, LoopCounts
<1> QED
  BY <1>11, <1>13, <1>14 DEF LoopInv

LEMMA ToolReturnsStep ==
  ASSUME LoopInv, NEW how \in {"result", "done", "resource_limit"}, ToolReturns(how)
  PROVE  LoopInv'
<1>0. LoopTypeOK /\ LoopCounts /\ OvershootIsOneChat
  BY DEF LoopInv
<1> DEFINE id == Head(pending)
           rest == Tail(pending)
           a == ToAnthropic(messages)
           told == IdsOf(ToResponses(messages), "function_call_output")
<1>1. /\ stage = "tools" /\ messages' = Append(messages, ToolResult(id)) /\ pending' = rest
      /\ UNCHANGED <<turn, attempt, fresh, expired, late>>
      /\ IF how # "result" THEN stage' = "over" /\ stop' = how
         ELSE stage' = (IF rest = <<>> THEN "turn" ELSE "tools") /\ UNCHANGED stop
  BY DEF ToolReturns, Stop
<1>2. Owing(a, pending) /\ pending # <<>> /\ pending \in Seq(Ids) /\ messages \in Seq(MessageType)
      /\ ToResponses(messages) \in Seq(Item)
      /\ IdsOf(ToResponses(messages), "function_call") = told \o pending
  BY <1>0, <1>1 DEF LoopInv, AnthropicGrows, ResponsesGrow, LoopTypeOK, Owing
<1>3. id \in Ids /\ rest \in Seq(Ids)
  BY <1>2
<1>4. pending \in Seq(Nat) /\ told \in Seq(Nat)
  BY <1>2, IdsTyped, Outputs, IdsAreNumbers
<1>5. /\ ToolResult(id) \in MessageType /\ ResponsesItems(ToolResult(id)) \in Seq(Item)
      /\ IdsOf(ResponsesItems(ToolResult(id)), "function_call") = <<>>
      /\ IdsOf(ResponsesItems(ToolResult(id)), "function_call_output") = <<id>>
  BY <1>3, ResultConverted
<1>6. IF rest = <<>> THEN Open(AnthropicAdd(a, ToolResult(id)))
      ELSE Owing(AnthropicAdd(a, ToolResult(id)), rest)
  BY <1>2, <1>4, ResultAnswers, Zenon
<1>7. id \in Nat /\ rest \in Seq(Nat) /\ Append(told, id) = told \o <<id>>
      /\ told \o pending = Append(told, id) \o rest
  BY <1>2, <1>4, FirstAndRest, AppendIsJoin, Zenon
<1> HIDE DEF id, rest, a, told
<1>8. /\ ToAnthropic(messages') = AnthropicAdd(a, ToolResult(id))
      /\ ToResponses(messages') \in Seq(Item)
      /\ \A type \in Types : IdsOf(ToResponses(messages'), type) =
            IdsOf(ToResponses(messages), type) \o IdsOf(ResponsesItems(ToolResult(id)), type)
  BY <1>1, <1>2, <1>5, MessageConverted, Zenon DEF a
<1>9. AnthropicGrows'
  <2>1. CASE how = "result" /\ rest = <<>>
    <3>1. Open(ToAnthropic(messages')) /\ pending' = <<>> /\ stage' = "turn"
      BY <1>1, <1>6, <1>8, <2>1, Zenon
    <3> QED
      BY <3>1 DEF AnthropicGrows
  <2>2. CASE how = "result" /\ rest # <<>>
    <3>1. Owing(ToAnthropic(messages'), pending') /\ stage' = "tools"
      BY <1>1, <1>6, <1>8, <2>2, Zenon
    <3> QED
      BY <3>1 DEF AnthropicGrows
  <2>3. CASE how # "result"
    <3>1. stage' = "over"
      BY <1>1, <2>3
    <3> QED
      BY <3>1 DEF AnthropicGrows
  <2> QED
    BY <2>1, <2>2, <2>3
<1>10. ResponsesGrow'
  <2>1. IdsOf(ToResponses(messages'), "function_call_output") = Append(told, id)
    BY <1>5, <1>7, <1>8, Outputs, Zenon DEF told
  <2>2. IdsOf(ToResponses(messages'), "function_call") = told \o pending
    <3>1. IdsOf(ToResponses(messages'), "function_call") = (told \o pending) \o <<>>
      BY <1>2, <1>5, <1>8, Outputs, Zenon
    <3>2. (told \o pending) \o <<>> = told \o pending
      BY <1>4, JoinTyped, Zenon
    <3> QED
      BY <3>1, <3>2, Zenon
  <2>3. IdsOf(ToResponses(messages'), "function_call") =
          IdsOf(ToResponses(messages'), "function_call_output") \o pending'
    BY <1>1, <1>7, <2>1, <2>2, Zenon
  <2> QED
    BY <1>8, <2>3, Zenon DEF ResponsesGrow
<1>11. LoopTypeOK'
  <2>1. \A s \in Seq(MessageType), m \in MessageType : Append(s, m) \in Seq(MessageType)
    OBVIOUS
  <2>2. messages' \in Seq(MessageType) /\ pending' \in Seq(Ids)
    BY <1>1, <1>2, <1>3, <1>5, <2>1, Zenon
  <2>3. stop = "none"
    BY <1>0, <1>1 DEF LoopTypeOK
  <2>4. stage' \in {"turn", "tools", "over"} /\ (stage' = "over" <=> stop' # "none")
        /\ stop' \in {"none", "done", "resource_limit"}
    BY <1>1, <2>3
  <2> QED
    BY <1>0, <1>1, <2>2, <2>4 DEF LoopTypeOK
<1>12. OvershootIsOneChat' /\ LoopCounts'
  <2>1. stage' # "request"
    BY <1>1
  <2> QED
    BY <1>0, <1>1, <2>1 DEF OvershootIsOneChat, LoopCounts
<1> QED
  BY <1>9, <1>10, <1>11, <1>12 DEF LoopInv

\* The loop's counts and both forms of its transcript keep what they owe, whatever
\* turns, failed requests, replies and tool results follow.
THEOREM LoopInvariant == LoopSpec => []LoopInv
<1>1. LoopInit => LoopInv
  BY LoopInitInv
<1>2. LoopInv /\ [LoopNext]_loopVars => LoopInv'
  <2> SUFFICES ASSUME LoopInv, [LoopNext]_loopVars PROVE LoopInv'
    OBVIOUS
  <2>1. CASE BudgetExpires \/ TurnStart \/ TransportFails \/ HttpError \/ UnreadableBody \/ ToolRaises
    BY <2>1, LoopControlStep
  <2>2. CASE \E text, omitted \in BOOLEAN, n \in 0..MaxCalls : Replied(text, n, omitted)
    BY <2>2, RepliedStep
  <2>3. CASE \E how \in {"result", "done", "resource_limit"} : ToolReturns(how)
    BY <2>3, ToolReturnsStep
  <2>4. CASE UNCHANGED loopVars
    <3>1. UNCHANGED <<stage, turn, attempt, messages, pending, fresh, expired, late, stop>>
      BY <2>4 DEF loopVars
    <3>2. AnthropicGrows' /\ ResponsesGrow'
      BY <3>1, SameTranscript, Zenon
    <3>3. LoopTypeOK' /\ OvershootIsOneChat' /\ LoopCounts'
      BY <3>1 DEF LoopInv, LoopTypeOK, OvershootIsOneChat, LoopCounts
    <3> QED
      BY <3>2, <3>3 DEF LoopInv
  <2> QED
    BY <2>1, <2>2, <2>3, <2>4 DEF LoopNext
<1> QED
  BY <1>1, <1>2, PTL DEF LoopSpec

\* Whatever the conversation was, what chat() sends is well formed for the Anthropic
\* and the Responses format, and at most one chat overshoots the wall clock.
THEOREM LoopIsCorrect == LoopSpec => []LoopCorrect
<1>1. LoopInv => LoopCorrect
  <2> SUFFICES ASSUME LoopInv PROVE LoopCorrect
    OBVIOUS
  <2>1. AnthropicWellFormed
    <3> SUFFICES ASSUME stage = "request"
        PROVE  LET a == ToAnthropic(messages)
               IN  /\ \A i \in DOMAIN a : a[i].role = IF i % 2 = 1 THEN "user" ELSE "assistant"
                   /\ Len(a) % 2 = 1
                   /\ \A i \in 1..(Len(a) - 1) : a[i + 1].results = a[i].uses
      BY DEF AnthropicWellFormed
    <3> DEFINE a == ToAnthropic(messages)
    <3>1. Open(a)
      BY DEF LoopInv, AnthropicGrows
    <3> HIDE DEF a
    <3>2. a \in Seq(Block) /\ Len(a) % 2 = 1 /\ \A i \in 1..Len(a) : Fits(a[i], i)
      BY <3>1 DEF Open, Turns
    <3>3. \A i \in 1..(Len(a) - 1) : a[i + 1].results = a[i].uses
      BY <3>1 DEF Open, AnsweredTo
    <3>4. DOMAIN a = 1..Len(a)
      BY <3>2
    <3>5. \A i \in 1..Len(a) : a[i].role = IF i % 2 = 1 THEN "user" ELSE "assistant"
      BY <3>2 DEF Fits
    <3> QED
      BY <3>2, <3>3, <3>4, <3>5 DEF a
  <2>2. ResponsesPaired
    <3> SUFFICES ASSUME stage = "request"
        PROVE  IdsOf(ToResponses(messages), "function_call") = IdsOf(ToResponses(messages), "function_call_output")
      BY DEF ResponsesPaired
    <3>1. /\ ToResponses(messages) \in Seq(Item) /\ pending = <<>>
          /\ IdsOf(ToResponses(messages), "function_call") =
               IdsOf(ToResponses(messages), "function_call_output") \o pending
      BY DEF LoopInv, AnthropicGrows, ResponsesGrow
    <3>2. IdsOf(ToResponses(messages), "function_call_output") \in Seq(Nat)
      BY <3>1, IdsTyped, Outputs
    <3> QED
      BY <3>1, <3>2, JoinTyped, Zenon
  <2> QED
    BY <2>1, <2>2 DEF LoopInv, LoopCorrect
<1> QED
  BY <1>1, LoopInvariant, PTL

\* The conversation begins as a loop that has started no turn and not ended.
LEMMA LoopBegins == LoopInit => Loop!TurnInit
  BY DEF LoopInit, Loop!TurnInit, LoopStage

\* Each step of the conversation is a step of the loop or none: a turn is begun, or the
\* loop cut off, by TurnStart, from turn and expired alone; a request that is sent again
\* stays in its chat, and a call that is not the last of its turn in its turn; and what
\* ends the loop is a failure of the chat or what a call returns or raises.
LEMMA LoopSteps == LoopInv /\ [LoopNext]_loopVars => [Loop!TurnNext]_(Loop!turnVars)
<1> USE DEF Loop!turnVars
<1> SUFFICES ASSUME LoopInv, [LoopNext]_loopVars PROVE [Loop!TurnNext]_(Loop!turnVars)
  OBVIOUS
<1> DEFINE Unseen == UNCHANGED <<LoopStage, turn, expired, stop>>
<1>0. Unseen => UNCHANGED Loop!turnVars
  OBVIOUS
<1>t. /\ stage \in {"turn", "request", "tools", "over"} /\ turn \in 0..MaxTurns
      /\ MaxTurns \in Nat
  BY LoopAssumption DEF LoopInv, LoopTypeOK
<1>s. /\ stage = "turn" => LoopStage = "turn"
      /\ stage = "request" => LoopStage = "chat"
      /\ stage = "tools" => LoopStage = "tool"
      /\ stage = "over" => LoopStage = "over"
  BY DEF LoopStage
<1>n. /\ stage' = "turn" => LoopStage' = "turn"
      /\ stage' = "request" => LoopStage' = "chat"
      /\ stage' = "tools" => LoopStage' = "tool"
      /\ stage' = "over" => LoopStage' = "over"
  BY DEF LoopStage
<1>k. stage' = stage => LoopStage' = LoopStage
  BY DEF LoopStage
<1> HIDE DEF Unseen
<1>1. CASE BudgetExpires
  <2>1. LoopStage # "over" /\ LoopStage' = LoopStage
    BY <1>1, <1>t, <1>s, <1>k DEF BudgetExpires
  <2>2. Loop!Expires
    BY <1>1, <2>1 DEF BudgetExpires, Loop!Expires
  <2> QED
    BY <2>2 DEF Loop!TurnNext
<1>2. CASE TurnStart
  <2>1. LoopStage = "turn" /\ expired' = expired
    BY <1>2, <1>s DEF TurnStart
  <2>2. CASE turn = MaxTurns
    <3>0. ~(turn < MaxTurns)
      BY <2>2, <1>t
    <3>s. stage' = "over" /\ turn' = turn /\ stop' = "turn_cap"
      BY <1>2, <2>2, <3>0 DEF TurnStart, Stop
    <3>1. LoopStage' = "over" /\ turn' = turn /\ stop' = "turn_cap"
      BY <3>s, <1>n
    <3>2. Loop!CutsOff
      BY <2>1, <2>2, <3>1 DEF Loop!CutsOff, Loop!Goes
    <3> QED
      BY <3>2 DEF Loop!TurnNext
  <2>3. CASE turn < MaxTurns /\ expired
    <3>0. turn # MaxTurns
      BY <2>3, <1>t
    <3>1. LoopStage' = "over" /\ turn' = turn /\ stop' = "wall_clock"
      BY <1>2, <2>3, <3>0, <1>n DEF TurnStart, Stop
    <3>2. Loop!CutsOff
      BY <2>1, <2>3, <3>1 DEF Loop!CutsOff, Loop!Goes
    <3> QED
      BY <3>2 DEF Loop!TurnNext
  <2>4. CASE turn # MaxTurns /\ ~(turn < MaxTurns /\ expired)
    <3>1. turn < MaxTurns /\ ~expired
      BY <2>4, <1>t
    <3>2. LoopStage' = "chat" /\ turn' = turn + 1 /\ stop' = stop
      BY <1>2, <2>4, <1>n DEF TurnStart
    <3>3. Loop!Begins
      BY <2>1, <3>1, <3>2 DEF Loop!Begins, Loop!Goes
    <3> QED
      BY <3>3 DEF Loop!TurnNext
  <2> QED
    BY <2>2, <2>3, <2>4
<1>3. CASE TransportFails \/ HttpError \/ UnreadableBody
  <2>1. LoopStage = "chat" /\ turn' = turn /\ expired' = expired
    BY <1>3, <1>s DEF TransportFails, HttpError, UnreadableBody
  <2>2. CASE stage' = stage /\ stop' = stop
    BY <2>1, <2>2, <1>k, <1>0 DEF Unseen
  <2>3. CASE stage' = "over" /\ stop' \in {"provider_error", "crashed"}
    <3>1. LoopStage' = "over"
      BY <2>3, <1>n
    <3>2. Loop!Ends(stop')
      BY <2>1, <2>3, <3>1 DEF Loop!Ends, Loop!Goes
    <3> QED
      BY <3>2, <2>3 DEF Loop!TurnNext
  <2> QED
    BY <1>3, <2>2, <2>3 DEF TransportFails, HttpError, UnreadableBody, Stop
<1>4. CASE \E text, omitted \in BOOLEAN, n \in 0..MaxCalls : Replied(text, n, omitted)
  <2>1. LoopStage = "chat" /\ LoopStage' \in {"tool", "turn"}
    BY <1>4, <1>s, <1>n DEF Replied
  <2>2. turn' = turn /\ expired' = expired /\ stop' = stop
    BY <1>4 DEF Replied
  <2>3. Loop!Replies
    BY <2>1, <2>2 DEF Loop!Replies, Loop!Goes
  <2> QED
    BY <2>3 DEF Loop!TurnNext
<1>5. CASE (\E how \in {"result", "done", "resource_limit"} : ToolReturns(how)) \/ ToolRaises
  <2>1. LoopStage = "tool" /\ turn' = turn /\ expired' = expired
    BY <1>5, <1>s DEF ToolReturns, ToolRaises
  <2>2. CASE stage' = stage /\ stop' = stop
    BY <2>1, <2>2, <1>k, <1>0 DEF Unseen
  <2>3. CASE stage' = "turn" /\ stop' = stop
    <3>1. LoopStage' = "turn"
      BY <2>3, <1>n
    <3>2. Loop!Answers
      BY <2>1, <2>3, <3>1 DEF Loop!Answers, Loop!Goes
    <3> QED
      BY <3>2 DEF Loop!TurnNext
  <2>4. CASE stage' = "over" /\ stop' \in {"done", "resource_limit", "crashed"}
    <3>1. LoopStage' = "over"
      BY <2>4, <1>n
    <3>2. Loop!Ends(stop')
      BY <2>1, <2>4, <3>1 DEF Loop!Ends, Loop!Goes
    <3> QED
      BY <3>2, <2>4 DEF Loop!TurnNext
  <2> QED
    BY <1>5, <2>2, <2>3, <2>4 DEF ToolReturns, ToolRaises, Stop
<1>6. CASE UNCHANGED loopVars
  BY <1>6, <1>k, <1>0 DEF loopVars, Unseen
<1> QED
  BY <1>1, <1>2, <1>3, <1>4, <1>5, <1>6 DEF LoopNext

\* The conversation of eval_once, with its retries, its transcript and its calls, is
\* the turn loop that an attempt has: no retry forgives a limit, and none ends it.
THEOREM LoopImplementsTurns == LoopSpec => ImplementsTurns
  BY LoopBegins, LoopSteps, LoopInvariant, PTL DEF LoopSpec, ImplementsTurns, Loop!TurnSpec

===============================================================================
