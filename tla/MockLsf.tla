------------------------------ MODULE MockLsf ------------------------------
(***************************************************************************)
(* The local mock-LSF scheduler of src/src/provenance/scheduler.py for one *)
(* run id, together with the two commands that read its verdict: the       *)
(* accounting collector and the extraction gate of stages.py.              *)
(*                                                                         *)
(* Every command is a separate short-lived process and they share nothing  *)
(* but files below runs/{run_id}/provenance/scheduler/.  Any command may   *)
(* be started at any time (the Make targets are public), so Next           *)
(* interleaves them freely.  SerialLsf composes the same actions under the *)
(* discipline of one foreground command at a time.                         *)
(*                                                                         *)
(* A file is written with Path.write_text: it is first truncated, then     *)
(* filled.  Both halves are actions, and what a reader finds in between is *)
(* a torn file, which json.loads rejects.                                  *)
(***************************************************************************)
EXTENDS FiniteSets

CONSTANTS
    Jobs,       \* submit-mock-lsf invocations; job j's wrapper has pid j
    Waiters,    \* wait-mock-lsf invocations
    NoPid,      \* the None of a record whose pid is not published
    Crashes,    \* which processes may be killed from outside
    Readers     \* which of the commands that read the verdict are run

ASSUME NoPidAssumption == NoPid \notin Jobs
ASSUME CrashesAssumption == Crashes \subseteq {"submit", "wrapper", "wait"}
ASSUME ReadersAssumption == Readers \subseteq {"collect", "extract"}

VARIABLES
    jobState,       \* job-state.json
    terminalState,  \* terminal-state.json
    evidence,       \* logs/run_simulation.stage.json
    rawOutput,      \* whose engine run left the raw output file last
    accounting,     \* the state in accounting.yaml
    submission,     \* the pid in submission.yaml
    submit,         \* program counter of each submit
    submitState,    \* the state mapping a submit holds in memory
    wrapper,        \* program counter of each wrapper process
    wrapperState,   \* the state mapping a wrapper holds in memory
    wait,           \* program counter of each wait
    waitState,      \* the mapping `current` (or `terminal`) of a wait
    overdue,        \* whether a polling wait's deadline has passed
    collect,        \* the terminal state a collect has read
    extract,        \* whether an extraction has passed the gate
    extracted,      \* whose raw output was extracted last
    passed          \* history: jobs whose payload returned 0 with status pass

otherFiles == <<evidence, rawOutput, accounting, submission>>
files == <<jobState, terminalState, otherFiles>>
submitVars == <<submit, submitState>>
wrapperVars == <<wrapper, wrapperState, passed>>
waitVars == <<wait, waitState, overdue>>
readerVars == <<collect, extract, extracted>>
notSubmit == <<wrapperVars, waitVars, readerVars>>
notWrapper == <<submitVars, waitVars, readerVars>>
notWait == <<submitVars, wrapperVars, readerVars>>
vars == <<files, submitVars, wrapperVars, waitVars, readerVars>>

Pids == Jobs \cup {NoPid}
TerminalStates == {"DONE", "EXIT", "TIMEOUT"}
States == TerminalStates \cup {"none", "RUN"}

(***************************************************************************)
(* The mapping that job-state.json and terminal-state.json hold, reduced   *)
(* to the two keys the control flow reads.  A process's copy of it is      *)
(* NoEntry again once the process has no further use for it.               *)
(***************************************************************************)
Entry == [state : States, pid : Pids]
NoEntry == [state |-> "none", pid |-> NoPid]

(***************************************************************************)
(* A torn file carries the entry its writer is about to fill in, as a      *)
(* ghost that no reader sees.                                              *)
(***************************************************************************)
Contents == {"missing", "torn", "whole"}
File == [content : Contents, entry : Entry]
NoFile == [content |-> "missing", entry |-> NoEntry]

Whole(f) == f.content = "whole"
IsTerminal(e) == e.state \in TerminalStates

(***************************************************************************)
(* write_text, first half: the text of e is ready when open(path, "w")     *)
(* creates or truncates the file.                                          *)
(***************************************************************************)
Torn(e) == [content |-> "torn", entry |-> e]

(***************************************************************************)
(* write_text, second half.  If another writer has filled the file since   *)
(* the truncation, this text goes over the other's from offset 0, and when *)
(* it is the shorter one a tail is left that makes the file unreadable.    *)
(***************************************************************************)
Filled(f, e) ==
    {[content |-> c, entry |-> e] :
        c \in IF Whole(f) THEN {"whole", "torn"} ELSE {"whole"}}

SubmitBusy == {"unlink", "init", "initFill", "spawn", "reread", "publish",
               "publishFill", "record"}
SubmitPC == SubmitBusy \cup {"idle", "failed", "done"}
WrapperLive == {"handshake", "claim", "claimFill", "payload", "produced",
                "evidence", "terminal", "terminalFill", "terminalLost",
                "final", "finalFill"}
WrapperPC == WrapperLive \cup {"unborn", "orphan", "dead", "exited"}
WaitBusy == {"poll", "decide", "vanished", "write", "writeFill", "rewrite",
             "rewriteFill"}
WaitPC == WaitBusy \cup {"idle", "failed", "done"}

(***************************************************************************)
(* _pid_alive.  The recorded start ticks exclude a reused pid.  A wrapper  *)
(* that has ended while its submit still runs is an unreaped child, and    *)
(* kill(pid, 0) still succeeds on it.                                      *)
(***************************************************************************)
PidAlive(p) ==
    /\ p \in Jobs
    /\ \/ wrapper[p] \in WrapperLive
       \/ /\ wrapper[p] \in {"orphan", "dead", "exited"}
          /\ submit[p] \in SubmitBusy

Init ==
    /\ jobState = NoFile
    /\ terminalState = NoFile
    /\ evidence = [pid |-> NoPid, status |-> "none"]
    /\ rawOutput = NoPid
    /\ accounting = "none"
    /\ submission = NoPid
    /\ submit = [j \in Jobs |-> "idle"]
    /\ submitState = [j \in Jobs |-> NoEntry]
    /\ wrapper = [j \in Jobs |-> "unborn"]
    /\ wrapperState = [j \in Jobs |-> NoEntry]
    /\ wait = [w \in Waiters |-> "idle"]
    /\ waitState = [w \in Waiters |-> NoEntry]
    /\ overdue = [w \in Waiters |-> FALSE]
    /\ collect = "none"
    /\ extract = "idle"
    /\ extracted = NoPid
    /\ passed = {}

-----------------------------------------------------------------------------
(***************************************************************************)
(* submit_mock_lsf_job                                                     *)
(***************************************************************************)

SubmitMoves(j, from, to) ==
    /\ submit[j] = from
    /\ submit' = [submit EXCEPT ![j] = to]

\* Seeded fault: the live-job check is dropped.
NoLiveJobCheck == FALSE

HasLiveExistingJob ==
    /\ Whole(jobState)
    /\ ~IsTerminal(jobState.entry)
    /\ PidAlive(jobState.entry.pid)

\* The refusal, or the error of reading a torn job-state.json.
SubmitRefused(j) ==
    /\ SubmitMoves(j, "idle", "failed")
    /\ HasLiveExistingJob \/ jobState.content = "torn"
    /\ UNCHANGED <<files, submitState, notSubmit>>

SubmitCheck(j) ==
    /\ SubmitMoves(j, "idle", "unlink")
    /\ ~HasLiveExistingJob
    /\ jobState.content # "torn"
    /\ UNCHANGED <<files, submitState, notSubmit>>

\* Seeded fault: an earlier job's terminal-state.json is left in place.
SubmitKeepsTerminalState(j) ==
    /\ SubmitMoves(j, "unlink", "init")
    /\ submitState' = [submitState EXCEPT
                        ![j] = [state |-> "RUN", pid |-> NoPid]]
    /\ UNCHANGED <<files, notSubmit>>

\* A wrapper that has the file open goes on to fill one that has no name.
SubmitUnlink(j) ==
    /\ SubmitMoves(j, "unlink", "init")
    /\ terminalState' = NoFile
    /\ wrapper' = [k \in Jobs |-> IF wrapper[k] = "terminalFill"
                                  THEN "terminalLost" ELSE wrapper[k]]
    /\ submitState' = [submitState EXCEPT
                        ![j] = [state |-> "RUN", pid |-> NoPid]]
    /\ UNCHANGED <<jobState, otherFiles, wrapperState, passed, waitVars,
                   readerVars>>

SubmitTruncate(j) ==
    /\ \/ SubmitMoves(j, "init", "initFill")
       \/ SubmitMoves(j, "publish", "publishFill")
    /\ jobState' = Torn(submitState[j])
    /\ UNCHANGED <<terminalState, otherFiles, submitState, notSubmit>>

SubmitFill(j) ==
    /\ \/ SubmitMoves(j, "initFill", "spawn")
       \/ SubmitMoves(j, "publishFill", "record")
    /\ jobState' \in Filled(jobState, submitState[j])
    /\ submitState' = [submitState EXCEPT ![j] = NoEntry]
    /\ UNCHANGED <<terminalState, otherFiles, notSubmit>>

SubmitSpawn(j) ==
    /\ SubmitMoves(j, "spawn", "reread")
    /\ wrapper' = [wrapper EXCEPT ![j] = "handshake"]
    /\ UNCHANGED <<files, submitState, wrapperState, passed, waitVars,
                   readerVars>>

SubmitReread(j) ==
    /\ Whole(jobState)
    /\ \/ /\ IsTerminal(jobState.entry)
          /\ SubmitMoves(j, "reread", "record")
          /\ UNCHANGED submitState
       \/ /\ ~IsTerminal(jobState.entry)
          /\ SubmitMoves(j, "reread", "publish")
          /\ submitState' = [submitState EXCEPT
                               ![j] = [jobState.entry EXCEPT !.pid = j]]
    /\ UNCHANGED <<files, notSubmit>>

\* The error ends submit; the wrapper it has started stays.
SubmitRereadFails(j) ==
    /\ SubmitMoves(j, "reread", "failed")
    /\ ~Whole(jobState)
    /\ UNCHANGED <<files, submitState, notSubmit>>

SubmitRecord(j) ==
    /\ SubmitMoves(j, "record", "done")
    /\ submission' = j
    /\ UNCHANGED <<jobState, terminalState, evidence, rawOutput, accounting,
                   submitState, notSubmit>>

SubmitCrash(j) ==
    /\ "submit" \in Crashes
    /\ submit[j] \in SubmitBusy
    /\ submit' = [submit EXCEPT ![j] = "failed"]
    /\ submitState' = [submitState EXCEPT ![j] = NoEntry]
    /\ UNCHANGED <<files, notSubmit>>

-----------------------------------------------------------------------------
(***************************************************************************)
(* run_mock_lsf_wrapper and the payload it runs                            *)
(***************************************************************************)

WrapperMoves(j, from, to) ==
    /\ wrapper[j] = from
    /\ wrapper' = [wrapper EXCEPT ![j] = to]

(***************************************************************************)
(* _wait_for_submitted_state_with_pid returns on a published pid, whoever  *)
(* published it, and on any terminal state.  The copy it returns is then   *)
(* marked RUN.                                                             *)
(***************************************************************************)
ReadyToClaim(e) == e.pid # NoPid \/ IsTerminal(e)

WrapperHandshake(j) ==
    /\ WrapperMoves(j, "handshake", "claim")
    /\ Whole(jobState)
    /\ ReadyToClaim(jobState.entry)
    /\ wrapperState' = [wrapperState EXCEPT
                          ![j] = [jobState.entry EXCEPT !.state = "RUN"]]
    /\ UNCHANGED <<files, passed, notWrapper>>

\* Seeded fault: the handshake has no deadline.
WrapperHandshakeHangs(j) ==
    /\ WrapperMoves(j, "handshake", "dead")
    /\ ~Whole(jobState)
    /\ UNCHANGED <<files, wrapperState, passed, notWrapper>>

\* Five seconds without a pid, or a torn read: both outside the try block.
WrapperHandshakeFails(j) ==
    /\ WrapperMoves(j, "handshake", "dead")
    /\ ~Whole(jobState) \/ ~ReadyToClaim(jobState.entry)
    /\ UNCHANGED <<files, wrapperState, passed, notWrapper>>

WrapperTruncate(j) ==
    /\ \/ WrapperMoves(j, "claim", "claimFill")
       \/ WrapperMoves(j, "final", "finalFill")
    /\ jobState' = Torn(wrapperState[j])
    /\ UNCHANGED <<terminalState, otherFiles, wrapperState, passed,
                   notWrapper>>

WrapperFill(j) ==
    /\ \/ /\ WrapperMoves(j, "claimFill", "payload")
          /\ UNCHANGED wrapperState
       \/ /\ WrapperMoves(j, "finalFill", "exited")
          /\ wrapperState' = [wrapperState EXCEPT ![j] = NoEntry]
    /\ jobState' \in Filled(jobState, wrapperState[j])
    /\ UNCHANGED <<terminalState, otherFiles, passed, notWrapper>>

\* synthetic_sim_engine.sh moves its finished temporary file into place.
EngineOutput(j) ==
    /\ WrapperMoves(j, "payload", "produced")
    /\ rawOutput' = j
    /\ UNCHANGED <<jobState, terminalState, evidence, accounting,
                   submission, wrapperState, passed, notWrapper>>

\* Seeded fault: the passing payload's stage evidence is not written.
PayloadPassesUnrecorded(j) ==
    /\ WrapperMoves(j, "produced", "terminal")
    /\ wrapperState' = [wrapperState EXCEPT ![j].state = "DONE"]
    /\ passed' = passed \cup {j}
    /\ UNCHANGED <<files, notWrapper>>

PayloadPasses(j) ==
    /\ WrapperMoves(j, "produced", "evidence")
    /\ wrapperState' = [wrapperState EXCEPT ![j].state = "DONE"]
    /\ passed' = passed \cup {j}
    /\ UNCHANGED <<files, notWrapper>>

\* Seeded fault: the wrapper does not look at return code and status.
PayloadFailsAsDone(j) ==
    /\ \/ WrapperMoves(j, "payload", "evidence")
       \/ WrapperMoves(j, "produced", "evidence")
    /\ wrapperState' = [wrapperState EXCEPT ![j].state = "DONE"]
    /\ UNCHANGED <<files, passed, notWrapper>>

\* A nonzero return code, or an output that is missing.
PayloadFails(j) ==
    /\ \/ WrapperMoves(j, "payload", "evidence")
       \/ WrapperMoves(j, "produced", "evidence")
    /\ wrapperState' = [wrapperState EXCEPT ![j].state = "EXIT"]
    /\ UNCHANGED <<files, passed, notWrapper>>

\* The except branch: no payload evidence is written.
PayloadRaises(j) ==
    /\ \/ WrapperMoves(j, "payload", "terminal")
       \/ WrapperMoves(j, "produced", "terminal")
    /\ wrapperState' = [wrapperState EXCEPT ![j].state = "EXIT"]
    /\ UNCHANGED <<files, passed, notWrapper>>

WriteEvidence(j) ==
    /\ WrapperMoves(j, "evidence", "terminal")
    /\ evidence' = [pid |-> j,
                    status |-> IF wrapperState[j].state = "DONE"
                               THEN "pass" ELSE "fail"]
    /\ UNCHANGED <<jobState, terminalState, rawOutput, accounting,
                   submission, wrapperState, passed, notWrapper>>

TerminalTruncate(j) ==
    /\ WrapperMoves(j, "terminal", "terminalFill")
    /\ terminalState' = Torn(wrapperState[j])
    /\ UNCHANGED <<jobState, otherFiles, wrapperState, passed, notWrapper>>

TerminalFill(j) ==
    /\ \/ /\ WrapperMoves(j, "terminalFill", "final")
          /\ terminalState' \in Filled(terminalState, wrapperState[j])
       \/ /\ WrapperMoves(j, "terminalLost", "final")
          /\ UNCHANGED terminalState
    /\ UNCHANGED <<jobState, otherFiles, wrapperState, passed, notWrapper>>

\* The wrapper alone dies; an engine it has running is not in its way.
WrapperCrash(j) ==
    /\ "wrapper" \in Crashes
    /\ wrapper[j] \in WrapperLive
    /\ wrapper' = [wrapper EXCEPT
                     ![j] = IF @ = "payload" THEN "orphan" ELSE "dead"]
    /\ wrapperState' = [wrapperState EXCEPT ![j] = NoEntry]
    /\ UNCHANGED <<files, passed, notWrapper>>

OrphanEnds(j) ==
    /\ WrapperMoves(j, "orphan", "dead")
    /\ rawOutput' \in {rawOutput, j}
    /\ UNCHANGED <<jobState, terminalState, evidence, accounting,
                   submission, wrapperState, passed, notWrapper>>

-----------------------------------------------------------------------------
(***************************************************************************)
(* wait_mock_lsf_job and _cmd_wait_mock_lsf                                *)
(***************************************************************************)

WaitMoves(w, from, to) ==
    /\ wait[w] = from
    /\ wait' = [wait EXCEPT ![w] = to]

WaitStart(w) ==
    /\ \/ jobState.content = "missing" /\ WaitMoves(w, "idle", "failed")
       \/ jobState.content # "missing" /\ WaitMoves(w, "idle", "poll")
    /\ UNCHANGED <<files, waitState, overdue, notWait>>

DeadlinePasses(w) ==
    /\ wait[w] \in {"poll", "decide"}
    /\ ~overdue[w]
    /\ overdue' = [overdue EXCEPT ![w] = TRUE]
    /\ UNCHANGED <<files, wait, waitState, notWait>>

WaitRead(w) ==
    /\ WaitMoves(w, "poll", "decide")
    /\ Whole(jobState)
    /\ waitState' = [waitState EXCEPT ![w] = jobState.entry]
    /\ UNCHANGED <<files, overdue, notWait>>

\* json.loads rejects the torn file and the command exits 2.
WaitReadFails(w) ==
    /\ WaitMoves(w, "poll", "failed")
    /\ ~Whole(jobState)
    /\ UNCHANGED <<files, waitState, overdue, notWait>>

WaitTerminal(w) ==
    /\ WaitMoves(w, "decide", "write")
    /\ IsTerminal(waitState[w])
    /\ overdue' = [overdue EXCEPT ![w] = FALSE]
    /\ UNCHANGED <<files, waitState, notWait>>

\* Seeded fault: TIMEOUT is recorded and the process group left running.
WaitTimeoutWithoutKill(w) ==
    /\ WaitMoves(w, "decide", "write")
    /\ ~IsTerminal(waitState[w])
    /\ overdue[w]
    /\ waitState' = [waitState EXCEPT ![w].state = "TIMEOUT"]
    /\ overdue' = [overdue EXCEPT ![w] = FALSE]
    /\ UNCHANGED <<files, notWait>>

\* Seeded fault: the deadline counts only once the process is gone.
WaitTimeoutAfterExit(w) ==
    /\ ~PidAlive(waitState[w].pid)
    /\ WaitTimeoutWithoutKill(w)

\* _record_timeout: the deadline is looked at before liveness, and the
\* process group of the pid read earlier is killed, payload included.
WaitTimeout(w) ==
    /\ WaitMoves(w, "decide", "write")
    /\ ~IsTerminal(waitState[w])
    /\ overdue[w]
    /\ wrapper' = [j \in Jobs |->
                     IF j = waitState[w].pid /\ wrapper[j] # "exited"
                     THEN "dead" ELSE wrapper[j]]
    /\ wrapperState' = [j \in Jobs |->
                          IF j = waitState[w].pid
                          THEN NoEntry ELSE wrapperState[j]]
    /\ waitState' = [waitState EXCEPT ![w].state = "TIMEOUT"]
    /\ overdue' = [overdue EXCEPT ![w] = FALSE]
    /\ UNCHANGED <<files, submitVars, passed, readerVars>>

WaitSleep(w) ==
    /\ WaitMoves(w, "decide", "poll")
    /\ ~IsTerminal(waitState[w])
    /\ ~overdue[w]
    /\ PidAlive(waitState[w].pid)
    /\ waitState' = [waitState EXCEPT ![w] = NoEntry]
    /\ UNCHANGED <<files, overdue, notWait>>

\* Seeded fault: a RUN record counts as vanished without a look at the pid.
WaitVanishedUnseen(w) ==
    /\ WaitMoves(w, "decide", "vanished")
    /\ ~IsTerminal(waitState[w])
    /\ ~overdue[w]
    /\ UNCHANGED <<files, waitState, overdue, notWait>>

WaitVanished(w) ==
    /\ WaitMoves(w, "decide", "vanished")
    /\ ~IsTerminal(waitState[w])
    /\ ~overdue[w]
    /\ ~PidAlive(waitState[w].pid)
    /\ UNCHANGED <<files, waitState, overdue, notWait>>

\* Seeded fault: success is inferred from the disappearance of the process.
WaitRecoverAsDone(w) ==
    /\ WaitMoves(w, "vanished", "write")
    /\ waitState' = [waitState EXCEPT ![w].state = "DONE"]
    /\ UNCHANGED <<files, overdue, notWait>>

\* The wrapper's terminal-state.json decides; without one the job is EXIT.
WaitRecover(w) ==
    /\ \/ /\ Whole(terminalState)
          /\ WaitMoves(w, "vanished", "write")
          /\ waitState' = [waitState EXCEPT ![w] = terminalState.entry]
       \/ /\ terminalState.content = "missing"
          /\ WaitMoves(w, "vanished", "write")
          /\ waitState' = [waitState EXCEPT ![w].state = "EXIT"]
       \/ /\ terminalState.content = "torn"
          /\ WaitMoves(w, "vanished", "failed")
          /\ waitState' = [waitState EXCEPT ![w] = NoEntry]
    /\ UNCHANGED <<files, overdue, notWait>>

\* The job writes job-state.json and the command writes its result there again.
WaitTruncate(w) ==
    /\ \/ WaitMoves(w, "write", "writeFill")
       \/ WaitMoves(w, "rewrite", "rewriteFill")
    /\ jobState' = Torn(waitState[w])
    /\ UNCHANGED <<terminalState, otherFiles, waitState, overdue, notWait>>

WaitFill(w) ==
    /\ \/ WaitMoves(w, "writeFill", "rewrite")
       \/ WaitMoves(w, "rewriteFill", "done")
    /\ jobState' \in Filled(jobState, waitState[w])
    /\ UNCHANGED <<terminalState, otherFiles, waitState, overdue, notWait>>

WaitCrash(w) ==
    /\ "wait" \in Crashes
    /\ wait[w] \in WaitBusy
    /\ wait' = [wait EXCEPT ![w] = "failed"]
    /\ waitState' = [waitState EXCEPT ![w] = NoEntry]
    /\ UNCHANGED <<files, overdue, notWait>>

-----------------------------------------------------------------------------
(***************************************************************************)
(* collect_mock_lsf_accounting and the gate of the extraction stages.  A   *)
(* run of either that is refused changes nothing and is not a step.        *)
(***************************************************************************)

\* Seeded fault: accounting is collected of a job in any state.
CollectReadAny ==
    /\ "collect" \in Readers
    /\ collect = "none"
    /\ Whole(jobState)
    /\ collect' = jobState.entry.state
    /\ UNCHANGED <<files, extract, extracted, submitVars, wrapperVars,
                   waitVars>>

CollectRead ==
    /\ "collect" \in Readers
    /\ collect = "none"
    /\ Whole(jobState)
    /\ IsTerminal(jobState.entry)
    /\ collect' = jobState.entry.state
    /\ UNCHANGED <<files, extract, extracted, submitVars, wrapperVars,
                   waitVars>>

CollectWrite ==
    /\ collect # "none"
    /\ accounting' = collect
    /\ collect' = "none"
    /\ UNCHANGED <<jobState, terminalState, evidence, rawOutput, submission,
                   extract, extracted, submitVars, wrapperVars,
                   waitVars>>

\* Seeded fault: the gate takes any terminal state.
ExtractGateTerminal ==
    /\ "extract" \in Readers
    /\ extract = "idle"
    /\ Whole(jobState)
    /\ IsTerminal(jobState.entry)
    /\ extract' = "open"
    /\ UNCHANGED <<files, collect, extracted, submitVars, wrapperVars,
                   waitVars>>

\* _require_scheduler_done_for_extraction
ExtractGate ==
    /\ "extract" \in Readers
    /\ extract = "idle"
    /\ Whole(jobState)
    /\ jobState.entry.state = "DONE"
    /\ extract' = "open"
    /\ UNCHANGED <<files, collect, extracted, submitVars, wrapperVars,
                   waitVars>>

ExtractRun ==
    /\ extract = "open"
    /\ extract' = "idle"
    /\ extracted' = rawOutput
    /\ UNCHANGED <<files, collect, submitVars, wrapperVars, waitVars>>

-----------------------------------------------------------------------------
SubmitStep(j) ==
    \/ SubmitUnlink(j) \/ SubmitTruncate(j) \/ SubmitFill(j)
    \/ SubmitSpawn(j) \/ SubmitReread(j) \/ SubmitRereadFails(j)
    \/ SubmitRecord(j)

WrapperStep(j) ==
    \/ WrapperHandshake(j) \/ WrapperHandshakeFails(j)
    \/ WrapperTruncate(j) \/ WrapperFill(j) \/ WriteEvidence(j)
    \/ TerminalTruncate(j) \/ TerminalFill(j)

PayloadStep(j) ==
    \/ EngineOutput(j) \/ PayloadPasses(j) \/ PayloadFails(j)
    \/ PayloadRaises(j) \/ OrphanEnds(j)

WaitStep(w) ==
    \/ WaitRead(w) \/ WaitReadFails(w) \/ WaitTerminal(w) \/ WaitTimeout(w)
    \/ WaitSleep(w) \/ WaitVanished(w) \/ WaitRecover(w)
    \/ WaitTruncate(w) \/ WaitFill(w)

Next ==
    \/ \E j \in Jobs :
         \/ SubmitRefused(j) \/ SubmitCheck(j) \/ SubmitStep(j)
         \/ SubmitCrash(j) \/ WrapperStep(j) \/ PayloadStep(j)
         \/ WrapperCrash(j)
    \/ \E w \in Waiters :
         WaitStart(w) \/ WaitStep(w) \/ DeadlinePasses(w) \/ WaitCrash(w)
    \/ CollectRead \/ CollectWrite \/ ExtractGate \/ ExtractRun

Spec == Init /\ [][Next]_vars

(***************************************************************************)
(* Fairness: every command and the wrapper keep running once started, and  *)
(* monotonic time reaches a wait's deadline.  Nothing makes an operator    *)
(* start a command, and nothing makes a payload end: it may hang.          *)
(***************************************************************************)
Fairness ==
    /\ \A j \in Jobs : WF_vars(SubmitStep(j)) /\ WF_vars(WrapperStep(j))
    /\ \A w \in Waiters : WF_vars(WaitStep(w)) /\ WF_vars(DeadlinePasses(w))

FairSpec == Spec /\ Fairness

-----------------------------------------------------------------------------
TypeOK ==
    /\ jobState \in File
    /\ terminalState \in File
    /\ evidence \in [pid : Pids, status : {"none", "pass", "fail"}]
    /\ rawOutput \in Pids
    /\ accounting \in TerminalStates \cup {"none"}
    /\ submission \in Pids
    /\ submit \in [Jobs -> SubmitPC]
    /\ submitState \in [Jobs -> Entry]
    /\ wrapper \in [Jobs -> WrapperPC]
    /\ wrapperState \in [Jobs -> Entry]
    /\ wait \in [Waiters -> WaitPC]
    /\ waitState \in [Waiters -> Entry]
    /\ overdue \in [Waiters -> BOOLEAN]
    /\ collect \in TerminalStates \cup {"none"}
    /\ extract \in {"idle", "open"}
    /\ extracted \in Pids
    /\ passed \in SUBSET Jobs

-----------------------------------------------------------------------------
(***************************************************************************)
(* What holds in whatever order the commands are run.                      *)
(***************************************************************************)

DoneShown ==
    \/ Whole(jobState) /\ jobState.entry.state = "DONE"
    \/ Whole(terminalState) /\ terminalState.entry.state = "DONE"
    \/ \E w \in Waiters : wait[w] = "done" /\ waitState[w].state = "DONE"
    \/ accounting = "DONE"
    \/ extract = "open"

(***************************************************************************)
(* No file, wait result or open extraction gate says DONE unless the       *)
(* payload of some submission has returned 0 with all its outputs, and its *)
(* raw output is there to be extracted: no sequence of crashes, torn       *)
(* writes, recoveries and stale write-backs makes up a success.            *)
(***************************************************************************)
DoneNeedsPass == DoneShown => passed # {} /\ rawOutput # NoPid

(***************************************************************************)
(* The payload's stage evidence is on disk before any file says DONE, so a *)
(* manifest that reports DONE always has the evidence its scheduler        *)
(* section links to.                                                       *)
(***************************************************************************)
EvidencePrecedesDone == DoneShown => evidence.status # "none"

(***************************************************************************)
(* A TIMEOUT in job-state.json that names a process means that the process *)
(* and its payload are gone: _record_timeout kills before it writes, and   *)
(* no later write brings the record back over a live process.              *)
(***************************************************************************)
TimeoutMeansDead ==
    \A j \in Jobs :
        jobState.entry = [state |-> "TIMEOUT", pid |-> j]
            => wrapper[j] \in {"dead", "exited"}

(***************************************************************************)
(* Every wait that is started returns, whatever the job, the other         *)
(* commands and crashes do to the files it polls: the deadline bounds the  *)
(* loop even over a payload that hangs.                                    *)
(***************************************************************************)
WaitReturns ==
    \A w \in Waiters : wait[w] \in WaitBusy ~> wait[w] \notin WaitBusy

(***************************************************************************)
(* A wrapper does not wait for ever for a pid that its submit will never   *)
(* publish.                                                                *)
(***************************************************************************)
HandshakeEnds ==
    \A j \in Jobs : wrapper[j] = "handshake" ~> wrapper[j] # "handshake"

(***************************************************************************)
(* The intent of the introduce-minimal-mock-bsub-boundary design: a submit *)
(* never starts a second payload over the same run evidence.               *)
(***************************************************************************)
Executing == {"payload", "produced"}

NoSecondPayload ==
    \A j, k \in Jobs :
        wrapper[j] \in Executing /\ wrapper[k] \in Executing => j = k

(***************************************************************************)
(* The requirement on failed waits: a job that a wait has reported as EXIT *)
(* or TIMEOUT is not DONE for the stages downstream.  For one submission.  *)
(***************************************************************************)
ReportedFailureStands ==
    \A w \in Waiters :
        wait[w] = "done" /\ waitState[w].state \in {"EXIT", "TIMEOUT"}
            => jobState.entry.state # "DONE"

=============================================================================
