--------------------------- MODULE MockLsfProofs ---------------------------
(***************************************************************************)
(* What MockLsf guarantees for every number of submissions and waits, in   *)
(* every order of commands and with every process killable: its type       *)
(* invariant, DoneNeedsPass, EvidencePrecedesDone and TimeoutMeansDead.    *)
(***************************************************************************)
EXTENDS MockLsf, TLAPS

(***************************************************************************)
(* A process is started once, by the submit that goes past "spawn", and a  *)
(* pid gets into a record only after that.  So a kill never hits a pid     *)
(* that is yet to be used, and a spawn finds no trace of its own job.      *)
(***************************************************************************)
BeforeSpawn == {"idle", "unlink", "init", "initFill", "spawn"}

Started(p) == p \in Jobs => wrapper[p] # "unborn"

SpawnedOnce ==
    \A j \in Jobs :
        /\ submit[j] \in BeforeSpawn => wrapper[j] = "unborn"
        /\ submit[j] = "reread" => wrapper[j] # "unborn"
        /\ wrapper[j] = "unborn" => wrapperState[j] = NoEntry

PidsStarted ==
    /\ Started(jobState.entry.pid)
    /\ Started(terminalState.entry.pid)
    /\ \A j \in Jobs :
         Started(submitState[j].pid) /\ Started(wrapperState[j].pid)
    /\ \A w \in Waiters : Started(waitState[w].pid)

StartInv == TypeOK /\ SpawnedOnce /\ PidsStarted

(***************************************************************************)
(* DONE travels between files and memories: a wait copies job-state.json   *)
(* to its memory and back, recovery copies terminal-state.json, a submit   *)
(* rewrites what it has just read.  So the inductive invariant speaks of   *)
(* every place that can hold a state, not only of the files that show it.  *)
(***************************************************************************)
Backed == passed # {} /\ rawOutput # NoPid /\ evidence.status # "none"

FilesBacked ==
    /\ jobState.entry.state = "DONE" => Backed
    /\ terminalState.entry.state = "DONE" => Backed
    /\ accounting = "DONE" => Backed

WrappersBacked ==
    \A j \in Jobs :
        /\ wrapper[j] = "produced" => rawOutput # NoPid
        /\ wrapperState[j].state = "DONE"
             => /\ passed # {}
                /\ rawOutput # NoPid
                /\ wrapper[j] # "evidence" => evidence.status # "none"

CommandsBacked ==
    /\ \A j \in Jobs : submitState[j].state # "DONE"
    /\ \A w \in Waiters : waitState[w].state = "DONE" => Backed
    /\ collect = "DONE" => Backed
    /\ extract = "open" => Backed

DoneCore == FilesBacked /\ WrappersBacked /\ CommandsBacked

DoneInv == StartInv /\ DoneCore

(***************************************************************************)
(* A process that has ended stays so, and TIMEOUT is written only by the   *)
(* wait that killed the process: no wrapper and no submit carries it back. *)
(***************************************************************************)
OnlyWaitsExpire ==
    /\ terminalState.entry.state # "TIMEOUT"
    /\ \A j \in Jobs : /\ submitState[j].state # "TIMEOUT"
                       /\ wrapperState[j].state # "TIMEOUT"

Killed(e) ==
    e.state = "TIMEOUT" /\ e.pid \in Jobs
        => wrapper[e.pid] \in {"dead", "exited"}

ExpiredKilled ==
    /\ Killed(jobState.entry)
    /\ \A w \in Waiters : Killed(waitState[w])

TimeoutCore == OnlyWaitsExpire /\ ExpiredKilled

TimeoutInv == StartInv /\ TimeoutCore

-----------------------------------------------------------------------------
(***************************************************************************)
(* Type correctness.                                                       *)
(***************************************************************************)
LEMMA EntryUpdate ==
    ASSUME NEW e \in Entry, NEW s \in States
    PROVE  /\ [e EXCEPT !.state = s] \in Entry
           /\ [e EXCEPT !.state = s].state = s
           /\ [e EXCEPT !.state = s].pid = e.pid
  BY DEF Entry

LEMMA FileEntry ==
    ASSUME NEW f \in File, NEW e \in Entry
    PROVE  /\ f.entry \in Entry
           /\ Torn(e) \in File /\ Torn(e).entry = e
           /\ \A g \in Filled(f, e) : g \in File /\ g.entry = e
  BY DEF File, Contents, Torn, Filled

LEMMA TypeInit == Init => TypeOK
  BY DEF Init, TypeOK, File, NoFile, Contents, Entry, NoEntry, States,
         TerminalStates, Pids, SubmitPC, WrapperPC, WaitPC

(***************************************************************************)
(* One lemma per process: its steps keep every variable in its type.       *)
(***************************************************************************)
LEMMA SubmitTyped ==
    ASSUME TypeOK, NEW j \in Jobs,
           SubmitRefused(j) \/ SubmitCheck(j) \/ SubmitStep(j) \/ SubmitCrash(j)
    PROVE  TypeOK'
<1> USE DEF TypeOK, Pids, files, otherFiles, notSubmit, wrapperVars,
            waitVars, readerVars, SubmitMoves, SubmitPC, SubmitBusy
<1>0. NoEntry \in Entry /\ [state |-> "RUN", pid |-> NoPid] \in Entry
  BY DEF NoEntry, Entry, States
<1>1. CASE SubmitRefused(j) \/ SubmitCheck(j) \/ SubmitRereadFails(j)
  BY <1>1 DEF SubmitRefused, SubmitCheck, SubmitRereadFails
<1>2. CASE SubmitUnlink(j)
  BY <1>0, <1>2 DEF SubmitUnlink, NoFile, File, Contents, WrapperPC,
                    WrapperLive
<1>3. CASE SubmitTruncate(j)
  <2>1. submitState[j] \in Entry
    OBVIOUS
  <2>2. jobState' \in File
    BY <1>3, <2>1, FileEntry DEF SubmitTruncate
  <2> QED
    BY <1>3, <2>2 DEF SubmitTruncate
<1>4. CASE SubmitFill(j)
  <2>1. submitState[j] \in Entry
    OBVIOUS
  <2>2. jobState' \in File
    BY <1>4, <2>1, FileEntry DEF SubmitFill
  <2> QED
    BY <1>0, <1>4, <2>2 DEF SubmitFill
<1>5. CASE SubmitSpawn(j)
  BY <1>5 DEF SubmitSpawn, WrapperPC, WrapperLive
<1>6. CASE SubmitReread(j)
  <2>1. [jobState.entry EXCEPT !.pid = j] \in Entry
    BY DEF File, Entry
  <2>2. submitState' \in [Jobs -> Entry]
    BY <1>6, <2>1 DEF SubmitReread
  <2>3. submit' \in [Jobs -> SubmitPC]
    BY <1>6 DEF SubmitReread
  <2> QED
    BY <1>6, <2>2, <2>3 DEF SubmitReread
<1>7. CASE SubmitRecord(j) \/ SubmitCrash(j)
  BY <1>0, <1>7 DEF SubmitRecord, SubmitCrash
<1> QED
  BY <1>1, <1>2, <1>3, <1>4, <1>5, <1>6, <1>7 DEF SubmitStep

LEMMA WrapperTyped ==
    ASSUME TypeOK, NEW j \in Jobs,
           WrapperStep(j) \/ PayloadStep(j) \/ WrapperCrash(j)
    PROVE  TypeOK'
<1> USE DEF TypeOK, Pids, files, otherFiles, notWrapper, submitVars,
            waitVars, readerVars, WrapperMoves
<1>0. NoEntry \in Entry /\ wrapperState[j] \in Entry
  BY DEF NoEntry, Entry, States
<1>1. \A s \in {"RUN", "DONE", "EXIT"}, e \in Entry :
        [e EXCEPT !.state = s] \in Entry
  BY EntryUpdate DEF States, TerminalStates
<1>2. CASE WrapperHandshake(j)
  <2>1. [jobState.entry EXCEPT !.state = "RUN"] \in Entry
    BY <1>1 DEF File
  <2> QED
    BY <1>2, <2>1 DEF WrapperHandshake, WrapperPC, WrapperLive
<1>3. CASE WrapperHandshakeFails(j)
  BY <1>3 DEF WrapperHandshakeFails, WrapperPC
<1>4. CASE WrapperTruncate(j)
  <2>1. jobState' \in File
    BY <1>0, <1>4, FileEntry DEF WrapperTruncate
  <2> QED
    BY <1>4, <2>1 DEF WrapperTruncate, WrapperPC, WrapperLive
<1>5. CASE WrapperFill(j)
  <2>1. jobState' \in File
    BY <1>0, <1>5, FileEntry DEF WrapperFill
  <2>2. wrapper' \in [Jobs -> WrapperPC]
    BY <1>5 DEF WrapperFill, WrapperPC, WrapperLive
  <2>3. wrapperState' \in [Jobs -> Entry]
    BY <1>0, <1>5 DEF WrapperFill
  <2> QED
    BY <1>5, <2>1, <2>2, <2>3 DEF WrapperFill
<1>6. CASE EngineOutput(j) \/ OrphanEnds(j)
  BY <1>6 DEF EngineOutput, OrphanEnds, WrapperPC, WrapperLive
<1>7. CASE PayloadPasses(j) \/ PayloadFails(j) \/ PayloadRaises(j)
  <2>1. wrapper' \in [Jobs -> WrapperPC]
    BY <1>7 DEF PayloadPasses, PayloadFails, PayloadRaises, WrapperPC,
                WrapperLive
  <2>2. PICK s \in {"DONE", "EXIT"} :
          wrapperState' = [wrapperState EXCEPT ![j].state = s]
    BY <1>7 DEF PayloadPasses, PayloadFails, PayloadRaises
  <2>3. [wrapperState[j] EXCEPT !.state = s] \in Entry
    BY <1>0, <1>1
  <2>4. wrapperState' \in [Jobs -> Entry]
    BY <2>2, <2>3
  <2> QED
    BY <1>7, <2>1, <2>4 DEF PayloadPasses, PayloadFails, PayloadRaises
<1>8. CASE WriteEvidence(j)
  BY <1>8 DEF WriteEvidence, WrapperPC, WrapperLive
<1>9. CASE TerminalTruncate(j) \/ TerminalFill(j)
  <2>1. terminalState' \in File
    BY <1>0, <1>9, FileEntry DEF TerminalTruncate, TerminalFill
  <2> QED
    BY <1>9, <2>1 DEF TerminalTruncate, TerminalFill, WrapperPC, WrapperLive
<1>10. CASE WrapperCrash(j)
  BY <1>0, <1>10 DEF WrapperCrash, WrapperPC
<1> QED
  BY <1>2, <1>3, <1>4, <1>5, <1>6, <1>7, <1>8, <1>9, <1>10
  DEF WrapperStep, PayloadStep

LEMMA WaitTyped ==
    ASSUME TypeOK, NEW w \in Waiters,
           WaitStart(w) \/ WaitStep(w) \/ DeadlinePasses(w) \/ WaitCrash(w)
    PROVE  TypeOK'
<1> USE DEF TypeOK, files, otherFiles, notWait, submitVars, wrapperVars,
            readerVars, WaitMoves, WaitPC, WaitBusy
<1>0. NoEntry \in Entry /\ waitState[w] \in Entry
  BY DEF NoEntry, Entry, States, Pids
<1>1. \A s \in {"EXIT", "TIMEOUT"} :
        [waitState[w] EXCEPT !.state = s] \in Entry
  BY <1>0, EntryUpdate DEF States, TerminalStates
<1>2. CASE WaitStart(w) \/ DeadlinePasses(w) \/ WaitReadFails(w)
             \/ WaitTerminal(w) \/ WaitVanished(w)
  BY <1>2 DEF WaitStart, DeadlinePasses, WaitReadFails, WaitTerminal,
              WaitVanished
<1>3. CASE WaitRead(w)
  BY <1>3 DEF WaitRead, File
<1>4. CASE WaitTimeout(w)
  <2>1. waitState' \in [Waiters -> Entry]
    BY <1>1, <1>4 DEF WaitTimeout
  <2>2. wrapper' \in [Jobs -> WrapperPC]
    BY <1>4 DEF WaitTimeout, WrapperPC
  <2>3. wrapperState' \in [Jobs -> Entry]
    BY <1>0, <1>4 DEF WaitTimeout
  <2> QED
    BY <1>4, <2>1, <2>2, <2>3 DEF WaitTimeout
<1>5. CASE WaitSleep(w) \/ WaitCrash(w)
  BY <1>0, <1>5 DEF WaitSleep, WaitCrash
<1>6. CASE WaitRecover(w)
  <2>1. terminalState.entry \in Entry
    BY DEF File
  <2>2. PICK e \in Entry : waitState' = [waitState EXCEPT ![w] = e]
    BY <1>0, <1>1, <1>6, <2>1 DEF WaitRecover
  <2>3. wait' \in [Waiters -> WaitPC]
    BY <1>6 DEF WaitRecover
  <2> QED
    BY <1>6, <2>2, <2>3 DEF WaitRecover
<1>7. CASE WaitTruncate(w) \/ WaitFill(w)
  <2>1. jobState' \in File
    BY <1>0, <1>7, FileEntry DEF WaitTruncate, WaitFill
  <2> QED
    BY <1>7, <2>1 DEF WaitTruncate, WaitFill
<1> QED
  BY <1>2, <1>3, <1>4, <1>5, <1>6, <1>7 DEF WaitStep

LEMMA ReaderTyped ==
    ASSUME TypeOK, CollectRead \/ CollectWrite \/ ExtractGate \/ ExtractRun
    PROVE  TypeOK'
  BY DEF TypeOK, CollectRead, CollectWrite, ExtractGate, ExtractRun,
         IsTerminal, TerminalStates, Pids, files, otherFiles, submitVars,
         wrapperVars, waitVars

LEMMA TypeStep == TypeOK /\ [Next]_vars => TypeOK'
<1> SUFFICES ASSUME TypeOK, [Next]_vars PROVE TypeOK'
    OBVIOUS
<1>1. CASE Next
  BY <1>1, SubmitTyped, WrapperTyped, WaitTyped, ReaderTyped DEF Next
<1>2. CASE UNCHANGED vars
  BY <1>2 DEF TypeOK, vars, files, otherFiles, submitVars, wrapperVars,
              waitVars, readerVars
<1> QED
  BY <1>1, <1>2

(***************************************************************************)
(* Every file, memory and program counter stays in its type, for any       *)
(* number of commands in any order.                                        *)
(***************************************************************************)
THEOREM TypeCorrect == Spec => []TypeOK
  BY TypeInit, TypeStep, PTL DEF Spec

-----------------------------------------------------------------------------
(***************************************************************************)
(* Records name only processes that were started.                          *)
(***************************************************************************)
StartCore == SpawnedOnce /\ PidsStarted

LEMMA StartInit == Init => StartInv
<1> SUFFICES ASSUME Init PROVE SpawnedOnce /\ PidsStarted
  BY TypeInit DEF StartInv
<1> QED
  BY NoPidAssumption DEF Init, SpawnedOnce, PidsStarted, Started, NoFile,
                         NoEntry

LEMMA SubmitStarted ==
    ASSUME StartInv, NEW j \in Jobs,
           SubmitRefused(j) \/ SubmitCheck(j) \/ SubmitStep(j) \/ SubmitCrash(j)
    PROVE  StartCore'
<1> USE NoPidAssumption
    DEF StartInv, StartCore, SpawnedOnce, PidsStarted, Started, BeforeSpawn,
        files, otherFiles, notSubmit, wrapperVars, waitVars, readerVars
<1>0. /\ submitState \in [Jobs -> Entry] /\ submitState[j] \in Entry
      /\ jobState \in File /\ jobState.entry \in Entry
      /\ wrapper \in [Jobs -> WrapperPC] /\ submit \in [Jobs -> SubmitPC]
  BY FileEntry DEF TypeOK, File
<1>1. CASE SubmitRefused(j) \/ SubmitCheck(j) \/ SubmitRereadFails(j)
             \/ SubmitRecord(j)
  BY <1>0, <1>1 DEF SubmitRefused, SubmitCheck, SubmitRereadFails,
                    SubmitRecord, SubmitMoves
<1>2. CASE SubmitUnlink(j)
  BY <1>0, <1>2 DEF SubmitUnlink, SubmitMoves, NoFile, NoEntry
<1>3. CASE SubmitTruncate(j)
  <2>1. jobState'.entry = submitState[j]
    BY <1>0, <1>3, FileEntry DEF SubmitTruncate
  <2> QED
    BY <1>0, <1>3, <2>1 DEF SubmitTruncate, SubmitMoves
<1>4. CASE SubmitFill(j)
  <2>1. jobState'.entry = submitState[j]
    BY <1>0, <1>4, FileEntry DEF SubmitFill
  <2> QED
    BY <1>0, <1>4, <2>1 DEF SubmitFill, SubmitMoves, NoEntry
<1>5. CASE SubmitSpawn(j)
  BY <1>0, <1>5 DEF SubmitSpawn, SubmitMoves
<1>6. CASE SubmitReread(j)
  <2>1. [jobState.entry EXCEPT !.pid = j].pid = j
    BY <1>0 DEF Entry
  <2>2. submitState' = submitState \/ submitState'[j].pid = j
    BY <1>0, <1>6, <2>1 DEF SubmitReread
  <2>3. \A k \in Jobs : k # j => submitState'[k] = submitState[k]
    BY <1>0, <1>6 DEF SubmitReread
  <2>4. wrapper[j] # "unborn"
    BY <1>6 DEF SubmitReread, SubmitMoves
  <2>5. SpawnedOnce'
    BY <1>0, <1>6 DEF SubmitReread, SubmitMoves
  <2>6. PidsStarted'
    BY <1>0, <1>6, <2>2, <2>3, <2>4 DEF SubmitReread
  <2> QED
    BY <2>5, <2>6
<1>7. CASE SubmitCrash(j)
  BY <1>0, <1>7 DEF SubmitCrash, NoEntry
<1> QED
  BY <1>1, <1>2, <1>3, <1>4, <1>5, <1>6, <1>7 DEF SubmitStep

LEMMA WrapperStarted ==
    ASSUME StartInv, NEW j \in Jobs,
           WrapperStep(j) \/ PayloadStep(j) \/ WrapperCrash(j)
    PROVE  StartCore'
<1> USE NoPidAssumption
    DEF StartInv, StartCore, SpawnedOnce, PidsStarted, Started,
        files, otherFiles, notWrapper, submitVars, waitVars, readerVars,
        WrapperMoves
<1>0. /\ wrapperState[j] \in Entry /\ wrapperState \in [Jobs -> Entry]
      /\ wrapper \in [Jobs -> WrapperPC]
      /\ jobState \in File /\ terminalState \in File
      /\ jobState.entry \in Entry
  BY FileEntry DEF TypeOK, File
<1>1. CASE WrapperHandshake(j)
  <2>1. wrapperState'[j].pid = jobState.entry.pid
    BY <1>0, <1>1, EntryUpdate DEF WrapperHandshake, States
  <2> QED
    BY <1>0, <1>1, <2>1 DEF WrapperHandshake
<1>2. CASE WrapperHandshakeFails(j) \/ EngineOutput(j) \/ OrphanEnds(j)
             \/ WriteEvidence(j)
  BY <1>0, <1>2 DEF WrapperHandshakeFails, EngineOutput, OrphanEnds,
                    WriteEvidence
<1>3. CASE WrapperTruncate(j)
  <2>1. jobState'.entry = wrapperState[j]
    BY <1>0, <1>3, FileEntry DEF WrapperTruncate
  <2> QED
    BY <1>0, <1>3, <2>1 DEF WrapperTruncate
<1>4. CASE WrapperFill(j)
  <2>1. jobState'.entry = wrapperState[j]
    BY <1>0, <1>4, FileEntry DEF WrapperFill
  <2> QED
    BY <1>0, <1>4, <2>1 DEF WrapperFill, NoEntry
<1>5. CASE PayloadPasses(j) \/ PayloadFails(j) \/ PayloadRaises(j)
  <2>1. PICK s \in {"DONE", "EXIT"} :
          wrapperState' = [wrapperState EXCEPT ![j].state = s]
    BY <1>5 DEF PayloadPasses, PayloadFails, PayloadRaises
  <2>2. wrapperState'[j].pid = wrapperState[j].pid
    BY <1>0, <2>1 DEF Entry
  <2>3. \A k \in Jobs : k # j => wrapperState'[k] = wrapperState[k]
    BY <1>0, <2>1
  <2>4. wrapper[j] # "unborn" /\ wrapper'[j] # "unborn"
    BY <1>0, <1>5 DEF PayloadPasses, PayloadFails, PayloadRaises
  <2>5. \A k \in Jobs : k # j => wrapper'[k] = wrapper[k]
    BY <1>0, <1>5 DEF PayloadPasses, PayloadFails, PayloadRaises
  <2>6. UNCHANGED <<files, notWrapper>>
    BY <1>5 DEF PayloadPasses, PayloadFails, PayloadRaises
  <2> QED
    BY <2>2, <2>3, <2>4, <2>5, <2>6
<1>6. CASE TerminalTruncate(j) \/ TerminalFill(j)
  <2>1. terminalState'.entry \in {wrapperState[j], terminalState.entry}
    BY <1>0, <1>6, FileEntry DEF TerminalTruncate, TerminalFill
  <2> QED
    BY <1>0, <1>6, <2>1 DEF TerminalTruncate, TerminalFill
<1>7. CASE WrapperCrash(j)
  BY <1>0, <1>7 DEF WrapperCrash, NoEntry, WrapperLive
<1> QED
  BY <1>1, <1>2, <1>3, <1>4, <1>5, <1>6, <1>7 DEF WrapperStep, PayloadStep

LEMMA WaitStarted ==
    ASSUME StartInv, NEW w \in Waiters,
           WaitStart(w) \/ WaitStep(w) \/ DeadlinePasses(w) \/ WaitCrash(w)
    PROVE  StartCore'
<1> USE NoPidAssumption
    DEF StartInv, StartCore, SpawnedOnce, PidsStarted, Started,
        files, otherFiles, notWait, submitVars, wrapperVars, readerVars
<1>0. /\ waitState[w] \in Entry /\ waitState \in [Waiters -> Entry]
      /\ jobState \in File
      /\ wrapper \in [Jobs -> WrapperPC]
  BY DEF TypeOK
<1>1. CASE WaitStart(w) \/ DeadlinePasses(w) \/ WaitReadFails(w)
             \/ WaitTerminal(w) \/ WaitVanished(w)
  BY <1>1 DEF WaitStart, DeadlinePasses, WaitReadFails, WaitTerminal,
              WaitVanished
<1>2. CASE WaitRead(w)
  BY <1>0, <1>2 DEF WaitRead
<1>3. CASE WaitTimeout(w)
  <2>1. waitState'[w].pid = waitState[w].pid
    BY <1>0, <1>3 DEF WaitTimeout, Entry
  <2>2. \A v \in Waiters : v # w => waitState'[v] = waitState[v]
    BY <1>0, <1>3 DEF WaitTimeout
  <2>3. \A k \in Jobs : /\ wrapper'[k] = "unborn" <=> wrapper[k] = "unborn"
                        /\ wrapperState'[k] \in {wrapperState[k], NoEntry}
    BY <1>0, <1>3 DEF WaitTimeout
  <2> QED
    BY <1>3, <2>1, <2>2, <2>3 DEF WaitTimeout, NoEntry
<1>4. CASE WaitSleep(w) \/ WaitCrash(w)
  BY <1>0, <1>4 DEF WaitSleep, WaitCrash, NoEntry
<1>5. CASE WaitRecover(w)
  <2>1. waitState'[w].pid \in {waitState[w].pid, terminalState.entry.pid, NoPid}
    BY <1>0, <1>5 DEF WaitRecover, NoEntry, Entry
  <2>2. \A v \in Waiters : v # w => waitState'[v] = waitState[v]
    BY <1>0, <1>5 DEF WaitRecover
  <2> QED
    BY <1>5, <2>1, <2>2 DEF WaitRecover
<1>6. CASE WaitTruncate(w) \/ WaitFill(w)
  <2>1. jobState'.entry = waitState[w]
    BY <1>0, <1>6, FileEntry DEF WaitTruncate, WaitFill
  <2> QED
    BY <1>6, <2>1 DEF WaitTruncate, WaitFill
<1> QED
  BY <1>1, <1>2, <1>3, <1>4, <1>5, <1>6 DEF WaitStep

LEMMA ReaderStarted ==
    ASSUME StartInv, CollectRead \/ CollectWrite \/ ExtractGate \/ ExtractRun
    PROVE  StartCore'
  BY DEF StartInv, StartCore, SpawnedOnce, PidsStarted, Started, CollectRead,
         CollectWrite, ExtractGate, ExtractRun, files, otherFiles, submitVars,
         wrapperVars, waitVars

LEMMA StartStep == StartInv /\ [Next]_vars => StartInv'
<1> SUFFICES ASSUME StartInv, [Next]_vars PROVE StartInv'
    OBVIOUS
<1>1. TypeOK'
  BY TypeStep DEF StartInv
<1>2. CASE Next
  <2>1. StartCore'
    BY <1>2, SubmitStarted, WrapperStarted, WaitStarted, ReaderStarted
    DEF Next
  <2> QED
    BY <1>1, <2>1 DEF StartInv, StartCore
<1>3. CASE UNCHANGED vars
  BY <1>1, <1>3 DEF StartInv, SpawnedOnce, PidsStarted, Started, vars, files,
       otherFiles, submitVars, wrapperVars, waitVars, readerVars
<1> QED
  BY <1>2, <1>3

-----------------------------------------------------------------------------
(***************************************************************************)
(* DONE is backed wherever it is held.                                     *)
(***************************************************************************)
LEMMA DoneInit == Init => DoneInv
<1> SUFFICES ASSUME Init PROVE DoneCore
  BY StartInit DEF DoneInv
<1> QED
  BY DEF Init, DoneCore, FilesBacked, WrappersBacked, CommandsBacked, NoFile,
         NoEntry

LEMMA SubmitBacked ==
    ASSUME DoneInv, NEW j \in Jobs,
           SubmitRefused(j) \/ SubmitCheck(j) \/ SubmitStep(j) \/ SubmitCrash(j)
    PROVE  DoneCore'
<1> USE DEF DoneInv, StartInv, DoneCore, FilesBacked, WrappersBacked, CommandsBacked,
            Backed, files, otherFiles, notSubmit, wrapperVars, waitVars,
            readerVars
<1>0. /\ submitState \in [Jobs -> Entry] /\ submitState[j] \in Entry
      /\ jobState \in File
      /\ wrapper \in [Jobs -> WrapperPC]
  BY DEF TypeOK
<1>1. CASE SubmitRefused(j) \/ SubmitCheck(j) \/ SubmitRereadFails(j)
             \/ SubmitRecord(j)
  BY <1>1 DEF SubmitRefused, SubmitCheck, SubmitRereadFails, SubmitRecord
<1>2. CASE SubmitUnlink(j)
  BY <1>2 DEF SubmitUnlink, NoFile, NoEntry, TypeOK
<1>3. CASE SubmitTruncate(j)
  <2>1. jobState'.entry = submitState[j]
    BY <1>0, <1>3, FileEntry DEF SubmitTruncate
  <2> QED
    BY <1>3, <2>1 DEF SubmitTruncate
<1>4. CASE SubmitFill(j)
  <2>1. jobState'.entry = submitState[j]
    BY <1>0, <1>4, FileEntry DEF SubmitFill
  <2> QED
    BY <1>4, <2>1 DEF SubmitFill, NoEntry, TypeOK
<1>5. CASE SubmitSpawn(j)
  <2>1. wrapper[j] = "unborn"
    BY <1>5 DEF SubmitSpawn, SubmitMoves, SpawnedOnce, BeforeSpawn
  <2>2. wrapperState[j] = NoEntry
    BY <2>1 DEF SpawnedOnce
  <2> QED
    BY <1>0, <1>5, <2>2 DEF SubmitSpawn, NoEntry
<1>6. CASE SubmitReread(j)
  <2>1. jobState.entry \in Entry
    BY <1>0, FileEntry
  <2>2. [jobState.entry EXCEPT !.pid = j].state = jobState.entry.state
    BY <2>1 DEF Entry
  <2>3. submitState' = submitState \/ ~IsTerminal(submitState'[j])
    BY <1>0, <1>6, <2>2 DEF SubmitReread, IsTerminal
  <2>4. \A k \in Jobs : submitState'[k].state # "DONE"
    BY <1>0, <1>6, <2>3 DEF SubmitReread, IsTerminal, TerminalStates
  <2> QED
    BY <1>6, <2>4 DEF SubmitReread
<1>7. CASE SubmitCrash(j)
  BY <1>7 DEF SubmitCrash, NoEntry, TypeOK
<1> QED
  BY <1>1, <1>2, <1>3, <1>4, <1>5, <1>6, <1>7 DEF SubmitStep

LEMMA WrapperBacked ==
    ASSUME DoneInv, NEW j \in Jobs,
           WrapperStep(j) \/ PayloadStep(j) \/ WrapperCrash(j)
    PROVE  DoneCore'
<1> USE DEF DoneInv, StartInv, DoneCore, FilesBacked, WrappersBacked, CommandsBacked,
            Backed, files, otherFiles, notWrapper, submitVars, waitVars,
            readerVars, WrapperMoves
<1>0. /\ wrapperState[j] \in Entry
      /\ jobState \in File /\ terminalState \in File
      /\ wrapper \in [Jobs -> WrapperPC]
      /\ wrapperState \in [Jobs -> Entry]
  BY DEF TypeOK
<1>1. CASE WrapperHandshake(j)
  <2>1. wrapperState'[j].state = "RUN"
    BY <1>0, <1>1, EntryUpdate
    DEF WrapperHandshake, File, States
  <2> QED
    BY <1>0, <1>1, <2>1 DEF WrapperHandshake
<1>2. CASE WrapperHandshakeFails(j)
  BY <1>0, <1>2 DEF WrapperHandshakeFails
<1>3. CASE WrapperTruncate(j)
  <2>1. jobState'.entry = wrapperState[j]
    BY <1>0, <1>3, FileEntry DEF WrapperTruncate
  <2>2. wrapperState[j].state = "DONE" => Backed
    BY <1>3 DEF WrapperTruncate
  <2> QED
    BY <1>0, <1>3, <2>1, <2>2 DEF WrapperTruncate
<1>4. CASE WrapperFill(j)
  <2>1. jobState'.entry = wrapperState[j]
    BY <1>0, <1>4, FileEntry DEF WrapperFill
  <2>2. wrapperState[j].state = "DONE" => Backed
    BY <1>4 DEF WrapperFill
  <2> QED
    BY <1>0, <1>4, <2>1, <2>2 DEF WrapperFill, NoEntry
<1>5. CASE EngineOutput(j) \/ OrphanEnds(j)
  BY <1>0, <1>5, NoPidAssumption DEF EngineOutput, OrphanEnds
<1>6. CASE PayloadPasses(j)
  <2>1. rawOutput # NoPid /\ passed' # {}
    BY <1>6 DEF PayloadPasses
  <2> QED
    BY <1>0, <1>6, <2>1 DEF PayloadPasses
<1>7. CASE PayloadFails(j) \/ PayloadRaises(j)
  <2>1. wrapperState' = [wrapperState EXCEPT ![j].state = "EXIT"]
    BY <1>7 DEF PayloadFails, PayloadRaises
  <2>2. wrapperState'[j].state = "EXIT"
    BY <1>0, <2>1, EntryUpdate DEF States, TerminalStates
  <2> QED
    BY <1>0, <1>7, <2>1, <2>2 DEF PayloadFails, PayloadRaises
<1>8. CASE WriteEvidence(j)
  <2>1. evidence'.status # "none"
    BY <1>8 DEF WriteEvidence
  <2> QED
    BY <1>0, <1>8, <2>1 DEF WriteEvidence
<1>9. CASE TerminalTruncate(j) \/ TerminalFill(j)
  <2>1. terminalState'.entry \in {wrapperState[j], terminalState.entry}
    BY <1>0, <1>9, FileEntry DEF TerminalTruncate, TerminalFill
  <2>2. wrapperState[j].state = "DONE" => Backed
    BY <1>9 DEF TerminalTruncate, TerminalFill
  <2> QED
    BY <1>0, <1>9, <2>1, <2>2 DEF TerminalTruncate, TerminalFill
<1>10. CASE WrapperCrash(j)
  BY <1>0, <1>10 DEF WrapperCrash, NoEntry
<1> QED
  BY <1>1, <1>2, <1>3, <1>4, <1>5, <1>6, <1>7, <1>8, <1>9, <1>10
  DEF WrapperStep, PayloadStep

LEMMA WaitBacked ==
    ASSUME DoneInv, NEW w \in Waiters,
           WaitStart(w) \/ WaitStep(w) \/ DeadlinePasses(w) \/ WaitCrash(w)
    PROVE  DoneCore'
<1> USE DEF DoneInv, StartInv, DoneCore, FilesBacked, WrappersBacked, CommandsBacked,
            Backed, files, otherFiles, notWait, submitVars, wrapperVars,
            readerVars
<1>0. /\ waitState[w] \in Entry
      /\ jobState \in File
      /\ waitState \in [Waiters -> Entry]
  BY DEF TypeOK
<1>1. CASE WaitStart(w) \/ DeadlinePasses(w) \/ WaitReadFails(w)
             \/ WaitTerminal(w) \/ WaitVanished(w)
  BY <1>1 DEF WaitStart, DeadlinePasses, WaitReadFails, WaitTerminal,
              WaitVanished
<1>2. CASE WaitRead(w)
  BY <1>0, <1>2 DEF WaitRead
<1>3. CASE WaitTimeout(w)
  <2>1. waitState'[w].state = "TIMEOUT"
    BY <1>0, <1>3 DEF WaitTimeout, Entry
  <2>2. CommandsBacked'
    BY <1>0, <1>3, <2>1 DEF WaitTimeout
  <2>3. WrappersBacked'
    BY <1>3 DEF WaitTimeout, NoEntry, TypeOK
  <2> QED
    BY <1>3, <2>2, <2>3 DEF WaitTimeout
<1>4. CASE WaitSleep(w) \/ WaitCrash(w)
  BY <1>0, <1>4 DEF WaitSleep, WaitCrash, NoEntry
<1>5. CASE WaitRecover(w)
  <2>1. waitState'[w].state = "DONE" => Backed
    BY <1>0, <1>5 DEF WaitRecover, NoEntry, Entry
  <2> QED
    BY <1>0, <1>5, <2>1 DEF WaitRecover
<1>6. CASE WaitTruncate(w) \/ WaitFill(w)
  <2>1. jobState'.entry = waitState[w]
    BY <1>0, <1>6, FileEntry DEF WaitTruncate, WaitFill
  <2> QED
    BY <1>6, <2>1 DEF WaitTruncate, WaitFill
<1> QED
  BY <1>1, <1>2, <1>3, <1>4, <1>5, <1>6 DEF WaitStep

LEMMA ReaderBacked ==
    ASSUME DoneInv, CollectRead \/ CollectWrite \/ ExtractGate \/ ExtractRun
    PROVE  DoneCore'
  BY DEF DoneInv, DoneCore, FilesBacked, WrappersBacked, CommandsBacked,
         Backed, CollectRead, CollectWrite, ExtractGate, ExtractRun, files,
         otherFiles, submitVars, wrapperVars, waitVars

LEMMA DoneStep == DoneInv /\ [Next]_vars => DoneInv'
<1> SUFFICES ASSUME DoneInv, [Next]_vars PROVE DoneInv'
    OBVIOUS
<1>1. StartInv'
  BY StartStep DEF DoneInv
<1>2. CASE Next
  <2>1. DoneCore'
    BY <1>2, SubmitBacked, WrapperBacked, WaitBacked, ReaderBacked DEF Next
  <2> QED
    BY <1>1, <2>1 DEF DoneInv, DoneCore
<1>3. CASE UNCHANGED vars
  BY <1>1, <1>3 DEF DoneInv, DoneCore, FilesBacked, WrappersBacked,
       CommandsBacked, Backed, vars, files, otherFiles, submitVars, wrapperVars, waitVars,
       readerVars
<1> QED
  BY <1>2, <1>3

(***************************************************************************)
(* DONE, in whatever file or memory it is, has a payload that passed, its  *)
(* raw output and its stage evidence behind it.                            *)
(***************************************************************************)
THEOREM DoneInvariant == Spec => []DoneInv
  BY DoneInit, DoneStep, PTL DEF Spec

LEMMA ShownIsBacked == DoneInv /\ DoneShown => Backed
  BY DEF DoneInv, DoneCore, DoneShown, FilesBacked, CommandsBacked

(***************************************************************************)
(* No interleaving of submits, wrappers, waits and crashes makes up a DONE *)
(* that no payload of the run id has earned.                               *)
(***************************************************************************)
THEOREM DoneIsEarned == Spec => []DoneNeedsPass
<1>1. DoneInv => DoneNeedsPass
  BY ShownIsBacked DEF DoneNeedsPass, Backed
<1> QED
  BY <1>1, DoneInvariant, PTL

(***************************************************************************)
(* The stage evidence of a payload is on disk before anything says DONE.   *)
(***************************************************************************)
THEOREM DoneHasEvidence == Spec => []EvidencePrecedesDone
<1>1. DoneInv => EvidencePrecedesDone
  BY ShownIsBacked DEF EvidencePrecedesDone, Backed
<1> QED
  BY <1>1, DoneInvariant, PTL

-----------------------------------------------------------------------------
(***************************************************************************)
(* TIMEOUT names only processes that are gone.                             *)
(***************************************************************************)
LEMMA TimeoutInit == Init => TimeoutInv
<1> SUFFICES ASSUME Init PROVE TimeoutCore
  BY StartInit DEF TimeoutInv
<1> QED
  BY DEF Init, TimeoutCore, OnlyWaitsExpire, ExpiredKilled, Killed, NoFile,
         NoEntry

LEMMA SubmitExpires ==
    ASSUME TimeoutInv, NEW j \in Jobs,
           SubmitRefused(j) \/ SubmitCheck(j) \/ SubmitStep(j) \/ SubmitCrash(j)
    PROVE  TimeoutCore'
<1> USE DEF TimeoutInv, StartInv, TimeoutCore, OnlyWaitsExpire,
            ExpiredKilled, Killed, files, otherFiles, notSubmit, wrapperVars,
            waitVars, readerVars
<1>0. /\ submitState \in [Jobs -> Entry] /\ submitState[j] \in Entry
      /\ jobState \in File /\ jobState.entry \in Entry
      /\ wrapper \in [Jobs -> WrapperPC]
  BY FileEntry DEF TypeOK, File
<1>1. CASE SubmitRefused(j) \/ SubmitCheck(j) \/ SubmitRereadFails(j)
             \/ SubmitRecord(j)
  BY <1>1 DEF SubmitRefused, SubmitCheck, SubmitRereadFails, SubmitRecord
<1>2. CASE SubmitUnlink(j)
  BY <1>0, <1>2 DEF SubmitUnlink, NoFile, NoEntry
<1>3. CASE SubmitTruncate(j)
  <2>1. jobState'.entry = submitState[j]
    BY <1>0, <1>3, FileEntry DEF SubmitTruncate
  <2> QED
    BY <1>3, <2>1 DEF SubmitTruncate
<1>4. CASE SubmitFill(j)
  <2>1. jobState'.entry = submitState[j]
    BY <1>0, <1>4, FileEntry DEF SubmitFill
  <2> QED
    BY <1>0, <1>4, <2>1 DEF SubmitFill, NoEntry
<1>5. CASE SubmitSpawn(j)
  <2>1. wrapper[j] = "unborn"
    BY <1>5 DEF SubmitSpawn, SubmitMoves, SpawnedOnce, BeforeSpawn
  <2> QED
    BY <1>0, <1>5, <2>1 DEF SubmitSpawn
<1>6. CASE SubmitReread(j)
  <2>1. [jobState.entry EXCEPT !.pid = j].state = jobState.entry.state
    BY <1>0 DEF Entry
  <2>2. submitState' = submitState \/ ~IsTerminal(submitState'[j])
    BY <1>0, <1>6, <2>1 DEF SubmitReread, IsTerminal
  <2>3. \A k \in Jobs : submitState'[k].state # "TIMEOUT"
    BY <1>0, <1>6, <2>2 DEF SubmitReread, IsTerminal, TerminalStates
  <2> QED
    BY <1>6, <2>3 DEF SubmitReread
<1>7. CASE SubmitCrash(j)
  BY <1>0, <1>7 DEF SubmitCrash, NoEntry
<1> QED
  BY <1>1, <1>2, <1>3, <1>4, <1>5, <1>6, <1>7 DEF SubmitStep

LEMMA WrapperExpires ==
    ASSUME TimeoutInv, NEW j \in Jobs,
           WrapperStep(j) \/ PayloadStep(j) \/ WrapperCrash(j)
    PROVE  TimeoutCore'
<1> USE DEF TimeoutInv, StartInv, TimeoutCore, OnlyWaitsExpire,
            ExpiredKilled, Killed, files, otherFiles, notWrapper, submitVars,
            waitVars, readerVars, WrapperMoves
<1>0. /\ wrapperState[j] \in Entry /\ wrapperState \in [Jobs -> Entry]
      /\ wrapper \in [Jobs -> WrapperPC]
      /\ jobState \in File /\ terminalState \in File
      /\ jobState.entry \in Entry
  BY FileEntry DEF TypeOK, File
<1>1. CASE WrapperHandshake(j)
  <2>1. wrapperState'[j].state = "RUN"
    BY <1>0, <1>1, EntryUpdate DEF WrapperHandshake, States
  <2> QED
    BY <1>0, <1>1, <2>1 DEF WrapperHandshake
<1>2. CASE WrapperHandshakeFails(j) \/ EngineOutput(j) \/ OrphanEnds(j)
             \/ WriteEvidence(j)
  BY <1>0, <1>2 DEF WrapperHandshakeFails, EngineOutput, OrphanEnds,
                    WriteEvidence
<1>3. CASE WrapperTruncate(j)
  <2>1. jobState'.entry = wrapperState[j]
    BY <1>0, <1>3, FileEntry DEF WrapperTruncate
  <2> QED
    BY <1>0, <1>3, <2>1 DEF WrapperTruncate
<1>4. CASE WrapperFill(j)
  <2>1. jobState'.entry = wrapperState[j]
    BY <1>0, <1>4, FileEntry DEF WrapperFill
  <2> QED
    BY <1>0, <1>4, <2>1 DEF WrapperFill, NoEntry
<1>5. CASE PayloadPasses(j) \/ PayloadFails(j) \/ PayloadRaises(j)
  <2>1. PICK s \in {"DONE", "EXIT"} :
          wrapperState' = [wrapperState EXCEPT ![j].state = s]
    BY <1>5 DEF PayloadPasses, PayloadFails, PayloadRaises
  <2>2. \A k \in Jobs : wrapperState'[k].state # "TIMEOUT"
    BY <1>0, <2>1 DEF Entry
  <2>3. wrapper[j] \notin {"dead", "exited"}
    BY <1>5 DEF PayloadPasses, PayloadFails, PayloadRaises
  <2>4. \A k \in Jobs : k # j => wrapper'[k] = wrapper[k]
    BY <1>0, <1>5 DEF PayloadPasses, PayloadFails, PayloadRaises
  <2>5. UNCHANGED <<files, notWrapper>>
    BY <1>5 DEF PayloadPasses, PayloadFails, PayloadRaises
  <2> QED
    BY <2>2, <2>3, <2>4, <2>5
<1>6. CASE TerminalTruncate(j) \/ TerminalFill(j)
  <2>1. terminalState'.entry \in {wrapperState[j], terminalState.entry}
    BY <1>0, <1>6, FileEntry DEF TerminalTruncate, TerminalFill
  <2> QED
    BY <1>0, <1>6, <2>1 DEF TerminalTruncate, TerminalFill
<1>7. CASE WrapperCrash(j)
  BY <1>0, <1>7 DEF WrapperCrash, NoEntry, WrapperLive
<1> QED
  BY <1>1, <1>2, <1>3, <1>4, <1>5, <1>6, <1>7 DEF WrapperStep, PayloadStep

LEMMA WaitExpires ==
    ASSUME TimeoutInv, NEW w \in Waiters,
           WaitStart(w) \/ WaitStep(w) \/ DeadlinePasses(w) \/ WaitCrash(w)
    PROVE  TimeoutCore'
<1> USE DEF TimeoutInv, StartInv, TimeoutCore, OnlyWaitsExpire,
            ExpiredKilled, Killed, files, otherFiles, notWait, submitVars,
            wrapperVars, readerVars
<1>0. /\ waitState[w] \in Entry /\ waitState \in [Waiters -> Entry]
      /\ jobState \in File
      /\ wrapper \in [Jobs -> WrapperPC]
  BY DEF TypeOK
<1>1. CASE WaitStart(w) \/ DeadlinePasses(w) \/ WaitReadFails(w)
             \/ WaitTerminal(w) \/ WaitVanished(w)
  BY <1>1 DEF WaitStart, DeadlinePasses, WaitReadFails, WaitTerminal,
              WaitVanished
<1>2. CASE WaitRead(w)
  BY <1>0, <1>2 DEF WaitRead
<1>3. CASE WaitTimeout(w)
  \* The process named by the record this wait holds was started, so it is
  \* ended by the kill, unless it had exited.
  <2>1. waitState'[w].pid = waitState[w].pid
    BY <1>0, <1>3 DEF WaitTimeout, Entry
  <2>2. \A v \in Waiters : v # w => waitState'[v] = waitState[v]
    BY <1>0, <1>3 DEF WaitTimeout
  <2>3. \A k \in Jobs :
          /\ wrapper[k] \in {"dead", "exited"}
               => wrapper'[k] \in {"dead", "exited"}
          /\ k = waitState[w].pid => wrapper'[k] \in {"dead", "exited"}
    BY <1>0, <1>3 DEF WaitTimeout
  <2>4. OnlyWaitsExpire'
    BY <1>0, <1>3 DEF WaitTimeout, NoEntry
  <2> QED
    BY <1>3, <2>1, <2>2, <2>3, <2>4 DEF WaitTimeout
<1>4. CASE WaitSleep(w) \/ WaitCrash(w)
  BY <1>0, <1>4 DEF WaitSleep, WaitCrash, NoEntry
<1>5. CASE WaitRecover(w)
  <2>1. waitState'[w].state # "TIMEOUT"
    BY <1>0, <1>5 DEF WaitRecover, NoEntry, Entry
  <2>2. \A v \in Waiters : v # w => waitState'[v] = waitState[v]
    BY <1>0, <1>5 DEF WaitRecover
  <2> QED
    BY <1>5, <2>1, <2>2 DEF WaitRecover
<1>6. CASE WaitTruncate(w) \/ WaitFill(w)
  <2>1. jobState'.entry = waitState[w]
    BY <1>0, <1>6, FileEntry DEF WaitTruncate, WaitFill
  <2> QED
    BY <1>6, <2>1 DEF WaitTruncate, WaitFill
<1> QED
  BY <1>1, <1>2, <1>3, <1>4, <1>5, <1>6 DEF WaitStep

LEMMA ReaderExpires ==
    ASSUME TimeoutInv, CollectRead \/ CollectWrite \/ ExtractGate \/ ExtractRun
    PROVE  TimeoutCore'
  BY DEF TimeoutInv, TimeoutCore, OnlyWaitsExpire, ExpiredKilled, Killed,
         CollectRead, CollectWrite, ExtractGate, ExtractRun, files,
         otherFiles, submitVars, wrapperVars, waitVars

LEMMA TimeoutStep == TimeoutInv /\ [Next]_vars => TimeoutInv'
<1> SUFFICES ASSUME TimeoutInv, [Next]_vars PROVE TimeoutInv'
    OBVIOUS
<1>1. StartInv'
  BY StartStep DEF TimeoutInv
<1>2. CASE Next
  <2>1. TimeoutCore'
    BY <1>2, SubmitExpires, WrapperExpires, WaitExpires, ReaderExpires
    DEF Next
  <2> QED
    BY <1>1, <2>1 DEF TimeoutInv
<1>3. CASE UNCHANGED vars
  BY <1>1, <1>3 DEF TimeoutInv, TimeoutCore, OnlyWaitsExpire, ExpiredKilled,
       Killed, vars, files, otherFiles, submitVars, wrapperVars, waitVars,
       readerVars
<1> QED
  BY <1>2, <1>3

(***************************************************************************)
(* A TIMEOUT record that names a process names one that is gone, and its   *)
(* payload with it, whoever writes or copies the record afterwards.        *)
(***************************************************************************)
THEOREM ExpiredJobIsDead == Spec => []TimeoutMeansDead
<1>1. TimeoutInv => TimeoutMeansDead
  BY DEF TimeoutInv, TimeoutCore, ExpiredKilled, Killed, TimeoutMeansDead
<1> QED
  BY <1>1, TimeoutInit, TimeoutStep, PTL DEF Spec

=============================================================================
