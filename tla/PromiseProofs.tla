---------------------------- MODULE PromiseProofs ----------------------------
(***************************************************************************)
(* The scheduler under the playbook's discipline implements JobPromise,    *)
(* for every number of submissions and waits: every step of its files and  *)
(* processes is a step of the promise or invisible to it.                  *)
(***************************************************************************)
EXTENDS SerialLsfProofs

(***************************************************************************)
(* What the promise needs beyond SerialInv: the verdict a wait is about to *)
(* write never contradicts one that is there.  A wait that has read RUN    *)
(* finds RUN still, or what the wrapper has written to both files since.   *)
(***************************************************************************)
VerdictsSettle ==
    /\ jobState.content # "missing" => jobState.entry.state # "none"
    /\ \A w \in Waiters :
         /\ wait[w] \in {"decide", "vanished"} /\ ~IsTerminal(waitState[w]) =>
              \/ jobState.entry.state = "RUN"
              \/ terminalState = Written(jobState.entry)
         /\ wait[w] = "write" =>
              \/ jobState.entry.state = "RUN"
              \/ waitState[w].state = "TIMEOUT"
              \/ waitState[w] = jobState.entry

PromiseInv == SerialInv /\ VerdictsSettle /\ IsFiniteSet(Submitted)

-----------------------------------------------------------------------------
(***************************************************************************)
(* Each process keeps the verdicts settled: wrappers write a verdict only  *)
(* after it is in terminal-state.json, waits write what they have found.   *)
(***************************************************************************)
LEMMA SubmitSettles ==
    ASSUME SerialInv, VerdictsSettle, OneCommand', SubmitsSurvive,
           NEW j \in Jobs,
           SubmitRefused(j) \/ SubmitCheck(j) \/ SubmitStep(j)
             \/ SubmitCrash(j)
    PROVE  VerdictsSettle'
<1> USE DEF VerdictsSettle, notSubmit, wrapperVars, waitVars, readerVars,
            files, otherFiles, SubmitMoves
<1>0. submit \in [Jobs -> SubmitPC] /\ jobState \in File
  BY DEF SerialInv, StartInv, TypeOK
<1>1. CASE SubmitRefused(j) \/ SubmitCheck(j) \/ SubmitSpawn(j)
             \/ SubmitReread(j) \/ SubmitRereadFails(j) \/ SubmitRecord(j)
  BY <1>1 DEF SubmitRefused, SubmitCheck, SubmitSpawn, SubmitReread,
              SubmitRereadFails, SubmitRecord
<1>2. submit[j] \in SubmitBusy =>
        \A w \in Waiters : wait[w] \notin {"decide", "vanished", "write"}
  BY DEF SerialInv, OneCommand, Submitting, Waiting, WaitBusy
<1>3. CASE SubmitUnlink(j)
  BY <1>2, <1>3 DEF SubmitUnlink, SubmitBusy
<1>4. CASE SubmitTruncate(j)
  <2>1. submitState[j] \in {NewRecord, PublishedRecord(j)}
    BY <1>4 DEF SubmitTruncate, SerialInv, SerialCore, SubmitPhases
  <2> QED
    BY <1>2, <1>4, <2>1
    DEF SubmitTruncate, SubmitBusy, Torn, NewRecord, PublishedRecord
<1>5. CASE SubmitFill(j)
  <2>1. submitState[j] \in {NewRecord, PublishedRecord(j)}
    BY <1>5 DEF SubmitFill, SerialInv, SerialCore, SubmitPhases
  <2> QED
    BY <1>2, <1>5, <2>1
    DEF SubmitFill, SubmitBusy, Filled, NewRecord, PublishedRecord
<1>6. CASE SubmitCrash(j)
  BY <1>6 DEF SubmitCrash, SubmitsSurvive
<1> QED
  BY <1>1, <1>3, <1>4, <1>5, <1>6 DEF SubmitStep

LEMMA WrapperSettles ==
    ASSUME SerialInv, VerdictsSettle, NEW j \in Jobs,
           WrapperStep(j) \/ PayloadStep(j) \/ WrapperCrash(j)
    PROVE  VerdictsSettle'
<1> USE DEF VerdictsSettle, notWrapper, submitVars, waitVars, readerVars,
            files, otherFiles, WrapperMoves
<1>1. CASE UNCHANGED <<jobState, terminalState>>
  <2>1. UNCHANGED waitVars
    BY DEF WrapperStep, PayloadStep, WrapperCrash, WrapperHandshake,
       WrapperHandshakeFails, WrapperTruncate, WrapperFill, WriteEvidence,
       TerminalTruncate, TerminalFill, EngineOutput, PayloadPasses,
       PayloadFails, PayloadRaises, OrphanEnds
  <2> QED
    BY <1>1, <2>1
<1>2. wrapper[j] \in WrapperLive =>
        \A w \in Waiters :
          /\ wait[w] # "write"
          /\ wait[w] # "vanished"
          /\ wait[w] = "decide" => ~IsTerminal(waitState[w])
  BY DEF SerialInv, SerialCore, WaitPhases, Quiet, Writing
<1>3. CASE WrapperTruncate(j)
  <2>1. CASE wrapper[j] = "claim"
    BY <1>2, <1>3, <2>1
    DEF WrapperTruncate, Torn, SerialInv, SerialCore, WrapperPhases,
        WrapperLive, Claimed, Undecided
  <2>2. CASE wrapper[j] = "final"
    <3>1. terminalState = Written(wrapperState[j])
          /\ wrapperState[j].state \in {"DONE", "EXIT"}
      BY <2>2 DEF SerialInv, SerialCore, WrapperPhases, Decided
    <3> QED
      BY <1>2, <1>3, <2>2, <3>1 DEF WrapperTruncate, Torn, WrapperLive
  <2> QED
    BY <1>3, <2>1, <2>2 DEF WrapperTruncate
<1>4. CASE WrapperFill(j)
  <2>1. CASE wrapper[j] = "claimFill"
    BY <1>2, <1>4, <2>1
    DEF WrapperFill, Filled, SerialInv, SerialCore, WrapperPhases,
        WrapperLive, Claimed, Undecided
  <2>2. CASE wrapper[j] = "finalFill"
    <3>1. terminalState = Written(wrapperState[j])
          /\ wrapperState[j].state \in {"DONE", "EXIT"}
      BY <2>2 DEF SerialInv, SerialCore, WrapperPhases, Decided
    <3> QED
      BY <1>2, <1>4, <2>2, <3>1 DEF WrapperFill, Filled, WrapperLive
  <2> QED
    BY <1>4, <2>1, <2>2 DEF WrapperFill
<1>5. CASE TerminalTruncate(j) \/ TerminalFill(j)
  <2>1. wrapper[j] \in {"terminal", "terminalFill"}
    BY <1>5
    DEF TerminalTruncate, TerminalFill, SerialInv, SerialCore, WrapperPhases
  <2>2. jobState.entry.state = "RUN"
    BY <2>1 DEF SerialInv, SerialCore, WrapperPhases, WrapperLive
  <2> QED
    BY <1>2, <1>5, <2>1, <2>2 DEF TerminalTruncate, TerminalFill, WrapperLive
<1> QED
  BY <1>1, <1>3, <1>4, <1>5
  DEF WrapperStep, PayloadStep, WrapperCrash, WrapperHandshake,
      WrapperHandshakeFails, WriteEvidence, EngineOutput, PayloadPasses,
      PayloadFails, PayloadRaises, OrphanEnds

LEMMA WaitSettles ==
    ASSUME SerialInv, VerdictsSettle, OneCommand', NEW w \in Waiters,
           WaitStart(w) \/ WaitStep(w) \/ DeadlinePasses(w) \/ WaitCrash(w)
    PROVE  VerdictsSettle'
<1> USE DEF VerdictsSettle, notWait, submitVars, wrapperVars, readerVars,
            files, otherFiles, WaitMoves
<1>0. /\ wait \in [Waiters -> WaitPC] /\ waitState \in [Waiters -> Entry]
      /\ jobState \in File /\ terminalState \in File
      /\ jobState.entry \in Entry /\ terminalState.entry \in Entry
  BY FileEntry DEF SerialInv, StartInv, TypeOK
<1>1. CASE WaitStart(w) \/ DeadlinePasses(w) \/ WaitReadFails(w)
             \/ WaitCrash(w)
  BY <1>0, <1>1 DEF WaitStart, DeadlinePasses, WaitReadFails, WaitCrash
<1>2. CASE WaitRead(w)
  BY <1>0, <1>2
  DEF WaitRead, Whole, Entry, States, IsTerminal, TerminalStates
<1>3. CASE WaitTerminal(w)
  <2>1. waitState[w] = jobState.entry
    BY <1>3 DEF WaitTerminal, SerialInv, SerialCore, WaitPhases
  <2> QED
    BY <1>0, <1>3, <2>1 DEF WaitTerminal
<1>4. CASE WaitTimeout(w)
  BY <1>0, <1>4 DEF WaitTimeout, Entry
<1>5. CASE WaitSleep(w) \/ WaitVanished(w)
  BY <1>0, <1>5 DEF WaitSleep, WaitVanished
<1>6. CASE WaitRecover(w)
  <2>1. ~IsTerminal(waitState[w])
    BY <1>6 DEF WaitRecover, SerialInv, SerialCore, WaitPhases
  <2>2. \/ jobState.entry.state = "RUN"
        \/ terminalState = Written(jobState.entry)
    BY <1>6, <2>1 DEF WaitRecover
  <2> QED
    BY <1>0, <1>6, <2>1, <2>2 DEF WaitRecover, Written
<1>7. CASE WaitTruncate(w) \/ WaitFill(w)
  <2>1. \A v \in Waiters \ {w} : wait[v] \notin WaitBusy
    BY <1>7 DEF WaitTruncate, WaitFill, SerialInv, OneCommand, WaitBusy
  <2>2. IsTerminal(waitState[w]) /\ jobState'.entry = waitState[w]
    BY <1>7
    DEF WaitTruncate, WaitFill, Torn, Filled, SerialInv, SerialCore,
        WaitPhases, Writing
  <2>3. /\ UNCHANGED waitState
        /\ \A v \in Waiters : wait'[v] \notin {"decide", "vanished", "write"}
    BY <1>0, <1>7, <2>1 DEF WaitTruncate, WaitFill, WaitBusy
  <2> QED
    BY <2>2, <2>3 DEF IsTerminal, TerminalStates
<1> QED
  BY <1>1, <1>2, <1>3, <1>4, <1>5, <1>6, <1>7 DEF WaitStep

-----------------------------------------------------------------------------
(***************************************************************************)
(* Counting: the truncation that publishes a first record submits one job, *)
(* and no other step changes which jobs are submitted.                     *)
(***************************************************************************)
LEMMA SubmitCounts ==
    ASSUME SerialInv, SubmitsSurvive, NEW j \in Jobs,
           SubmitRefused(j) \/ SubmitCheck(j) \/ SubmitStep(j)
             \/ SubmitCrash(j)
    PROVE  IF SubmitTruncate(j) /\ submit[j] = "init"
           THEN j \notin Submitted /\ Submitted' = Submitted \cup {j}
           ELSE Submitted' = Submitted
<1> USE DEF notSubmit, wrapperVars, SubmitMoves
<1>0. /\ submit \in [Jobs -> SubmitPC] /\ wrapper \in [Jobs -> WrapperPC]
      /\ submit[j] \in BeforeSpawn => wrapper[j] = "unborn"
  BY DEF SerialInv, StartInv, TypeOK, SpawnedOnce
<1>1. \A k \in Jobs \ {j} :
        /\ submit'[k] = submit[k]
        /\ wrapper'[k] = "unborn" <=> wrapper[k] = "unborn"
  BY <1>0
  DEF SubmitRefused, SubmitCheck, SubmitStep, SubmitCrash, SubmitUnlink,
      SubmitTruncate, SubmitFill, SubmitSpawn, SubmitReread,
      SubmitRereadFails, SubmitRecord
<1>2. CASE SubmitRefused(j) \/ SubmitCheck(j)
  BY <1>0, <1>1, <1>2 DEF SubmitRefused, SubmitCheck, SubmitTruncate, Submitted
<1>3. CASE SubmitUnlink(j) \/ SubmitReread(j) \/ SubmitRereadFails(j)
             \/ SubmitRecord(j)
  BY <1>0, <1>1, <1>3
  DEF SubmitUnlink, SubmitReread, SubmitRereadFails, SubmitRecord,
      SubmitTruncate, Submitted
<1>4. CASE SubmitTruncate(j)
  <2>1. CASE submit[j] = "init"
    BY <1>0, <1>1, <1>4, <2>1 DEF SubmitTruncate, Submitted, BeforeSpawn
  <2>2. CASE submit[j] = "publish"
    BY <1>0, <1>1, <1>4, <2>2 DEF SubmitTruncate, Submitted
  <2> QED
    BY <1>4, <2>1, <2>2 DEF SubmitTruncate
<1>5. CASE SubmitFill(j) \/ SubmitSpawn(j)
  BY <1>0, <1>1, <1>5 DEF SubmitFill, SubmitSpawn, SubmitTruncate, Submitted
<1>6. CASE SubmitCrash(j)
  BY <1>6 DEF SubmitCrash, SubmitsSurvive
<1> QED
  BY <1>2, <1>3, <1>4, <1>5, <1>6 DEF SubmitStep

LEMMA WrapperCounts ==
    ASSUME SerialInv, NEW j \in Jobs,
           WrapperStep(j) \/ PayloadStep(j) \/ WrapperCrash(j)
    PROVE  Submitted' = Submitted
<1>1. wrapper \in [Jobs -> WrapperPC]
  BY DEF SerialInv, StartInv, TypeOK
<1>2. /\ UNCHANGED submit
      /\ wrapper[j] # "unborn" /\ wrapper'[j] # "unborn"
      /\ \A k \in Jobs \ {j} : wrapper'[k] = wrapper[k]
  BY <1>1
  DEF WrapperStep, PayloadStep, WrapperCrash, WrapperMoves, WrapperLive,
      WrapperHandshake, WrapperHandshakeFails, WrapperTruncate, WrapperFill,
      WriteEvidence, TerminalTruncate, TerminalFill, EngineOutput,
      PayloadPasses, PayloadFails, PayloadRaises, OrphanEnds, notWrapper,
      submitVars
<1> QED
  BY <1>2 DEF Submitted

LEMMA WaitCounts ==
    ASSUME SerialInv, NEW w \in Waiters,
           WaitStart(w) \/ WaitStep(w) \/ DeadlinePasses(w) \/ WaitCrash(w)
    PROVE  Submitted' = Submitted
<1> USE DEF notWait, submitVars, wrapperVars
<1>1. CASE WaitTimeout(w)
  <2>1. \A j \in Jobs : wrapper'[j] = "unborn" <=> wrapper[j] = "unborn"
    BY <1>1 DEF WaitTimeout, SerialInv, StartInv, PidsStarted, Started
  <2> QED
    BY <1>1, <2>1 DEF WaitTimeout, Submitted
<1>2. CASE ~WaitTimeout(w)
  <2>1. UNCHANGED <<submit, wrapper>>
    BY <1>2
    DEF WaitStart, WaitStep, DeadlinePasses, WaitCrash, WaitRead,
        WaitReadFails, WaitTerminal, WaitSleep, WaitVanished, WaitRecover,
        WaitTruncate, WaitFill
  <2> QED
    BY <2>1 DEF Submitted
<1> QED
  BY <1>1, <1>2

LEMMA ReaderCounts ==
    ASSUME CollectRead \/ CollectWrite \/ ExtractGate \/ ExtractRun
    PROVE  Submitted' = Submitted
  BY DEF CollectRead, CollectWrite, ExtractGate, ExtractRun, Submitted,
         submitVars, wrapperVars

LEMMA FinitelyMany ==
    ASSUME SerialInv, SubmitsSurvive, Next, IsFiniteSet(Submitted)
    PROVE  IsFiniteSet(Submitted')
<1>1. Submitted' = Submitted \/ \E j \in Jobs : Submitted' = Submitted \cup {j}
  BY SubmitCounts, WrapperCounts, WaitCounts, ReaderCounts DEF Next
<1> QED
  BY <1>1, FS_AddElement

-----------------------------------------------------------------------------
(***************************************************************************)
(* What the promise sees of a state.  A step that moves none of it is      *)
(* invisible.                                                              *)
(***************************************************************************)
Unseen ==
    /\ Submitted' = Submitted
    /\ jobState'.entry.state = jobState.entry.state
    /\ (jobState'.entry.pid \in passed') = (jobState.entry.pid \in passed)
    /\ Reported' = Reported
    /\ (extract' = "open") = (extract = "open")

LEMMA UnseenStutters == Unseen => UNCHANGED Promise!vars
  BY DEF Unseen, Promise!vars

LEMMA ReportsKept ==
    ASSUME jobState'.entry.state = jobState.entry.state,
           jobState'.entry.pid = jobState.entry.pid,
           \A w \in Waiters :
             /\ wait'[w] = "done" <=> wait[w] = "done"
             /\ wait[w] = "done" => waitState'[w] = waitState[w]
    PROVE  Reported' = Reported
  BY DEF Reported

LEMMA Unreported ==
    ASSUME \A w \in Waiters :
             wait[w] = "done" => waitState[w].pid # jobState.entry.pid
    PROVE  Reported = "none"
  BY DEF Reported

-----------------------------------------------------------------------------
(***************************************************************************)
(* A submit makes one promise, when its record appears; what it writes     *)
(* later is about the same running job.                                    *)
(***************************************************************************)
LEMMA SubmitPromises ==
    ASSUME PromiseInv, OneCommand', SubmitsSurvive, NEW j \in Jobs,
           SubmitRefused(j) \/ SubmitCheck(j) \/ SubmitStep(j)
             \/ SubmitCrash(j)
    PROVE  [Promise!Next]_Promise!vars
<1> USE DEF notSubmit, wrapperVars, waitVars, readerVars, files, otherFiles,
            SubmitMoves
<1>0. /\ SerialInv /\ NoPid \notin passed /\ passed \subseteq Jobs
      /\ jobState.entry \in Entry
      /\ UNCHANGED <<waitVars, passed, extract>>
  BY NoPidAssumption, FileEntry
  DEF PromiseInv, SerialInv, StartInv, TypeOK, SubmitStep, SubmitRefused,
      SubmitCheck, SubmitCrash, SubmitUnlink, SubmitTruncate, SubmitFill,
      SubmitSpawn, SubmitReread, SubmitRereadFails, SubmitRecord
<1>1. CASE SubmitTruncate(j) /\ submit[j] = "init"
  <2>1. jobState'.entry = NewRecord /\ extract = "idle"
    BY <1>0, <1>1
    DEF SubmitTruncate, Torn, SerialInv, SerialCore, SubmitPhases,
        OneCommand, Submitting, SubmitBusy
  <2>2. \A w \in Waiters : wait[w] = "done" => waitState[w].pid # NoPid
    BY <1>0, NoPidAssumption DEF SerialInv, SerialCore, ReportsStand
  <2>3. Reported' = "none"
    BY <1>0, <2>1, <2>2 DEF Reported, NewRecord
  <2>4. Cardinality(Submitted)' = Cardinality(Submitted) + 1
    <3>1. j \notin Submitted /\ Submitted' = Submitted \cup {j}
      BY <1>0, <1>1, SubmitCounts
    <3>2. Cardinality(Submitted \cup {j}) = Cardinality(Submitted) + 1
      BY <3>1, FS_AddElement DEF PromiseInv
    <3> QED
      BY <3>1, <3>2
  <2>5. Promise!Submit
    BY <1>0, <2>1, <2>3, <2>4 DEF Promise!Submit, NewRecord
  <2> QED
    BY <2>5 DEF Promise!Next
<1>2. CASE ~(SubmitTruncate(j) /\ submit[j] = "init")
  <2>1. Submitted' = Submitted
    BY <1>0, <1>2, SubmitCounts
  <2>2. CASE UNCHANGED jobState
    <3>1. Reported' = Reported
      BY <1>0, <2>2, ReportsKept
    <3> QED
      BY <1>0, <2>1, <2>2, <3>1, UnseenStutters DEF Unseen
  <2>3. CASE SubmitTruncate(j)
    <3>1. /\ jobState.entry = NewRecord /\ jobState'.entry = PublishedRecord(j)
          /\ j \notin passed
          /\ \A w \in Waiters : waitState[w].pid # j
      BY <1>0, <1>2, <2>3
      DEF SubmitTruncate, Torn, Written, SerialInv, SerialCore, SubmitPhases,
          Spawned
    <3>2. \A w \in Waiters : wait[w] = "done" => waitState[w].pid # NoPid
      BY <1>0, NoPidAssumption DEF SerialInv, SerialCore, ReportsStand
    <3>3. Reported = "none" /\ Reported' = "none"
      BY <1>0, <3>1, <3>2 DEF Reported, NewRecord, PublishedRecord
    <3> QED
      BY <1>0, <2>1, <3>1, <3>3, UnseenStutters
      DEF Unseen, NewRecord, PublishedRecord
  <2>4. CASE SubmitFill(j)
    <3>1. jobState = Torn(submitState[j])
      BY <1>0, <2>4 DEF SubmitFill, SerialInv, SerialCore, SubmitPhases
    <3>2. jobState'.entry = jobState.entry
      BY <2>4, <3>1 DEF SubmitFill, Filled, Torn
    <3>3. Reported' = Reported
      BY <1>0, <3>2, ReportsKept
    <3> QED
      BY <1>0, <2>1, <3>2, <3>3, UnseenStutters DEF Unseen
  <2> QED
    BY <2>2, <2>3, <2>4
    DEF SubmitStep, SubmitRefused, SubmitCheck, SubmitCrash, SubmitUnlink,
        SubmitSpawn, SubmitReread, SubmitRereadFails, SubmitRecord
<1> QED
  BY <1>1, <1>2

(***************************************************************************)
(* A wrapper passes its payload and settles the verdict, for the job that  *)
(* the record is about and that nobody has reported yet.                   *)
(***************************************************************************)
LEMMA WrapperPromises ==
    ASSUME PromiseInv, NEW j \in Jobs,
           WrapperStep(j) \/ PayloadStep(j) \/ WrapperCrash(j)
    PROVE  [Promise!Next]_Promise!vars
<1> USE DEF notWrapper, submitVars, waitVars, readerVars, files, otherFiles,
            WrapperMoves
<1>0. /\ SerialInv /\ Submitted' = Submitted
      /\ UNCHANGED <<waitVars, extract>>
  BY WrapperCounts
  DEF PromiseInv, WrapperStep, PayloadStep, WrapperCrash, WrapperHandshake,
      WrapperHandshakeFails, WrapperTruncate, WrapperFill, WriteEvidence,
      TerminalTruncate, TerminalFill, EngineOutput, PayloadPasses,
      PayloadFails, PayloadRaises, OrphanEnds
<1>1. CASE UNCHANGED <<jobState, passed>>
  <2>1. Reported' = Reported
    BY <1>0, <1>1, ReportsKept
  <2> QED
    BY <1>0, <1>1, <2>1, UnseenStutters DEF Unseen
<1>2. CASE PayloadPasses(j)
  <2>1. jobState.entry.pid = j /\ jobState.entry.state = "RUN"
    BY <1>0, <1>2
    DEF PayloadPasses, SerialInv, SerialCore, WrapperPhases, WrapperLive,
        Claimed, SubmitPhases, Spawned
  <2>2. Reported' = Reported
    BY <1>0, <1>2, ReportsKept DEF PayloadPasses
  <2>3. Promise!Pass
    BY <1>0, <1>2, <2>1, <2>2 DEF PayloadPasses, Promise!Pass
  <2> QED
    BY <2>3 DEF Promise!Next
<1>3. CASE WrapperTruncate(j)
  <2>1. /\ jobState.entry.pid = j /\ jobState.entry.state = "RUN"
        /\ wrapperState[j].pid = j
        /\ wrapper[j] = "claim" => wrapperState[j].state = "RUN"
        /\ wrapper[j] = "final" => wrapperState[j].state \in {"DONE", "EXIT"}
        /\ wrapper[j] \in WrapperLive
    BY <1>0, <1>3
    DEF WrapperTruncate, SerialInv, SerialCore, WrapperPhases, WrapperLive,
        Claimed, Undecided, Decided, SubmitPhases, Spawned
  <2>2. jobState'.entry = wrapperState[j] /\ UNCHANGED passed
    BY <1>3 DEF WrapperTruncate, Torn
  <2>3. CASE wrapper[j] = "claim"
    <3>1. Reported' = Reported
      BY <1>0, <2>1, <2>2, <2>3, ReportsKept
    <3> QED
      BY <1>0, <2>1, <2>2, <2>3, <3>1, UnseenStutters DEF Unseen
  <2>4. CASE wrapper[j] = "final"
    <3>1. \A w \in Waiters : wait[w] = "done" => waitState[w].pid # j
      BY <1>0, <2>1 DEF SerialInv, SerialCore, ReportsStand
    <3>2. Reported = "none" /\ Reported' = "none"
      BY <1>0, <2>1, <2>2, <3>1 DEF Reported
    <3>3. wrapperState[j].state = "DONE" => j \in passed
      BY <1>0 DEF SerialInv, SerialCore, DoneTraced
    <3>4. Promise!Settle
      BY <1>0, <2>1, <2>2, <2>4, <3>2, <3>3 DEF Promise!Settle
    <3> QED
      BY <3>4 DEF Promise!Next
  <2> QED
    BY <1>3, <2>3, <2>4 DEF WrapperTruncate
<1>4. CASE WrapperFill(j)
  <2>1. /\ jobState.entry.pid = j /\ wrapperState[j].pid = j
        /\ wrapperState[j].state = jobState.entry.state
    BY <1>0, <1>4
    DEF WrapperFill, SerialInv, SerialCore, WrapperPhases, WrapperLive,
        Claimed, Undecided, SubmitPhases, Spawned, Torn
  <2>2. /\ jobState'.entry.pid = jobState.entry.pid
        /\ jobState'.entry.state = jobState.entry.state
        /\ UNCHANGED passed
    BY <1>4, <2>1 DEF WrapperFill, Filled
  <2>3. Reported' = Reported
    BY <1>0, <2>2, ReportsKept
  <2> QED
    BY <1>0, <2>2, <2>3, UnseenStutters DEF Unseen
<1> QED
  BY <1>1, <1>2, <1>3, <1>4
  DEF WrapperStep, PayloadStep, WrapperCrash, WrapperHandshake,
      WrapperHandshakeFails, WriteEvidence, TerminalTruncate, TerminalFill,
      EngineOutput, PayloadFails, PayloadRaises, OrphanEnds

(***************************************************************************)
(* A wait changes the verdict when its first write begins, and reports it  *)
(* when its second one ends.                                               *)
(***************************************************************************)
LEMMA WaitPromises ==
    ASSUME PromiseInv, OneCommand', NEW w \in Waiters,
           WaitStart(w) \/ WaitStep(w) \/ DeadlinePasses(w) \/ WaitCrash(w)
    PROVE  [Promise!Next]_Promise!vars
<1> USE DEF notWait, submitVars, wrapperVars, readerVars, files, otherFiles,
            WaitMoves
<1>0. /\ SerialInv /\ Submitted' = Submitted
      /\ UNCHANGED <<passed, extract>>
      /\ wait \in [Waiters -> WaitPC] /\ waitState \in [Waiters -> Entry]
      /\ jobState \in File /\ jobState.entry \in Entry
  BY WaitCounts, FileEntry
  DEF PromiseInv, SerialInv, StartInv, TypeOK, WaitStart, WaitStep,
      DeadlinePasses, WaitCrash, WaitRead, WaitReadFails, WaitTerminal,
      WaitTimeout, WaitSleep, WaitVanished, WaitRecover, WaitTruncate,
      WaitFill
<1>1. CASE ~WaitTruncate(w) /\ ~WaitFill(w)
  <2>1. /\ UNCHANGED jobState
        /\ \A v \in Waiters :
             /\ wait'[v] = "done" <=> wait[v] = "done"
             /\ wait[v] = "done" => waitState'[v] = waitState[v]
    BY <1>0, <1>1
    DEF WaitStart, WaitStep, DeadlinePasses, WaitCrash, WaitRead,
        WaitReadFails, WaitTerminal, WaitTimeout, WaitSleep, WaitVanished,
        WaitRecover, WaitBusy
  <2>2. Reported' = Reported
    BY <2>1, ReportsKept
  <2> QED
    BY <1>0, <2>1, <2>2, UnseenStutters DEF Unseen
<1>2. CASE WaitTruncate(w)
  <2>1. /\ wait[w] \in {"write", "rewrite"}
        /\ jobState'.entry = waitState[w]
        /\ waitState[w].pid = jobState.entry.pid
        /\ IsTerminal(waitState[w])
        /\ jobState.content # "missing"
        /\ waitState[w].state = "DONE" => terminalState = Written(waitState[w])
        /\ UNCHANGED waitState
        /\ \A v \in Waiters : wait'[v] = "done" <=> wait[v] = "done"
    BY <1>0, <1>2
    DEF WaitTruncate, Torn, SerialInv, SerialCore, WaitPhases, Writing,
        Holding, WaitBusy
  <2>2. CASE waitState[w].state = jobState.entry.state
    <3>1. Reported' = Reported
      BY <2>1, <2>2, ReportsKept
    <3> QED
      BY <1>0, <2>1, <2>2, <3>1, UnseenStutters DEF Unseen
  <2>3. CASE waitState[w].state # jobState.entry.state
    <3>1. \A v \in Waiters :
            wait[v] = "done" => waitState[v].pid # jobState.entry.pid
      BY <1>0, <2>1, <2>3
      DEF SerialInv, SerialCore, ReportsStand, Holding, Writing
    <3>2. Reported = "none" /\ Reported' = "none"
      BY <2>1, <3>1 DEF Reported
    <3>3. /\ wait[w] = "write" /\ extract # "open"
          /\ jobState.entry.state # "none"
          /\ \/ jobState.entry.state = "RUN"
             \/ waitState[w].state = "TIMEOUT"
      BY <1>0, <2>1, <2>3
      DEF PromiseInv, VerdictsSettle, SerialInv, SerialCore, WaitPhases,
          OneCommand, Waiting, WaitBusy
    <3>4. CASE waitState[w].state = "TIMEOUT"
      <4>1. jobState.entry.state \in {"RUN", "DONE", "EXIT"}
        BY <1>0, <2>3, <3>3, <3>4 DEF Entry, States, TerminalStates
      <4>2. Promise!Expire
        BY <1>0, <2>1, <3>2, <3>3, <3>4, <4>1 DEF Promise!Expire
      <4> QED
        BY <4>2 DEF Promise!Next
    <3>5. CASE waitState[w].state # "TIMEOUT"
      <4>1. waitState[w].state \in {"DONE", "EXIT"}
        BY <2>1, <3>5 DEF IsTerminal, TerminalStates
      <4>2. waitState[w].state = "DONE" => waitState[w].pid \in passed
        BY <1>0, <2>1 DEF SerialInv, SerialCore, DoneTraced, Written
      <4>3. Promise!Settle
        BY <1>0, <2>1, <3>2, <3>3, <3>5, <4>1, <4>2 DEF Promise!Settle
      <4> QED
        BY <4>3 DEF Promise!Next
    <3> QED
      BY <3>4, <3>5
  <2> QED
    BY <2>2, <2>3
<1>3. CASE WaitFill(w)
  <2>1. /\ jobState.entry = waitState[w] /\ jobState'.entry = waitState[w]
        /\ IsTerminal(waitState[w])
        /\ UNCHANGED waitState
        /\ wait[w] \in {"writeFill", "rewriteFill"}
    BY <1>0, <1>3
    DEF WaitFill, Filled, SerialInv, SerialCore, WaitPhases, Writing
  <2>2. CASE wait[w] = "writeFill"
    <3>1. \A v \in Waiters : wait'[v] = "done" <=> wait[v] = "done"
      BY <1>0, <1>3, <2>2 DEF WaitFill
    <3>2. Reported' = Reported
      BY <2>1, <3>1, ReportsKept
    <3> QED
      BY <1>0, <2>1, <3>2, UnseenStutters DEF Unseen
  <2>3. CASE wait[w] = "rewriteFill"
    <3>1. wait'[w] = "done"
      BY <1>0, <1>3, <2>3 DEF WaitFill
    <3>2. Reported' = jobState.entry.state
      BY <2>1, <3>1 DEF Reported
    <3>3. Promise!Report
      BY <1>0, <2>1, <3>2 DEF Promise!Report, IsTerminal, TerminalStates
    <3> QED
      BY <3>3 DEF Promise!Next
  <2> QED
    BY <2>1, <2>2, <2>3
<1> QED
  BY <1>1, <1>2, <1>3

(***************************************************************************)
(* The gate of the extraction is the promise's release.                    *)
(***************************************************************************)
LEMMA ReaderPromises ==
    ASSUME CollectRead \/ CollectWrite \/ ExtractGate \/ ExtractRun
    PROVE  [Promise!Next]_Promise!vars
<1> USE DEF submitVars, wrapperVars, waitVars, files, otherFiles
<1>1. /\ Submitted' = Submitted
      /\ UNCHANGED <<jobState, passed, waitVars>>
  BY ReaderCounts DEF CollectRead, CollectWrite, ExtractGate, ExtractRun
<1>2. Reported' = Reported
  BY <1>1, ReportsKept
<1>3. CASE CollectRead \/ CollectWrite
  BY <1>1, <1>2, <1>3, UnseenStutters DEF CollectRead, CollectWrite, Unseen
<1>4. CASE ExtractGate
  <2>1. Promise!Release
    BY <1>1, <1>2, <1>4 DEF ExtractGate, Promise!Release
  <2> QED
    BY <2>1 DEF Promise!Next
<1>5. CASE ExtractRun
  <2>1. Promise!Finish
    BY <1>1, <1>2, <1>5 DEF ExtractRun, Promise!Finish
  <2> QED
    BY <2>1 DEF Promise!Next
<1> QED
  BY <1>3, <1>4, <1>5

-----------------------------------------------------------------------------
LEMMA PromiseInvInit == Init => PromiseInv
<1> SUFFICES ASSUME Init PROVE PromiseInv
    OBVIOUS
<1>1. VerdictsSettle
  BY DEF Init, VerdictsSettle, NoFile
<1>2. Submitted = {}
  BY DEF Init, Submitted
<1> QED
  BY <1>1, <1>2, SerialInit, FS_EmptySet DEF PromiseInv

LEMMA PromiseInvStep ==
    ASSUME SubmitsSurvive
    PROVE  PromiseInv /\ [SerialNext]_vars => PromiseInv'
<1> SUFFICES ASSUME PromiseInv, [SerialNext]_vars PROVE PromiseInv'
    OBVIOUS
<1>1. SerialInv'
  BY SerialStep DEF PromiseInv
<1>2. CASE SerialNext
  <2>1. OneCommand'
    BY <1>1 DEF SerialInv
  <2>2. ASSUME CollectRead \/ CollectWrite \/ ExtractGate \/ ExtractRun
        PROVE  VerdictsSettle'
    BY <2>2
    DEF PromiseInv, VerdictsSettle, CollectRead, CollectWrite, ExtractGate,
        ExtractRun, waitVars, files, otherFiles
  <2>3. VerdictsSettle'
    BY <1>2, <2>1, <2>2, SubmitSettles, WrapperSettles, WaitSettles
    DEF PromiseInv, SerialNext, Next
  <2>4. IsFiniteSet(Submitted')
    BY <1>2, FinitelyMany DEF PromiseInv, SerialNext
  <2> QED
    BY <1>1, <2>3, <2>4 DEF PromiseInv
<1>3. CASE UNCHANGED vars
  <2>1. Submitted' = Submitted /\ VerdictsSettle'
    BY <1>3
    DEF vars, submitVars, wrapperVars, waitVars, files, otherFiles,
        Submitted, PromiseInv, VerdictsSettle
  <2> QED
    BY <1>1, <2>1 DEF PromiseInv
<1> QED
  BY <1>2, <1>3

(***************************************************************************)
(* Nothing is promised before the first submission.                        *)
(***************************************************************************)
LEMMA PromiseBegins == Init => Promise!Init
<1> SUFFICES ASSUME Init PROVE Promise!Init
    OBVIOUS
<1>1. Submitted = {}
  BY DEF Init, Submitted
<1>2. Cardinality(Submitted) = 0
  BY <1>1, FS_EmptySet
<1>3. Reported = "none"
  BY DEF Init, Reported
<1> QED
  BY <1>2, <1>3 DEF Init, Promise!Init, NoFile, NoEntry

(***************************************************************************)
(* Every step is a step of the promise, or the promise does not see it.    *)
(***************************************************************************)
LEMMA StepPromised ==
    ASSUME SubmitsSurvive, PromiseInv, [SerialNext]_vars
    PROVE  [Promise!Next]_Promise!vars
<1>1. CASE SerialNext
  <2>1. OneCommand'
    BY SerialStep DEF PromiseInv, SerialInv
  <2> QED
    BY <1>1, <2>1, SubmitPromises, WrapperPromises, WaitPromises,
       ReaderPromises
    DEF SerialNext, Next
<1>2. CASE UNCHANGED vars
  <2>1. Submitted' = Submitted /\ Reported' = Reported
    BY <1>2
    DEF vars, submitVars, wrapperVars, waitVars, files, otherFiles,
        Submitted, Reported
  <2> QED
    BY <1>2, <2>1, UnseenStutters
    DEF Unseen, vars, files, otherFiles, wrapperVars, readerVars
<1> QED
  BY <1>1, <1>2

(***************************************************************************)
(* The scheduler, driven one command at a time and with wrappers and waits *)
(* killed anywhere, keeps every promise of JobPromise: a verdict is earned *)
(* by the payload, moves only to TIMEOUT and only while unreported, and    *)
(* never moves under an extraction.                                        *)
(***************************************************************************)
THEOREM PromiseKept ==
    ASSUME SubmitsSurvive PROVE SerialSpec => ImplementsPromise
<1>1. PromiseInv /\ [SerialNext]_vars => [Promise!Next]_Promise!vars
  BY StepPromised
<1> QED
  BY <1>1, PromiseInvInit, PromiseInvStep, PromiseBegins, PTL
  DEF SerialSpec, ImplementsPromise, Promise!Spec

=============================================================================
