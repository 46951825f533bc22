--------------------------- MODULE SerialLsfProofs ---------------------------
(***************************************************************************)
(* What the scheduler guarantees when the playbook's discipline holds, one *)
(* command at a time, for every number of submissions and waits and with   *)
(* wrappers and waits killed anywhere: the safety invariants of SerialLsf. *)
(***************************************************************************)
EXTENDS SerialLsf, MockLsfProofs, FiniteSetTheorems

(***************************************************************************)
(* A submit runs to its end.  One that is killed between the spawn and the *)
(* publication of the pid leaves a record that names nobody beside a live  *)
(* wrapper, and the next submit does not see that wrapper.                 *)
(***************************************************************************)
SubmitsSurvive == "submit" \notin Crashes

(***************************************************************************)
(* The discipline, without counting.                                       *)
(***************************************************************************)
Waiting == \E w \in Waiters : wait[w] \in WaitBusy

OneCommand ==
    /\ \A j, k \in Jobs :
         submit[j] \in SubmitBusy /\ submit[k] \in SubmitBusy => j = k
    /\ \A v, w \in Waiters :
         wait[v] \in WaitBusy /\ wait[w] \in WaitBusy => v = w
    /\ Submitting => ~Waiting
    /\ Submitting \/ Waiting => extract = "idle"

-----------------------------------------------------------------------------
Written(e) == [content |-> "whole", entry |-> e]

NewRecord == [state |-> "RUN", pid |-> NoPid]
PublishedRecord(j) == [state |-> "RUN", pid |-> j]

(***************************************************************************)
(* Where a submit is tells what is in the files: nobody else writes them   *)
(* until its wrapper sees the pid.                                         *)
(***************************************************************************)
Spawned == {"reread", "publish", "publishFill"}

SubmitPhases ==
    \A j \in Jobs :
        /\ submit[j] \in {"idle", "failed"} => wrapper[j] = "unborn"
        /\ submit[j] \in SubmitBusy =>
             \A k \in Jobs \ {j} : wrapper[k] \notin WrapperLive
        /\ submit[j] \in {"init", "initFill"} => submitState[j] = NewRecord
        /\ submit[j] \in {"init", "initFill", "spawn"} \cup Spawned =>
             terminalState = NoFile
        /\ submit[j] = "initFill" => jobState = Torn(NewRecord)
        /\ submit[j] \in {"spawn", "reread", "publish"} =>
             jobState = Written(NewRecord)
        /\ submit[j] \in {"publish", "publishFill"} =>
             submitState[j] = PublishedRecord(j)
        /\ submit[j] = "publishFill" => jobState = Torn(PublishedRecord(j))
        /\ submit[j] = "record" => jobState.entry.pid = j
        /\ submit[j] \in Spawned =>
             /\ wrapper[j] \in {"handshake", "dead"}
             /\ j \notin passed
             /\ \A w \in Waiters : waitState[w].pid # j

(***************************************************************************)
(* A live wrapper owns the records, and what it has done so far is what    *)
(* they say.                                                               *)
(***************************************************************************)
Claimed == WrapperLive \ {"handshake"}
Undecided == {"handshake", "claim", "claimFill", "payload", "produced"}
Decided == {"evidence", "terminal", "terminalFill", "final", "finalFill"}

WrapperPhases ==
    \A j \in Jobs :
        /\ wrapper[j] # "terminalLost"
        /\ wrapper[j] \notin Claimed => wrapperState[j] = NoEntry
        /\ wrapper[j] \in WrapperLive =>
             /\ \A k \in Jobs \ {j} : wrapper[k] \notin WrapperLive
             /\ jobState.content # "missing"
             /\ submit[j] \in {"reread", "publish"} \/ jobState.entry.pid = j
             /\ wrapper[j] # "finalFill" => jobState.entry.state = "RUN"
             /\ wrapper[j] = "finalFill" => jobState = Torn(wrapperState[j])
        /\ wrapper[j] \in Claimed =>
             wrapperState[j].pid = j /\ submit[j] \notin Spawned
        /\ wrapper[j] \in Undecided \ {"handshake"} =>
             wrapperState[j].state = "RUN"
        /\ wrapper[j] \in Decided => wrapperState[j].state \in {"DONE", "EXIT"}
        /\ wrapper[j] \in Undecided \cup {"evidence", "terminal"} =>
             terminalState = NoFile
        /\ wrapper[j] = "terminalFill" => terminalState = Torn(wrapperState[j])
        /\ wrapper[j] \in {"final", "finalFill"} =>
             terminalState = Written(wrapperState[j])

(***************************************************************************)
(* A wait that holds a record holds one of the current job; it writes only *)
(* over a job whose wrapper is gone.                                       *)
(***************************************************************************)
Quiet == \A j \in Jobs : wrapper[j] \notin WrapperLive

Writing == {"write", "writeFill", "rewrite", "rewriteFill"}
Holding == {"decide", "vanished"} \cup Writing

WaitPhases ==
    \A w \in Waiters :
        /\ wait[w] \in WaitBusy => jobState.content # "missing"
        /\ wait[w] \in Holding => waitState[w].pid = jobState.entry.pid
        /\ wait[w] = "decide" /\ IsTerminal(waitState[w]) =>
             Quiet /\ waitState[w] = jobState.entry
        /\ wait[w] = "vanished" => Quiet /\ ~IsTerminal(waitState[w])
        /\ wait[w] \in Writing =>
             /\ Quiet
             /\ IsTerminal(waitState[w])
             /\ waitState[w].state = "DONE" =>
                  terminalState = Written(waitState[w])
        /\ wait[w] \in {"writeFill", "rewrite", "rewriteFill"} =>
             jobState.entry = waitState[w]

(***************************************************************************)
(* The job that job-state.json is about.                                   *)
(***************************************************************************)
RecordNamesJob ==
    /\ \/ jobState.content = "missing"
       \/ jobState.entry.pid \in Jobs
       \/ \E j \in Jobs :
            submit[j] \in {"initFill", "spawn", "reread", "publish"}
    /\ terminalState # NoFile =>
         /\ terminalState.entry.pid = jobState.entry.pid
         /\ terminalState.entry.state \in {"DONE", "EXIT"}

(***************************************************************************)
(* A reported job has ended, and no wait holds anything else about it.     *)
(***************************************************************************)
ReportsStand ==
    \A v \in Waiters : wait[v] = "done" =>
        /\ IsTerminal(waitState[v])
        /\ waitState[v].pid \in Jobs
        /\ wrapper[waitState[v].pid] \notin WrapperLive
        /\ waitState[v].pid = jobState.entry.pid =>
             waitState[v] = jobState.entry
        /\ \A w \in Waiters :
             wait[w] \in Holding /\ waitState[w].pid = waitState[v].pid =>
                 waitState[w] = waitState[v]

(***************************************************************************)
(* Every DONE leads back to a payload that has passed, by way of the       *)
(* wrapper's memory and terminal-state.json.                               *)
(***************************************************************************)
PassOf(j) == [pid |-> j, status |-> "pass"]

DoneTraced ==
    /\ \A j \in Jobs : wrapperState[j].state = "DONE" =>
         /\ j \in passed
         /\ wrapper[j] # "evidence" => evidence = PassOf(j)
    /\ terminalState.entry.state = "DONE" =>
         /\ terminalState.entry.pid \in passed
         /\ evidence = PassOf(terminalState.entry.pid)
    /\ jobState.entry.state = "DONE" =>
         \/ terminalState = Written(jobState.entry)
         \/ \E j \in Jobs : submit[j] = "init"
    /\ extract = "open" => jobState.entry.state = "DONE"

(***************************************************************************)
(* The raw output is the current job's from the moment it is produced.     *)
(***************************************************************************)
OutputOwned ==
    \A j \in Jobs :
        /\ wrapper[j] \in Undecided \cup {"unborn", "orphan"} =>
             j \notin passed
        /\ (/\ jobState.entry.pid = j
            /\ wrapper[j] = "produced" \/ j \in passed)
           => rawOutput \in {j} \cup Abandoned

SerialCore ==
    /\ SubmitPhases /\ WrapperPhases /\ WaitPhases
    /\ RecordNamesJob /\ ReportsStand /\ DoneTraced /\ OutputOwned

SerialInv == StartInv /\ OneCommand /\ SerialCore

-----------------------------------------------------------------------------
(***************************************************************************)
(* The discipline.  Counting needs finite sets: a step moves at most one   *)
(* process, so there is never more than one busy submit, or wait, to add.  *)
(***************************************************************************)
LEMMA AtMostOne ==
    ASSUME NEW S, IsFiniteSet(S), Cardinality(S) <= 1
    PROVE  \A x, y \in S : x = y
<1> SUFFICES ASSUME NEW x \in S, NEW y \in S, x # y PROVE FALSE
    OBVIOUS
<1>1. {x, y} \subseteq S /\ IsFiniteSet({x, y}) /\ Cardinality({x, y}) = 2
  <2>1. IsFiniteSet({x}) /\ Cardinality({x}) = 1
    BY FS_Singleton
  <2>2. /\ IsFiniteSet({x} \cup {y})
        /\ Cardinality({x} \cup {y}) = IF y \in {x} THEN 1 ELSE 1 + 1
    BY <2>1, FS_AddElement
  <2>3. {x} \cup {y} = {x, y}
    OBVIOUS
  <2> QED
    BY <2>2, <2>3
<1>2. Cardinality({x, y}) <= Cardinality(S)
  BY <1>1, FS_Subset
<1> QED
  BY <1>1, <1>2, FS_CardinalityType

LEMMA AtMostOneOfFour ==
    ASSUME NEW S, IsFiniteSet(S), NEW T, IsFiniteSet(T),
           NEW c \in BOOLEAN, NEW d \in BOOLEAN,
           Cardinality(S) + Cardinality(T) + One(c) + One(d) <= 1
    PROVE  /\ \A x, y \in S : x = y
           /\ \A x, y \in T : x = y
           /\ S = {} \/ T = {}
           /\ S # {} \/ T # {} => ~d
<1>1. Cardinality(S) \in Nat /\ Cardinality(T) \in Nat
  BY FS_CardinalityType
<1>2. One(c) \in {0, 1} /\ One(d) \in {0, 1} /\ (d => One(d) = 1)
  BY DEF One
<1>3. Cardinality(S) <= 1 /\ Cardinality(T) <= 1
  BY <1>1, <1>2
<1>4. (Cardinality(S) = 0 <=> S = {}) /\ (Cardinality(T) = 0 <=> T = {})
  BY FS_EmptySet
<1> QED
  BY <1>1, <1>2, <1>3, <1>4, AtMostOne

LEMMA FewBusy ==
    ASSUME NEW S, NEW T, NEW x, \A y, z \in S : y = z, T \subseteq S \cup {x}
    PROVE  IsFiniteSet(T)
<1>1. CASE S = {}
  <2>1. IsFiniteSet({x}) /\ T \subseteq {x}
    BY <1>1, FS_Singleton
  <2> QED
    BY <2>1, FS_Subset
<1>2. CASE S # {}
  <2>1. PICK y \in S : S = {y}
    BY <1>2
  <2>2. IsFiniteSet({y} \cup {x})
    BY FS_Singleton, FS_AddElement
  <2> QED
    BY <2>1, <2>2, FS_Subset
<1> QED
  BY <1>1, <1>2

(***************************************************************************)
(* One step moves one submit or one wait at most.                          *)
(***************************************************************************)
LEMMA OneMoves ==
    ASSUME TypeOK, Next
    PROVE  /\ \E j \in Jobs \cup {NoPid} :
                 \A k \in Jobs \ {j} : submit'[k] = submit[k]
           /\ \E w : \A v \in Waiters \ {w} : wait'[v] = wait[v]
<1> USE DEF notSubmit, notWrapper, notWait, waitVars, submitVars,
            SubmitMoves, WaitMoves, TypeOK
<1>1. ASSUME NEW j \in Jobs,
             SubmitRefused(j) \/ SubmitCheck(j) \/ SubmitStep(j)
               \/ SubmitCrash(j)
      PROVE  /\ UNCHANGED wait
             /\ \A k \in Jobs \ {j} : submit'[k] = submit[k]
  BY <1>1 DEF SubmitRefused, SubmitCheck, SubmitStep, SubmitCrash,
       SubmitUnlink, SubmitTruncate, SubmitFill, SubmitSpawn, SubmitReread,
       SubmitRereadFails, SubmitRecord
<1>2. ASSUME NEW j \in Jobs,
             WrapperStep(j) \/ PayloadStep(j) \/ WrapperCrash(j)
      PROVE  UNCHANGED <<submit, wait>>
  BY <1>2 DEF WrapperStep, PayloadStep, WrapperCrash, WrapperHandshake,
       WrapperHandshakeFails, WrapperTruncate, WrapperFill, WriteEvidence,
       TerminalTruncate, TerminalFill, EngineOutput, PayloadPasses,
       PayloadFails, PayloadRaises, OrphanEnds
<1>3. ASSUME NEW w \in Waiters,
             WaitStart(w) \/ WaitStep(w) \/ DeadlinePasses(w) \/ WaitCrash(w)
      PROVE  /\ UNCHANGED submit
             /\ \A v \in Waiters \ {w} : wait'[v] = wait[v]
  BY <1>3 DEF WaitStart, WaitStep, DeadlinePasses, WaitCrash, WaitRead,
       WaitReadFails, WaitTerminal, WaitTimeout, WaitSleep, WaitVanished,
       WaitRecover, WaitTruncate, WaitFill
<1>4. ASSUME CollectRead \/ CollectWrite \/ ExtractGate \/ ExtractRun
      PROVE  UNCHANGED <<submit, wait>>
  BY <1>4 DEF CollectRead, CollectWrite, ExtractGate, ExtractRun
<1> QED
  BY <1>1, <1>2, <1>3, <1>4 DEF Next

LEMMA OneCommandStep ==
    ASSUME TypeOK, OneCommand, Next, Foreground' <= 1
    PROVE  OneCommand'
<1> DEFINE S == {j \in Jobs : submit[j] \in SubmitBusy}
           T == {w \in Waiters : wait[w] \in WaitBusy}
<1>1. (\A j, k \in S : j = k) /\ (\A v, w \in T : v = w)
  BY DEF OneCommand
<1>2. PICK j \in Jobs \cup {NoPid} :
        \A k \in Jobs \ {j} : submit'[k] = submit[k]
  BY OneMoves
<1>3. PICK w : \A v \in Waiters \ {w} : wait'[v] = wait[v]
  BY OneMoves
<1>4. S' \subseteq S \cup {j} /\ T' \subseteq T \cup {w}
  BY <1>2, <1>3
<1>5. IsFiniteSet(S') /\ IsFiniteSet(T')
  BY <1>1, <1>4, FewBusy
<1>6. /\ \A x, y \in S' : x = y
      /\ \A x, y \in T' : x = y
      /\ S' = {} \/ T' = {}
      /\ S' # {} \/ T' # {} => extract' # "open"
  <2>1. Cardinality(S') + Cardinality(T') + One(collect' # "none")
          + One(extract' = "open") <= 1
    BY DEF Foreground
  <2> HIDE DEF S, T
  <2> QED
    BY <1>5, <2>1, AtMostOneOfFour
<1>7. extract' \in {"idle", "open"}
  BY TypeStep DEF TypeOK
<1> QED
  BY <1>6, <1>7 DEF OneCommand, Submitting, Waiting

-----------------------------------------------------------------------------
(***************************************************************************)
(* The steps of a submit.  While one runs, no other command does, so it is *)
(* alone with the wrapper it has spawned.                                  *)
(***************************************************************************)
LEMMA SubmitSerial ==
    ASSUME SerialInv, OneCommand', SubmitsSurvive, NEW j \in Jobs,
           SubmitRefused(j) \/ SubmitCheck(j) \/ SubmitStep(j)
             \/ SubmitCrash(j)
    PROVE  SerialCore'
<1> USE NoPidAssumption
    DEF SerialInv, SerialCore, SubmitPhases, WrapperPhases, WaitPhases,
        RecordNamesJob, ReportsStand, DoneTraced, OutputOwned, Abandoned,
        Quiet, files, otherFiles, notSubmit, wrapperVars, waitVars, readerVars,
        SubmitMoves, SubmitBusy, Spawned
<1>0. /\ submitState \in [Jobs -> Entry] /\ submitState[j] \in Entry
      /\ submit \in [Jobs -> SubmitPC] /\ wrapper \in [Jobs -> WrapperPC]
      /\ wait \in [Waiters -> WaitPC]
      /\ waitState \in [Waiters -> Entry]
      /\ jobState \in File /\ jobState.entry \in Entry
  BY FileEntry DEF StartInv, TypeOK
<1>a. submit[j] \in BeforeSpawn => wrapper[j] = "unborn"
  BY DEF StartInv, SpawnedOnce
<1> USE DEF BeforeSpawn
<1>1. CASE SubmitRefused(j)
  BY <1>0, <1>1 DEF SubmitRefused
<1>2. CASE SubmitCheck(j)
  <2>1. \A k \in Jobs : submit[k] \notin SubmitBusy
    BY <1>0, <1>2 DEF SubmitCheck, OneCommand
  <2>2. \A k \in Jobs : wrapper[k] \notin WrapperLive
    <3> SUFFICES ASSUME NEW k \in Jobs, wrapper[k] \in WrapperLive
                 PROVE  FALSE
      OBVIOUS
    <3>1. jobState.content = "whole"
      BY <1>0, <1>2 DEF SubmitCheck, File, Contents
    <3>2. jobState.entry.pid = k /\ jobState.entry.state = "RUN"
      BY <2>1, <3>1 DEF Torn
    <3> QED
      BY <1>2, <3>1, <3>2 DEF SubmitCheck, HasLiveExistingJob, PidAlive, Whole,
           IsTerminal, TerminalStates
  <2> QED
    BY <1>0, <1>2, <2>1, <2>2 DEF SubmitCheck
<1>3. CASE SubmitUnlink(j)
  <2>1. /\ ~Waiting /\ extract = "idle"
        /\ \A k \in Jobs \ {j} : submit[k] \notin SubmitBusy
    BY <1>3 DEF SubmitUnlink, OneCommand, Submitting
  <2>2. \A k \in Jobs : wrapper[k] \notin WrapperLive
    BY <1>3, <1>a DEF SubmitUnlink, WrapperLive
  <2>3. wrapper' = wrapper
    BY <1>0, <1>3, <2>2 DEF SubmitUnlink, WrapperLive
  <2>4. terminalState' = NoFile /\ NoFile.entry.state = "none"
    BY <1>3 DEF SubmitUnlink, NoFile, NoEntry
  <2>5. submit' = [submit EXCEPT ![j] = "init"] /\ submit[j] = "unlink"
        /\ submitState' = [submitState EXCEPT ![j] = NewRecord]
        /\ UNCHANGED <<jobState, otherFiles, wrapperState, passed, waitVars,
                       readerVars>>
    BY <1>3 DEF SubmitUnlink, NewRecord
  <2> QED
    BY <1>0, <1>a, <2>1, <2>2, <2>3, <2>4, <2>5
    DEF Waiting, WaitBusy, Writing, Holding, WrapperLive, Claimed, Undecided,
        Decided
<1>4. CASE SubmitTruncate(j)
  <2>1. /\ ~Waiting /\ extract = "idle"
        /\ \A k \in Jobs \ {j} : submit[k] \notin SubmitBusy
    BY <1>4 DEF SubmitTruncate, OneCommand, Submitting
  <2>2. CASE submit[j] = "init"
    <3> QED
      BY <1>0, <1>4, <1>a, <2>1, <2>2
      DEF SubmitTruncate, WrapperLive, Claimed, Undecided, Decided, Waiting,
          WaitBusy, Writing, Holding, Torn, NewRecord
  <2>3. CASE submit[j] = "publish"
    BY <1>0, <1>4, <1>a, <2>1, <2>3
    DEF SubmitTruncate, Waiting, WaitBusy, Writing, Holding, Torn,
        PublishedRecord
  <2> QED
    BY <1>4, <2>2, <2>3 DEF SubmitTruncate
<1>5. CASE SubmitFill(j)
  BY <1>0, <1>5
  DEF SubmitFill, OneCommand, Torn, NewRecord, PublishedRecord, Filled, Whole,
      Written
<1>6. CASE SubmitSpawn(j)
  <2>1. /\ ~Waiting /\ extract = "idle"
        /\ \A k \in Jobs \ {j} : submit[k] \notin SubmitBusy
    BY <1>6 DEF SubmitSpawn, OneCommand, Submitting
  <2>2. \A k \in Jobs : wrapper[k] \notin WrapperLive
    BY <1>6, <1>a DEF SubmitSpawn, WrapperLive
  <2>3. /\ \A v \in Waiters : waitState[v].pid # j
        /\ j \notin passed
    BY <1>6, <1>a DEF SubmitSpawn, StartInv, PidsStarted, Started
  <2>4. jobState = Written(NewRecord) /\ terminalState = NoFile
    BY <1>6 DEF SubmitSpawn
  <2> QED
    BY <1>0, <1>6, <1>a, <2>1, <2>2, <2>3, <2>4
    DEF SubmitSpawn, NewRecord, Written, Waiting, WaitBusy, Writing, Holding,
        WrapperLive, Claimed, Undecided, Decided
<1>7. CASE SubmitReread(j)
  <2>1. /\ ~Waiting /\ extract = "idle"
        /\ \A k \in Jobs \ {j} : submit[k] \notin SubmitBusy
    BY <1>7 DEF SubmitReread, OneCommand, Submitting
  <2>2. jobState = Written(NewRecord)
    BY <1>7 DEF SubmitReread
  <2>3. /\ submit' = [submit EXCEPT ![j] = "publish"] /\ submit[j] = "reread"
        /\ submitState' = [submitState EXCEPT ![j] = PublishedRecord(j)]
        /\ UNCHANGED <<files, notSubmit>>
    BY <1>7, <2>2
    DEF SubmitReread, Written, NewRecord, PublishedRecord, IsTerminal,
        TerminalStates
  <2> QED
    BY <1>0, <1>a, <2>1, <2>2, <2>3
    DEF Waiting, WaitBusy, Writing, Holding, WrapperLive, Claimed, Undecided,
        Decided
<1>8. CASE SubmitRereadFails(j)
  BY <1>0, <1>8 DEF SubmitRereadFails, OneCommand, NewRecord, Written, Whole
<1>9. CASE SubmitRecord(j)
  BY <1>0, <1>9 DEF SubmitRecord, OneCommand
<1>10. CASE SubmitCrash(j)
  BY <1>10 DEF SubmitCrash, SubmitsSurvive
<1> QED
  BY <1>1, <1>2, <1>3, <1>4, <1>5, <1>6, <1>7, <1>8, <1>9, <1>10
  DEF SubmitStep


(***************************************************************************)
(* Once its wrapper has the pid, a submit has only its own record left to  *)
(* write, and what the wrapper does to the other files is not its concern. *)
(***************************************************************************)
LEMMA SubmitUnconcerned ==
    ASSUME SubmitPhases, NEW j \in Jobs, UNCHANGED submit,
           wrapper[j] # "unborn", wrapper'[j] # "unborn",
           \A k \in Jobs \ {j} : wrapper'[k] = wrapper[k],
           \A k \in Jobs :
             /\ submit[k] \notin
                  {"unlink", "init", "initFill", "spawn"} \cup Spawned
             /\ submit[k] = "record" => k = j,
           jobState'.entry.pid = j
    PROVE  SubmitPhases'
  BY DEF SubmitPhases, SubmitBusy, Spawned

(***************************************************************************)
(* The steps of a wrapper.  As long as it lives it is the only one, and a  *)
(* wait beside it at most reads.                                           *)
(***************************************************************************)
LEMMA WrapperSerial ==
    ASSUME SerialInv, OneCommand', NEW j \in Jobs,
           WrapperStep(j) \/ PayloadStep(j) \/ WrapperCrash(j)
    PROVE  SerialCore'
<1> USE NoPidAssumption
    DEF SerialInv, SerialCore, SubmitPhases, WrapperPhases, WaitPhases,
        RecordNamesJob, ReportsStand, DoneTraced, OutputOwned, Abandoned,
        Quiet, files, otherFiles, notWrapper, submitVars, waitVars, readerVars,
        WrapperMoves, WrapperLive, Claimed, Undecided, Decided, Spawned
<1>0. /\ submit \in [Jobs -> SubmitPC] /\ wrapper \in [Jobs -> WrapperPC]
      /\ wait \in [Waiters -> WaitPC]
      /\ wrapperState \in [Jobs -> Entry] /\ wrapperState[j] \in Entry
      /\ waitState \in [Waiters -> Entry]
      /\ jobState \in File /\ jobState.entry \in Entry
  BY FileEntry DEF StartInv, TypeOK
<1>a. submit[j] \in BeforeSpawn => wrapper[j] = "unborn"
  BY DEF StartInv, SpawnedOnce
<1> USE DEF BeforeSpawn
<1>b. wrapper[j] \in WrapperLive =>
        \A w \in Waiters : /\ wait[w] \notin Writing \cup {"vanished"}
                           /\ wait[w] = "decide" => ~IsTerminal(waitState[w])
  OBVIOUS
<1>c. wrapper[j] \in Claimed =>
        \A k \in Jobs :
          /\ submit[k] \notin
               {"unlink", "init", "initFill", "spawn"} \cup Spawned
          /\ submit[k] = "record" => k = j
  BY <1>a DEF SubmitBusy
<1>1. CASE WrapperHandshake(j)
  <2>1. jobState.entry.pid = j /\ submit[j] \notin Spawned
    BY <1>0, <1>1
    DEF WrapperHandshake, Whole, ReadyToClaim, IsTerminal, TerminalStates,
        NewRecord, Written, Torn
  <2>2. wrapperState'[j].pid = j /\ wrapperState'[j].state = "RUN"
    BY <1>0, <1>1, <2>1 DEF WrapperHandshake, Entry
  <2>3. \A k \in Jobs \ {j} : wrapperState'[k] = wrapperState[k]
    BY <1>0, <1>1 DEF WrapperHandshake
  <2>4. /\ WrapperMoves(j, "handshake", "claim")
        /\ UNCHANGED <<files, passed, notWrapper>>
    BY <1>1 DEF WrapperHandshake
  <2> QED
    BY <1>0, <1>a, <1>b, <2>1, <2>2, <2>3, <2>4
<1>2. CASE WrapperHandshakeFails(j)
  <2> QED
    BY <1>0, <1>2, <1>a, <1>b DEF WrapperHandshakeFails
<1>3. CASE WrapperTruncate(j)
  <2>1. jobState' = Torn(wrapperState[j])
    BY <1>3 DEF WrapperTruncate
  <2>2. jobState'.entry.pid = j /\ wrapper[j] \in Claimed
    BY <1>3, <2>1 DEF WrapperTruncate, Torn
  <2>submits. SubmitPhases'
    <3>1. /\ UNCHANGED submit
          /\ wrapper[j] # "unborn" /\ wrapper'[j] # "unborn"
          /\ \A k \in Jobs \ {j} : wrapper'[k] = wrapper[k]
          /\ wrapper[j] \in Claimed
          /\ jobState'.entry.pid = j
      BY <1>0, <1>3, <2>2 DEF WrapperTruncate
    <3>2. \A k \in Jobs :
            /\ submit[k] \notin
                 {"unlink", "init", "initFill", "spawn"} \cup Spawned
            /\ submit[k] = "record" => k = j
      BY <1>c, <3>1
    <3> HIDE DEF SerialInv, SubmitPhases, Spawned
    <3>3. SubmitPhases
      BY DEF SerialInv
    <3> QED
      BY <3>1, <3>2, <3>3, SubmitUnconcerned
  <2>wrappers. WrapperPhases'
    BY <1>0, <1>3, <1>a, <1>b, <1>c, <2>1, <2>2
    DEF WrapperTruncate, Torn, Holding, Writing
  <2>waits. WaitPhases'
    BY <1>0, <1>3, <1>a, <1>b, <1>c, <2>1, <2>2
    DEF WrapperTruncate, Torn, Holding, Writing
  <2>records. RecordNamesJob' /\ ReportsStand' /\ DoneTraced' /\ OutputOwned'
    BY <1>0, <1>3, <1>a, <1>b, <1>c, <2>1, <2>2
    DEF WrapperTruncate, Torn, Holding, Writing
  <2> QED
    BY <2>submits, <2>wrappers, <2>waits, <2>records
<1>4. CASE WrapperFill(j)
  <2>1. jobState'.entry = wrapperState[j] /\ jobState'.content # "missing"
    BY <1>0, <1>4 DEF WrapperFill, Filled
  <2>2. jobState'.entry.pid = j /\ wrapper[j] \in Claimed
    BY <1>4, <2>1 DEF WrapperFill
  <2>3. wrapper[j] = "finalFill" => terminalState = Written(wrapperState[j])
    OBVIOUS
  <2>submits. SubmitPhases'
    <3>1. /\ UNCHANGED submit
          /\ wrapper[j] # "unborn" /\ wrapper'[j] # "unborn"
          /\ \A k \in Jobs \ {j} : wrapper'[k] = wrapper[k]
          /\ wrapper[j] \in Claimed
          /\ jobState'.entry.pid = j
      BY <1>0, <1>4, <2>2 DEF WrapperFill
    <3>2. \A k \in Jobs :
            /\ submit[k] \notin
                 {"unlink", "init", "initFill", "spawn"} \cup Spawned
            /\ submit[k] = "record" => k = j
      BY <1>c, <3>1
    <3> HIDE DEF SerialInv, SubmitPhases, Spawned
    <3>3. SubmitPhases
      BY DEF SerialInv
    <3> QED
      BY <3>1, <3>2, <3>3, SubmitUnconcerned
  <2>wrappers. WrapperPhases'
    BY <1>0, <1>4, <1>a, <1>b, <1>c, <2>1, <2>2, <2>3
    DEF WrapperFill, Holding, Writing, NoEntry
  <2>waits. WaitPhases'
    BY <1>0, <1>4, <1>a, <1>b, <1>c, <2>1, <2>2, <2>3
    DEF WrapperFill, Holding, Writing, NoEntry
  <2>names. RecordNamesJob'
    BY <1>0, <1>4, <1>a, <1>b, <1>c, <2>1, <2>2, <2>3
    DEF WrapperFill, Holding, Writing, NoEntry
  <2>reports. ReportsStand'
    BY <1>0, <1>4, <1>a, <1>b, <1>c, <2>1, <2>2, <2>3
    DEF WrapperFill, Holding, Writing, NoEntry
  <2>done. DoneTraced'
    <3>1. terminalState.entry.state # "DONE" \/ wrapper[j] = "finalFill"
      BY <1>4 DEF WrapperFill, NoFile, NoEntry
    <3>2. wrapperState[j].state = "DONE" => wrapper[j] = "finalFill"
      BY <1>4 DEF WrapperFill
    <3> QED
      BY <1>0, <1>4, <2>1, <2>2, <2>3, <3>1, <3>2
      DEF WrapperFill, NoEntry, Torn
  <2>output. OutputOwned'
    BY <1>0, <1>4, <1>a, <1>b, <1>c, <2>1, <2>2, <2>3
    DEF WrapperFill, Holding, Writing, NoEntry
  <2> QED
    BY <2>submits, <2>wrappers, <2>waits, <2>names, <2>reports, <2>done,
       <2>output
<1>5. CASE EngineOutput(j)
  <2> QED
    BY <1>0, <1>5, <1>a, <1>b DEF EngineOutput
<1>6. CASE PayloadPasses(j) \/ PayloadFails(j) \/ PayloadRaises(j)
  <2> QED
    BY <1>0, <1>6, <1>a, <1>b
    DEF PayloadPasses, PayloadFails, PayloadRaises, Entry
<1>7. CASE WriteEvidence(j)
  <2> QED
    BY <1>0, <1>7, <1>a, <1>b DEF WriteEvidence, PassOf, NoFile, NoEntry
<1>8. CASE TerminalTruncate(j)
  <2>submits. SubmitPhases'
    <3>1. /\ UNCHANGED submit
          /\ wrapper[j] # "unborn" /\ wrapper'[j] # "unborn"
          /\ \A k \in Jobs \ {j} : wrapper'[k] = wrapper[k]
          /\ wrapper[j] \in Claimed
          /\ jobState'.entry.pid = j
      BY <1>0, <1>8 DEF TerminalTruncate
    <3>2. \A k \in Jobs :
            /\ submit[k] \notin
                 {"unlink", "init", "initFill", "spawn"} \cup Spawned
            /\ submit[k] = "record" => k = j
      BY <1>c, <3>1
    <3> HIDE DEF SerialInv, SubmitPhases, Spawned
    <3>3. SubmitPhases
      BY DEF SerialInv
    <3> QED
      BY <3>1, <3>2, <3>3, SubmitUnconcerned
  <2>wrappers. WrapperPhases'
    BY <1>0, <1>8, <1>a, <1>b, <1>c DEF TerminalTruncate, Torn, NoFile, Written
  <2>waits. WaitPhases'
    BY <1>0, <1>8, <1>a, <1>b, <1>c DEF TerminalTruncate, Torn, NoFile, Written
  <2>records. RecordNamesJob' /\ ReportsStand' /\ DoneTraced' /\ OutputOwned'
    BY <1>0, <1>8, <1>a, <1>b, <1>c DEF TerminalTruncate, Torn, NoFile, Written
  <2> QED
    BY <2>submits, <2>wrappers, <2>waits, <2>records
<1>9. CASE TerminalFill(j)
  <2> QED
    BY <1>0, <1>9, <1>a, <1>b
    DEF TerminalFill, Filled, Whole, Torn, NoFile, Written
<1>10. CASE WrapperCrash(j)
  <2> QED
    BY <1>0, <1>10, <1>a, <1>b DEF WrapperCrash, NoEntry
<1>11. CASE OrphanEnds(j)
  <2> QED
    BY <1>0, <1>11, <1>a DEF OrphanEnds
<1> QED
  BY <1>1, <1>2, <1>3, <1>4, <1>5, <1>6, <1>7, <1>8, <1>9, <1>10, <1>11
  DEF WrapperStep, PayloadStep


(***************************************************************************)
(* The steps of a wait.  No submit runs beside it, so the job it is about  *)
(* does not change; it writes once the wrapper is gone.                    *)
(***************************************************************************)
LEMMA WaitSerial ==
    ASSUME SerialInv, OneCommand', NEW w \in Waiters,
           WaitStart(w) \/ WaitStep(w) \/ DeadlinePasses(w) \/ WaitCrash(w)
    PROVE  SerialCore'
<1> USE NoPidAssumption
    DEF SerialInv, SerialCore, SubmitPhases, WrapperPhases, WaitPhases,
        RecordNamesJob, ReportsStand, DoneTraced, OutputOwned, Abandoned,
        Quiet, files, otherFiles, notWait, submitVars, wrapperVars,
        readerVars, WaitMoves, WaitBusy, Holding, Writing
<1>0. /\ submit \in [Jobs -> SubmitPC] /\ wrapper \in [Jobs -> WrapperPC]
      /\ wait \in [Waiters -> WaitPC]
      /\ wrapperState \in [Jobs -> Entry]
      /\ waitState \in [Waiters -> Entry] /\ waitState[w] \in Entry
      /\ jobState \in File /\ jobState.entry \in Entry
      /\ terminalState \in File /\ terminalState.entry \in Entry
  BY FileEntry DEF StartInv, TypeOK
<1>a. wait[w] \in WaitBusy =>
        /\ \A j \in Jobs : submit[j] \notin SubmitBusy
        /\ \A v \in Waiters \ {w} : wait[v] \notin WaitBusy
        /\ extract = "idle"
  BY DEF OneCommand, Submitting, Waiting
<1>1. CASE WaitStart(w)
  <2> QED
    BY <1>0, <1>1, <1>a DEF WaitStart
<1>2. CASE DeadlinePasses(w)
  BY <1>0, <1>2, <1>a DEF DeadlinePasses
<1>3. CASE WaitRead(w)
  <2>submits. SubmitPhases'
    BY <1>0, <1>3, <1>a DEF WaitRead, SubmitBusy, Spawned
  <2>wrappers. WrapperPhases'
    BY <1>0, <1>3, <1>a
    DEF WaitRead, Whole, SubmitBusy, IsTerminal, TerminalStates, WrapperLive,
        Torn
  <2>waits. WaitPhases'
    BY <1>0, <1>3, <1>a
    DEF WaitRead, Whole, SubmitBusy, IsTerminal, TerminalStates, WrapperLive,
        Torn
  <2>records. RecordNamesJob' /\ ReportsStand' /\ DoneTraced' /\ OutputOwned'
    BY <1>0, <1>3, <1>a
    DEF WaitRead, Whole, SubmitBusy, IsTerminal, TerminalStates, WrapperLive,
        Torn
  <2> QED
    BY <2>submits, <2>wrappers, <2>waits, <2>records
<1>4. CASE WaitReadFails(w)
  <2> QED
    BY <1>0, <1>4, <1>a DEF WaitReadFails
<1>5. CASE WaitTerminal(w)
  <2> QED
    BY <1>0, <1>5, <1>a DEF WaitTerminal, SubmitBusy
<1>6. CASE WaitTimeout(w)
  <2>1. /\ \A j \in Jobs : submit[j] \notin SubmitBusy
        /\ \A v \in Waiters \ {w} : wait[v] \notin WaitBusy
        /\ wait[w] = "decide" /\ wait' = [wait EXCEPT ![w] = "write"]
        /\ waitState[w].pid = jobState.entry.pid
        /\ extract = "idle"
        /\ UNCHANGED <<files, submitVars, passed, readerVars>>
    BY <1>6, <1>a DEF WaitTimeout
  <2>2. \A v \in Waiters :
          wait[v] = "done" => waitState[v].pid # waitState[w].pid
    BY <1>6 DEF WaitTimeout
  <2>3. /\ waitState'[w].state = "TIMEOUT"
        /\ waitState'[w].pid = waitState[w].pid
        /\ \A v \in Waiters \ {w} : waitState'[v] = waitState[v]
    BY <1>0, <1>6 DEF WaitTimeout, Entry
  <2>4. \A j \in Jobs :
          /\ wrapper'[j] \notin WrapperLive
          /\ wrapperState'[j] = NoEntry
          /\ \/ wrapper'[j] = wrapper[j]
             \/ wrapper'[j] = "dead" /\ wrapper[j] # "unborn"
    <3> SUFFICES ASSUME NEW j \in Jobs
                 PROVE  /\ wrapper'[j] \notin WrapperLive
                        /\ wrapperState'[j] = NoEntry
                        /\ \/ wrapper'[j] = wrapper[j]
                           \/ wrapper'[j] = "dead" /\ wrapper[j] # "unborn"
      OBVIOUS
    <3>1. wrapper[j] \in WrapperLive => j = waitState[w].pid
      BY <2>1 DEF SubmitBusy
    <3>2. j = waitState[w].pid => wrapper[j] # "unborn"
      BY DEF StartInv, PidsStarted, Started
    <3>3. wrapper[j] \notin WrapperLive => wrapperState[j] = NoEntry
      BY DEF Claimed
    <3>4. /\ wrapper'[j] = IF j = waitState[w].pid /\ wrapper[j] # "exited"
                          THEN "dead" ELSE wrapper[j]
          /\ wrapperState'[j] = IF j = waitState[w].pid
                               THEN NoEntry ELSE wrapperState[j]
      BY <1>6 DEF WaitTimeout
    <3> QED
      BY <3>1, <3>2, <3>3, <3>4 DEF WrapperLive
  <2> QED
    BY <1>0, <2>1, <2>2, <2>3, <2>4
    DEF SubmitBusy, Spawned, WrapperLive, Claimed, Undecided, Decided, NoEntry,
        IsTerminal, TerminalStates
<1>7. CASE WaitSleep(w) \/ WaitCrash(w)
  <2> QED
    BY <1>0, <1>7, <1>a
    DEF WaitSleep, WaitCrash, NoEntry, IsTerminal, TerminalStates
<1>8. CASE WaitVanished(w)
  <2> QED
    BY <1>0, <1>8, <1>a DEF WaitVanished, PidAlive, SubmitBusy
<1>9. CASE WaitRecover(w)
  <2>1. wait[w] = "vanished" /\ \A v \in Waiters \ {w} : wait'[v] = wait[v]
    BY <1>0, <1>9 DEF WaitRecover
  <2>2. \/ wait'[w] = "failed"
        \/ /\ wait'[w] = "write"
           /\ waitState'[w].pid = jobState.entry.pid
           /\ IsTerminal(waitState'[w])
           /\ waitState'[w].state = "DONE" =>
                terminalState = Written(waitState'[w])
    <3>1. CASE Whole(terminalState)
      <4>1. /\ terminalState # NoFile
            /\ terminalState = Written(terminalState.entry)
        BY <1>0, <3>1 DEF Whole, NoFile, File, Written
      <4>2. waitState'[w] = terminalState.entry /\ wait'[w] = "write"
        BY <1>0, <1>9, <3>1 DEF WaitRecover, Whole
      <4> QED
        BY <4>1, <4>2 DEF IsTerminal, TerminalStates
    <3>2. CASE ~Whole(terminalState)
      BY <1>0, <1>9, <2>1, <3>2
      DEF WaitRecover, Entry, IsTerminal, TerminalStates
    <3> QED
      BY <3>1, <3>2
  <2>3. \A v \in Waiters \ {w} : waitState'[v] = waitState[v]
    BY <1>0, <1>9 DEF WaitRecover
  <2>4. \A v \in Waiters :
          wait[v] = "done" => waitState[v].pid # jobState.entry.pid
    BY <2>1
  <2>5. UNCHANGED <<files, notWait>>
    BY <1>9 DEF WaitRecover
  <2> QED
    BY <1>0, <1>a, <2>1, <2>2, <2>3, <2>4, <2>5 DEF SubmitBusy, Spawned
<1>10. CASE WaitTruncate(w)
  <2> QED
    BY <1>0, <1>10, <1>a DEF WaitTruncate, SubmitBusy, Torn
<1>11. CASE WaitFill(w)
  <2> QED
    BY <1>0, <1>11, <1>a DEF WaitFill, SubmitBusy, Filled
<1> QED
  BY <1>1, <1>2, <1>3, <1>4, <1>5, <1>6, <1>7, <1>8, <1>9, <1>10, <1>11
  DEF WaitStep

LEMMA ReaderSerial ==
    ASSUME SerialInv, OneCommand',
           CollectRead \/ CollectWrite \/ ExtractGate \/ ExtractRun
    PROVE  SerialCore'
<1> USE DEF SerialInv, SerialCore, SubmitPhases, WrapperPhases, WaitPhases,
        RecordNamesJob, ReportsStand, DoneTraced, OutputOwned, Abandoned,
        Quiet, files, otherFiles, submitVars, wrapperVars, waitVars
<1>1. CASE CollectRead \/ CollectWrite
  BY <1>1 DEF CollectRead, CollectWrite
<1>2. CASE ExtractGate \/ ExtractRun
  BY <1>2 DEF ExtractGate, ExtractRun
<1> QED
  BY <1>1, <1>2


-----------------------------------------------------------------------------
(***************************************************************************)
(* The invariant holds before the first command and after every step of    *)
(* the one that runs.                                                      *)
(***************************************************************************)
LEMMA SerialInit == Init => SerialInv
<1> SUFFICES ASSUME Init PROVE OneCommand /\ SerialCore
  BY StartInit DEF SerialInv
<1>1. OneCommand
  BY DEF Init, OneCommand, SubmitBusy, WaitBusy, Submitting, Waiting
<1>2. SubmitPhases /\ WrapperPhases /\ WaitPhases
  BY DEF Init, SubmitPhases, WrapperPhases, WaitPhases, SubmitBusy, Spawned,
         WaitBusy, Writing, Holding, WrapperLive, Claimed, Undecided, Decided
<1>3. RecordNamesJob /\ ReportsStand /\ DoneTraced /\ OutputOwned
  BY NoPidAssumption
  DEF Init, RecordNamesJob, ReportsStand, DoneTraced, OutputOwned, NoFile,
      NoEntry
<1> QED
  BY <1>1, <1>2, <1>3 DEF SerialCore

LEMMA SerialStep ==
    ASSUME SubmitsSurvive
    PROVE  SerialInv /\ [SerialNext]_vars => SerialInv'
<1> SUFFICES ASSUME SerialInv, [SerialNext]_vars PROVE SerialInv'
    OBVIOUS
<1>1. CASE SerialNext
  <2>1. OneCommand'
    BY <1>1, OneCommandStep DEF SerialInv, StartInv, SerialNext
  <2>2. StartInv'
    BY <1>1, StartStep DEF SerialInv, SerialNext
  <2>3. SerialCore'
    BY <1>1, <2>1, SubmitSerial, WrapperSerial, WaitSerial, ReaderSerial
    DEF SerialNext, Next
  <2> QED
    BY <2>1, <2>2, <2>3 DEF SerialInv
<1>2. CASE UNCHANGED vars
  <2> USE <1>2 DEF vars, files, otherFiles, submitVars, wrapperVars, waitVars,
                   readerVars
  <2>1. StartInv'
    BY StartStep DEF SerialInv
  <2>2. OneCommand' /\ SubmitPhases' /\ WrapperPhases' /\ WaitPhases'
    BY DEF SerialInv, SerialCore, OneCommand, Submitting, Waiting,
           SubmitPhases, WrapperPhases, WaitPhases, Quiet
  <2>3. RecordNamesJob' /\ ReportsStand' /\ DoneTraced' /\ OutputOwned'
    BY DEF SerialInv, SerialCore, RecordNamesJob, ReportsStand, DoneTraced,
           OutputOwned, Abandoned
  <2> QED
    BY <2>1, <2>2, <2>3 DEF SerialInv, SerialCore
<1> QED
  BY <1>1, <1>2

(***************************************************************************)
(* With one command at a time, the records, the wrappers and the commands  *)
(* that wait stay in step, whatever is killed but a submit.                *)
(***************************************************************************)
THEOREM SerialInvariant ==
    ASSUME SubmitsSurvive PROVE SerialSpec => []SerialInv
  BY SerialInit, SerialStep, PTL DEF SerialSpec

(***************************************************************************)
(* A resubmission never starts a wrapper beside one that can still write.  *)
(***************************************************************************)
THEOREM OneWrapper ==
    ASSUME SubmitsSurvive PROVE SerialSpec => []AtMostOneWrapper
<1>1. SerialInv => AtMostOneWrapper
  BY DEF SerialInv, SerialCore, WrapperPhases, AtMostOneWrapper
<1> QED
  BY <1>1, SerialInvariant, PTL

(***************************************************************************)
(* Nobody writes job-state.json any more once it is terminal.              *)
(***************************************************************************)
THEOREM TerminalStaysQuiet ==
    ASSUME SubmitsSurvive PROVE SerialSpec => []TerminalIsQuiet
<1>1. SerialInv => TerminalIsQuiet
  <2> SUFFICES ASSUME SerialInv, Whole(jobState), IsTerminal(jobState.entry),
                      NEW j \in Jobs, wrapper[j] \in WrapperLive
               PROVE  FALSE
    BY DEF TerminalIsQuiet
  <2> QED
    BY DEF SerialInv, SerialCore, WrapperPhases, Whole, Torn, IsTerminal,
           TerminalStates
<1> QED
  BY <1>1, SerialInvariant, PTL

(***************************************************************************)
(* A verdict that a wait has reported is not replaced for that job.        *)
(***************************************************************************)
THEOREM VerdictStands ==
    ASSUME SubmitsSurvive PROVE SerialSpec => []ReportedVerdictStands
<1>1. SerialInv => ReportedVerdictStands
  BY DEF SerialInv, SerialCore, ReportsStand, ReportedVerdictStands
<1> QED
  BY <1>1, SerialInvariant, PTL

(***************************************************************************)
(* DONE between submissions is backed by the payload, the terminal state   *)
(* and the stage evidence of one and the same job.                         *)
(***************************************************************************)
LEMMA DoneMeansPassed ==
    ASSUME SerialInv, jobState.entry.state = "DONE", ~Submitting
    PROVE  /\ terminalState = Written(jobState.entry)
           /\ jobState.entry.pid \in passed
           /\ evidence = PassOf(jobState.entry.pid)
<1>1. terminalState = Written(jobState.entry)
  BY DEF SerialInv, SerialCore, DoneTraced, Submitting, SubmitBusy
<1>2. terminalState.entry = jobState.entry
  BY <1>1 DEF Written
<1> QED
  BY <1>1, <1>2 DEF SerialInv, SerialCore, DoneTraced

(***************************************************************************)
(* DONE in job-state.json stands for a payload that passed, under the same *)
(* terminal state and stage evidence of that job.                          *)
(***************************************************************************)
THEOREM DoneStaysBacked ==
    ASSUME SubmitsSurvive PROVE SerialSpec => []DoneIsBacked
<1>1. SerialInv => DoneIsBacked
  <2> SUFFICES ASSUME SerialInv, Whole(jobState),
                      jobState.entry.state = "DONE", ~Submitting
               PROVE  /\ jobState.entry.pid \in passed
                      /\ terminalState = jobState
                      /\ evidence = PassOf(jobState.entry.pid)
    BY DEF DoneIsBacked, PassOf
  <2>1. jobState = Written(jobState.entry)
    BY DEF SerialInv, StartInv, TypeOK, File, Whole, Written
  <2> QED
    BY <2>1, DoneMeansPassed
<1> QED
  BY <1>1, SerialInvariant, PTL

(***************************************************************************)
(* What is extracted is the output of the job the gate's DONE is about, or *)
(* of an engine whose wrapper alone was killed.                            *)
(***************************************************************************)
THEOREM ExtractionIsOwn ==
    ASSUME SubmitsSurvive PROVE SerialSpec => []ExtractsOwnOutput
<1>1. SerialInv => ExtractsOwnOutput
  <2> SUFFICES ASSUME SerialInv, extract = "open"
               PROVE  rawOutput \in {jobState.entry.pid} \cup Abandoned
    BY DEF ExtractsOwnOutput
  <2>1. jobState.entry.state = "DONE" /\ ~Submitting
    BY DEF SerialInv, SerialCore, DoneTraced, OneCommand
  <2>2. jobState.entry.pid \in passed /\ passed \subseteq Jobs
    BY <2>1, DoneMeansPassed DEF SerialInv, StartInv, TypeOK
  <2> QED
    BY <2>2 DEF SerialInv, SerialCore, OutputOwned
<1> QED
  BY <1>1, SerialInvariant, PTL

=============================================================================
