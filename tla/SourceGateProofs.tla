-------------------------- MODULE SourceGateProofs --------------------------
(***************************************************************************)
(* What a run may say of the controlled source, for every set of files and *)
(* versions, whatever the operator, the bootstrap and killed targets do to *)
(* the repository between its steps.                                       *)
(***************************************************************************)
EXTENDS SourceGate, BootstrapProofs

Record == [commit : Nat, sum : Tree, calm : BOOLEAN]

GateTyped ==
    /\ target \in Targets \cup {"none", "preflight"}
    /\ seen \in Nat
    /\ calm \in BOOLEAN
    /\ dest \in Tree
    /\ sums \in Tree
    /\ record \in [Targets -> Record]

(***************************************************************************)
(* A target works through its files one at a time, and only after the ref  *)
(* is resolved.                                                            *)
(***************************************************************************)
TargetProgress ==
    /\ resolved => target \in Targets
    /\ copied \subseteq pending
    /\ pending # {} => resolved /\ pending \subseteq FilesOf(target)

(***************************************************************************)
(* As long as the repository is as the target captured it, it is clean and *)
(* at the commit the target has in mind, which the ref is once resolved.   *)
(***************************************************************************)
CalmTarget ==
    target # "none" /\ calm =>
        /\ Clean
        /\ head # 0
        /\ seen = head
        /\ resolved => tag = seen

(***************************************************************************)
(* What has been copied and hashed so far.                                 *)
(***************************************************************************)
HashesAgree ==
    resolved =>
        /\ \A f \in FilesOf(target) \ pending : sums[f] = dest[f]
        /\ calm => \A f \in (FilesOf(target) \ pending) \cup copied :
                     dest[f] = commits[seen][f]

(***************************************************************************)
(* What finished targets have left.                                        *)
(***************************************************************************)
RecordsNameCommits ==
    \A t \in Targets : record[t].calm =>
        /\ record[t].commit \in 1 .. Len(commits)
        /\ \A f \in FilesOf(t) :
             record[t].sum[f] = commits[record[t].commit][f]

SinceHolds ==
    /\ since # {} => Clean /\ head # 0
    /\ since \cap Targets # {} => tag = head
    /\ "extract" \in since => executed = work[Extractor]

GateInv ==
    /\ BootInv
    /\ GateTyped /\ TargetProgress /\ CalmTarget /\ HashesAgree
    /\ RecordsNameCommits /\ LineageAgrees /\ SinceHolds

-----------------------------------------------------------------------------
(***************************************************************************)
(* The targets only read the repository: to it, a run is the bootstrap and *)
(* the operator.                                                           *)
(***************************************************************************)
LEMMA GateStepReads == GateStep => UNCHANGED <<repoVars, bootVars>>
  BY DEF GateStep, Capture, PreflightVerdict, MaterializeResolve,
         MaterializeCopy, MaterializeHash, MaterializeRecord,
         MaterializeStops, Extract, Unchanged

LEMMA StepOnRepo == [Next]_vars => [BootNext]_<<repoVars, bootVars>>
  BY GateStepReads DEF Next, RepoStep, BootNext, vars

(***************************************************************************)
(* The gate refines the bootstrap, so what the script guarantees alone it  *)
(* guarantees under a run.                                                 *)
(***************************************************************************)
THEOREM RunLeavesRepo == Spec => BootSpec
<1>1. GateInit => BootInit
  BY DEF GateInit
<1> QED
  BY <1>1, StepOnRepo, PTL DEF Spec, BootSpec

(***************************************************************************)
(* A bootstrap that ends well between the targets of a run leaves the      *)
(* contract, too.                                                          *)
(***************************************************************************)
THEOREM RunDoneIsContract == Spec => []DoneMeansContract
  BY RunLeavesRepo, DoneIsContract, PTL

(***************************************************************************)
(* Nor does it overwrite uncommitted work when targets run around it.      *)
(***************************************************************************)
THEOREM RunEditsSurvive == Spec => EditsSurviveBootstrap
  BY RunLeavesRepo, EditsSurvive, PTL

-----------------------------------------------------------------------------
(***************************************************************************)
(* Commits are only added.                                                 *)
(***************************************************************************)
LEMMA CommitsStay ==
    ASSUME BootInv, BootNext
    PROVE  /\ Len(commits) <= Len(commits') /\ Len(commits') \in Nat
           /\ \A c \in 1 .. Len(commits) : commits'[c] = commits[c]
<1>1. CASE UNCHANGED commits
  BY <1>1 DEF BootInv, RepoTyped
<1>2. CASE \E t \in Tree : commits' = Append(commits, t)
  BY <1>2 DEF BootInv, RepoTyped
<1> QED
  BY <1>1, <1>2
  DEF BootNext, Disturb, Operator, Edit, Commit, Checkout, MoveTag, BootStep,
      BootStart, BootGitInit, BootMatch, BootVerify, BootClear, BootCopy,
      BootAdd, BootCommit, BootTag, BootFinal, BootKilled, repoVars, repo,
      BootInv, RepoTyped

LEMMA HeadCommit ==
    ASSUME BootInv, head # 0
    PROVE  head \in 1 .. Len(commits) /\ HeadTree = commits[head]
  BY DEF BootInv, RepoTyped, HeadTree

LEMMA RepoSame ==
    ASSUME UNCHANGED repo
    PROVE  /\ Clean' = Clean /\ HeadTree' = HeadTree
           /\ UNCHANGED <<commits, head, tag, work, index>>
  BY DEF repo, Clean, HeadTree

LEMMA FilesApart ==
    /\ FilesOf("inputs") \cap FilesOf("procs") = {}
    /\ \A t \in Targets : FilesOf(t) \subseteq Files
  BY RepoAssumption, GateAssumption DEF FilesOf, Targets, Files

-----------------------------------------------------------------------------
LEMMA GateInitInv == GateInit => GateInv
<1> SUFFICES ASSUME GateInit PROVE GateInv
    OBVIOUS
<1>1. BootInv
  BY BootInitInv DEF GateInit
<1>2. Uniform(Absent) \in Tree
  BY TreeTyped
<1>3. GateTyped
  BY <1>2 DEF GateInit, GateTyped, Record, NoRecord
<1>4. LineageAgrees
  BY FilesApart
  DEF GateInit, LineageAgrees, InventoryEntry, NoRecord, Uniform
<1> QED
  BY <1>1, <1>3, <1>4
  DEF GateInit, GateInv, TargetProgress, CalmTarget, HashesAgree,
      RecordsNameCommits, SinceHolds, NoRecord

(***************************************************************************)
(* The repository moves: a target that runs is no longer calm, and nothing *)
(* has been the same since preflight.                                      *)
(***************************************************************************)
LEMMA RepoStepKeeps ==
    ASSUME GateInv, RepoStep
    PROVE  GateInv'
<1> USE DEF GateInv
<1>1. BootInv' /\ BootNext
  BY BootStepInv DEF RepoStep, BootNext
<1>2. UNCHANGED gateVars
  BY DEF RepoStep
<1>3. GateTyped' /\ TargetProgress' /\ LineageAgrees'
  BY <1>2
  DEF RepoStep, gateVars, GateTyped, TargetProgress, LineageAgrees,
      InventoryEntry
<1>4. RecordsNameCommits'
  BY <1>1, <1>2, CommitsStay
  DEF gateVars, RecordsNameCommits, BootInv, RepoTyped
<1>5. CASE UNCHANGED repo
  <2>1. /\ Clean' = Clean
        /\ UNCHANGED <<commits, head, tag, work>>
        /\ target # "none" => calm' = calm
        /\ since' = since
    BY <1>5, RepoSame DEF RepoStep, GateTyped
  <2>2. CalmTarget' /\ SinceHolds'
    BY <1>2, <2>1 DEF gateVars, CalmTarget, SinceHolds
  <2>3. HashesAgree'
    BY <1>2, <2>1 DEF gateVars, HashesAgree, TargetProgress, Targets
  <2> QED
    BY <1>1, <1>3, <1>4, <2>2, <2>3
<1>6. CASE ~UNCHANGED repo
  <2>1. since' = {} /\ (calm' => target' = "none")
    BY <1>2, <1>6 DEF RepoStep, gateVars
  <2>2. CalmTarget' /\ SinceHolds'
    BY <2>1 DEF CalmTarget, SinceHolds
  <2>3. HashesAgree'
    BY <1>2, <2>1 DEF HashesAgree, TargetProgress, gateVars, Targets
  <2> QED
    BY <1>1, <1>3, <1>4, <2>2, <2>3
<1> QED
  BY <1>5, <1>6

(***************************************************************************)
(* The targets.                                                            *)
(***************************************************************************)
LEMMA GateStepKeeps ==
    ASSUME GateInv, GateStep
    PROVE  GateInv'
<1> USE DEF GateInv, GateTyped
<1>1. /\ BootInv'
      /\ UNCHANGED <<commits, head, tag, work, index>>
      /\ Clean' = Clean /\ HeadTree' = HeadTree
  BY GateStepReads, RepoSame, BootStepInv DEF repoVars, repo
<1> USE DEF TargetProgress, CalmTarget, HashesAgree, RecordsNameCommits,
            LineageAgrees, InventoryEntry, SinceHolds, Targets
<1>2. CASE \E t \in Targets \cup {"preflight"} : Capture(t)
  BY <1>1, <1>2 DEF Capture, Capturable, BootInv, RepoTyped
<1>3. CASE PreflightVerdict
  BY <1>1, <1>3, TreeTyped DEF PreflightVerdict, Ends
<1>4. CASE MaterializeResolve
  BY <1>1, <1>4 DEF MaterializeResolve
<1>5. CASE MaterializeCopy
  <2>1. PICK f \in pending : /\ dest' = [dest EXCEPT ![f] = work[f]]
                             /\ copied' = {f}
    BY <1>5 DEF MaterializeCopy
  <2>2. /\ resolved /\ target \in Targets
        /\ f \in FilesOf(target) /\ f \in Files
    BY FilesApart
  <2>3. /\ dest'[f] = work[f]
        /\ \A g \in Files \ {f} : dest'[g] = dest[g]
        /\ dest' \in Tree
    BY <1>1, <2>1, <2>2 DEF Tree, BootInv, RepoTyped
  <2>4. calm => work[f] = commits[seen][f]
    BY <2>2, HeadCommit DEF Clean
  <2>5. LineageAgrees'
    BY <1>1, <1>5, <2>2, <2>3, FilesApart DEF MaterializeCopy
  <2>6. HashesAgree'
    BY <1>1, <1>5, <2>1, <2>2, <2>3, <2>4, FilesApart DEF MaterializeCopy
  <2>7. TargetProgress' /\ CalmTarget'
    BY <1>1, <1>5, <2>1, <2>2 DEF MaterializeCopy
  <2> QED
    BY <1>1, <1>5, <2>3, <2>5, <2>6, <2>7 DEF MaterializeCopy
<1>6. CASE MaterializeHash
  <2>1. PICK f \in copied : /\ sums' = [sums EXCEPT ![f] = dest[f]]
                            /\ pending' = pending \ {f}
    BY <1>6 DEF MaterializeHash
  <2>2. /\ resolved /\ target \in Targets
        /\ f \in FilesOf(target) /\ f \in Files
    BY FilesApart
  <2>3. /\ sums'[f] = dest[f]
        /\ \A g \in Files \ {f} : sums'[g] = sums[g]
        /\ sums' \in Tree
    BY <2>1, <2>2 DEF Tree
  <2>4. HashesAgree'
    BY <1>1, <1>6, <2>1, <2>2, <2>3, FilesApart DEF MaterializeHash
  <2>5. TargetProgress' /\ CalmTarget'
    BY <1>1, <1>6, <2>1, <2>2 DEF MaterializeHash
  <2> QED
    BY <1>1, <1>6, <2>3, <2>4, <2>5 DEF MaterializeHash
<1>7. CASE MaterializeRecord
  <2>1. target \in Targets /\ resolved /\ pending = {}
    BY <1>7 DEF MaterializeRecord
  <2>2. /\ record'[target] = [commit |-> seen, sum |-> sums, calm |-> calm]
        /\ \A t \in Targets \ {target} : record'[t] = record[t]
    BY <1>7, <2>1 DEF MaterializeRecord
  <2>3. calm => seen \in 1 .. Len(commits)
    BY <2>1, HeadCommit
  <2>4. RecordsNameCommits'
    BY <1>1, <2>1, <2>2, <2>3
  <2>5. LineageAgrees'
    BY <1>7, <2>1, <2>2 DEF MaterializeRecord
  <2>6. SinceHolds'
    BY <1>1, <1>7, <2>1 DEF MaterializeRecord
  <2>7. GateTyped'
    <3>1. record' \in [Targets -> Record]
      BY <1>7, <2>1 DEF MaterializeRecord, Record
    <3> QED
      BY <1>7, <3>1, TreeTyped DEF MaterializeRecord, Ends
  <2> QED
    BY <1>1, <1>7, <2>4, <2>5, <2>6, <2>7 DEF MaterializeRecord, Ends
<1>8. CASE MaterializeStops
  BY <1>1, <1>8, TreeTyped DEF MaterializeStops, Ends
<1>9. CASE Extract
  BY <1>1, <1>9 DEF Extract
<1> QED
  BY <1>2, <1>3, <1>4, <1>5, <1>6, <1>7, <1>8, <1>9 DEF GateStep

LEMMA GateStepInv == GateInv /\ [Next]_vars => GateInv'
<1> SUFFICES ASSUME GateInv, [Next]_vars PROVE GateInv'
    OBVIOUS
<1>1. CASE UNCHANGED vars
  <2>1. BootInv'
    BY StepOnRepo, BootStepInv DEF GateInv
  <2>2. UNCHANGED <<gateVars, calm, since>> /\ UNCHANGED repo
    BY <1>1 DEF vars, repoVars
  <2>3. GateTyped' /\ TargetProgress' /\ LineageAgrees'
    BY <2>2
    DEF GateInv, gateVars, GateTyped, TargetProgress, LineageAgrees,
        InventoryEntry
  <2>4. CalmTarget' /\ HashesAgree' /\ RecordsNameCommits' /\ SinceHolds'
    BY <2>2, RepoSame
    DEF GateInv, gateVars, CalmTarget, HashesAgree, RecordsNameCommits,
        SinceHolds
  <2> QED
    BY <2>1, <2>3, <2>4 DEF GateInv
<1> QED
  BY <1>1, RepoStepKeeps, GateStepKeeps DEF Next

-----------------------------------------------------------------------------
(***************************************************************************)
(* What the targets hold in memory, have copied and have recorded stays in *)
(* step with the repository, or they know that it may not be.              *)
(***************************************************************************)
THEOREM GateInvariant == Spec => []GateInv
  BY GateInitInv, GateStepInv, PTL DEF Spec

(***************************************************************************)
(* The hashes in materialization evidence are those of the commit it names *)
(* unless the repository was changed under the target.                     *)
(***************************************************************************)
THEOREM CopiesOfTheCommit == Spec => []CopiesAreOfTheCommit
<1>1. GateInv => CopiesAreOfTheCommit
  BY DEF GateInv, RecordsNameCommits, CopiesAreOfTheCommit
<1> QED
  BY <1>1, GateInvariant, PTL

(***************************************************************************)
(* Inventory and materialization record agree on every copy, unless a      *)
(* later materialization stopped half-way.                                 *)
(***************************************************************************)
THEOREM LineageStaysTrue == Spec => []LineageAgrees
<1>1. GateInv => LineageAgrees
  BY DEF GateInv
<1> QED
  BY <1>1, GateInvariant, PTL

(***************************************************************************)
(* With the repository unchanged since preflight and a materialization     *)
(* passed, the manifest names, by content and by commit, the script that   *)
(* extraction ran.                                                         *)
(***************************************************************************)
THEOREM AuditStaysTrue == Spec => []AuditIsTrue
<1>1. GateInv => AuditIsTrue
  <2> SUFFICES ASSUME GateInv, "extract" \in since, since \cap Targets # {}
               PROVE  /\ executed = work[Extractor]
                      /\ executed = commits[tag][Extractor]
    BY DEF AuditIsTrue, ManifestScript, ManifestRepository
  <2>1. /\ Clean /\ head # 0 /\ tag = head
        /\ executed = work[Extractor]
    BY DEF GateInv, SinceHolds
  <2> QED
    BY <2>1, HeadCommit DEF GateInv, Clean
<1> QED
  BY <1>1, GateInvariant, PTL

=============================================================================
