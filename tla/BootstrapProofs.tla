--------------------------- MODULE BootstrapProofs ---------------------------
(***************************************************************************)
(* What the bootstrap script guarantees for every template, every history  *)
(* of the repository and any number of interventions of the operator and   *)
(* kills of the script.                                                    *)
(***************************************************************************)
EXTENDS Bootstrap, TLAPS

RepoTyped ==
    /\ commits \in Seq(Tree)
    /\ head \in 0 .. Len(commits)
    /\ work \in Tree
    /\ index \in Tree
    /\ edited \in SUBSET Files

(***************************************************************************)
(* Work that is not committed differs from the commit that is checked out. *)
(***************************************************************************)
EditsShow ==
    /\ \A f \in edited : work[f] # HeadTree[f]
    /\ dir # "git" => edited = {}

(***************************************************************************)
(* How far the script has come.                                            *)
(***************************************************************************)
AfterInit == {"match", "verify", "clear", "copy", "add", "commit", "tag",
              "final", "done"}
AfterCopy == {"add", "commit", "tag", "final"}

ScriptProgress ==
    /\ boot \in AfterInit => dir = "git"
    /\ boot = "copy" => tocopy \subseteq Files

(***************************************************************************)
(* Undisturbed, it has the worktree for itself: there was nothing of the   *)
(* operator's in it when it started, and each command finds what the ones  *)
(* before it have left.                                                    *)
(***************************************************************************)
Alone ==
    undisturbed =>
        /\ boot \notin BootEnded => edited = {}
        /\ boot \in {"match", "verify"} => Clean
        /\ boot = "copy" => \A f \in Files \ tocopy : work[f] = Current
        /\ boot \in AfterCopy => work = Template
        /\ boot \in {"commit", "tag", "final"} => index = work
        /\ boot \in {"tag", "final"} => index = HeadTree
        /\ boot = "final" => tag = head
        /\ boot = "done" => Clean /\ work = Template /\ tag = head

BootInv == RepoTyped /\ EditsShow /\ ScriptProgress /\ Alone

-----------------------------------------------------------------------------
LEMMA TreeTyped ==
    /\ Template \in Tree /\ Uniform(Absent) \in Tree
    /\ RepoTyped => HeadTree \in Tree
<1>1. Template \in Tree /\ Uniform(Absent) \in Tree
  BY RepoAssumption DEF Template, Uniform, Tree
<1>2. ASSUME RepoTyped PROVE HeadTree \in Tree
  BY <1>1, <1>2 DEF RepoTyped, HeadTree
<1> QED
  BY <1>1, <1>2

(***************************************************************************)
(* A new commit becomes HEAD, and what it holds is what was committed.     *)
(***************************************************************************)
LEMMA CommitTree ==
    ASSUME RepoTyped, NEW t \in Tree,
           commits' = Append(commits, t), head' = Len(commits) + 1
    PROVE  /\ commits' \in Seq(Tree)
           /\ head' \in 0 .. Len(commits')
           /\ HeadTree' = t
           /\ \A c \in 1 .. Len(commits) : commits'[c] = commits[c]
  BY DEF RepoTyped, HeadTree

LEMMA TemplateReached ==
    ASSUME work \in Tree, \A f \in Files : work[f] = Current
    PROVE  work = Template
  BY DEF Tree, Template, Uniform

-----------------------------------------------------------------------------
LEMMA BootInitInv == BootInit => BootInv
<1> SUFFICES ASSUME BootInit PROVE BootInv
    OBVIOUS
<1>1. PICK version \in Versions, n \in {0, 1} :
        /\ commits = IF n = 0 THEN <<>> ELSE <<Uniform(version)>>
        /\ head = n
  BY DEF BootInit, RepoInit
<1>2. commits \in Seq(Tree) /\ head \in 0 .. Len(commits)
  <2>1. Uniform(version) \in Tree
    BY <1>1 DEF Uniform, Tree
  <2> HIDE DEF Tree
  <2>2. CASE n = 0
    BY <1>1, <2>2
  <2>3. CASE n = 1
    BY <1>1, <2>1, <2>3
  <2> QED
    BY <1>1, <2>2, <2>3
<1>3. HeadTree \in Tree
  BY <1>1, <1>2, TreeTyped DEF HeadTree
<1> QED
  BY <1>2, <1>3
  DEF BootInit, RepoInit, BootInv, RepoTyped, EditsShow, ScriptProgress,
      Alone, AfterInit, AfterCopy, BootEnded

(***************************************************************************)
(* The operator, who ends the script's being alone.                        *)
(***************************************************************************)
LEMMA OperatorKeeps ==
    ASSUME BootInv, Disturb
    PROVE  BootInv'
<1> USE DEF BootInv, RepoTyped, EditsShow
<1>1. /\ undisturbed' = FALSE /\ UNCHANGED <<boot, tocopy, dir>>
      /\ dir = "git"
  BY DEF Disturb, Operator, Capturable, Edit, Commit, Checkout, MoveTag
<1>2. ScriptProgress' /\ Alone'
  BY <1>1 DEF ScriptProgress, Alone
<1>3. HeadTree \in Tree
  BY TreeTyped
<1>4. ASSUME NEW f \in Files, Edit(f)
      PROVE  RepoTyped' /\ EditsShow'
  <2>1. HeadTree' = HeadTree
    BY <1>4 DEF Edit, HeadTree
  <2>2. work' \in Tree
    BY <1>4 DEF Edit, Tree
  <2> QED
    BY <1>1, <1>4, <2>1, <2>2 DEF Edit
<1>5. CASE Commit
  <2>1. commits' \in Seq(Tree) /\ head' \in 0 .. Len(commits')
    BY <1>5, CommitTree DEF Commit
  <2> QED
    BY <1>1, <1>2, <1>5, <2>1 DEF Commit
<1>6. CASE Checkout
  BY <1>1, <1>2, <1>6 DEF Checkout
<1>7. CASE MoveTag
  BY <1>1, <1>2, <1>7 DEF MoveTag, HeadTree
<1> QED
  BY <1>2, <1>4, <1>5, <1>6, <1>7 DEF Disturb, Operator

(***************************************************************************)
(* The script, one command after the other.                                *)
(***************************************************************************)
LEMMA ScriptKeeps ==
    ASSUME BootInv, BootStep
    PROVE  BootInv'
<1> USE DEF BootInv, RepoTyped, EditsShow, ScriptProgress, Alone, AfterInit,
            AfterCopy, BootEnded, repoVars, repo
<1>0. HeadTree \in Tree /\ Template \in Tree
  BY TreeTyped
<1>1. CASE BootStart
  BY <1>1 DEF BootStart, Clean, HeadTree
<1>2. CASE BootGitInit
  BY <1>2 DEF BootGitInit, Clean, HeadTree
<1>3. CASE BootMatch \/ BootVerify
  BY <1>3 DEF BootMatch, BootVerify, Matches, Clean, HeadTree
<1>4. CASE BootClear
  <2>1. work' \in Tree
    BY <1>4 DEF BootClear, Tree
  <2>2. \A f \in edited' : work'[f] = work[f]
    BY <1>4 DEF BootClear
  <2> QED
    BY <1>4, <2>1, <2>2 DEF BootClear, HeadTree
<1>5. CASE BootCopy
  <2>1. PICK f \in tocopy :
          /\ work' = [work EXCEPT ![f] = Current]
          /\ edited' = edited \ {f}
          /\ tocopy' = tocopy \ {f}
    BY <1>5 DEF BootCopy
  <2>2. work' \in Tree
    BY <2>1, RepoAssumption DEF Tree
  <2>3. /\ \A g \in Files \ {f} : work'[g] = work[g]
        /\ f \in Files => work'[f] = Current
    BY <2>1 DEF Tree
  <2>4. /\ boot = "copy" /\ boot' = IF tocopy' = {} THEN "add" ELSE "copy"
        /\ UNCHANGED <<dir, commits, head, tag, index, undisturbed>>
    BY <1>5 DEF BootCopy
  <2>5. RepoTyped' /\ EditsShow' /\ ScriptProgress'
    BY <2>1, <2>2, <2>3, <2>4 DEF HeadTree
  <2>6. undisturbed => \A g \in Files \ tocopy' : work'[g] = Current
    BY <2>1, <2>3, <2>4
  <2>7. undisturbed /\ boot' = "add" => work' = Template
    BY <2>2, <2>4, <2>6 DEF Tree, Template, Uniform
  <2> QED
    BY <2>1, <2>4, <2>5, <2>6, <2>7
<1>6. CASE BootAdd
  BY <1>6 DEF BootAdd, HeadTree
<1>7. CASE BootCommit
  <2>1. CASE index = HeadTree
    BY <1>7, <2>1 DEF BootCommit, HeadTree
  <2>2. CASE index # HeadTree
    <3>1. /\ commits' \in Seq(Tree) /\ head' \in 0 .. Len(commits')
          /\ HeadTree' = index
      BY <1>7, <2>2, CommitTree DEF BootCommit
    <3> QED
      BY <1>7, <2>2, <3>1 DEF BootCommit
  <2> QED
    BY <2>1, <2>2
<1>8. CASE BootTag
  BY <1>8 DEF BootTag, HeadTree
<1>9. CASE BootFinal
  BY <1>9 DEF BootFinal, Clean, HeadTree
<1>10. CASE BootKilled
  BY <1>10 DEF BootKilled, Clean, HeadTree
<1> QED
  BY <1>1, <1>2, <1>3, <1>4, <1>5, <1>6, <1>7, <1>8, <1>9, <1>10 DEF BootStep

LEMMA BootStepInv == BootInv /\ [BootNext]_<<repoVars, bootVars>> => BootInv'
<1> SUFFICES ASSUME BootInv, [BootNext]_<<repoVars, bootVars>> PROVE BootInv'
    OBVIOUS
<1>1. CASE UNCHANGED <<repoVars, bootVars>>
  BY <1>1
  DEF BootInv, RepoTyped, EditsShow, ScriptProgress, Alone, repoVars, repo,
      bootVars, HeadTree, Clean
<1> QED
  BY <1>1, OperatorKeeps, ScriptKeeps DEF BootNext

-----------------------------------------------------------------------------
(***************************************************************************)
(* The script and the operator keep each other's worktree as BootInv says, *)
(* wherever the script was killed.                                         *)
(***************************************************************************)
THEOREM BootInvariant == BootSpec => []BootInv
  BY BootInitInv, BootStepInv, PTL DEF BootSpec

(***************************************************************************)
(* A bootstrap that succeeds alone leaves the template, clean, committed   *)
(* and under the tag.                                                      *)
(***************************************************************************)
THEOREM DoneIsContract == BootSpec => []DoneMeansContract
<1>1. BootInv => DoneMeansContract
  BY DEF BootInv, ScriptProgress, Alone, AfterInit, DoneMeansContract
<1> QED
  BY <1>1, BootInvariant, PTL

(***************************************************************************)
(* No command of the script touches work the operator had not committed    *)
(* when its status check passed.                                           *)
(***************************************************************************)
LEMMA EditsSafe ==
    ASSUME BootInv, BootNext, undisturbed,
           <<boot, tocopy>>' # <<boot, tocopy>>
    PROVE  \A f \in edited : work'[f] = work[f]
<1>1. BootStep
  BY DEF BootNext, Disturb
<1>2. CASE BootStart
  BY <1>2 DEF BootStart
<1>3. CASE ~BootStart
  <2>1. boot \notin BootEnded
    BY <1>1, <1>3
    DEF BootStep, BootGitInit, BootMatch, BootVerify, BootClear, BootCopy,
        BootAdd, BootCommit, BootTag, BootFinal, BootKilled, BootEnded
  <2> QED
    BY <2>1 DEF BootInv, Alone
<1> QED
  BY <1>2, <1>3

(***************************************************************************)
(* So a bootstrap that nobody disturbs overwrites no uncommitted edit,     *)
(* whatever died before it.                                                *)
(***************************************************************************)
THEOREM EditsSurvive == BootSpec => EditsSurviveBootstrap
<1> DEFINE Safe ==
      undisturbed /\ <<boot, tocopy>>' # <<boot, tocopy>>
        => \A f \in edited : work'[f] = work[f]
<1>1. BootInv /\ [BootNext]_<<repoVars, bootVars>>
        => [Safe]_<<repoVars, bootVars>>
  BY EditsSafe
<1> QED
  BY <1>1, BootInvariant, PTL DEF BootSpec, EditsSurviveBootstrap

=============================================================================
