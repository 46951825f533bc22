------------------------------ MODULE Bootstrap ------------------------------
(***************************************************************************)
(* scripts/bootstrap_controlled_source.sh: creates the controlled source   *)
(* repository, verifies one that matches the template, or updates a clean  *)
(* one that does not.  Each action is a command of the script that changes *)
(* or judges the repository; the script may be killed before any of them   *)
(* and started again, and the operator may work in between.                *)
(***************************************************************************)
EXTENDS ControlledRepo

VARIABLES
    boot,         \* the next command of the script, or how it ended
    tocopy,       \* template files it has still to copy
    undisturbed   \* the operator has done nothing since

bootVars == <<boot, tocopy, undisturbed>>

BootEnded == {"idle", "done", "failed"}

BootInit ==
    /\ RepoInit
    /\ boot = "idle"
    /\ tocopy = {}
    /\ undisturbed = TRUE

-----------------------------------------------------------------------------
Matches ==
    /\ work = Template
    /\ \A f \in Files : Tracked(f)
    /\ tag # 0
    /\ tag = head

(***************************************************************************)
(* Seeded fault: an existing worktree is updated without looking at its    *)
(* status.                                                                 *)
(***************************************************************************)
StartOverDirty ==
    /\ boot \in BootEnded
    /\ undisturbed' = TRUE
    /\ \/ dir = "missing" /\ dir' = "plain" /\ boot' = "init"
       \/ dir \in {"file", "plain"} /\ boot' = "failed" /\ UNCHANGED dir
       \/ dir = "git" /\ boot' = "match" /\ UNCHANGED dir
    /\ UNCHANGED <<commits, head, tag, work, index, edited, edits, tocopy>>

BootStart ==
    /\ boot \in BootEnded
    /\ undisturbed' = TRUE
    /\ \/ dir = "missing" /\ dir' = "plain" /\ boot' = "init"
       \/ dir \in {"file", "plain"} /\ boot' = "failed" /\ UNCHANGED dir
       \/ dir = "git" /\ Clean /\ boot' = "match" /\ UNCHANGED dir
       \/ dir = "git" /\ ~Clean /\ boot' = "failed" /\ UNCHANGED dir
    /\ UNCHANGED <<commits, head, tag, work, index, edited, edits, tocopy>>

BootGitInit ==
    /\ boot = "init"
    /\ dir' = "git"
    /\ boot' = "clear"
    /\ UNCHANGED <<commits, head, tag, work, index, edited, edits>>
    /\ UNCHANGED <<tocopy, undisturbed>>

BootMatch ==
    /\ boot = "match"
    /\ boot' = IF Matches THEN "verify" ELSE "clear"
    /\ UNCHANGED <<repoVars, tocopy, undisturbed>>

BootVerify ==
    /\ boot = "verify"
    /\ boot' = IF Matches THEN "done" ELSE "failed"
    /\ UNCHANGED <<repoVars, tocopy, undisturbed>>

BootClear ==
    /\ boot = "clear"
    /\ work' = [f \in Files |-> IF f \in Inputs THEN Absent ELSE work[f]]
    /\ edited' = edited \ Inputs
    /\ tocopy' = Files
    /\ boot' = "copy"
    /\ UNCHANGED <<dir, commits, head, tag, index, edits>>
    /\ UNCHANGED undisturbed

BootCopy ==
    /\ boot = "copy"
    /\ \E f \in tocopy :
         /\ f \in Scripts => tocopy \cap Inputs = {}
         /\ work' = [work EXCEPT ![f] = Current]
         /\ edited' = edited \ {f}
         /\ tocopy' = tocopy \ {f}
    /\ boot' = IF tocopy' = {} THEN "add" ELSE "copy"
    /\ UNCHANGED <<dir, commits, head, tag, index, edits>>
    /\ UNCHANGED undisturbed

BootAdd ==
    /\ boot = "add"
    /\ index' = work
    /\ boot' = "commit"
    /\ UNCHANGED <<dir, commits, head, tag, work, edited, edits>>
    /\ UNCHANGED <<tocopy, undisturbed>>

BootCommit ==
    /\ boot = "commit"
    /\ IF index = HeadTree
       THEN UNCHANGED <<commits, head, edited>>
       ELSE /\ commits' = Append(commits, index)
            /\ head' = Len(commits) + 1
            /\ edited' = {f \in edited : work[f] # index[f]}
    /\ boot' = "tag"
    /\ UNCHANGED <<dir, tag, work, index, edits>>
    /\ UNCHANGED <<tocopy, undisturbed>>

(***************************************************************************)
(* Seeded fault: a tag that is already there is taken to be the right one. *)
(***************************************************************************)
TagUnchecked ==
    /\ boot = "tag"
    /\ tag' = IF tag = 0 THEN head ELSE tag
    /\ boot' = "final"
    /\ UNCHANGED <<dir, commits, head, work, index, edited, edits>>
    /\ UNCHANGED <<tocopy, undisturbed>>

BootTag ==
    /\ boot = "tag"
    /\ tag' = IF tag = 0 THEN head ELSE tag
    /\ boot' = IF tag' = head THEN "final" ELSE "failed"
    /\ UNCHANGED <<dir, commits, head, work, index, edited, edits>>
    /\ UNCHANGED <<tocopy, undisturbed>>

BootFinal ==
    /\ boot = "final"
    /\ boot' = IF Clean THEN "done" ELSE "failed"
    /\ UNCHANGED <<repoVars, tocopy, undisturbed>>

BootKilled ==
    /\ boot \notin BootEnded
    /\ boot' = "idle"
    /\ tocopy' = {}
    /\ UNCHANGED <<repoVars, undisturbed>>

BootStep ==
    \/ BootStart \/ BootGitInit \/ BootMatch \/ BootVerify \/ BootClear
    \/ BootCopy \/ BootAdd \/ BootCommit \/ BootTag \/ BootFinal \/ BootKilled

Disturb == Operator /\ undisturbed' = FALSE /\ UNCHANGED <<boot, tocopy>>

BootNext == BootStep \/ Disturb

BootSpec == BootInit /\ [][BootNext]_<<repoVars, bootVars>>

-----------------------------------------------------------------------------
(***************************************************************************)
(* A bootstrap that ends well with nobody else at work leaves what the     *)
(* workflow's default ref stands for: a clean worktree of the template,    *)
(* committed, under the tag.  Whatever killed bootstraps and operators     *)
(* have left behind before it was started.                                 *)
(***************************************************************************)
DoneMeansContract ==
    boot = "done" /\ undisturbed
        => dir = "git" /\ Clean /\ work = Template /\ tag = head

(***************************************************************************)
(* No command of the script overwrites work the operator has changed and   *)
(* not committed, unless he did so after the script's status check.        *)
(***************************************************************************)
EditsSurviveBootstrap ==
    [][undisturbed /\ <<boot, tocopy>>' # <<boot, tocopy>>
         => \A f \in edited : work'[f] = work[f]]_<<repoVars, bootVars>>

=============================================================================
