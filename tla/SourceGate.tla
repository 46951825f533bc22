----------------------------- MODULE SourceGate -----------------------------
(***************************************************************************)
(* How a run uses the controlled source: preflight judges it once, the     *)
(* materialization targets judge it again and copy files out of the live   *)
(* worktree one by one, extraction runs a script of the live worktree, and *)
(* the manifest describes the worktree as it finds it.  One Make target at *)
(* a time, bootstrap included, in any order and repeated at will; the      *)
(* operator changes the repository between any two steps.                  *)
(***************************************************************************)
EXTENDS Bootstrap

CONSTANTS
    Procs,      \* the scripts that are materialized
    Extractor   \* the script extraction runs in place

ASSUME GateAssumption == Procs \subseteq Scripts /\ Extractor \in Scripts

Targets == {"inputs", "procs"}

FilesOf(t) == IF t = "inputs" THEN Inputs ELSE Procs

VARIABLES
    target,     \* the running target, or "none"
    resolved,   \* it has compared the ref with HEAD
    seen,       \* the HEAD it captured
    pending,    \* files it has still to copy
    copied,     \* the file it has copied and not yet hashed, as a set
    sums,       \* the hashes it holds in memory
    dest,       \* the copies in the run
    record,     \* the evidence of each materialization: commit and hashes
    executed,   \* what the latest extraction ran
    \* History
    calm,       \* the repository is as the running target captured it
    torn,       \* materializations begun and not finished
    since       \* targets passed since preflight did, the repository unchanged

gateVars ==
    <<target, resolved, seen, pending, copied, sums, dest, record, executed, torn>>

vars == <<repoVars, bootVars, gateVars, calm, since>>

NoRecord == [commit |-> 0, sum |-> Uniform(Absent), calm |-> FALSE]

GateInit ==
    /\ BootInit
    /\ target = "none"
    /\ resolved = FALSE
    /\ seen = 0
    /\ pending = {}
    /\ copied = {}
    /\ sums = Uniform(Absent)
    /\ dest = Uniform(Absent)
    /\ record = [t \in Targets |-> NoRecord]
    /\ executed = Absent
    /\ calm = TRUE
    /\ torn = {}
    /\ since = {}

-----------------------------------------------------------------------------
(***************************************************************************)
(* A target that ends, in success, in an error or killed, forgets what it  *)
(* held in memory.                                                         *)
(***************************************************************************)
Ends ==
    /\ target' = "none"
    /\ resolved' = FALSE
    /\ seen' = 0
    /\ pending' = {}
    /\ copied' = {}
    /\ sums' = Uniform(Absent)
    /\ calm' = TRUE

Unchanged == UNCHANGED <<repoVars, bootVars>>

(***************************************************************************)
(* capture_repository_state and the refusal of a dirty worktree.  A target *)
(* that is refused here has written nothing.                               *)
(***************************************************************************)
Capture(t) ==
    /\ target = "none"
    /\ boot \in BootEnded
    /\ Capturable
    /\ Clean
    /\ target' = t
    /\ seen' = head
    /\ calm' = TRUE
    /\ UNCHANGED <<resolved, pending, copied, sums, dest, record, executed>>
    /\ UNCHANGED <<torn, since>>
    /\ Unchanged

ScriptUsable(f) == Tracked(f) /\ ~DirtyFile(f)

(***************************************************************************)
(* Preflight after the capture: the ref has to resolve, HEAD need not be   *)
(* at it, and each script is looked at again.  StageGate has the rules     *)
(* about the stages; those about the wrapper repository are left out.      *)
(***************************************************************************)
PreflightVerdict ==
    /\ target = "preflight"
    /\ \/ /\ tag # 0
          /\ \A f \in Scripts : ScriptUsable(f)
          /\ since' = IF calm THEN {"preflight"} ELSE {}
       \/ since' = since
    /\ Ends
    /\ UNCHANGED <<dest, record, executed, torn>>
    /\ Unchanged

(***************************************************************************)
(* Seeded fault: materialization resolves the ref and does not compare it  *)
(* with HEAD.                                                              *)
(***************************************************************************)
ResolveAnyHead ==
    /\ target \in Targets
    /\ ~resolved
    /\ resolved' = TRUE
    /\ tag # 0
    /\ seen' = tag
    /\ pending' = FilesOf(target)
    /\ UNCHANGED <<target, copied, sums, dest, record, executed>>
    /\ UNCHANGED <<calm, torn, since>>
    /\ Unchanged

MaterializeResolve ==
    /\ target \in Targets
    /\ ~resolved
    /\ resolved' = TRUE
    /\ tag = seen
    /\ seen' = tag
    /\ pending' = FilesOf(target)
    /\ UNCHANGED <<target, copied, sums, dest, record, executed>>
    /\ UNCHANGED <<calm, torn, since>>
    /\ Unchanged

MaterializeCopy ==
    /\ copied = {}
    /\ \E f \in pending :
         /\ work[f] # Absent
         /\ dest' = [dest EXCEPT ![f] = work[f]]
         /\ copied' = {f}
    /\ torn' = torn \cup {target}
    /\ UNCHANGED <<target, resolved, seen, pending, sums, record, executed>>
    /\ UNCHANGED <<calm, since>>
    /\ Unchanged

(***************************************************************************)
(* Seeded fault: the hash is taken of the source instead of the copy.      *)
(***************************************************************************)
HashSource ==
    /\ \E f \in copied :
         /\ sums' = [sums EXCEPT ![f] = work[f]]
         /\ pending' = pending \ {f}
    /\ copied' = {}
    /\ UNCHANGED <<target, resolved, seen, dest, record, executed>>
    /\ UNCHANGED <<calm, torn, since>>
    /\ Unchanged

MaterializeHash ==
    /\ \E f \in copied :
         /\ sums' = [sums EXCEPT ![f] = dest[f]]
         /\ pending' = pending \ {f}
    /\ copied' = {}
    /\ UNCHANGED <<target, resolved, seen, dest, record, executed>>
    /\ UNCHANGED <<calm, torn, since>>
    /\ Unchanged

MaterializeRecord ==
    /\ resolved
    /\ pending = {}
    /\ record' = [record EXCEPT ![target] =
                    [commit |-> seen, sum |-> sums, calm |-> calm]]
    /\ torn' = torn \ {target}
    /\ since' = IF calm /\ since # {} THEN since \cup {target} ELSE since
    /\ Ends
    /\ UNCHANGED <<dest, executed>>
    /\ Unchanged

(***************************************************************************)
(* The ref does not resolve or is not HEAD, a source file has gone, or the *)
(* process is killed.                                                      *)
(***************************************************************************)
MaterializeStops ==
    /\ target \in Targets
    /\ Ends
    /\ UNCHANGED <<dest, record, executed, torn, since>>
    /\ Unchanged

(***************************************************************************)
(* Seeded fault: extraction runs the copy of an earlier materialization.   *)
(***************************************************************************)
ExtractCopy ==
    /\ target = "none"
    /\ boot \in BootEnded
    /\ dest[Extractor] # Absent
    /\ executed' = dest[Extractor]
    /\ since' = IF since # {} THEN since \cup {"extract"} ELSE since
    /\ UNCHANGED <<target, resolved, seen, pending, copied, sums, dest>>
    /\ UNCHANGED <<record, calm, torn>>
    /\ Unchanged

(***************************************************************************)
(* The command of an extraction stage is a path into the worktree: what is *)
(* there when the process starts is what runs.                             *)
(***************************************************************************)
Extract ==
    /\ target = "none"
    /\ boot \in BootEnded
    /\ work[Extractor] # Absent
    /\ executed' = work[Extractor]
    /\ since' = IF since # {} THEN since \cup {"extract"} ELSE since
    /\ UNCHANGED <<target, resolved, seen, pending, copied, sums, dest>>
    /\ UNCHANGED <<record, calm, torn>>
    /\ Unchanged

GateStep ==
    \/ \E t \in Targets \cup {"preflight"} : Capture(t)
    \/ PreflightVerdict
    \/ MaterializeResolve \/ MaterializeCopy \/ MaterializeHash
    \/ MaterializeRecord \/ MaterializeStops
    \/ Extract

-----------------------------------------------------------------------------
RepoStep ==
    /\ Disturb \/ (target = "none" /\ BootStep)
    /\ calm' = (target = "none" \/ (calm /\ UNCHANGED repo))
    /\ since' = IF UNCHANGED repo THEN since ELSE {}
    /\ UNCHANGED gateVars

Next == GateStep \/ RepoStep

Spec == GateInit /\ [][Next]_vars

-----------------------------------------------------------------------------
(***************************************************************************)
(* What inventory-pre and the manifest would say of the files now.         *)
(***************************************************************************)
InventoryEntry(t, f) == [sum |-> dest[f], materialization |-> record[t]]

ManifestScript(f) ==
    [repository_commit |-> head, blob |-> index[f], sum |-> work[f]]

ManifestRepository == [resolved_commit |-> tag, head_commit |-> head]

(***************************************************************************)
(* Materialization evidence names the commit its files are of: every hash  *)
(* in it is the hash of the file in that commit, unless the repository was *)
(* changed under the target after its check.                               *)
(***************************************************************************)
CopiesAreOfTheCommit ==
    \A t \in Targets :
        record[t].calm =>
            \A f \in FilesOf(t) : record[t].sum[f] = commits[record[t].commit][f]

(***************************************************************************)
(* The inventory's hash of a copy and the hash in the materialization      *)
(* record attached to it agree, whatever happened to the repository        *)
(* meanwhile, unless a later materialization stopped half-way.             *)
(***************************************************************************)
LineageAgrees ==
    \A t \in Targets \ torn :
        \A f \in FilesOf(t) :
            LET entry == InventoryEntry(t, f)
            IN  entry.sum = entry.materialization.sum[f]

(***************************************************************************)
(* docs/how_to_use_this_mvp.md, "No time-of-check/time-of-use lock": as    *)
(* long as the worktree remains unchanged since preflight, what extraction *)
(* executed is what the manifest identifies, by content and by commit.     *)
(* Preflight alone does not give this, since it lets HEAD and ref differ;  *)
(* it takes a materialization.                                             *)
(***************************************************************************)
AuditIsTrue ==
    /\ "extract" \in since
    /\ since \cap Targets # {}
    => /\ executed = ManifestScript(Extractor).sum
       /\ executed = commits[ManifestRepository.resolved_commit][Extractor]

=============================================================================
