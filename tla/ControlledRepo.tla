--------------------------- MODULE ControlledRepo ---------------------------
(***************************************************************************)
(* The controlled source: a Git repository next to the wrapper's, which    *)
(* the bootstrap script makes, the operator edits, and preflight,          *)
(* materialization, extraction and the manifest read, all without a lock.  *)
(*                                                                         *)
(* A tree gives every file of the bootstrap template a version, its        *)
(* content together with its mode.  Git itself is modelled by what the     *)
(* porcelain commands used in the repository report of it.                 *)
(***************************************************************************)
EXTENDS Naturals, Sequences

CONSTANTS
    Inputs,     \* the fixtures of the template
    Scripts,    \* its scripts
    Versions,   \* what a file may contain
    Current,    \* what the template holds in every file of it
    Absent,     \* no such file
    MaxEdits    \* bound: how often the operator intervenes

ASSUME RepoAssumption ==
    /\ Inputs \cap Scripts = {}
    /\ Current \in Versions
    /\ Absent \notin Versions
    /\ MaxEdits \in Nat

Files == Inputs \cup Scripts

Tree == [Files -> Versions \cup {Absent}]

Uniform(version) == [f \in Files |-> version]

Template == Uniform(Current)

VARIABLES
    dir,        \* the path is "missing", a "file", a "plain" directory or "git"
    commits,    \* the trees committed so far; a commit is its position
    head,       \* the commit checked out, 0 when there is none yet
    tag,        \* where the release tag points, 0 when there is none
    work,       \* the worktree
    index,      \* the Git index
    edited,     \* files with work of the operator no commit holds
    edits       \* how often he has intervened

repo == <<dir, commits, head, tag, work, index>>

repoVars == <<repo, edited, edits>>

-----------------------------------------------------------------------------
HeadTree == IF head = 0 THEN Uniform(Absent) ELSE commits[head]

Clean == work = index /\ index = HeadTree

Tracked(f) == index[f] # Absent

DirtyFile(f) == work[f] # index[f] \/ index[f] # HeadTree[f]

(***************************************************************************)
(* git rev-parse HEAD fails before the first commit, and with it every     *)
(* command that captures the state of the repository.                      *)
(***************************************************************************)
Capturable == dir = "git" /\ head # 0

(***************************************************************************)
(* No directory yet, something else at its place, a repository without     *)
(* commits, one of an earlier template, which has no such tag, or one of   *)
(* this template with or without it.                                       *)
(***************************************************************************)
RepoInit ==
    /\ dir \in {"missing", "file", "plain", "git"}
    /\ \E version \in Versions, n \in (IF dir = "git" THEN {0, 1} ELSE {0}) :
         /\ commits = IF n = 0 THEN <<>> ELSE <<Uniform(version)>>
         /\ head = n
         /\ tag \in IF version = Current THEN 0 .. n ELSE {0}
    /\ index = HeadTree
    /\ work = index
    /\ edited = {}
    /\ edits = 0

-----------------------------------------------------------------------------
(***************************************************************************)
(* The operator: edits or deletes a file, commits everything, checks       *)
(* another commit out, moves the tag.                                      *)
(***************************************************************************)
Edit(f) ==
    /\ \E version \in (Versions \cup {Absent}) \ {work[f]} :
         work' = [work EXCEPT ![f] = version]
    /\ edited' = {g \in edited \cup {f} : work'[g] # HeadTree[g]}
    /\ UNCHANGED <<dir, commits, head, tag, index>>

Commit ==
    /\ work # HeadTree
    /\ commits' = Append(commits, work)
    /\ head' = Len(commits) + 1
    /\ index' = work
    /\ edited' = {}
    /\ UNCHANGED <<dir, tag, work>>

Checkout ==
    /\ Clean
    /\ \E c \in (1 .. Len(commits)) \ {head} :
         /\ head' = c
         /\ index' = commits[c]
         /\ work' = commits[c]
    /\ edited' = {}
    /\ UNCHANGED <<dir, commits, tag>>

MoveTag ==
    /\ \E c \in (0 .. Len(commits)) \ {tag} : tag' = c
    /\ UNCHANGED <<dir, commits, head, work, index, edited>>

Operator ==
    /\ Capturable
    /\ edits < MaxEdits
    /\ edits' = edits + 1
    /\ (\E f \in Files : Edit(f)) \/ Commit \/ Checkout \/ MoveTag

=============================================================================
