------------------------------- MODULE StageGate -------------------------------
(***************************************************************************)
(* What preflight demands of the command of a stage, and which file is     *)
(* executed for it later.  A path is the sequence of its parts; of a       *)
(* command only the executable is kept.  Absolute paths and names that are *)
(* looked up in PATH are left out.                                         *)
(***************************************************************************)
EXTENDS Naturals, Sequences

Executable == {"controlled_source_script", "materialized_controlled_script"}

RepositoryKey(kind) ==
    CASE kind = "wrapper_make_target" -> {"wrapper"}
      [] kind \in Executable -> {"controlled_source"}
      [] OTHER -> {}

WithoutRunRoot(path) ==
    IF Len(path) > 1 /\ Head(path) = "sim-run-root" THEN Tail(path) ELSE path

(***************************************************************************)
(* Of the command only the first token is compared, after its syntax.      *)
(***************************************************************************)
CommandMatches(stage) ==
    /\ stage.simple
    /\ stage.kind = "wrapper_make_target" =>
         stage.command = <<"make">> /\ stage.approved = <<"Makefile">>
    /\ stage.kind = "controlled_source_script" =>
         stage.command = stage.approved
    /\ stage.kind = "materialized_controlled_script" =>
         WithoutRunRoot(stage.command) = stage.approved

(***************************************************************************)
(* A scheduler section names its payload stage and repeats what it runs.   *)
(***************************************************************************)
PayloadMatches(stage, config) ==
    stage.name = config.scheduler.stage =>
        /\ stage.command = config.scheduler.command
        /\ stage.kind = config.scheduler.kind
        /\ stage.approved = config.scheduler.approved
        /\ stage.kind \in Executable
        /\ stage.approved \in config.approvedPaths["controlled_source"]

StagePasses(stage, config) ==
    /\ stage.approved # <<>>
    /\ RepositoryKey(stage.kind) # {}
    /\ \A key \in RepositoryKey(stage.kind) :
         stage.approved \in config.approvedPaths[key]
    /\ CommandMatches(stage)
    /\ stage.scripts \subseteq config.usable
    /\ PayloadMatches(stage, config)

-----------------------------------------------------------------------------
(***************************************************************************)
(* Where a file is: in the wrapper or the controlled source repository, in *)
(* sim-run-root or in the provenance directory of the run.                 *)
(***************************************************************************)
Place(at, path) == [at |-> at, path |-> path]

InRun(path) == Len(path) > 1 /\ Head(path) \in {"sim-run-root", "provenance"}

(***************************************************************************)
(* A configured stage: the kind decides what its command is relative to,   *)
(* and a prefix may name a directory of the run.                           *)
(***************************************************************************)
StageFile(stage) ==
    CASE stage.kind = "controlled_source_script" ->
           {Place("controlled_source_repo", stage.command)}
      [] stage.kind = "materialized_controlled_script" /\ InRun(stage.command)
           -> {Place(Head(stage.command), Tail(stage.command))}
      [] stage.kind = "materialized_controlled_script"
           /\ ~InRun(stage.command) -> {Place(stage.cwd, stage.command)}
      [] OTHER -> {}

(***************************************************************************)
(* The payload: the working directory, then sim-run-root, whatever the     *)
(* kind.                                                                   *)
(***************************************************************************)
PayloadFile(stage, files) ==
    IF Place(stage.cwd, stage.command) \in files
    THEN {Place(stage.cwd, stage.command)}
    ELSE {Place("sim-run-root", stage.command)}

(***************************************************************************)
(* The file that is executed, none if it does not exist.                   *)
(***************************************************************************)
Executed(stage, files) ==
    (IF stage.name = "run_simulation" THEN PayloadFile(stage, files)
     ELSE StageFile(stage)) \cap files

(***************************************************************************)
(* The approved path of the controlled source, and its copy in the run.    *)
(***************************************************************************)
ApprovedFiles(stage) ==
    {Place("controlled_source_repo", stage.approved),
     Place("sim-run-root", stage.approved)}

=============================================================================
