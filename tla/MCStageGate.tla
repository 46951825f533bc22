------------------------------ MODULE MCStageGate ------------------------------
(***************************************************************************)
(* The two executing stages as they are configured, the payload and an     *)
(* extraction, with any of the working directories the code knows: one     *)
(* step is a preflight that passes, the next executes the stage over the   *)
(* files that are there by then.                                           *)
(***************************************************************************)
EXTENDS StageGate

VARIABLES
    passed,  \* the stages that preflight has passed
    ran      \* the stage that has been executed and the files it executed

RunScript == <<"procs", "run-script.sh">>

Extract == <<"scripts", "extract_required.pl">>

WorkingDirectories == {"wrapper_repo", "sim-run-root", "controlled_source_repo"}

Configuration ==
    [usable |-> {"run_script", "extract_required"},
     approvedPaths |-> [wrapper |-> {<<"Makefile">>},
                        controlled_source |-> {RunScript, Extract}],
     scheduler |-> [stage |-> "run_simulation", command |-> RunScript,
                    kind |-> "materialized_controlled_script",
                    approved |-> RunScript]]

Stages ==
    [name : {"run_simulation"}, kind : {"materialized_controlled_script"},
     command : {RunScript}, approved : {RunScript}, simple : {TRUE},
     scripts : {{"run_script"}}, cwd : WorkingDirectories]
    \cup
    [name : {"extract_required"}, kind : {"controlled_source_script"},
     command : {Extract}, approved : {Extract}, simple : {TRUE},
     scripts : {{"extract_required"}}, cwd : WorkingDirectories]

(***************************************************************************)
(* Files of the same names may be anywhere.                                *)
(***************************************************************************)
Files == [at : WorkingDirectories, path : {RunScript, Extract}]

Init == passed = {} /\ ran = {}

Preflight ==
    /\ passed = {}
    /\ \E payload, extraction \in Stages :
         /\ payload.name # extraction.name
         /\ \A stage \in {payload, extraction} :
              StagePasses(stage, Configuration)
         /\ passed' = {payload, extraction}
    /\ UNCHANGED ran

Run ==
    /\ \E stage \in passed, files \in SUBSET Files :
         ran' = {[stage |-> stage, file |-> file] :
                     file \in Executed(stage, files)}
    /\ UNCHANGED passed

Next == Preflight \/ Run

Spec == Init /\ [][Next]_<<passed, ran>>

-----------------------------------------------------------------------------
(***************************************************************************)
(* docs/architecture.md of what preflight verifies: no stage executes      *)
(* scripts from elsewhere, and the payload command resolves to the         *)
(* approved controlled script.                                             *)
(***************************************************************************)
OnlyApprovedRuns ==
    \A run \in ran : run.file \in ApprovedFiles(run.stage)

=============================================================================
