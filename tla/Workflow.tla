------------------------------ MODULE Workflow ------------------------------
(***************************************************************************)
(* One run root: the playbook that takes the configured targets in order,  *)
(* focused targets an operator runs between playbooks, the evidence files  *)
(* all of them leave behind, and the manifest and smoke receipt made of    *)
(* these.                                                                  *)
(*                                                                         *)
(* The playbook is one Ansible task with a loop over the targets.  Such a  *)
(* loop takes every item: a target that fails makes the task fail when the *)
(* loop is over, and the targets after it are run all the same.            *)
(*                                                                         *)
(* The scheduler is the one that JobPromise promises: the actions of that  *)
(* module are conjuncts of the actions of submit, wait and the wrapper     *)
(* here.  SerialLsf shows that the real scheduler keeps the promise.       *)
(*                                                                         *)
(* A target is one step, except those that read back what they have just   *)
(* written.  It may fail or be killed before it has written anything,      *)
(* between its outputs and its stage evidence, or inside the latter.       *)
(***************************************************************************)
EXTENDS Naturals, Sequences

CONSTANTS
    MaxRuns,     \* bound: playbooks started
    MaxFocused,  \* bound: targets run outside a playbook
    MaxFaults    \* bound: what fails, vanishes or is killed though it need not

ASSUME WorkflowAssumption ==
    MaxRuns \in Nat /\ MaxFocused \in Nat /\ MaxFaults \in Nat

Order == <<
    "preflight", "prepare_workspace", "materialize_inputs",
    "materialize_procs", "inventory_pre", "submit_mock_lsf",
    "wait_mock_lsf", "collect_mock_lsf", "extract_required",
    "extract_ad_hoc", "build_reports", "validate", "inventory_post",
    "manifest", "manifest_smoke" >>

Payload == "run_simulation"

Stages == {Order[i] : i \in DOMAIN Order} \cup {Payload}

VARIABLES
    job, verdict, paid, reported, released,  \* as in JobPromise
    flow,       \* the latest playbook: position, number, policy, whether all
                \* targets so far have passed, outcome
    spent,      \* how many targets were run outside one, how many faults
    busy,       \* where the manifest or smoke target is, or "none"
    evidence,   \* the stage evidence files
    disk,       \* every other file of the run root
    earned      \* history: the jobs whose payload has passed

jobVars == <<job, verdict, paid, reported, released>>

vars == <<jobVars, flow, spent, busy, evidence, disk, earned>>

Promise == INSTANCE JobPromise

NoEvidence == [status |-> "none", of |-> 0]

NoVerdict == [job |-> 0, state |-> "none"]

NoInventory == [raw |-> 0, products |-> <<>>]

(***************************************************************************)
(* A manifest that is not whole has no content to speak of.                *)
(***************************************************************************)
NoContent ==
    [stages |-> [s \in Stages |-> NoEvidence], final |-> NoVerdict,
     pre |-> {}, post |-> NoInventory, validation |-> "none",
     receipt |-> "none"]

NoManifest == [kind |-> "none", content |-> NoContent]

Bare ==
    [preflight |-> FALSE,      \* preflight.json
     made |-> {},              \* copied into sim-run-root
     pre |-> {"none"},         \* what the pre-run inventories list
     submission |-> 0,         \* the job in submission.yaml
     terminal |-> "none",      \* terminal-state.json
     accounting |-> NoVerdict, \* accounting.yaml
     raw |-> 0,                \* the job the raw output is of
     required |-> [of |-> 0, good |-> FALSE],
     adHoc |-> 0,              \* the job a product was made from
     reports |-> 0,
     validation |-> "none",    \* required_extract.json
     post |-> NoInventory,     \* post-run inventories: raw and products
     manifest |-> NoManifest,
     receipt |-> [status |-> "none", current |-> FALSE],
     opened |-> FALSE]         \* directories of outputs or logs alone

Init ==
    /\ Promise!Init
    /\ flow = [at |-> 0, run |-> 0, fresh |-> TRUE, good |-> TRUE,
               outcome |-> "none"]
    /\ spent = [focused |-> 0, faults |-> 0]
    /\ busy = "none"
    /\ evidence = [s \in Stages |-> NoEvidence]
    /\ disk = Bare
    /\ earned = {}

-----------------------------------------------------------------------------
Running == flow.outcome = "running"

(***************************************************************************)
(* Seeded fault: only what preflight writes is taken for a run root.       *)
(***************************************************************************)
RootAdmitted == disk.preflight

RootExists == disk # Bare \/ \E s \in Stages : evidence[s] # NoEvidence

(***************************************************************************)
(* What assemble_run_manifest reads without a default.  It raises as well  *)
(* over a file of evidence that is torn.                                   *)
(***************************************************************************)
Assemblable ==
    /\ disk.preflight
    /\ disk.submission # 0
    /\ disk.pre # {"none"}
    /\ disk.post # NoInventory
    /\ disk.receipt.status # "torn"
    /\ \A s \in Stages : evidence[s].status # "torn"

(***************************************************************************)
(* What a target cannot do without.                                        *)
(***************************************************************************)
Ready(s) ==
    /\ s = "preflight" /\ flow.fresh => ~RootExists
    /\ s \in {"inventory_pre", "inventory_post", Payload} => disk.made # {}
    /\ s = "wait_mock_lsf" => job # 0
    /\ s = "collect_mock_lsf" => verdict \in {"DONE", "EXIT", "TIMEOUT"}
    /\ s \in {"extract_required", "extract_ad_hoc"}
         => verdict = "DONE" /\ disk.raw # 0
    /\ s = "build_reports" => disk.required.of # 0 /\ disk.adHoc # 0
    /\ s = "manifest" => Assemblable
    /\ s = "manifest_smoke" => disk.manifest.kind \in {"whole", "partial"}

(***************************************************************************)
(* The playbook's loop, or make on the command line, takes a target up.    *)
(***************************************************************************)
Takes(s, faults) ==
    /\ busy = "none"
    /\ IF Running THEN Order[flow.at] = s ELSE spent.focused < MaxFocused
    /\ spent.faults + faults <= MaxFaults
    /\ spent' = [focused |-> spent.focused + (IF Running THEN 0 ELSE 1),
                 faults |-> spent.faults + faults]

Faults ==
    /\ spent.faults < MaxFaults
    /\ spent' = [spent EXCEPT !.faults = @ + 1]

Begins(s, faults) == Takes(s, faults) /\ Ready(s)

(***************************************************************************)
(* A target of several steps is under way; one outside a playbook touches  *)
(* what the last playbook has left.                                        *)
(***************************************************************************)
Enters == flow' = IF Running THEN flow ELSE [flow EXCEPT !.outcome = "none"]

(***************************************************************************)
(* A target is over; the loop takes the next one whether it passed or not. *)
(***************************************************************************)
Ends(passed) ==
    flow' = IF ~Running THEN [flow EXCEPT !.outcome = "none"]
            ELSE IF flow.at < Len(Order)
            THEN [flow EXCEPT !.at = @ + 1, !.good = @ /\ passed]
            ELSE [flow EXCEPT !.at = 0,
                              !.outcome = IF flow.good /\ passed
                                          THEN "complete" ELSE "failed"]

Records(s, status) ==
    evidence' = [evidence EXCEPT ![s] =
        [status |-> status, of |-> IF Running THEN flow.run ELSE 0]]

StartPlaybook ==
    /\ ~Running
    /\ busy = "none"
    /\ flow.run < MaxRuns
    /\ \E policy \in BOOLEAN :
         flow' = [at |-> 1, run |-> flow.run + 1, fresh |-> policy,
                  good |-> TRUE, outcome |-> "running"]
    /\ UNCHANGED <<jobVars, spent, busy, evidence, disk, earned>>

Succeeds(s, outputs, faults) ==
    /\ Begins(s, faults)
    /\ disk' = outputs
    /\ Records(s, "pass")
    /\ Ends(TRUE)
    /\ UNCHANGED <<busy, earned>>

BreaksOff(s, outputs) ==
    /\ Begins(s, 1)
    /\ disk' = outputs
    /\ UNCHANGED evidence \/ Records(s, "torn")
    /\ Ends(FALSE)
    /\ UNCHANGED <<busy, earned>>

(***************************************************************************)
(* A support target: a command writes its outputs, and then its stage      *)
(* evidence as passed.  Nothing is recorded of one that does not get there.*)
(***************************************************************************)
Support(s, outputs) == Succeeds(s, outputs, 0) \/ BreaksOff(s, outputs)

(***************************************************************************)
(* A target whose verdict is recorded either way: one that ends badly says *)
(* so in its stage evidence.                                               *)
(***************************************************************************)
Fails(s, outputs, faults) ==
    /\ Begins(s, faults)
    /\ disk' = outputs
    /\ Records(s, "fail")
    /\ Ends(FALSE)
    /\ UNCHANGED <<busy, earned>>

(***************************************************************************)
(* The targets that make the directory of their output or logs first.      *)
(***************************************************************************)
Openers ==
    {"submit_mock_lsf", "wait_mock_lsf", "collect_mock_lsf", Payload,
     "build_reports"}

Opens(s) ==
    disk' = IF s \in Openers THEN [disk EXCEPT !.opened = TRUE] ELSE disk

(***************************************************************************)
(* A refusal or a missing input.  Submit refuses while a job is alive.     *)
(***************************************************************************)
Refused ==
    /\ \E s \in Stages :
         /\ Takes(s, 0)
         /\ ~Ready(s) \/ (s = "submit_mock_lsf" /\ verdict = "RUN")
         /\ Opens(s)
    /\ Ends(FALSE)
    /\ UNCHANGED <<jobVars, busy, evidence, earned>>

(***************************************************************************)
(* An exception or a kill before any output.                               *)
(***************************************************************************)
Errs ==
    /\ \E s \in Stages : Begins(s, 1) /\ (UNCHANGED disk \/ Opens(s))
    /\ Ends(FALSE)
    /\ UNCHANGED <<jobVars, busy, evidence, earned>>

-----------------------------------------------------------------------------
Preflight ==
    /\ Support("preflight", [disk EXCEPT !.preflight = TRUE])
    /\ UNCHANGED jobVars

Makes(s, what) ==
    /\ Support(s, [disk EXCEPT !.made = @ \cup {what}])
    /\ UNCHANGED jobVars

PrepareWorkspace == Makes("prepare_workspace", "directories")

MaterializeInputs == Makes("materialize_inputs", "inputs")

MaterializeProcs == Makes("materialize_procs", "scripts")

InventoryPre ==
    /\ Support("inventory_pre",
               [disk EXCEPT !.pre = disk.made \ {"directories"}])
    /\ UNCHANGED jobVars

BuildReports ==
    /\ Support("build_reports", [disk EXCEPT !.reports = disk.required.of])
    /\ UNCHANGED jobVars

Products(d) == <<d.required.of, d.adHoc, d.reports>>

InventoryPost ==
    /\ Support("inventory_post",
               [disk EXCEPT !.post = [raw |-> disk.raw,
                                      products |-> Products(disk)]])
    /\ UNCHANGED jobVars

(***************************************************************************)
(* A validation that fails is on disk, and the stage evidence of an        *)
(* earlier one stays.                                                      *)
(***************************************************************************)
Validate ==
    /\ \/ /\ disk.required.good
          /\ Support("validate", [disk EXCEPT !.validation = "pass"])
       \/ /\ ~disk.required.good
          /\ Begins("validate", 0)
          /\ disk' = [disk EXCEPT !.validation = "fail"]
          /\ Ends(FALSE)
          /\ UNCHANGED <<busy, evidence, earned>>
    /\ UNCHANGED jobVars

-----------------------------------------------------------------------------
Submit ==
    /\ Promise!Submit
    /\ Support("submit_mock_lsf",
               [disk EXCEPT !.submission = job', !.terminal = "none"])

PayloadEvidence(status) ==
    evidence' = [evidence EXCEPT ![Payload] = [status |-> status, of |-> job]]

PayloadPasses ==
    /\ disk.terminal = "none"
    /\ ~paid
    /\ Promise!Pass
    /\ PayloadEvidence("pass")
    /\ disk' = [disk EXCEPT !.raw = job]
    /\ earned' = earned \cup {job}
    /\ UNCHANGED <<flow, spent, busy>>

(***************************************************************************)
(* The wrapper's verdict goes to terminal-state.json first.                *)
(***************************************************************************)
WrapperReports ==
    /\ verdict = "RUN"
    /\ disk.terminal = "none"
    /\ \/ /\ paid
          /\ disk' = [disk EXCEPT !.terminal = "DONE"]
          /\ UNCHANGED <<evidence, spent>>
       \/ /\ ~paid
          /\ Faults
          /\ disk' = [disk EXCEPT !.terminal = "EXIT"]
          /\ PayloadEvidence("fail")
    /\ UNCHANGED <<jobVars, flow, busy, earned>>

WrapperSettles ==
    /\ disk.terminal # "none"
    /\ Promise!Settle
    /\ verdict' = disk.terminal
    /\ UNCHANGED <<flow, spent, busy, evidence, disk, earned>>

WaitBegins ==
    /\ Begins("wait_mock_lsf", 0)
    /\ busy' = "wait"
    /\ Enters
    /\ UNCHANGED <<jobVars, evidence, disk, earned>>

(***************************************************************************)
(* Seeded fault: the deadline is compared only once there is a verdict.    *)
(***************************************************************************)
ExpiresLate ==
    /\ busy = "wait"
    /\ verdict # "RUN"
    /\ Promise!Expire
    /\ UNCHANGED <<flow, spent, busy, evidence, disk, earned>>

(***************************************************************************)
(* Past its deadline the wait kills the job.                               *)
(***************************************************************************)
WaitExpires ==
    /\ busy = "wait"
    /\ Promise!Expire
    /\ UNCHANGED <<flow, spent, busy, evidence, disk, earned>>

(***************************************************************************)
(* It gives up a wrapper that has vanished without a word.                 *)
(***************************************************************************)
WaitFindsNobody ==
    /\ busy = "wait"
    /\ disk.terminal = "none"
    /\ Promise!Settle
    /\ verdict' = "EXIT"
    /\ Faults
    /\ UNCHANGED <<flow, busy, evidence, disk, earned>>

WaitReports ==
    /\ busy = "wait"
    /\ Promise!Report
    /\ busy' = "none"
    /\ \/ /\ verdict = "DONE"
          /\ Records("wait_mock_lsf", "pass")
          /\ Ends(TRUE)
          /\ UNCHANGED spent
       \/ /\ verdict # "DONE"
          /\ Records("wait_mock_lsf", "fail")
          /\ Ends(FALSE)
          /\ UNCHANGED spent
       \/ /\ Faults
          /\ UNCHANGED evidence \/ Records("wait_mock_lsf", "torn")
          /\ Ends(FALSE)
    /\ UNCHANGED <<disk, earned>>

(***************************************************************************)
(* Seeded fault: accounting that is already there is kept.                 *)
(***************************************************************************)
CollectOnce ==
    /\ LET accounted ==
             IF disk.accounting = NoVerdict
             THEN [disk EXCEPT !.accounting = [job |-> job, state |-> verdict]]
             ELSE disk
       IN  \/ verdict = "DONE" /\ Support("collect_mock_lsf", accounted)
           \/ verdict # "DONE" /\ Fails("collect_mock_lsf", accounted, 0)
           \/ verdict # "DONE" /\ BreaksOff("collect_mock_lsf", accounted)
    /\ UNCHANGED jobVars

Collect ==
    /\ LET accounted ==
             [disk EXCEPT !.accounting = [job |-> job, state |-> verdict]]
       IN  \/ verdict = "DONE" /\ Support("collect_mock_lsf", accounted)
           \/ verdict # "DONE" /\ Fails("collect_mock_lsf", accounted, 0)
           \/ verdict # "DONE" /\ BreaksOff("collect_mock_lsf", accounted)
    /\ UNCHANGED jobVars

(***************************************************************************)
(* run-simulation as a target of its own: no job, the same raw output and  *)
(* the same stage evidence.  No playbook takes it up.                      *)
(***************************************************************************)
Direct == MaxRuns + MaxFocused + 1

RunSimulation ==
    /\ LET written == [disk EXCEPT !.raw = Direct]
       IN  Support(Payload, written) \/ Fails(Payload, written, 1)
    /\ UNCHANGED jobVars

Extracts(s, written) == Support(s, written) \/ Fails(s, written, 1)

(***************************************************************************)
(* A product of the wrong shape is a fault of the extraction script that   *)
(* the stage does not see.                                                 *)
(***************************************************************************)
ExtractRequired ==
    /\ LET written(good) ==
             [disk EXCEPT !.required = [of |-> disk.raw, good |-> good]]
       IN  \/ Extracts("extract_required", written(TRUE))
           \/ Succeeds("extract_required", written(FALSE), 1)
    /\ UNCHANGED jobVars

ExtractAdHoc ==
    /\ Extracts("extract_ad_hoc", [disk EXCEPT !.adHoc = disk.raw])
    /\ UNCHANGED jobVars

-----------------------------------------------------------------------------
(***************************************************************************)
(* Seeded fault: the job is taken from job-state.json, its state from      *)
(* accounting.yaml.                                                        *)
(***************************************************************************)
FinalMixed ==
    [job |-> job,
     state |-> IF disk.accounting # NoVerdict THEN disk.accounting.state
               ELSE IF disk.terminal # "none" THEN disk.terminal ELSE verdict]

(***************************************************************************)
(* accounting.yaml before terminal-state.json before job-state.json.       *)
(***************************************************************************)
FinalRecord ==
    IF disk.accounting # NoVerdict THEN disk.accounting
    ELSE [job |-> job,
          state |-> IF disk.terminal # "none" THEN disk.terminal ELSE verdict]

Assembled ==
    [stages |-> evidence, final |-> FinalRecord, pre |-> disk.pre,
     post |-> disk.post, validation |-> disk.validation,
     receipt |-> disk.receipt.status]

Whole == [kind |-> "whole", content |-> Assembled]

(***************************************************************************)
(* The receipt holds a hash of the manifest: it matches until the content  *)
(* changes.                                                                *)
(***************************************************************************)
Rewritten(manifest) ==
    [disk EXCEPT !.manifest = manifest,
                 !.receipt.current = @ /\ manifest = disk.manifest]

Assemble(from, to) ==
    /\ busy = from
    /\ Assemblable
    /\ disk' = Rewritten(Whole)
    /\ busy' = to
    /\ UNCHANGED <<jobVars, evidence, earned>>

ManifestAssemble ==
    /\ Begins("manifest", 0)
    /\ Assemble("none", "assembled")
    /\ Enters

ManifestEvidence ==
    /\ busy = "assembled"
    /\ Records("manifest", "pass")
    /\ busy' = "evidenced"
    /\ UNCHANGED <<jobVars, flow, spent, disk, earned>>

ManifestReassemble ==
    /\ Assemble("evidenced", "none")
    /\ Ends(TRUE)
    /\ UNCHANGED spent

(***************************************************************************)
(* missing_required_sections and missing_required_key_values, as far as    *)
(* the evidence on disk decides them.                                      *)
(***************************************************************************)
Passes(manifest) ==
    /\ manifest.kind = "whole"
    /\ manifest.content.pre = {"inputs", "scripts"}
    /\ manifest.content.post.raw # 0
    /\ manifest.content.post.products # <<0, 0, 0>>
    /\ {manifest.content.validation, manifest.content.receipt} # {"none"}

Receipt(passed) ==
    disk' = [disk EXCEPT !.receipt =
                [status |-> IF passed THEN "pass" ELSE "fail",
                 current |-> TRUE]]

SmokeCheck ==
    /\ Begins("manifest_smoke", 0)
    /\ \/ /\ Passes(disk.manifest)
          /\ busy' = "checked"
          /\ Enters
          /\ UNCHANGED disk
       \/ /\ ~Passes(disk.manifest)
          /\ Receipt(FALSE)
          /\ Ends(FALSE)
          /\ UNCHANGED busy
    /\ UNCHANGED <<jobVars, evidence, earned>>

(***************************************************************************)
(* Seeded fault: the stage attempt is written without its status.          *)
(***************************************************************************)
SmokeSilent ==
    /\ busy = "checked"
    /\ busy' = "attempted"
    /\ UNCHANGED <<jobVars, flow, spent, evidence, disk, earned>>

SmokeEvidence ==
    /\ busy = "checked"
    /\ Records("manifest_smoke", "pass")
    /\ busy' = "attempted"
    /\ UNCHANGED <<jobVars, flow, spent, disk, earned>>

SmokeRefresh ==
    /\ Assemble("attempted", "refreshed")
    /\ UNCHANGED <<flow, spent>>

SmokeReceipt ==
    /\ busy = "refreshed"
    /\ Receipt(Passes(disk.manifest))
    /\ Ends(Passes(disk.manifest))
    /\ busy' = "none"
    /\ UNCHANGED <<jobVars, spent, evidence, earned>>

(***************************************************************************)
(* The evidence on disk does not let the manifest be assembled again.      *)
(***************************************************************************)
ReassemblyRaises ==
    /\ busy \in {"evidenced", "attempted"}
    /\ ~Assemblable
    /\ busy' = "none"
    /\ Ends(FALSE)
    /\ UNCHANGED <<jobVars, spent, evidence, disk, earned>>

(***************************************************************************)
(* A torn manifest is perhaps still readable as YAML.                      *)
(***************************************************************************)
TearsManifest ==
    \E kind \in {"unreadable", "partial"} :
        disk' = Rewritten([kind |-> kind, content |-> NoContent])

TearsReceipt == disk' = [disk EXCEPT !.receipt.status = "torn"]

(***************************************************************************)
(* A kill or an exception in the first write of manifest or smoke.         *)
(***************************************************************************)
Tears ==
    /\ \/ Begins("manifest", 1) /\ TearsManifest
       \/ Begins("manifest_smoke", 1) /\ ~Passes(disk.manifest)
            /\ TearsReceipt
    /\ Ends(FALSE)
    /\ UNCHANGED <<jobVars, busy, evidence, earned>>

(***************************************************************************)
(* A kill or an exception within wait, manifest or smoke; a file that was  *)
(* being written is left torn.                                             *)
(***************************************************************************)
Stops ==
    /\ busy # "none"
    /\ Faults
    /\ busy' = "none"
    /\ Ends(FALSE)
    /\ \/ UNCHANGED <<disk, evidence>>
       \/ /\ \/ busy = "assembled" /\ Records("manifest", "torn")
             \/ busy = "checked" /\ Records("manifest_smoke", "torn")
          /\ UNCHANGED disk
       \/ /\ \/ busy \in {"evidenced", "attempted"} /\ TearsManifest
             \/ busy = "refreshed" /\ TearsReceipt
          /\ UNCHANGED evidence
    /\ UNCHANGED <<jobVars, earned>>

(***************************************************************************)
(* The playbook is killed, and with it the target it is at.                *)
(***************************************************************************)
PlaybookDies ==
    /\ Running
    /\ Faults
    /\ busy' = "none"
    /\ flow' = [flow EXCEPT !.at = 0, !.outcome = "failed"]
    /\ UNCHANGED <<jobVars, evidence, disk, earned>>

-----------------------------------------------------------------------------
TargetStep ==
    \/ Preflight \/ PrepareWorkspace \/ MaterializeInputs \/ MaterializeProcs
    \/ InventoryPre \/ Submit \/ WaitBegins \/ WaitExpires \/ WaitReports
    \/ Collect \/ RunSimulation \/ ExtractRequired \/ ExtractAdHoc
    \/ BuildReports \/ Validate \/ InventoryPost
    \/ ManifestAssemble \/ ManifestEvidence \/ ManifestReassemble
    \/ SmokeCheck \/ SmokeEvidence \/ SmokeRefresh \/ SmokeReceipt
    \/ ReassemblyRaises \/ Refused

FaultStep == Errs \/ WaitFindsNobody \/ Tears \/ Stops \/ PlaybookDies

WrapperStep == PayloadPasses \/ WrapperReports \/ WrapperSettles

Next == TargetStep \/ FaultStep \/ WrapperStep \/ StartPlaybook

(***************************************************************************)
(* A playbook goes on to its next target and the operating system runs it; *)
(* a wait's deadline passes.  The payload may hang.                        *)
(***************************************************************************)
Fairness == WF_vars(Running /\ TargetStep)

Spec == Init /\ [][Next]_vars /\ Fairness

-----------------------------------------------------------------------------
AfterScheduler ==
    {"wait_mock_lsf", "collect_mock_lsf", "extract_required",
     "extract_ad_hoc", "build_reports"}

OfThisRun(s) == evidence[s].of = flow.run /\ evidence[s].status = "pass"

(***************************************************************************)
(* A run root that preflight has admitted as fresh belongs to its playbook *)
(* alone: every file of evidence in it is of that playbook, whatever died  *)
(* or ran on its own before.  So although targets run on after a failure,  *)
(* none of those behind the scheduler passes unless the payload of this    *)
(* playbook's job has, and none takes its input from elsewhere.            *)
(***************************************************************************)
AdmittedRootIsOwn ==
    flow.outcome # "none" /\ flow.fresh /\ OfThisRun("preflight") =>
        /\ \A s \in Stages \ {Payload} :
             evidence[s] = NoEvidence \/ evidence[s].of = flow.run
        /\ disk.accounting.job \in {0, job}
        /\ (\E s \in AfterScheduler : OfThisRun(s)) =>
               /\ job \in earned
               /\ evidence[Payload] = [status |-> "pass", of |-> job]
               /\ \A i \in 1 .. 3 : Products(disk)[i] \in {0, job}

(***************************************************************************)
(* A playbook that ends well, on a fresh or on a reused run root, leaves a *)
(* manifest under a matching receipt in which every configured stage and   *)
(* the payload have passed in this very run, the verdict is DONE of the    *)
(* job it submitted, and the inventories name raw output and products of   *)
(* that job as they are on disk.                                           *)
(***************************************************************************)
CompletedRunIsAudited ==
    flow.outcome = "complete" =>
        LET content == disk.manifest.content
        IN  /\ disk.receipt = [status |-> "pass", current |-> TRUE]
            /\ content.stages = evidence
            /\ \A i \in DOMAIN Order : OfThisRun(Order[i])
            /\ evidence[Payload] = [status |-> "pass", of |-> job]
            /\ content.final = [job |-> job, state |-> "DONE"]
            /\ content.validation = "pass"
            /\ content.post = [raw |-> job, products |-> <<job, job, job>>]
            /\ Products(disk) = <<job, job, job>>

(***************************************************************************)
(* Targets in any order, killed anywhere: a manifest says DONE only of a   *)
(* job whose payload has passed, though the files it takes the verdict     *)
(* from may be older than the job.                                         *)
(***************************************************************************)
ManifestDoneIsEarned ==
    disk.manifest.kind = "whole" /\ disk.manifest.content.final.state = "DONE"
        => disk.manifest.content.final.job \in earned

(***************************************************************************)
(* Targets in any order, killed anywhere: a passing receipt that matches   *)
(* the manifest on disk is about a manifest that is whole, has inputs,     *)
(* scripts, raw output and products, and lists the smoke check itself.     *)
(***************************************************************************)
ReceiptCoversManifest ==
    disk.receipt = [status |-> "pass", current |-> TRUE] =>
        /\ disk.manifest.kind = "whole"
        /\ disk.manifest.content.pre = {"inputs", "scripts"}
        /\ disk.manifest.content.post.raw # 0
        /\ disk.manifest.content.stages["manifest_smoke"].status = "pass"

(***************************************************************************)
(* Every playbook that is started ends, also over a payload that hangs.    *)
(***************************************************************************)
PlaybookEnds == Running ~> ~Running

(***************************************************************************)
(* Makefile, "Admission: fail fast before the run can start": when the     *)
(* preflight of a playbook has not passed, for one because it refused an   *)
(* existing run root, no target of that playbook leaves evidence there.    *)
(***************************************************************************)
AdmissionFailsFast ==
    flow.outcome # "none" /\ flow.at # 1 /\ ~OfThisRun("preflight") =>
        \A s \in Stages \ {"preflight"} : ~OfThisRun(s)

=============================================================================
