--------------------------- MODULE WorkflowProofs ---------------------------
(***************************************************************************)
(* What a run root may claim of itself, for any number of playbooks,       *)
(* focused targets and faults: the safety invariants of Workflow.          *)
(***************************************************************************)
EXTENDS Workflow, TLAPS

-----------------------------------------------------------------------------
(***************************************************************************)
(* Types.                                                                  *)
(***************************************************************************)
Evidence == [status : {"none", "pass", "fail", "torn"}, of : Nat]

JobStates == {"none", "RUN", "DONE", "EXIT", "TIMEOUT"}

Verdict == [job : Nat, state : JobStates]

Made == {"none", "directories", "inputs", "scripts"}

Inventory == [raw : Nat, products : {<<>>} \cup (Nat \X Nat \X Nat)]

Content ==
    [stages : [Stages -> Evidence], final : Verdict, pre : SUBSET Made,
     post : Inventory, validation : {"none", "pass", "fail"},
     receipt : {"none", "pass", "fail", "torn"}]

Manifest ==
    [kind : {"none", "whole", "partial", "unreadable"},
     content : Content]

Disk ==
    [preflight : BOOLEAN,
     made : SUBSET Made,
     pre : SUBSET Made,
     submission : Nat,
     terminal : {"none", "DONE", "EXIT"},
     accounting : Verdict,
     raw : Nat,
     required : [of : Nat, good : BOOLEAN],
     adHoc : Nat,
     reports : Nat,
     validation : {"none", "pass", "fail"},
     post : Inventory,
     manifest : Manifest,
     receipt : [status : {"none", "pass", "fail", "torn"}, current : BOOLEAN],
     opened : BOOLEAN]

Flow ==
    [at : 0 .. 15, run : Nat, fresh : BOOLEAN, good : BOOLEAN,
     outcome : {"none", "running", "complete", "failed"}]

JobTyped ==
    /\ job \in Nat
    /\ verdict \in JobStates
    /\ paid \in BOOLEAN
    /\ earned \in SUBSET Nat

FlowTyped ==
    /\ flow \in Flow
    /\ Running => flow.at # 0
    /\ busy \in {"none", "wait", "assembled", "evidenced", "checked",
                 "attempted", "refreshed"}

Typed ==
    /\ JobTyped
    /\ FlowTyped
    /\ evidence \in [Stages -> Evidence]
    /\ disk \in Disk

-----------------------------------------------------------------------------
(***************************************************************************)
(* A verdict of DONE is earned wherever it is written.                     *)
(***************************************************************************)
EarnedByJobs ==
    /\ earned \subseteq 1 .. job
    /\ paid <=> job \in earned
    /\ verdict = "RUN" => job # 0
    /\ verdict = "DONE" => paid
    /\ job # 0 => disk.submission # 0

DoneIsEarned ==
    /\ disk.terminal = "DONE" => paid
    /\ disk.accounting.state = "DONE" => disk.accounting.job \in earned
    /\ ManifestDoneIsEarned

(***************************************************************************)
(* A smoke check that is past its stage evidence finds that in the         *)
(* manifest, which nobody else writes meanwhile.                           *)
(***************************************************************************)
SmokeUnderWay ==
    /\ busy \in {"attempted", "refreshed"} =>
         evidence["manifest_smoke"].status = "pass"
    /\ busy = "refreshed" =>
         disk.manifest.content.stages["manifest_smoke"].status = "pass"

(***************************************************************************)
(* Evidence is never of a playbook that is still to come, and a target     *)
(* outside a playbook ends what the last one has left.                     *)
(***************************************************************************)
NothingAhead ==
    /\ \A s \in Stages \ {Payload} : evidence[s].of <= flow.run
    /\ Running /\ flow.at = 1 => ~OfThisRun("preflight")
    /\ flow.outcome # "none" => flow.run # 0
    /\ busy # "none" => flow.outcome \in {"none", "running"}

(***************************************************************************)
(* A run root that a fresh preflight of the latest playbook has admitted   *)
(* holds files of this playbook and its job alone, and nothing behind the  *)
(* payload unless that has passed.                                         *)
(***************************************************************************)
Own == flow.outcome # "none" /\ flow.fresh /\ OfThisRun("preflight")

Alone ==
    /\ \A s \in Stages \ {Payload} :
         evidence[s] = NoEvidence \/ evidence[s].of = flow.run
    /\ Running /\ flow.at <= 6 => job = 0
    /\ disk.accounting.job \in {0, job}
    /\ disk.raw \in {0, job}
    /\ disk.required.of \in {0, job} /\ disk.adHoc \in {0, job}
    /\ disk.reports \in {0, job}
    /\ paid => evidence[Payload] = [status |-> "pass", of |-> job]
    /\ disk.raw # 0 => paid
    /\ disk.required.of # 0 \/ disk.adHoc # 0 \/ disk.reports # 0 => paid
    /\ (\E s \in AfterScheduler : OfThisRun(s)) => paid

OwnRoot == Own => Alone

(***************************************************************************)
(* How much of the audit a playbook has behind it, all of whose targets so *)
(* far have passed.                                                        *)
(***************************************************************************)
Good == Running /\ flow.good

StagesPassed ==
    Good =>
        /\ \A i \in 1 .. 15 : i < flow.at => OfThisRun(Order[i])
        /\ busy \in {"evidenced"} => OfThisRun("manifest")
        /\ busy \in {"attempted", "refreshed"} => OfThisRun("manifest_smoke")

JobAudited ==
    Good =>
        /\ flow.at > 6 /\ paid =>
             /\ evidence[Payload] = [status |-> "pass", of |-> job]
             /\ disk.raw = job
        /\ flow.at > 7 => verdict = "DONE" /\ reported = "DONE"
        /\ flow.at > 8 => disk.accounting = [job |-> job, state |-> "DONE"]

ProductsAudited ==
    Good =>
        /\ flow.at > 9 => disk.required.of = job
        /\ flow.at > 10 => disk.adHoc = job
        /\ flow.at > 11 => disk.reports = job
        /\ flow.at > 12 => disk.validation = "pass"
        /\ flow.at > 13 =>
             disk.post = [raw |-> job, products |-> <<job, job, job>>]
        /\ busy = "refreshed" =>
             disk.manifest.kind = "whole" /\ disk.manifest.content = Assembled

BusyPlaces ==
    Running =>
        /\ busy = "wait" => flow.at = 7
        /\ busy \in {"assembled", "evidenced"} => flow.at = 14
        /\ busy \in {"checked", "attempted", "refreshed"} => flow.at = 15

-----------------------------------------------------------------------------
(***************************************************************************)
(* The order of the playbook.                                              *)
(***************************************************************************)
LEMMA OrderOfTargets ==
    /\ Len(Order) = 15 /\ DOMAIN Order = 1 .. 15
    /\ Order[1] = "preflight" /\ Order[6] = "submit_mock_lsf"
    /\ Order[7] = "wait_mock_lsf" /\ Order[8] = "collect_mock_lsf"
    /\ Order[9] = "extract_required" /\ Order[10] = "extract_ad_hoc"
    /\ Order[11] = "build_reports" /\ Order[12] = "validate"
    /\ Order[13] = "inventory_post" /\ Order[14] = "manifest"
    /\ Order[15] = "manifest_smoke"
    /\ \A i, k \in 1 .. 15 : Order[i] = Order[k] => i = k
    /\ \A i \in 1 .. 15 : Order[i] \in Stages /\ Order[i] # Payload
  BY DEF Order, Stages, Payload

LEMMA StageNames ==
    /\ {"preflight", "prepare_workspace", "materialize_inputs",
        "materialize_procs", "inventory_pre", "submit_mock_lsf",
        "wait_mock_lsf", "collect_mock_lsf", "extract_required",
        "extract_ad_hoc", "build_reports", "validate", "inventory_post",
        "manifest", "manifest_smoke", Payload} \subseteq Stages
    /\ Payload = "run_simulation"
<1>1. /\ Order[2] = "prepare_workspace" /\ Order[3] = "materialize_inputs"
      /\ Order[4] = "materialize_procs" /\ Order[5] = "inventory_pre"
  BY DEF Order
<1> QED
  BY <1>1, OrderOfTargets DEF Stages, Payload

(***************************************************************************)
(* What every target does that is done in one step, or that has come to    *)
(* its last one: the outcome goes into its stage evidence, if anywhere,    *)
(* and the playbook goes on.                                               *)
(***************************************************************************)
Concludes(s, passed) ==
    /\ s \in Stages
    /\ Running => Order[flow.at] = s
    /\ Ends(passed)
    /\ \/ passed /\ Records(s, "pass")
       \/ ~passed /\ (UNCHANGED evidence \/ Records(s, "fail")
                                         \/ Records(s, "torn"))

(***************************************************************************)
(* A target of one step, whether it passes or not, and what it writes if   *)
(* it gets that far.                                                       *)
(***************************************************************************)
Target(s, passed) ==
    /\ busy = "none" /\ UNCHANGED <<busy, earned>>
    /\ Concludes(s, passed)
    /\ passed => Ready(s)

Copies(s) ==
    \E what \in {"directories", "inputs", "scripts"} :
        /\ s \in {"prepare_workspace", "materialize_inputs",
                  "materialize_procs"}
        /\ disk' = [disk EXCEPT !.made = @ \cup {what}]

Writes(s, passed) ==
    \/ ~passed /\ UNCHANGED disk
    \/ ~passed /\ disk' = [disk EXCEPT !.opened = TRUE]
    \/ s = "preflight" /\ disk' = [disk EXCEPT !.preflight = TRUE]
    \/ Copies(s)
    \/ s = "inventory_pre"
         /\ disk' = [disk EXCEPT !.pre = disk.made \ {"directories"}]
    \/ s = "build_reports"
         /\ disk' = [disk EXCEPT !.reports = disk.required.of]
    \/ s = "inventory_post"
         /\ disk' = [disk EXCEPT !.post = [raw |-> disk.raw,
                                          products |-> Products(disk)]]
    \/ s = "validate" /\ \E v \in {"pass", "fail"} :
         (passed => v = "pass") /\ disk' = [disk EXCEPT !.validation = v]
    \/ s = "collect_mock_lsf" /\ (passed => verdict = "DONE")
         /\ disk' = [disk EXCEPT !.accounting = [job |-> job,
                                                state |-> verdict]]
    \/ s = Payload /\ disk' = [disk EXCEPT !.raw = Direct]
    \/ s = "extract_required" /\ \E good \in BOOLEAN :
         disk' = [disk EXCEPT !.required = [of |-> disk.raw, good |-> good]]
    \/ s = "extract_ad_hoc" /\ disk' = [disk EXCEPT !.adHoc = disk.raw]

Simple ==
    \/ Preflight \/ PrepareWorkspace \/ MaterializeInputs \/ MaterializeProcs
    \/ InventoryPre \/ Collect \/ RunSimulation \/ ExtractRequired
    \/ ExtractAdHoc \/ BuildReports \/ Validate \/ InventoryPost
    \/ Refused \/ Errs

SimpleTarget(s, passed) ==
    Target(s, passed) /\ Writes(s, passed) /\ UNCHANGED jobVars

LEMMA TargetOfSupport ==
    ASSUME NEW s \in Stages, NEW outputs, NEW n,
           Support(s, outputs) \/ Fails(s, outputs, n)
             \/ Succeeds(s, outputs, n)
    PROVE  disk' = outputs /\ \E passed \in BOOLEAN : Target(s, passed)
<1>1. CASE Succeeds(s, outputs, n) \/ Succeeds(s, outputs, 0)
  <2>1. Target(s, TRUE)
    BY <1>1 DEF Succeeds, Target, Concludes, Begins, Takes
  <2> QED
    BY <1>1, <2>1 DEF Succeeds
<1>2. CASE Fails(s, outputs, n) \/ BreaksOff(s, outputs)
  <2>1. Target(s, FALSE)
    BY <1>2 DEF Fails, BreaksOff, Target, Concludes, Begins, Takes
  <2> QED
    BY <1>2, <2>1 DEF Fails, BreaksOff
<1> QED
  BY <1>1, <1>2 DEF Support

LEMMA SimpleIsOneStep ==
    ASSUME Simple
    PROVE  \E s \in Stages, passed \in BOOLEAN : SimpleTarget(s, passed)
<1> USE StageNames DEF SimpleTarget
<1>1. ASSUME NEW s \in Stages, NEW outputs, Support(s, outputs)
      PROVE  \E passed \in BOOLEAN : Target(s, passed) /\ disk' = outputs
  BY <1>1, TargetOfSupport
<1>2. CASE Preflight
  BY <1>1, <1>2 DEF Preflight, Writes
<1>3. CASE PrepareWorkspace \/ MaterializeInputs \/ MaterializeProcs
  BY <1>1, <1>3
  DEF PrepareWorkspace, MaterializeInputs, MaterializeProcs, Makes, Writes,
      Copies
<1>4. CASE InventoryPre
  BY <1>1, <1>4 DEF InventoryPre, Writes
<1>5. CASE Collect
  <2> DEFINE accounted ==
               [disk EXCEPT !.accounting = [job |-> job, state |-> verdict]]
  <2>1. CASE verdict = "DONE" /\ Support("collect_mock_lsf", accounted)
    BY <1>1, <1>5, <2>1 DEF Collect, Writes
  <2>2. CASE \/ Fails("collect_mock_lsf", accounted, 0)
             \/ BreaksOff("collect_mock_lsf", accounted)
    <3>1. Target("collect_mock_lsf", FALSE) /\ disk' = accounted
      BY <2>2 DEF Fails, BreaksOff, Target, Concludes, Begins, Takes
    <3> QED
      BY <1>5, <3>1 DEF Collect, Writes
  <2> QED
    BY <1>5, <2>1, <2>2 DEF Collect
<1>6. CASE RunSimulation
  BY <1>6, TargetOfSupport DEF RunSimulation, Writes
<1>7. CASE ExtractRequired
  <2>1. PICK good \in BOOLEAN :
          LET outputs ==
                [disk EXCEPT !.required = [of |-> disk.raw, good |-> good]]
          IN  \/ Support("extract_required", outputs)
              \/ Fails("extract_required", outputs, 1)
              \/ Succeeds("extract_required", outputs, 1)
    BY <1>7 DEF ExtractRequired, Extracts
  <2> QED
    BY <1>7, <2>1, TargetOfSupport DEF ExtractRequired, Writes
<1>8. CASE ExtractAdHoc
  BY <1>8, TargetOfSupport DEF ExtractAdHoc, Extracts, Writes
<1>9. CASE BuildReports
  BY <1>1, <1>9 DEF BuildReports, Writes
<1>10. CASE Validate
  <2>1. CASE Support("validate", [disk EXCEPT !.validation = "pass"])
    BY <1>1, <1>10, <2>1 DEF Validate, Writes
  <2>2. CASE /\ Begins("validate", 0)
             /\ disk' = [disk EXCEPT !.validation = "fail"]
             /\ Ends(FALSE)
             /\ UNCHANGED <<busy, evidence, earned>>
    <3>1. Target("validate", FALSE)
      BY <2>2 DEF Target, Concludes, Begins, Takes
    <3> QED
      BY <1>10, <2>2, <3>1 DEF Validate, Writes
  <2> QED
    BY <1>10, <2>1, <2>2 DEF Validate
<1>11. CASE InventoryPost
  BY <1>1, <1>11 DEF InventoryPost, Writes
<1>12. CASE Refused \/ Errs
  <2>1. PICK s \in Stages : Takes(s, 0) \/ Takes(s, 1)
    BY <1>12 DEF Refused, Errs, Begins
  <2>2. Target(s, FALSE)
    BY <1>12, <2>1 DEF Refused, Errs, Target, Concludes, Takes
  <2> QED
    BY <1>12, <2>2 DEF Refused, Errs, Opens, Writes
<1> QED
  BY <1>2, <1>3, <1>4, <1>5, <1>6, <1>7, <1>8, <1>9, <1>10, <1>11, <1>12
  DEF Simple

LEMMA EndsFlow ==
    ASSUME FlowTyped, NEW passed \in BOOLEAN, Ends(passed)
    PROVE  /\ flow' \in Flow
           /\ flow'.run = flow.run /\ flow'.fresh = flow.fresh
           /\ ~Running => flow'.outcome = "none"
           /\ Running /\ flow.at < 15 =>
                /\ flow'.at = flow.at + 1
                /\ flow'.outcome = "running"
                /\ flow'.good => flow.good /\ passed
           /\ Running /\ flow.at = 15 =>
                /\ flow'.at = 0
                /\ flow'.outcome \in {"complete", "failed"}
                /\ flow'.outcome = "complete" => flow.good /\ passed
           /\ Running' => flow'.at # 0
<1>1. Len(Order) = 15 /\ flow \in Flow /\ flow.at \in 0 .. 15
  BY OrderOfTargets DEF FlowTyped, Flow
<1>2. CASE ~Running
  <2>1. flow' = [flow EXCEPT !.outcome = "none"]
    BY <1>2 DEF Ends
  <2>2. flow' \in Flow
    BY <1>1, <2>1, Zenon DEF Flow
  <2> QED
    BY <1>1, <1>2, <2>1, <2>2 DEF Flow, Running
<1>3. CASE Running /\ flow.at < 15
  <2>1. flow' = [flow EXCEPT !.at = @ + 1, !.good = @ /\ passed]
    BY <1>1, <1>3 DEF Ends
  <2>2. flow.at + 1 \in 0 .. 15
    BY <1>1, <1>3
  <2>3. ASSUME NEW n \in 0 .. 15, NEW g \in BOOLEAN,
               flow' = [flow EXCEPT !.at = n, !.good = g]
        PROVE  /\ flow' \in Flow /\ flow'.at = n /\ flow'.good = g
               /\ flow'.run = flow.run /\ flow'.fresh = flow.fresh
               /\ flow'.outcome = flow.outcome
    BY <1>1, <2>3, Zenon DEF Flow
  <2>4. (flow.good /\ passed) \in BOOLEAN
    OBVIOUS
  <2>5. /\ flow' \in Flow /\ flow'.at = flow.at + 1
        /\ flow'.good = (flow.good /\ passed)
        /\ flow'.run = flow.run /\ flow'.fresh = flow.fresh
        /\ flow'.outcome = flow.outcome
    BY <2>1, <2>2, <2>3, <2>4, Zenon
  <2>6. flow'.good => flow.good /\ passed
    BY <2>5, Zenon
  <2>7. /\ flow' \in Flow /\ flow'.at = flow.at + 1
        /\ flow'.run = flow.run /\ flow'.fresh = flow.fresh
        /\ flow'.outcome = flow.outcome
    BY <2>5, Zenon
  <2>8. flow'.at # 0
    BY <1>1, <2>7
  <2> QED
    BY <1>1, <1>3, <2>6, <2>7, <2>8 DEF Running
<1>4. CASE Running /\ flow.at = 15
  <2>1. flow' = [flow EXCEPT !.at = 0,
                             !.outcome = IF flow.good /\ passed
                                         THEN "complete" ELSE "failed"]
    BY <1>1, <1>4 DEF Ends
  <2>2. ASSUME NEW o \in {"complete", "failed"},
               flow' = [flow EXCEPT !.at = 0, !.outcome = o]
        PROVE  /\ flow' \in Flow /\ flow'.at = 0
               /\ flow'.run = flow.run /\ flow'.fresh = flow.fresh
               /\ flow'.outcome = o
    <3>1. 0 \in 0 .. 15
      OBVIOUS
    <3> QED
      BY <1>1, <2>2, <3>1, Zenon DEF Flow
  <2>3. CASE flow.good /\ passed
    BY <1>4, <2>1, <2>2, <2>3 DEF Running
  <2>4. CASE ~(flow.good /\ passed)
    <3>1. flow' = [flow EXCEPT !.at = 0, !.outcome = "failed"]
      BY <2>1, <2>4, Zenon
    <3>2. flow' \in Flow /\ flow'.at = 0 /\ flow'.outcome = "failed"
          /\ flow'.run = flow.run /\ flow'.fresh = flow.fresh
      BY <2>2, <3>1
    <3> QED
      BY <1>4, <3>2 DEF Running
  <2> QED
    BY <2>3, <2>4
<1>5. flow.at < 15 \/ flow.at = 15
  BY <1>1
<1> QED
  BY <1>2, <1>3, <1>4, <1>5

LEMMA RecordsEvidence ==
    ASSUME Typed, NEW s \in Stages,
           NEW status \in {"pass", "fail", "torn"}, Records(s, status)
    PROVE  /\ evidence' \in [Stages -> Evidence]
           /\ evidence'[s] =
                [status |-> status, of |-> IF Running THEN flow.run ELSE 0]
           /\ \A q \in Stages \ {s} : evidence'[q] = evidence[q]
  BY DEF Typed, FlowTyped, Flow, Records, Evidence

LEMMA ConcludesEvidence ==
    ASSUME Typed, NEW s \in Stages, NEW passed \in BOOLEAN,
           Concludes(s, passed)
    PROVE  /\ evidence' \in [Stages -> Evidence]
           /\ \A q \in Stages \ {s} : evidence'[q] = evidence[q]
           /\ passed => evidence'[s] =
                [status |-> "pass", of |-> IF Running THEN flow.run ELSE 0]
           /\ ~passed =>
                \/ evidence'[s] = evidence[s]
                \/ /\ evidence'[s].of = IF Running THEN flow.run ELSE 0
                   /\ evidence'[s].status # "pass"
<1>1. CASE passed
  BY <1>1, RecordsEvidence DEF Concludes
<1>2. CASE ~passed /\ UNCHANGED evidence
  BY <1>2 DEF Typed
<1>3. CASE ~passed /\ (Records(s, "fail") \/ Records(s, "torn"))
  <2>1. PICK status \in {"fail", "torn"} : Records(s, status)
    BY <1>3
  <2> QED
    BY <1>3, <2>1, RecordsEvidence
<1> QED
  BY <1>1, <1>2, <1>3 DEF Concludes

-----------------------------------------------------------------------------
(***************************************************************************)
(* Types of what is in the run root.                                       *)
(***************************************************************************)
LEMMA DiskFields ==
    ASSUME disk \in Disk
    PROVE  /\ disk.preflight \in BOOLEAN /\ disk.made \in SUBSET Made
           /\ disk.pre \in SUBSET Made /\ disk.submission \in Nat
           /\ disk.terminal \in {"none", "DONE", "EXIT"}
           /\ disk.accounting \in Verdict /\ disk.raw \in Nat
           /\ disk.required.of \in Nat /\ disk.required.good \in BOOLEAN
           /\ disk.adHoc \in Nat /\ disk.reports \in Nat
           /\ disk.validation \in {"none", "pass", "fail"}
           /\ disk.post \in Inventory /\ disk.manifest \in Manifest
           /\ disk.receipt.status \in {"none", "pass", "fail", "torn"}
           /\ disk.receipt.current \in BOOLEAN
           /\ disk.opened \in BOOLEAN
  BY DEF Disk

LEMMA DiskWritten ==
    ASSUME disk \in Disk
    PROVE  /\ \A x \in BOOLEAN : [disk EXCEPT !.preflight = x] \in Disk
           /\ \A x \in SUBSET Made : [disk EXCEPT !.made = x] \in Disk
           /\ \A x \in SUBSET Made : [disk EXCEPT !.pre = x] \in Disk
           /\ \A x \in Nat : \A y \in {"none", "DONE", "EXIT"} :
                [disk EXCEPT !.submission = x, !.terminal = y] \in Disk
           /\ \A x \in {"none", "DONE", "EXIT"} :
                [disk EXCEPT !.terminal = x] \in Disk
           /\ \A x \in Verdict : [disk EXCEPT !.accounting = x] \in Disk
           /\ \A x \in Nat : [disk EXCEPT !.raw = x] \in Disk
           /\ \A x \in [of : Nat, good : BOOLEAN] :
                [disk EXCEPT !.required = x] \in Disk
           /\ \A x \in Nat : [disk EXCEPT !.adHoc = x] \in Disk
           /\ \A x \in Nat : [disk EXCEPT !.reports = x] \in Disk
           /\ \A x \in {"none", "pass", "fail"} :
                [disk EXCEPT !.validation = x] \in Disk
           /\ \A x \in Inventory : [disk EXCEPT !.post = x] \in Disk
           /\ \A x \in [status : {"none", "pass", "fail", "torn"},
                          current : BOOLEAN] :
                [disk EXCEPT !.receipt = x] \in Disk
           /\ [disk EXCEPT !.receipt.status = "torn"] \in Disk
           /\ [disk EXCEPT !.opened = TRUE] \in Disk
  BY Zenon DEF Disk
LEMMA DirectTyped == Direct \in Nat
  BY WorkflowAssumption DEF Direct

LEMMA WritesTyped ==
    ASSUME Typed, NEW s \in Stages, NEW passed \in BOOLEAN,
           Writes(s, passed)
    PROVE  disk' \in Disk
<1> USE DiskFields, DiskWritten DEF Typed
<1>1. Direct \in Nat /\ Products(disk) \in Nat \X Nat \X Nat
  <2>1. Direct \in Nat
    BY DirectTyped
  <2>2. disk.required.of \in Nat /\ disk.adHoc \in Nat /\ disk.reports \in Nat
    OBVIOUS
  <2> QED
    BY <2>1, <2>2 DEF Products
<1>2. CASE ~passed /\ UNCHANGED disk
  BY <1>2
<1>13. CASE disk' = [disk EXCEPT !.opened = TRUE]
  BY <1>13
<1>3. CASE disk' = [disk EXCEPT !.preflight = TRUE]
  BY <1>3
<1>4. CASE Copies(s)
  <2>1. PICK what \in Made : disk' = [disk EXCEPT !.made = @ \cup {what}]
    BY <1>4 DEF Copies, Made
  <2>2. disk.made \cup {what} \in SUBSET Made
    BY <2>1
  <2> QED
    BY <2>1, <2>2
<1>5. CASE disk' = [disk EXCEPT !.pre = disk.made \ {"directories"}]
  BY <1>5
<1>6. CASE disk' = [disk EXCEPT !.reports = disk.required.of]
  BY <1>6
<1>7. CASE disk' = [disk EXCEPT !.post = [raw |-> disk.raw,
                                          products |-> Products(disk)]]
  <2>1. [raw |-> disk.raw, products |-> Products(disk)] \in Inventory
    BY <1>1 DEF Inventory
  <2> QED
    BY <1>7, <2>1
<1>8. CASE \E v \in {"pass", "fail"} :
             disk' = [disk EXCEPT !.validation = v]
  BY <1>8
<1>9. CASE disk' = [disk EXCEPT !.accounting = [job |-> job,
                                                state |-> verdict]]
  <2>1. [job |-> job, state |-> verdict] \in Verdict
    BY DEF JobTyped, Verdict
  <2> QED
    BY <1>9, <2>1
<1>10. CASE disk' = [disk EXCEPT !.raw = Direct]
  BY <1>1, <1>10
<1>11. CASE \E good \in BOOLEAN :
         disk' = [disk EXCEPT !.required = [of |-> disk.raw, good |-> good]]
  <2>1. PICK good \in BOOLEAN :
          disk' = [disk EXCEPT !.required = [of |-> disk.raw, good |-> good]]
    BY <1>11
  <2>2. [of |-> disk.raw, good |-> good] \in [of : Nat, good : BOOLEAN]
    OBVIOUS
  <2> QED
    BY <2>1, <2>2
<1>12. CASE disk' = [disk EXCEPT !.adHoc = disk.raw]
  BY <1>12
<1> QED
  BY <1>2, <1>3, <1>4, <1>5, <1>6, <1>7, <1>8, <1>9, <1>10, <1>11, <1>12,
     <1>13
  DEF Writes

LEMMA WritesFields ==
    ASSUME Typed, NEW s \in Stages, NEW passed \in BOOLEAN,
           Writes(s, passed)
    PROVE  /\ disk'.submission = disk.submission
           /\ disk'.terminal = disk.terminal
           /\ disk'.manifest = disk.manifest
           /\ disk'.receipt = disk.receipt
           /\ \/ disk'.accounting = disk.accounting
              \/ /\ s = "collect_mock_lsf"
                 /\ disk'.accounting = [job |-> job, state |-> verdict]
           /\ disk'.raw = disk.raw \/ s = Payload
           /\ disk'.required.of = disk.required.of
                \/ (s = "extract_required" /\ disk'.required.of = disk.raw)
           /\ disk'.adHoc = disk.adHoc
                \/ (s = "extract_ad_hoc" /\ disk'.adHoc = disk.raw)
           /\ disk'.reports = disk.reports
                \/ (s = "build_reports" /\ disk'.reports = disk.required.of)
           /\ disk'.post = disk.post \/ s = "inventory_post"
           /\ disk'.validation = disk.validation \/ s = "validate"
<1> USE DEF Typed, Disk
<1>1. CASE ~passed /\ UNCHANGED disk
  BY <1>1, Zenon
<1>12. CASE disk' = [disk EXCEPT !.opened = TRUE]
  BY <1>12, Zenon
<1>2. CASE disk' = [disk EXCEPT !.preflight = TRUE]
  BY <1>2, Zenon
<1>3. CASE Copies(s)
  BY <1>3, Zenon DEF Copies
<1>4. CASE disk' = [disk EXCEPT !.pre = disk.made \ {"directories"}]
  BY <1>4, Zenon
<1>5. CASE s = "build_reports"
            /\ disk' = [disk EXCEPT !.reports = disk.required.of]
  BY <1>5, Zenon
<1>6. CASE s = "inventory_post" /\ \E x : disk' = [disk EXCEPT !.post = x]
  BY <1>6, Zenon
<1>7. CASE s = "validate" /\ \E x : disk' = [disk EXCEPT !.validation = x]
  BY <1>7, Zenon
<1>8. CASE s = "collect_mock_lsf"
            /\ disk' = [disk EXCEPT !.accounting = [job |-> job,
                                                   state |-> verdict]]
  BY <1>8, Zenon
<1>9. CASE s = Payload /\ disk' = [disk EXCEPT !.raw = Direct]
  BY <1>9, Zenon
<1>10. CASE s = "extract_required" /\ \E good \in BOOLEAN :
         disk' = [disk EXCEPT !.required = [of |-> disk.raw, good |-> good]]
  <2>1. PICK good \in BOOLEAN :
          disk' = [disk EXCEPT !.required = [of |-> disk.raw, good |-> good]]
    BY <1>10
  <2>2. /\ disk'.required = [of |-> disk.raw, good |-> good]
        /\ disk'.submission = disk.submission
        /\ disk'.terminal = disk.terminal /\ disk'.manifest = disk.manifest
        /\ disk'.receipt = disk.receipt
        /\ disk'.accounting = disk.accounting /\ disk'.raw = disk.raw
        /\ disk'.adHoc = disk.adHoc /\ disk'.reports = disk.reports
        /\ disk'.post = disk.post /\ disk'.validation = disk.validation
    BY <2>1, Zenon
  <2>3. disk'.required.of = disk.raw
    BY <2>2, SMT
  <2> QED
    BY <1>10, <2>2, <2>3, Zenon
<1>11. CASE s = "extract_ad_hoc" /\ disk' = [disk EXCEPT !.adHoc = disk.raw]
  BY <1>11, Zenon
<1> QED
  <2> HIDE DEF Typed, Disk
  <2> QED
    BY <1>1, <1>2, <1>3, <1>4, <1>5, <1>6, <1>7, <1>8, <1>9, <1>10, <1>11,
       <1>12
    DEF Writes

LEMMA WritesPassed ==
    ASSUME Typed, NEW s \in Stages, Writes(s, TRUE)
    PROVE  /\ s = "collect_mock_lsf" =>
                /\ disk'.accounting = [job |-> job, state |-> verdict]
                /\ verdict = "DONE"
           /\ s = "extract_required" => disk'.required.of = disk.raw
           /\ s = "extract_ad_hoc" => disk'.adHoc = disk.raw
           /\ s = "build_reports" => disk'.reports = disk.required.of
           /\ s = "validate" => disk'.validation = "pass"
           /\ s = "inventory_post" =>
                disk'.post = [raw |-> disk.raw, products |-> Products(disk)]
  BY StageNames DEF Writes, Copies, Typed, Disk

(***************************************************************************)
(* What a manifest or smoke target leaves alone.                           *)
(***************************************************************************)
WorkKept ==
    /\ disk'.submission = disk.submission /\ disk'.terminal = disk.terminal
    /\ disk'.accounting = disk.accounting /\ disk'.raw = disk.raw
    /\ disk'.required = disk.required /\ disk'.adHoc = disk.adHoc
    /\ disk'.reports = disk.reports /\ disk'.validation = disk.validation
    /\ disk'.post = disk.post /\ disk'.pre = disk.pre

LEMMA FinalTyped == ASSUME Typed PROVE FinalRecord \in Verdict
<1>1. disk.accounting \in Verdict /\ disk.terminal \in JobStates
      /\ job \in Nat /\ verdict \in JobStates
  BY DiskFields DEF Typed, JobTyped, JobStates
<1> QED
  BY <1>1 DEF FinalRecord, Verdict

LEMMA AssembledTyped ==
    ASSUME Typed
    PROVE  /\ Assembled \in Content /\ Whole \in Manifest
           /\ Whole.kind = "whole" /\ Whole.content = Assembled
<1>1. /\ evidence \in [Stages -> Evidence] /\ disk.pre \in SUBSET Made
      /\ disk.post \in Inventory
      /\ disk.validation \in {"none", "pass", "fail"}
      /\ disk.receipt.status \in {"none", "pass", "fail", "torn"}
  BY DiskFields DEF Typed
<1>2. Assembled \in Content
  BY <1>1, FinalTyped, Zenon DEF Assembled, Content
<1> QED
  BY <1>2 DEF Whole, Manifest

LEMMA NoContentTyped == NoContent \in Content
<1>1. NoEvidence \in Evidence /\ NoVerdict \in Verdict
      /\ NoInventory \in Inventory
  BY DEF NoEvidence, Evidence, NoVerdict, Verdict, JobStates, NoInventory,
         Inventory
<1>2. [q \in Stages |-> NoEvidence] \in [Stages -> Evidence]
  BY <1>1
<1> QED
  BY <1>1, <1>2, Zenon DEF NoContent, Content

LEMMA RewrittenFields ==
    ASSUME Typed, NEW m \in Manifest, disk' = Rewritten(m)
    PROVE  /\ disk' \in Disk /\ WorkKept
           /\ disk'.manifest = m
           /\ disk'.receipt.status = disk.receipt.status
           /\ disk'.receipt.current => disk.receipt.current
                                       /\ m = disk.manifest
<1> DEFINE now == disk.receipt.current /\ m = disk.manifest
<1>1. disk' = [disk EXCEPT !.manifest = m, !.receipt.current = now]
  BY Zenon DEF Rewritten
<1>2. now \in BOOLEAN
  OBVIOUS
<1>3. disk \in Disk
  BY DEF Typed
<1> HIDE DEF now
<1>4. disk' \in Disk
  <2>1. ASSUME NEW y \in BOOLEAN
        PROVE  [disk EXCEPT !.manifest = m, !.receipt.current = y] \in Disk
    BY <1>3, Zenon DEF Disk
  <2> QED
    BY <1>1, <1>2, <2>1, Zenon
<1>5. WorkKept /\ disk'.manifest = m
  BY <1>1, <1>3, Zenon DEF Disk, WorkKept
<1>6. disk'.receipt = [disk.receipt EXCEPT !.current = now]
  BY <1>1, <1>3, Zenon DEF Disk
<1>7. disk.receipt \in [status : {"none", "pass", "fail", "torn"},
                       current : BOOLEAN]
  BY <1>3 DEF Disk
<1>8. disk'.receipt.status = disk.receipt.status
  BY <1>6, <1>7, Zenon
<1>9. disk'.receipt.current = now
  BY <1>6, <1>7, Zenon
<1> QED
  BY <1>4, <1>5, <1>8, <1>9, Zenon DEF now

LEMMA ReceiptFields ==
    ASSUME Typed, NEW passed \in BOOLEAN, Receipt(passed)
    PROVE  /\ disk' \in Disk /\ WorkKept
           /\ disk'.manifest = disk.manifest
           /\ disk'.receipt.status = IF passed THEN "pass" ELSE "fail"
           /\ disk'.receipt.current
           /\ passed => disk'.receipt = [status |-> "pass", current |-> TRUE]
<1> DEFINE r == [status |-> IF passed THEN "pass" ELSE "fail",
                 current |-> TRUE]
<1>1. disk' = [disk EXCEPT !.receipt = r] /\ disk \in Disk
  BY DEF Receipt, Typed
<1>2. r \in [status : {"none", "pass", "fail", "torn"}, current : BOOLEAN]
  OBVIOUS
<1>3. disk' \in Disk
  <2> HIDE DEF r
  <2> QED
    BY <1>1, <1>2, DiskWritten
<1>4. WorkKept /\ disk'.manifest = disk.manifest /\ disk'.receipt = r
  <2> HIDE DEF r
  <2> QED
    BY <1>1, Zenon DEF Disk, WorkKept
<1>5. /\ disk'.receipt.status = IF passed THEN "pass" ELSE "fail"
      /\ disk'.receipt.current = TRUE
  BY <1>4
<1>6. passed => disk'.receipt = [status |-> "pass", current |-> TRUE]
  BY <1>4
<1> QED
  BY <1>3, <1>4, <1>5, <1>6, Zenon

LEMMA TornReceiptFields ==
    ASSUME Typed, disk' = [disk EXCEPT !.receipt.status = "torn"]
    PROVE  /\ disk' \in Disk /\ WorkKept
           /\ disk'.manifest = disk.manifest
           /\ disk'.receipt.status = "torn"
<1>1. disk \in Disk
  BY DEF Typed
<1>2. disk' \in Disk
  BY <1>1, DiskWritten
<1>3. WorkKept /\ disk'.manifest = disk.manifest
  BY <1>1, Zenon DEF Disk, WorkKept
<1>4. disk'.receipt = [disk.receipt EXCEPT !.status = "torn"]
  BY <1>1, Zenon DEF Disk
<1>5. disk.receipt \in [status : {"none", "pass", "fail", "torn"},
                       current : BOOLEAN]
  BY <1>1 DEF Disk
<1> QED
  BY <1>2, <1>3, <1>4, <1>5, Zenon

(***************************************************************************)
(* The playbook, when a longer target begins, when it is killed and when   *)
(* it starts.                                                              *)
(***************************************************************************)
LEMMA EntersFlow ==
    ASSUME FlowTyped, Enters
    PROVE  /\ flow' \in Flow /\ flow'.at = flow.at /\ flow'.run = flow.run
           /\ flow'.fresh = flow.fresh /\ flow'.good = flow.good
           /\ Running => flow' = flow
           /\ ~Running => flow'.outcome = "none"
<1>1. flow \in Flow
  BY DEF FlowTyped
<1>2. CASE Running
  BY <1>1, <1>2 DEF Enters
<1>3. CASE ~Running
  <2>1. flow' = [flow EXCEPT !.outcome = "none"]
    BY <1>3 DEF Enters
  <2> QED
    BY <1>1, <1>3, <2>1, Zenon DEF Flow
<1> QED
  BY <1>2, <1>3

LEMMA DiesFlow ==
    ASSUME FlowTyped, flow' = [flow EXCEPT !.at = 0, !.outcome = "failed"]
    PROVE  /\ flow' \in Flow /\ flow'.at = 0 /\ flow'.run = flow.run
           /\ flow'.fresh = flow.fresh /\ flow'.outcome = "failed"
<1>1. flow \in Flow /\ 0 \in 0 .. 15
  BY DEF FlowTyped
<1> QED
  BY <1>1, Zenon DEF Flow

Places == {"none", "wait", "assembled", "evidenced", "checked", "attempted",
           "refreshed"}

LEMMA TypedInit == Init => Typed
<1> SUFFICES ASSUME Init PROVE Typed
  OBVIOUS
<1>1. JobTyped
  BY DEF Init, Promise!Init, JobTyped, JobStates
<1>2. FlowTyped
  BY DEF Init, FlowTyped, Flow, Running
<1>3. evidence \in [Stages -> Evidence]
  BY DEF Init, NoEvidence, Evidence
<1>4. NoManifest \in Manifest
  BY NoContentTyped DEF NoManifest, Manifest
<1>5. NoVerdict \in Verdict /\ NoInventory \in Inventory
  BY DEF NoVerdict, Verdict, JobStates, NoInventory, Inventory
<1>6. Bare \in Disk
  BY <1>4, <1>5 DEF Bare, Disk, Made
<1> QED
  BY <1>1, <1>2, <1>3, <1>6 DEF Init, Typed

(***************************************************************************)
(* Targets of one step.                                                    *)
(***************************************************************************)
LEMMA TargetTyped ==
    ASSUME Typed, NEW s \in Stages, NEW passed \in BOOLEAN,
           Target(s, passed)
    PROVE  FlowTyped' /\ evidence' \in [Stages -> Evidence]
<1>1. evidence' \in [Stages -> Evidence]
  BY ConcludesEvidence DEF Target
<1>2. flow' \in Flow /\ (Running' => flow'.at # 0)
  BY EndsFlow DEF Target, Concludes, Typed
<1> QED
  BY <1>1, <1>2 DEF Target, FlowTyped, Typed

LEMMA SimpleTyped ==
    ASSUME Typed, Simple PROVE Typed'
<1>1. PICK s \in Stages, passed \in BOOLEAN : SimpleTarget(s, passed)
  BY SimpleIsOneStep
<1>2. FlowTyped' /\ evidence' \in [Stages -> Evidence] /\ disk' \in Disk
  BY <1>1, TargetTyped, WritesTyped DEF SimpleTarget
<1>3. JobTyped'
  BY <1>1 DEF SimpleTarget, Target, jobVars, Typed, JobTyped
<1> QED
  BY <1>2, <1>3 DEF Typed

LEMMA SubmitIsTarget ==
    ASSUME Typed, Submit
    PROVE  /\ \E passed \in BOOLEAN : Target("submit_mock_lsf", passed)
           /\ job' = job + 1 /\ verdict' = "RUN" /\ paid' = FALSE
           /\ disk' \in Disk
           /\ disk'.submission = job' /\ disk'.terminal = "none"
           /\ disk'.accounting = disk.accounting /\ disk'.raw = disk.raw
           /\ disk'.required = disk.required /\ disk'.adHoc = disk.adHoc
           /\ disk'.reports = disk.reports
           /\ disk'.validation = disk.validation
           /\ disk'.post = disk.post /\ disk'.pre = disk.pre
           /\ disk'.manifest = disk.manifest
           /\ disk'.receipt = disk.receipt
<1>1. disk' = [disk EXCEPT !.submission = job', !.terminal = "none"]
      /\ \E passed \in BOOLEAN : Target("submit_mock_lsf", passed)
  BY TargetOfSupport, StageNames DEF Submit
<1>2. job' = job + 1 /\ verdict' = "RUN" /\ paid' = FALSE
  BY DEF Submit, Promise!Submit
<1>3. job' \in Nat /\ disk \in Disk
  BY <1>2 DEF Typed, JobTyped
<1>4. disk' \in Disk
  BY <1>1, <1>3, DiskWritten
<1>5. /\ disk'.submission = job' /\ disk'.terminal = "none"
      /\ disk'.accounting = disk.accounting /\ disk'.raw = disk.raw
      /\ disk'.required = disk.required /\ disk'.adHoc = disk.adHoc
      /\ disk'.reports = disk.reports
      /\ disk'.validation = disk.validation
      /\ disk'.post = disk.post /\ disk'.pre = disk.pre
      /\ disk'.manifest = disk.manifest
      /\ disk'.receipt = disk.receipt
  BY <1>1, <1>3, Zenon DEF Disk
<1> QED
  BY <1>1, <1>2, <1>4, <1>5

LEMMA SubmitTyped ==
    ASSUME Typed, Submit PROVE Typed'
<1>1. FlowTyped' /\ evidence' \in [Stages -> Evidence] /\ disk' \in Disk
  BY SubmitIsTarget, TargetTyped, StageNames
<1>2. JobTyped'
  <2>1. earned' = earned
    BY SubmitIsTarget DEF Target
  <2>2. job' = job + 1 /\ verdict' = "RUN"
    BY SubmitIsTarget
  <2>3. paid' \in BOOLEAN
    BY SubmitIsTarget, Zenon
  <2> QED
    BY <2>1, <2>2, <2>3 DEF Typed, JobTyped, JobStates
<1> QED
  BY <1>1, <1>2 DEF Typed

(***************************************************************************)
(* The wrapper and the wait.                                               *)
(***************************************************************************)
LEMMA PayloadStep ==
    ASSUME Typed, PayloadPasses
    PROVE  /\ verdict = "RUN" /\ ~paid /\ disk.terminal = "none"
           /\ job' = job /\ verdict' = verdict /\ paid' = TRUE
           /\ reported' = reported /\ released' = released
           /\ earned' = earned \cup {job}
           /\ UNCHANGED <<flow, spent, busy>>
           /\ evidence' \in [Stages -> Evidence]
           /\ evidence'[Payload] = [status |-> "pass", of |-> job]
           /\ \A q \in Stages \ {Payload} : evidence'[q] = evidence[q]
           /\ disk' \in Disk /\ disk'.raw = job
           /\ disk'.submission = disk.submission
           /\ disk'.terminal = disk.terminal
           /\ disk'.accounting = disk.accounting
           /\ disk'.required = disk.required /\ disk'.adHoc = disk.adHoc
           /\ disk'.reports = disk.reports
           /\ disk'.validation = disk.validation
           /\ disk'.post = disk.post /\ disk'.pre = disk.pre
           /\ disk'.manifest = disk.manifest
           /\ disk'.receipt = disk.receipt
<1>1. disk' = [disk EXCEPT !.raw = job] /\ job \in Nat /\ disk \in Disk
  BY DEF PayloadPasses, Typed, JobTyped
<1>2. disk' \in Disk
  BY <1>1, DiskWritten
<1>3. /\ disk'.raw = job /\ disk'.submission = disk.submission
      /\ disk'.terminal = disk.terminal
      /\ disk'.accounting = disk.accounting
      /\ disk'.required = disk.required /\ disk'.adHoc = disk.adHoc
      /\ disk'.reports = disk.reports
      /\ disk'.validation = disk.validation
      /\ disk'.post = disk.post /\ disk'.pre = disk.pre
      /\ disk'.manifest = disk.manifest
      /\ disk'.receipt = disk.receipt
  BY <1>1, Zenon DEF Disk
<1>4. [status |-> "pass", of |-> job] \in Evidence /\ Payload \in Stages
  BY <1>1, StageNames DEF Evidence
<1>5. /\ evidence' \in [Stages -> Evidence]
      /\ evidence'[Payload] = [status |-> "pass", of |-> job]
      /\ \A q \in Stages \ {Payload} : evidence'[q] = evidence[q]
  BY <1>4 DEF PayloadPasses, PayloadEvidence, Typed
<1> QED
  BY <1>2, <1>3, <1>5 DEF PayloadPasses, Promise!Pass

LEMMA ReportStep ==
    ASSUME Typed, WrapperReports
    PROVE  /\ verdict = "RUN" /\ disk.terminal = "none"
           /\ UNCHANGED <<job, verdict, paid, reported, released, flow, busy,
                          earned>>
           /\ evidence' \in [Stages -> Evidence]
           /\ paid => evidence' = evidence
           /\ \A q \in Stages \ {Payload} : evidence'[q] = evidence[q]
           /\ disk' \in Disk
           /\ \/ disk'.terminal = "DONE" /\ paid
              \/ disk'.terminal = "EXIT" /\ ~paid
           /\ disk'.raw = disk.raw /\ disk'.submission = disk.submission
           /\ disk'.accounting = disk.accounting
           /\ disk'.required = disk.required /\ disk'.adHoc = disk.adHoc
           /\ disk'.reports = disk.reports
           /\ disk'.validation = disk.validation
           /\ disk'.post = disk.post /\ disk'.pre = disk.pre
           /\ disk'.manifest = disk.manifest
           /\ disk'.receipt = disk.receipt
<1>1. PICK t \in {"DONE", "EXIT"} :
        /\ disk' = [disk EXCEPT !.terminal = t]
        /\ \/ t = "DONE" /\ paid
           \/ t = "EXIT" /\ ~paid
  BY DEF WrapperReports
<1>2. disk \in Disk /\ disk' \in Disk
  BY <1>1, DiskWritten DEF Typed
<1>3. /\ disk'.terminal = t
      /\ disk'.raw = disk.raw /\ disk'.submission = disk.submission
      /\ disk'.accounting = disk.accounting
      /\ disk'.required = disk.required /\ disk'.adHoc = disk.adHoc
      /\ disk'.reports = disk.reports
      /\ disk'.validation = disk.validation
      /\ disk'.post = disk.post /\ disk'.pre = disk.pre
      /\ disk'.manifest = disk.manifest
      /\ disk'.receipt = disk.receipt
  BY <1>1, <1>2, Zenon DEF Disk
<1>4. [status |-> "fail", of |-> job] \in Evidence /\ Payload \in Stages
  BY StageNames DEF Evidence, Typed, JobTyped
<1>5. /\ evidence' \in [Stages -> Evidence]
      /\ paid => evidence' = evidence
      /\ \A q \in Stages \ {Payload} : evidence'[q] = evidence[q]
  BY <1>4 DEF WrapperReports, PayloadEvidence, Typed
<1> QED
  BY <1>1, <1>2, <1>3, <1>5 DEF WrapperReports, jobVars

LEMMA WrapperTyped ==
    ASSUME Typed, WrapperStep PROVE Typed'
<1>1. CASE PayloadPasses
  BY <1>1, PayloadStep DEF Typed, JobTyped, FlowTyped, Running
<1>2. CASE WrapperReports
  BY <1>2, ReportStep DEF Typed, JobTyped, FlowTyped, Running
<1>3. CASE WrapperSettles
  <2>1. verdict' \in JobStates
    BY <1>3 DEF WrapperSettles, Promise!Settle, JobStates
  <2> QED
    BY <1>3, <2>1
    DEF WrapperSettles, Promise!Settle, Typed, JobTyped, FlowTyped, Running
<1> QED
  BY <1>1, <1>2, <1>3 DEF WrapperStep

WaitStep == WaitBegins \/ WaitExpires \/ WaitFindsNobody \/ WaitReports

LEMMA WaitConcludes ==
    ASSUME Typed, BusyPlaces, WaitReports
    PROVE  \E passed \in BOOLEAN :
             /\ Concludes("wait_mock_lsf", passed)
             /\ passed => verdict = "DONE"
<1>1. Running => Order[flow.at] = "wait_mock_lsf"
  BY OrderOfTargets DEF BusyPlaces, WaitReports
<1>2. CASE verdict = "DONE" /\ Records("wait_mock_lsf", "pass") /\ Ends(TRUE)
  BY <1>1, <1>2, StageNames DEF Concludes
<1>3. CASE /\ Ends(FALSE)
           /\ \/ UNCHANGED evidence \/ Records("wait_mock_lsf", "fail")
              \/ Records("wait_mock_lsf", "torn")
  BY <1>1, <1>3, StageNames DEF Concludes
<1> QED
  BY <1>2, <1>3 DEF WaitReports

LEMMA WaitTyped ==
    ASSUME Typed, BusyPlaces, WaitStep PROVE Typed'
<1>1. CASE WaitBegins
  BY <1>1, EntersFlow
  DEF WaitBegins, jobVars, Typed, JobTyped, FlowTyped, Running
<1>2. CASE WaitExpires
  BY <1>2 DEF WaitExpires, Promise!Expire, Typed, JobTyped, FlowTyped,
              Running, JobStates
<1>3. CASE WaitFindsNobody
  BY <1>3 DEF WaitFindsNobody, Promise!Settle, Typed, JobTyped, FlowTyped,
              Running, JobStates
<1>4. CASE WaitReports
  <2>1. PICK passed \in BOOLEAN : Concludes("wait_mock_lsf", passed)
    BY <1>4, WaitConcludes
  <2>2. evidence' \in [Stages -> Evidence]
    BY <2>1, ConcludesEvidence DEF Concludes
  <2>3. flow' \in Flow /\ (Running' => flow'.at # 0)
    BY <2>1, EndsFlow DEF Concludes, Typed
  <2> QED
    BY <1>4, <2>2, <2>3
    DEF WaitReports, Promise!Report, Typed, JobTyped, FlowTyped
<1> QED
  BY <1>1, <1>2, <1>3, <1>4 DEF WaitStep
(***************************************************************************)
(* The manifest and smoke targets, and kills.                              *)
(***************************************************************************)
DocStep ==
    \/ ManifestAssemble \/ ManifestEvidence \/ ManifestReassemble
    \/ SmokeCheck \/ SmokeEvidence \/ SmokeRefresh \/ SmokeReceipt
    \/ ReassemblyRaises \/ Tears \/ Stops \/ PlaybookDies

LEMMA AssembleFields ==
    ASSUME Typed, NEW from, NEW to, Assemble(from, to)
    PROVE  /\ disk' \in Disk /\ WorkKept /\ disk'.manifest = Whole
           /\ disk'.receipt.status = disk.receipt.status
           /\ disk'.receipt.current => disk.receipt.current
                                       /\ Whole = disk.manifest
           /\ busy = from /\ busy' = to
           /\ UNCHANGED <<jobVars, evidence, earned>>
  BY AssembledTyped, RewrittenFields DEF Assemble

LEMMA SmokeChecked ==
    ASSUME Typed, SmokeCheck
    PROVE  /\ disk' \in Disk /\ WorkKept
           /\ disk'.manifest = disk.manifest
           /\ \/ disk' = disk /\ Passes(disk.manifest)
                /\ busy' = "checked" /\ Enters
              \/ disk'.receipt.status = "fail" /\ busy' = busy /\ Ends(FALSE)
  <1>1. CASE Passes(disk.manifest) /\ UNCHANGED disk
    BY <1>1 DEF SmokeCheck, WorkKept, Typed
  <1>2. CASE Receipt(FALSE)
    BY <1>2, ReceiptFields DEF SmokeCheck
  <1> QED
    BY <1>1, <1>2 DEF SmokeCheck

LEMMA SmokeReceived ==
    ASSUME Typed, SmokeReceipt
    PROVE  /\ disk' \in Disk /\ WorkKept
           /\ disk'.manifest = disk.manifest
           /\ \/ /\ Passes(disk.manifest) /\ Ends(TRUE)
                /\ disk'.receipt = [status |-> "pass", current |-> TRUE]
              \/ /\ ~Passes(disk.manifest) /\ Ends(FALSE)
                /\ disk'.receipt.status = "fail"
<1>1. Passes(disk.manifest) \in BOOLEAN
  BY DEF Passes
<1>2. CASE Passes(disk.manifest)
  <2>1. Receipt(TRUE) /\ Ends(TRUE)
    BY <1>2, Zenon DEF SmokeReceipt, Receipt, Ends
  <2> QED
    BY <1>2, <2>1, ReceiptFields
<1>3. CASE ~Passes(disk.manifest)
  <2>1. Receipt(FALSE) /\ Ends(FALSE)
    BY <1>3, Zenon DEF SmokeReceipt, Receipt, Ends
  <2> QED
    BY <1>3, <2>1, ReceiptFields
<1> QED
  BY <1>2, <1>3

LEMMA TornManifest ==
    ASSUME Typed, TearsManifest
    PROVE  /\ disk' \in Disk /\ WorkKept
           /\ disk'.manifest.kind \in {"unreadable", "partial"}
           /\ disk'.receipt.status = disk.receipt.status
           /\ disk'.receipt.current => disk.receipt.current
                                        /\ disk'.manifest = disk.manifest
<1>1. PICK kind \in {"unreadable", "partial"} :
        disk' = Rewritten([kind |-> kind, content |-> NoContent])
  BY DEF TearsManifest
<1> DEFINE m == [kind |-> kind, content |-> NoContent]
<1>2. m \in Manifest /\ m.kind = kind
  BY NoContentTyped DEF Manifest
<1>3. disk' = Rewritten(m)
  BY <1>1
<1> HIDE DEF m
<1> QED
  BY <1>2, <1>3, RewrittenFields

LEMMA Stopped ==
    ASSUME Typed, Stops \/ Tears
    PROVE  /\ disk' \in Disk /\ WorkKept
           /\ busy' = "none" /\ Ends(FALSE) /\ UNCHANGED <<jobVars, earned>>
           /\ \/ UNCHANGED evidence
              \/ Records("manifest", "torn")
              \/ Records("manifest_smoke", "torn")
           /\ \/ disk' = disk
              \/ /\ disk'.manifest.kind \in {"unreadable", "partial"}
                 /\ disk'.receipt.status = disk.receipt.status
                 /\ disk'.receipt.current => disk.receipt.current
                                        /\ disk'.manifest = disk.manifest
              \/ /\ disk'.manifest = disk.manifest
                 /\ disk'.receipt.status = "torn"
<1>1. /\ busy' = "none" /\ Ends(FALSE) /\ UNCHANGED <<jobVars, earned>>
      /\ \/ UNCHANGED evidence
         \/ Records("manifest", "torn")
         \/ Records("manifest_smoke", "torn")
      /\ UNCHANGED disk \/ TearsManifest \/ TearsReceipt
  BY DEF Stops, Tears, Begins, Takes
<1>2. CASE UNCHANGED disk
  BY <1>1, <1>2 DEF WorkKept, Typed
<1>3. CASE TearsManifest
  BY <1>1, <1>3, TornManifest
<1>4. CASE TearsReceipt
  BY <1>1, <1>4, TornReceiptFields DEF TearsReceipt
<1> QED
  BY <1>1, <1>2, <1>3, <1>4

LEMMA DocKeeps ==
    ASSUME Typed, DocStep
    PROVE  /\ UNCHANGED <<jobVars, earned>> /\ disk' \in Disk /\ WorkKept
           /\ flow' \in Flow /\ (Running' => flow'.at # 0)
           /\ flow'.run = flow.run /\ flow'.fresh = flow.fresh
           /\ flow'.outcome = "running" => Running
           /\ ~Running => flow'.outcome = "none" \/ flow' = flow
           /\ evidence' \in [Stages -> Evidence]
           /\ \A q \in Stages \ {"manifest", "manifest_smoke"} :
                evidence'[q] = evidence[q]
           /\ \A q \in Stages :
                \/ evidence'[q] = evidence[q]
                \/ evidence'[q].of = IF Running THEN flow.run ELSE 0
           /\ busy' \in Places
<1> USE DEF Typed, FlowTyped, Places
<1>1. ASSUME NEW b \in BOOLEAN, Ends(b)
      PROVE  /\ flow' \in Flow /\ (Running' => flow'.at # 0)
             /\ flow'.run = flow.run /\ flow'.fresh = flow.fresh
             /\ flow'.outcome = "running" => Running
             /\ ~Running => flow'.outcome = "none"
  BY <1>1, EndsFlow DEF Running
<1>2. UNCHANGED disk => disk' \in Disk /\ WorkKept
  BY DEF WorkKept
<1>3. UNCHANGED evidence =>
        /\ evidence' \in [Stages -> Evidence]
        /\ \A q \in Stages : evidence'[q] = evidence[q]
  OBVIOUS
<1>4. CASE ManifestAssemble
  BY <1>3, <1>4, AssembleFields, EntersFlow DEF ManifestAssemble, Running
<1>5. CASE ManifestEvidence
  BY <1>2, <1>5, RecordsEvidence, StageNames DEF ManifestEvidence, Running
<1>6. CASE ManifestReassemble
  BY <1>1, <1>3, <1>6, AssembleFields DEF ManifestReassemble
<1>7. CASE SmokeCheck
  BY <1>1, <1>3, <1>7, SmokeChecked, EntersFlow DEF SmokeCheck, Running
<1>8. CASE SmokeEvidence
  BY <1>2, <1>8, RecordsEvidence, StageNames DEF SmokeEvidence, Running
<1>9. CASE SmokeRefresh
  BY <1>3, <1>9, AssembleFields DEF SmokeRefresh, Running
<1>10. CASE SmokeReceipt
  BY <1>1, <1>3, <1>10, SmokeReceived DEF SmokeReceipt
<1>11. CASE ReassemblyRaises
  BY <1>1, <1>2, <1>3, <1>11 DEF ReassemblyRaises
<1>12. CASE Stops \/ Tears
  <2>1. /\ evidence' \in [Stages -> Evidence]
        /\ \A q \in Stages \ {"manifest", "manifest_smoke"} :
             evidence'[q] = evidence[q]
        /\ \A q \in Stages :
             \/ evidence'[q] = evidence[q]
             \/ evidence'[q].of = IF Running THEN flow.run ELSE 0
    <3>1. CASE UNCHANGED evidence
      BY <1>3, <3>1
    <3>2. ASSUME NEW q \in {"manifest", "manifest_smoke"},
                 Records(q, "torn")
          PROVE  /\ evidence' \in [Stages -> Evidence]
                 /\ \A z \in Stages \ {q} : evidence'[z] = evidence[z]
                 /\ evidence'[q].of = IF Running THEN flow.run ELSE 0
      BY <3>2, RecordsEvidence, StageNames
    <3> QED
      BY <1>12, <3>1, <3>2, Stopped
  <2> QED
    BY <1>1, <1>12, <2>1, Stopped
<1>13. CASE PlaybookDies
  BY <1>2, <1>3, <1>13, DiesFlow DEF PlaybookDies, Running
<1> QED
  BY <1>4, <1>5, <1>6, <1>7, <1>8, <1>9, <1>10, <1>11, <1>12, <1>13
  DEF DocStep

LEMMA DocTyped ==
    ASSUME Typed, DocStep PROVE Typed'
  BY DocKeeps DEF Typed, JobTyped, FlowTyped, Places, jobVars

LEMMA StartTyped ==
    ASSUME Typed, StartPlaybook
    PROVE  /\ Typed' /\ ~Running /\ busy = "none"
           /\ flow'.at = 1 /\ flow'.run = flow.run + 1 /\ flow'.good = TRUE
           /\ flow'.outcome = "running"
           /\ UNCHANGED <<jobVars, busy, evidence, disk, earned>>
<1>1. flow.run \in Nat
  BY DEF Typed, FlowTyped, Flow
<1>2. PICK policy \in BOOLEAN :
        flow' = [at |-> 1, run |-> flow.run + 1, fresh |-> policy,
                 good |-> TRUE, outcome |-> "running"]
  BY DEF StartPlaybook
<1>3. flow' \in Flow
  <2>1. 1 \in 0 .. 15 /\ flow.run + 1 \in Nat
    BY <1>1
  <2> QED
    BY <1>2, <2>1, Zenon DEF Flow
<1> QED
  BY <1>2, <1>3
  DEF StartPlaybook, jobVars, Typed, JobTyped, FlowTyped, Running

LEMMA StepsOfRun ==
    Next <=> \/ Simple \/ Submit \/ WrapperStep \/ WaitStep \/ DocStep
             \/ StartPlaybook
  BY DEF Next, TargetStep, FaultStep, Simple, WaitStep, DocStep
-----------------------------------------------------------------------------
(***************************************************************************)
(* A target of several steps is where the playbook is.                     *)
(***************************************************************************)
LEMMA TakesAt ==
    ASSUME Typed, Running, NEW s, NEW n, Takes(s, n)
    PROVE  flow.at \in 1 .. 15 /\ Order[flow.at] = s
<1>1. flow.at \in 0 .. 15 /\ flow.at # 0
  BY DEF Typed, FlowTyped, Flow
<1> QED
  BY <1>1 DEF Takes

LEMMA TakesWhere ==
    ASSUME Typed, Running, NEW s, NEW n, Takes(s, n)
    PROVE  /\ s = "wait_mock_lsf" => flow.at = 7
           /\ s = "manifest" => flow.at = 14
           /\ s = "manifest_smoke" => flow.at = 15
<1>1. flow.at \in 1 .. 15 /\ Order[flow.at] = s
  BY TakesAt
<1> QED
  BY <1>1, OrderOfTargets

LEMMA BusyStep ==
    ASSUME Typed, BusyPlaces, Next PROVE BusyPlaces'
<1>1. CASE Simple
  BY <1>1, SimpleIsOneStep DEF SimpleTarget, Target, BusyPlaces
<1>2. CASE Submit
  BY <1>2, SubmitIsTarget DEF Target, BusyPlaces
<1>3. CASE WrapperStep
  BY <1>3
  DEF WrapperStep, PayloadPasses, WrapperReports, WrapperSettles, BusyPlaces,
      Running
<1>4. CASE WaitBegins
  BY <1>4, EntersFlow, TakesWhere
  DEF WaitBegins, Begins, BusyPlaces, Running, Typed
<1>5. CASE WaitExpires \/ WaitFindsNobody \/ WaitReports
  BY <1>5
  DEF WaitExpires, WaitFindsNobody, WaitReports, BusyPlaces, Running
<1>6. CASE ManifestAssemble
  BY <1>6, EntersFlow, TakesWhere
  DEF ManifestAssemble, Assemble, Begins, BusyPlaces, Running, Typed
<1>7. CASE SmokeCheck
  BY <1>7, EntersFlow, TakesWhere
  DEF SmokeCheck, Begins, Takes, BusyPlaces, Running, Typed
<1>8. CASE ManifestEvidence \/ SmokeEvidence \/ SmokeRefresh
  BY <1>8
  DEF ManifestEvidence, SmokeEvidence, SmokeRefresh, Assemble, BusyPlaces,
      Running
<1>9. CASE \/ ManifestReassemble \/ SmokeReceipt \/ ReassemblyRaises
           \/ Tears \/ Stops \/ PlaybookDies
  BY <1>9
  DEF ManifestReassemble, Assemble, SmokeReceipt, ReassemblyRaises, Tears,
      Begins, Takes, Stops, PlaybookDies, BusyPlaces
<1>10. CASE StartPlaybook
  BY <1>10, StartTyped DEF BusyPlaces
<1> QED
  BY <1>1, <1>2, <1>3, <1>4, <1>5, <1>6, <1>7, <1>8, <1>9, <1>10, StepsOfRun
  DEF WaitStep, DocStep

LEMMA TypedStep ==
    ASSUME Typed, BusyPlaces, Next PROVE Typed'
  BY SimpleTyped, SubmitTyped, WrapperTyped, WaitTyped, DocTyped, StartTyped,
     StepsOfRun

-----------------------------------------------------------------------------
(***************************************************************************)
(* Only a passed payload makes a DONE.                                     *)
(***************************************************************************)
LEMMA EarnedStep ==
    ASSUME Typed, BusyPlaces, EarnedByJobs, DoneIsEarned, Next
    PROVE  EarnedByJobs' /\ DoneIsEarned'
<1> USE DEF EarnedByJobs, DoneIsEarned, ManifestDoneIsEarned
<1>0. job \in Nat /\ paid \in BOOLEAN /\ earned \in SUBSET Nat
  BY DEF Typed, JobTyped
<1>1. CASE Simple
  <2>1. PICK s \in Stages, passed \in BOOLEAN : SimpleTarget(s, passed)
    BY <1>1, SimpleIsOneStep
  <2>2. UNCHANGED <<job, verdict, paid, earned>>
    BY <2>1 DEF SimpleTarget, Target, jobVars
  <2>3. /\ disk'.submission = disk.submission
        /\ disk'.terminal = disk.terminal
        /\ disk'.manifest = disk.manifest
        /\ \/ disk'.accounting = disk.accounting
           \/ disk'.accounting = [job |-> job, state |-> verdict]
    BY <2>1, WritesFields DEF SimpleTarget
  <2> QED
    BY <1>0, <2>2, <2>3
<1>2. CASE Submit
  <2>1. earned' = earned
    BY <1>2, SubmitIsTarget DEF Target
  <2>2. job + 1 \notin earned /\ earned \subseteq 1 .. (job + 1)
    BY <1>0
  <2>3. ~paid'
    BY <1>2, SubmitIsTarget, Zenon
  <2>4. /\ job' = job + 1 /\ verdict' = "RUN" /\ disk'.submission = job'
        /\ disk'.terminal = "none" /\ disk'.accounting = disk.accounting
        /\ disk'.manifest = disk.manifest
    BY <1>2, SubmitIsTarget
  <2> QED
    BY <1>0, <2>1, <2>2, <2>3, <2>4
<1>3. CASE PayloadPasses
  <2>1. /\ verdict = "RUN" /\ job' = job /\ verdict' = verdict
        /\ earned' = earned \cup {job}
        /\ disk'.submission = disk.submission
        /\ disk'.terminal = disk.terminal
        /\ disk'.accounting = disk.accounting
        /\ disk'.manifest = disk.manifest
    BY <1>3, PayloadStep
  <2>2. paid'
    BY <1>3, PayloadStep, Zenon
  <2> QED
    BY <1>0, <2>1, <2>2
<1>4. CASE WrapperReports
  <2>1. /\ verdict = "RUN"
        /\ UNCHANGED <<job, verdict, paid, earned>>
        /\ disk'.terminal = "DONE" => paid
        /\ disk'.submission = disk.submission
        /\ disk'.accounting = disk.accounting
        /\ disk'.manifest = disk.manifest
    BY <1>4, ReportStep
  <2> QED
    BY <1>0, <2>1
<1>5. ASSUME UNCHANGED <<job, paid, earned, disk>>,
             verdict' = "DONE" => paid,
             verdict' = "RUN" => verdict = "RUN"
      PROVE  EarnedByJobs' /\ DoneIsEarned'
  BY <1>5
<1>6. CASE WrapperSettles \/ WaitStep \/ StartPlaybook
  <2>1. CASE WrapperSettles
    BY <1>5, <2>1 DEF WrapperSettles, Promise!Settle
  <2>2. CASE WaitBegins
    BY <1>5, <2>2 DEF WaitBegins, jobVars
  <2>3. CASE WaitExpires
    BY <1>5, <2>3 DEF WaitExpires, Promise!Expire
  <2>4. CASE WaitFindsNobody
    BY <1>5, <2>4 DEF WaitFindsNobody, Promise!Settle
  <2>5. CASE WaitReports
    BY <1>5, <2>5 DEF WaitReports, Promise!Report
  <2>6. CASE StartPlaybook
    BY <1>5, <2>6 DEF StartPlaybook, jobVars
  <2> QED
    BY <1>6, <2>1, <2>2, <2>3, <2>4, <2>5, <2>6 DEF WaitStep
<1>7. CASE DocStep
  <2>1. /\ UNCHANGED <<job, verdict, paid, earned>>
        /\ disk'.submission = disk.submission
        /\ disk'.terminal = disk.terminal
        /\ disk'.accounting = disk.accounting
    BY <1>7, DocKeeps DEF jobVars, WorkKept
  <2>2. Whole.content.final.state = "DONE" =>
          Whole.content.final.job \in earned
    <3>1. FinalRecord.state = "DONE" => FinalRecord.job \in earned
      BY <1>0 DEF FinalRecord
    <3> QED
      BY <3>1 DEF Whole, Assembled
  <2>3. \/ disk'.manifest = disk.manifest \/ disk'.manifest = Whole
        \/ disk'.manifest.kind \in {"unreadable", "partial"}
    BY <1>7, AssembleFields, SmokeChecked, SmokeReceived, Stopped
    DEF DocStep, ManifestAssemble, ManifestReassemble, SmokeRefresh,
        ManifestEvidence, SmokeEvidence, ReassemblyRaises, PlaybookDies
  <2> HIDE DEF Whole
  <2> QED
    BY <2>1, <2>2, <2>3
<1> QED
  BY <1>1, <1>2, <1>3, <1>4, <1>5, <1>6, <1>7, StepsOfRun
  DEF WrapperStep

(***************************************************************************)
(* A passing receipt is given to a manifest that lists the smoke check.    *)
(***************************************************************************)
LEMMA ReceiptStep ==
    ASSUME Typed, BusyPlaces, SmokeUnderWay, ReceiptCoversManifest, Next
    PROVE  SmokeUnderWay' /\ ReceiptCoversManifest'
<1> USE DEF SmokeUnderWay, ReceiptCoversManifest
<1>1. ASSUME busy' \notin {"attempted", "refreshed"},
             disk'.manifest = disk.manifest, disk'.receipt = disk.receipt
      PROVE  SmokeUnderWay' /\ ReceiptCoversManifest'
  BY <1>1
<1>2. ASSUME UNCHANGED busy, disk'.manifest = disk.manifest,
             disk'.receipt = disk.receipt,
             evidence'["manifest_smoke"] = evidence["manifest_smoke"]
      PROVE  SmokeUnderWay' /\ ReceiptCoversManifest'
  BY <1>2
<1>3. CASE Simple
  <2>1. PICK s \in Stages, passed \in BOOLEAN : SimpleTarget(s, passed)
    BY <1>3, SimpleIsOneStep
  <2> QED
    BY <1>1, <2>1, WritesFields DEF SimpleTarget, Target
<1>4. CASE Submit
  BY <1>1, <1>4, SubmitIsTarget DEF Target
<1>5. CASE WrapperStep
  <2>1. UNCHANGED busy /\ disk'.manifest = disk.manifest
        /\ disk'.receipt = disk.receipt
    BY <1>5, PayloadStep, ReportStep DEF WrapperStep, WrapperSettles
  <2>2. evidence'["manifest_smoke"] = evidence["manifest_smoke"]
    BY <1>5, PayloadStep, ReportStep, StageNames
    DEF WrapperStep, WrapperSettles
  <2> QED
    BY <1>2, <2>1, <2>2
<1>6. CASE WaitStep
  BY <1>1, <1>6
  DEF WaitStep, WaitBegins, WaitExpires, WaitFindsNobody, WaitReports
<1>7. CASE StartPlaybook
  BY <1>1, <1>7, StartTyped
<1>8. disk.receipt =
        [status |-> disk.receipt.status, current |-> disk.receipt.current]
  BY DEF Typed, Disk
<1>9. ASSUME disk'.receipt.status = disk.receipt.status,
             disk'.receipt.current => disk.receipt.current
                                        /\ disk'.manifest = disk.manifest
      PROVE  ReceiptCoversManifest'
  <2> SUFFICES ASSUME disk'.receipt = [status |-> "pass", current |-> TRUE]
               PROVE  /\ disk.receipt = [status |-> "pass", current |-> TRUE]
                      /\ disk'.manifest = disk.manifest
    OBVIOUS
  <2>1. disk'.receipt.status = "pass" /\ disk'.receipt.current = TRUE
    OBVIOUS
  <2>2. disk.receipt.current /\ disk'.manifest = disk.manifest
    BY <1>9, <2>1, Zenon
  <2>3. disk.receipt.current = TRUE
    BY <2>2, DiskFields, Zenon DEF Typed
  <2> QED
    BY <1>8, <1>9, <2>1, <2>2, <2>3, Zenon
<1>10. CASE ManifestAssemble \/ ManifestReassemble
  <2>1. ReceiptCoversManifest'
    BY <1>9, <1>10, AssembleFields DEF ManifestAssemble, ManifestReassemble
  <2>2. busy' \in {"assembled", "none"}
    BY <1>10 DEF ManifestAssemble, ManifestReassemble, Assemble
  <2> QED
    BY <2>1, <2>2
<1>11. CASE ManifestEvidence
  BY <1>1, <1>11 DEF ManifestEvidence
<1>12. CASE SmokeCheck
  <2>1. busy' \in {"checked", "none"} /\ disk'.manifest = disk.manifest
    BY <1>12, SmokeChecked DEF SmokeCheck, Begins, Takes
  <2>2. disk' = disk \/ disk'.receipt.status = "fail"
    BY <1>12, SmokeChecked
  <2> QED
    BY <2>1, <2>2
<1>13. CASE SmokeEvidence
  <2>1. evidence'["manifest_smoke"].status = "pass"
    BY <1>13, RecordsEvidence, StageNames DEF SmokeEvidence
  <2> QED
    BY <1>13, <2>1 DEF SmokeEvidence
<1>14. CASE SmokeRefresh
  <2>1. /\ disk'.manifest = Whole /\ evidence' = evidence
        /\ busy = "attempted" /\ busy' = "refreshed"
    BY <1>14, AssembleFields DEF SmokeRefresh
  <2>2. ReceiptCoversManifest'
    BY <1>9, <1>14, AssembleFields DEF SmokeRefresh
  <2>3. Whole.content.stages = evidence
    BY DEF Whole, Assembled
  <2> QED
    BY <2>1, <2>2, <2>3
<1>15. CASE SmokeReceipt
  <2>1. /\ busy = "refreshed" /\ busy' = "none"
        /\ disk'.manifest = disk.manifest
        /\ Passes(disk.manifest) \/ disk'.receipt.status = "fail"
    BY <1>15, SmokeReceived DEF SmokeReceipt
  <2> QED
    BY <2>1 DEF Passes
<1>16. CASE ReassemblyRaises \/ PlaybookDies
  BY <1>1, <1>16 DEF ReassemblyRaises, PlaybookDies
<1>17. CASE Stops \/ Tears
  <2>1. busy' = "none"
    BY <1>17, Stopped
  <2>2. CASE disk' = disk
    BY <1>1, <2>1, <2>2
  <2>3. CASE disk'.receipt.status = "torn"
    BY <2>1, <2>3
  <2>4. CASE /\ disk'.receipt.status = disk.receipt.status
             /\ disk'.receipt.current => disk.receipt.current
                                        /\ disk'.manifest = disk.manifest
    BY <1>9, <2>1, <2>4
  <2> QED
    BY <1>17, <2>2, <2>3, <2>4, Stopped
<1> QED
  BY <1>3, <1>4, <1>5, <1>6, <1>7, <1>10, <1>11, <1>12, <1>13, <1>14, <1>15,
     <1>16, <1>17, StepsOfRun
  DEF DocStep

(***************************************************************************)
(* The part of the invariant that holds whatever is run in which order.    *)
(***************************************************************************)
AnyOrderInv ==
    /\ Typed /\ BusyPlaces
    /\ EarnedByJobs /\ DoneIsEarned
    /\ SmokeUnderWay /\ ReceiptCoversManifest

LEMMA AnyOrderInit == Init => AnyOrderInv
<1> SUFFICES ASSUME Init PROVE AnyOrderInv
  OBVIOUS
<1>1. Typed
  BY TypedInit
<1>2. /\ disk.terminal = "none" /\ disk.accounting.state = "none"
      /\ disk.manifest.kind = "none" /\ disk.receipt.status = "none"
  BY DEF Init, Bare, NoVerdict, NoManifest
<1> QED
  BY <1>1, <1>2
  DEF Init, Promise!Init, AnyOrderInv, BusyPlaces, EarnedByJobs,
      DoneIsEarned, ManifestDoneIsEarned, SmokeUnderWay,
      ReceiptCoversManifest, Running

LEMMA AnyOrderStep == AnyOrderInv /\ [Next]_vars => AnyOrderInv'
<1>1. ASSUME AnyOrderInv, Next PROVE AnyOrderInv'
  BY <1>1, TypedStep, BusyStep, EarnedStep, ReceiptStep DEF AnyOrderInv
<1>2. ASSUME AnyOrderInv, UNCHANGED vars PROVE AnyOrderInv'
  BY <1>2
  DEF vars, jobVars, AnyOrderInv, Typed, JobTyped, FlowTyped, BusyPlaces,
      EarnedByJobs, DoneIsEarned, ManifestDoneIsEarned, SmokeUnderWay,
      ReceiptCoversManifest, Running
<1> QED
  BY <1>1, <1>2

(***************************************************************************)
(* Targets in any order and any number, killed anywhere, keep the evidence *)
(* files, the manifest and the receipt in step.                            *)
(***************************************************************************)
THEOREM AnyOrderInvariant == Spec => []AnyOrderInv
  BY AnyOrderInit, AnyOrderStep, PTL DEF Spec

(***************************************************************************)
(* A manifest says DONE only of a job whose payload has passed.            *)
(***************************************************************************)
THEOREM ManifestStaysEarned == Spec => []ManifestDoneIsEarned
<1>1. AnyOrderInv => ManifestDoneIsEarned
  BY DEF AnyOrderInv, DoneIsEarned
<1> QED
  BY <1>1, AnyOrderInvariant, PTL

(***************************************************************************)
(* A passing receipt that matches the manifest is about one that is whole  *)
(* and lists the smoke check itself.                                       *)
(***************************************************************************)
THEOREM ReceiptStaysTrue == Spec => []ReceiptCoversManifest
<1>1. AnyOrderInv => ReceiptCoversManifest
  BY DEF AnyOrderInv
<1> QED
  BY <1>1, AnyOrderInvariant, PTL
-----------------------------------------------------------------------------
(***************************************************************************)
(* Only a start gives the playbook another number or policy; outside one   *)
(* every target that is taken up ends what the last one has left.          *)
(***************************************************************************)
Onward ==
    /\ flow'.run = flow.run /\ flow'.fresh = flow.fresh
    /\ flow'.outcome # "none" => Running \/ flow' = flow
    /\ Running' => Running
    /\ Running' => \/ flow' = flow
                   \/ /\ flow'.at = flow.at + 1
                      /\ flow'.at > 1
    /\ flow'.outcome = "complete" => \/ flow' = flow
                                     \/ Running /\ flow.at = 15

LEMMA EndsOnward ==
    ASSUME Typed, NEW passed \in BOOLEAN, Ends(passed)
    PROVE  /\ Onward
           /\ ~Running => flow'.outcome = "none"
           /\ Running' => /\ flow'.at = flow.at + 1 /\ flow'.at > 1
                          /\ flow.at < 15
                          /\ flow'.good => flow.good /\ passed
<1>1. FlowTyped /\ flow.at \in 0 .. 15 /\ (Running => flow.at # 0)
  BY DEF Typed, FlowTyped, Flow
<1> QED
  BY <1>1, EndsFlow DEF Onward, Running

LEMMA EntersOnward ==
    ASSUME Typed, Enters
    PROVE  Onward /\ (Running \/ flow'.outcome = "none")
                  /\ (Running' => flow' = flow)
  BY EntersFlow DEF Onward, Running, Typed

LEMMA FlowKeptOnward == UNCHANGED flow => Onward
  BY DEF Onward, Running

LEMMA DocOnward ==
    ASSUME Typed, BusyPlaces, NothingAhead, DocStep
    PROVE  /\ Onward
           /\ ~Running => flow'.outcome = "none"
           /\ busy' # "none" => flow'.outcome \in {"none", "running"}
<1>1. busy # "none" => flow.outcome \in {"none", "running"}
  BY DEF NothingAhead
<1>2. CASE ManifestAssemble
  BY <1>2, EntersOnward, EntersFlow DEF ManifestAssemble, Typed, Running
<1>3. CASE ManifestEvidence \/ SmokeEvidence \/ SmokeRefresh
  BY <1>1, <1>3, FlowKeptOnward
  DEF ManifestEvidence, SmokeEvidence, SmokeRefresh, Assemble, Running
<1>4. CASE ManifestReassemble
  BY <1>4, EndsOnward DEF ManifestReassemble, Assemble
<1>5. CASE SmokeCheck
  <2>1. CASE Enters
    BY <2>1, EntersOnward, EntersFlow DEF Typed, Running
  <2>2. CASE Ends(FALSE) /\ busy' = "none"
    BY <2>2, EndsOnward
  <2> QED
    BY <1>5, <2>1, <2>2 DEF SmokeCheck, Begins, Takes
<1>6. CASE SmokeReceipt
  BY <1>6, SmokeReceived, EndsOnward DEF SmokeReceipt
<1>7. CASE ReassemblyRaises \/ Tears \/ Stops
  BY <1>7, Stopped, EndsOnward DEF ReassemblyRaises
<1>8. CASE PlaybookDies
  BY <1>8, DiesFlow DEF PlaybookDies, Onward, Running, Typed
<1> QED
  BY <1>2, <1>3, <1>4, <1>5, <1>6, <1>7, <1>8 DEF DocStep

(***************************************************************************)
(* NothingAhead, of any step that is not the start of a playbook.          *)
(***************************************************************************)
LEMMA AheadKept ==
    ASSUME Typed, NothingAhead, Onward,
           \A q \in Stages \ {Payload} :
             \/ evidence'[q] = evidence[q]
             \/ evidence'[q].of = IF Running THEN flow.run ELSE 0,
           flow' = flow => \/ evidence'["preflight"] = evidence["preflight"]
                           \/ ~Running,
           busy' # "none" => flow'.outcome \in {"none", "running"}
    PROVE  NothingAhead'
<1>1. flow.run \in Nat
  BY DEF Typed, FlowTyped, Flow
<1>2. \A q \in Stages \ {Payload} : evidence'[q].of <= flow'.run
  BY <1>1 DEF NothingAhead, Onward
<1>3. Running' /\ flow'.at = 1 => ~OfThisRun("preflight")'
  BY DEF NothingAhead, Onward, OfThisRun
<1>4. flow'.outcome # "none" => flow'.run # 0
  BY DEF NothingAhead, Onward, Running
<1> QED
  BY <1>2, <1>3, <1>4 DEF NothingAhead

LEMMA TargetAhead ==
    ASSUME Typed, NothingAhead, NEW s \in Stages, NEW passed \in BOOLEAN,
           Target(s, passed)
    PROVE  NothingAhead' /\ Onward /\ (~Running => flow'.outcome = "none")
<1>1. Concludes(s, passed) /\ Ends(passed) /\ busy' = "none"
  BY DEF Target, Concludes
<1>2. Onward /\ (~Running => flow'.outcome = "none")
  BY <1>1, EndsOnward
<1>3. Running => flow'.outcome # "running" \/ flow'.at = flow.at + 1
  BY <1>1, EndsOnward DEF Running
<1>4. Running => flow' # flow
  BY <1>1, <1>3 DEF Typed, FlowTyped, Flow, Running
<1>5. \A q \in Stages :
        \/ evidence'[q] = evidence[q]
        \/ evidence'[q].of = IF Running THEN flow.run ELSE 0
  BY <1>1, ConcludesEvidence
<1> QED
  BY <1>1, <1>2, <1>4, <1>5, AheadKept

LEMMA AheadStep ==
    ASSUME Typed, BusyPlaces, NothingAhead, Next
    PROVE  NothingAhead'
<1>0. "preflight" \in Stages \ {Payload} /\ "wait_mock_lsf" \in Stages
      /\ "submit_mock_lsf" \in Stages
  BY StageNames
<1>1. CASE Simple
  BY <1>1, SimpleIsOneStep, TargetAhead DEF SimpleTarget
<1>2. CASE Submit
  BY <1>0, <1>2, SubmitIsTarget, TargetAhead
<1>3. CASE WrapperStep
  <2>1. UNCHANGED <<flow, busy>>
    BY <1>3 DEF WrapperStep, PayloadPasses, WrapperReports, WrapperSettles
  <2>2. \A q \in Stages \ {Payload} : evidence'[q] = evidence[q]
    BY <1>3, PayloadStep, ReportStep DEF WrapperStep, WrapperSettles
  <2> QED
    BY <1>0, <2>1, <2>2 DEF NothingAhead, OfThisRun, Running
<1>4. CASE WaitBegins
  <2>1. Onward /\ flow'.outcome \in {"none", "running"}
    BY <1>4, EntersOnward, EntersFlow DEF WaitBegins, Typed, Running
  <2> QED
    BY <1>4, <2>1, AheadKept DEF WaitBegins
<1>5. CASE WaitExpires \/ WaitFindsNobody
  BY <1>5 DEF WaitExpires, WaitFindsNobody, NothingAhead, OfThisRun, Running
<1>6. CASE WaitReports
  <2>1. PICK passed \in BOOLEAN : Concludes("wait_mock_lsf", passed)
    BY <1>6, WaitConcludes
  <2>3. Onward
    BY <2>1, EndsOnward DEF Concludes
  <2>4. \A q \in Stages \ {"wait_mock_lsf"} : evidence'[q] = evidence[q]
    BY <1>0, <2>1, ConcludesEvidence
  <2>5. \/ evidence'["wait_mock_lsf"] = evidence["wait_mock_lsf"]
        \/ evidence'["wait_mock_lsf"].of = IF Running THEN flow.run ELSE 0
    BY <1>0, <2>1, ConcludesEvidence
  <2>6. busy' = "none"
    BY <1>6 DEF WaitReports
  <2> QED
    BY <1>0, <2>3, <2>4, <2>5, <2>6, AheadKept
<1>7. CASE DocStep
  <2>1. "preflight" \notin {"manifest", "manifest_smoke"}
    OBVIOUS
  <2> QED
    BY <1>0, <1>7, <2>1, DocOnward, DocKeeps, AheadKept
<1>8. CASE StartPlaybook
  <2>1. flow.run \in Nat
    BY DEF Typed, FlowTyped, Flow
  <2>2. /\ busy' = "none" /\ flow'.run = flow.run + 1
        /\ flow'.outcome = "running" /\ evidence' = evidence
    BY <1>8, StartTyped
  <2>3. \A q \in Stages \ {Payload} : evidence[q].of \in Nat
    BY DEF Typed, Evidence
  <2> QED
    BY <1>0, <2>1, <2>2, <2>3 DEF NothingAhead, OfThisRun
<1> QED
  BY <1>1, <1>2, <1>3, <1>4, <1>5, <1>6, <1>7, <1>8, StepsOfRun
  DEF WaitStep
-----------------------------------------------------------------------------
(***************************************************************************)
(* An admitted root stays one playbook's own.                              *)
(***************************************************************************)
OwnInv == AnyOrderInv /\ NothingAhead /\ OwnRoot

LEMMA OwnIsAlone == OwnInv /\ Own => Alone
  BY DEF OwnInv, OwnRoot

LEMMA NewIsAlone ==
    ASSUME Typed, EarnedByJobs, ~RootExists
    PROVE  /\ job = 0 /\ ~paid /\ disk.accounting.job = 0 /\ disk.raw = 0
           /\ disk.required.of = 0 /\ disk.adHoc = 0 /\ disk.reports = 0
           /\ \A s \in Stages : evidence[s] = NoEvidence
<1>1. disk = Bare /\ \A s \in Stages : evidence[s] = NoEvidence
  BY DEF RootExists
<1>2. /\ disk.submission = 0 /\ disk.accounting.job = 0 /\ disk.raw = 0
      /\ disk.required.of = 0 /\ disk.adHoc = 0 /\ disk.reports = 0
  BY <1>1 DEF Bare, NoVerdict
<1>3. job = 0
  BY <1>2 DEF EarnedByJobs
<1>4. ~paid
  BY <1>3 DEF EarnedByJobs
<1> QED
  BY <1>1, <1>2, <1>3, <1>4

LEMMA OwnAdmitted ==
    ASSUME OwnInv, NEW passed \in BOOLEAN,
           SimpleTarget("preflight", passed), Own'
    PROVE  Alone'
<1>0. Typed /\ EarnedByJobs /\ "preflight" \in Stages
      /\ Payload \in Stages /\ Payload # "preflight"
  BY StageNames DEF OwnInv, AnyOrderInv
<1>1. Target("preflight", passed) /\ Writes("preflight", passed)
      /\ UNCHANGED <<job, paid>>
  BY DEF SimpleTarget, jobVars
<1>2. Concludes("preflight", passed) /\ (passed => Ready("preflight"))
  BY <1>1 DEF Target
<1>3. Running /\ flow'.run = flow.run /\ flow'.fresh = flow.fresh
  BY <1>0, <1>1, TargetAhead DEF OwnInv, Onward, Own
<1>4. flow.at = 1
  BY <1>0, <1>2, <1>3, OrderOfTargets
  DEF Concludes, Typed, FlowTyped, Flow
<1>5. ~OfThisRun("preflight")
  BY <1>3, <1>4 DEF OwnInv, NothingAhead
<1>6. passed
  BY <1>0, <1>2, <1>3, <1>5, ConcludesEvidence DEF Own, OfThisRun
<1>7. ~RootExists
  BY <1>2, <1>3, <1>6 DEF Ready, Own
<1>8. /\ job = 0 /\ ~paid /\ disk.accounting.job = 0 /\ disk.raw = 0
      /\ disk.required.of = 0 /\ disk.adHoc = 0 /\ disk.reports = 0
      /\ \A s \in Stages : evidence[s] = NoEvidence
  BY <1>0, <1>7, NewIsAlone
<1>9. /\ disk'.accounting = disk.accounting /\ disk'.raw = disk.raw
      /\ disk'.required.of = disk.required.of
      /\ disk'.adHoc = disk.adHoc /\ disk'.reports = disk.reports
  BY <1>0, <1>1, WritesFields
<1>10. /\ evidence'["preflight"].of = flow.run
       /\ \A s \in Stages \ {"preflight"} : evidence'[s] = NoEvidence
  <2>1. /\ evidence'["preflight"] =
             [status |-> "pass", of |-> IF Running THEN flow.run ELSE 0]
        /\ \A s \in Stages \ {"preflight"} : evidence'[s] = evidence[s]
    BY <1>0, <1>2, <1>6, ConcludesEvidence
  <2> QED
    BY <1>3, <1>8, <2>1
<1>11. \A s \in AfterScheduler : ~OfThisRun(s)'
  BY <1>10, StageNames DEF AfterScheduler, OfThisRun, NoEvidence
<1> QED
  BY <1>1, <1>3, <1>8, <1>9, <1>10, <1>11 DEF Alone

LEMMA OwnWorked ==
    ASSUME OwnInv, NEW s \in Stages \ {"preflight"}, NEW passed \in BOOLEAN,
           SimpleTarget(s, passed), Own'
    PROVE  Alone'
<1>0. Typed /\ EarnedByJobs /\ "preflight" \in Stages
      /\ Payload \in Stages /\ paid \in BOOLEAN
      /\ AfterScheduler \subseteq Stages \ {Payload}
  BY StageNames DEF OwnInv, AnyOrderInv, Typed, JobTyped, AfterScheduler
<1>1. Target(s, passed) /\ Writes(s, passed) /\ UNCHANGED jobVars
  BY DEF SimpleTarget
<1>2. Concludes(s, passed) /\ (passed => Ready(s))
  BY <1>1 DEF Target
<1>3. Running /\ flow'.run = flow.run /\ flow'.fresh = flow.fresh
  BY <1>0, <1>1, TargetAhead DEF OwnInv, Onward, Own
<1>4. flow.at \in 1 .. 15 /\ s = Order[flow.at] /\ s # Payload
  BY <1>0, <1>2, <1>3, OrderOfTargets
  DEF Concludes, Typed, FlowTyped, Flow
<1>5. /\ \A q \in Stages \ {s} : evidence'[q] = evidence[q]
      /\ evidence'[s] = evidence[s] \/ evidence'[s].of = flow.run
      /\ ~passed => evidence'[s] = evidence[s] \/ evidence'[s].status # "pass"
  BY <1>0, <1>2, <1>3, ConcludesEvidence
<1>6. Own
  BY <1>0, <1>3, <1>5 DEF Own, OfThisRun, Running
<1>7. Alone
  BY <1>6, OwnIsAlone
<1>8. Running' => flow'.at = flow.at + 1
  BY <1>0, <1>2, EndsOnward DEF Concludes
<1>9. /\ disk'.accounting = disk.accounting \/ disk'.accounting.job = job
      /\ disk'.raw = disk.raw
      /\ disk'.required.of \in {disk.required.of, disk.raw}
      /\ disk'.adHoc \in {disk.adHoc, disk.raw}
      /\ disk'.reports \in {disk.reports, disk.required.of}
  BY <1>0, <1>1, <1>4, WritesFields
<1>10. passed /\ s \in AfterScheduler => paid
  <2>1. CASE s = "wait_mock_lsf"
    <3>1. passed => FALSE
      BY <1>1, <2>1, StageNames DEF Writes, Copies
    <3> QED
      BY <3>1
  <2>2. CASE s = "collect_mock_lsf"
    BY <1>0, <1>1, <2>2, WritesPassed DEF EarnedByJobs
  <2>3. CASE s \in {"extract_required", "extract_ad_hoc"}
    BY <1>0, <1>2, <2>3 DEF Ready, EarnedByJobs
  <2>4. CASE s = "build_reports"
    BY <1>2, <1>7, <2>4 DEF Ready, Alone
  <2> QED
    BY <2>1, <2>2, <2>3, <2>4 DEF AfterScheduler
<1>11. \A q \in AfterScheduler : OfThisRun(q)' => OfThisRun(q) \/ paid
  BY <1>0, <1>3, <1>5, <1>10 DEF OfThisRun
<1>12. job' = job /\ paid' = paid /\ flow.at \in Nat
  BY <1>1, <1>4 DEF jobVars
<1>13. \A q \in Stages \ {Payload} :
         evidence'[q] = NoEvidence \/ evidence'[q].of = flow'.run
  BY <1>3, <1>5, <1>7 DEF Alone
<1>14. (\E q \in AfterScheduler : OfThisRun(q)') => paid'
  BY <1>7, <1>11, <1>12 DEF Alone
<1>15. paid' => evidence'[Payload] = [status |-> "pass", of |-> job']
  BY <1>0, <1>4, <1>5, <1>7, <1>12 DEF Alone
<1>16. Running' /\ flow'.at <= 6 => job' = 0
  BY <1>3, <1>4, <1>7, <1>8, <1>12 DEF Alone
<1>17. /\ disk'.accounting.job \in {0, job'} /\ disk'.raw \in {0, job'}
       /\ disk'.required.of \in {0, job'} /\ disk'.adHoc \in {0, job'}
       /\ disk'.reports \in {0, job'}
  BY <1>7, <1>9, <1>12 DEF Alone
<1>18. /\ disk'.raw # 0 => paid'
       /\ disk'.required.of # 0 \/ disk'.adHoc # 0 \/ disk'.reports # 0
            => paid'
  BY <1>7, <1>9, <1>12 DEF Alone
<1> QED
  BY <1>13, <1>14, <1>15, <1>16, <1>17, <1>18 DEF Alone, AfterScheduler

LEMMA OwnSubmits ==
    ASSUME OwnInv, Submit, Own' PROVE Alone'
<1>0. Typed /\ EarnedByJobs /\ "preflight" \in Stages
      /\ Payload \in Stages /\ "submit_mock_lsf" \in Stages \ {Payload}
      /\ AfterScheduler \subseteq Stages \ {Payload, "submit_mock_lsf"}
  BY StageNames DEF OwnInv, AnyOrderInv, AfterScheduler
<1>1. PICK passed \in BOOLEAN : Target("submit_mock_lsf", passed)
  BY <1>0, SubmitIsTarget
<1>2. Concludes("submit_mock_lsf", passed)
  BY <1>1 DEF Target
<1>3. Running /\ flow'.run = flow.run /\ flow'.fresh = flow.fresh
  BY <1>0, <1>1, TargetAhead DEF OwnInv, Onward, Own
<1>4. flow.at = 6
  BY <1>0, <1>2, <1>3, OrderOfTargets
  DEF Concludes, Typed, FlowTyped, Flow
<1>5. /\ \A q \in Stages \ {"submit_mock_lsf"} : evidence'[q] = evidence[q]
      /\ \/ evidence'["submit_mock_lsf"] = evidence["submit_mock_lsf"]
         \/ evidence'["submit_mock_lsf"].of = flow.run
  BY <1>0, <1>2, <1>3, ConcludesEvidence
<1>6. Own
  BY <1>0, <1>3, <1>5 DEF Own, OfThisRun, Running
<1>7. Alone
  BY <1>6, OwnIsAlone
<1>8. job = 0 /\ ~paid
  BY <1>0, <1>3, <1>4, <1>7 DEF Alone, EarnedByJobs
<1>9. /\ disk'.accounting.job = 0 /\ disk'.raw = 0
      /\ disk'.required.of = 0 /\ disk'.adHoc = 0 /\ disk'.reports = 0
  BY <1>0, <1>7, <1>8, SubmitIsTarget DEF Alone
<1>10. ~paid'
  BY <1>0, SubmitIsTarget, Zenon
<1>11. Running' => flow'.at = 7
  BY <1>0, <1>2, <1>4, EndsOnward DEF Concludes
<1>12. \A q \in AfterScheduler : ~OfThisRun(q)'
  BY <1>0, <1>3, <1>5, <1>7, <1>8 DEF OfThisRun, Alone
<1>13. \A q \in Stages \ {Payload} :
         evidence'[q] = NoEvidence \/ evidence'[q].of = flow'.run
  BY <1>3, <1>5, <1>7 DEF Alone
<1> QED
  BY <1>9, <1>10, <1>11, <1>12, <1>13 DEF Alone, AfterScheduler
LEMMA OwnPays ==
    ASSUME OwnInv, WrapperStep, Own' PROVE Alone'
<1>0. Typed /\ EarnedByJobs /\ "preflight" \in Stages /\ Payload \in Stages
      /\ Payload # "preflight" /\ paid \in BOOLEAN
      /\ AfterScheduler \subseteq Stages \ {Payload}
  BY StageNames DEF OwnInv, AnyOrderInv, Typed, JobTyped, AfterScheduler
<1>1. /\ UNCHANGED <<flow, job>>
      /\ \A q \in Stages \ {Payload} : evidence'[q] = evidence[q]
      /\ disk'.accounting = disk.accounting
      /\ disk'.required = disk.required /\ disk'.adHoc = disk.adHoc
      /\ disk'.reports = disk.reports
  BY <1>0, PayloadStep, ReportStep
  DEF WrapperStep, WrapperSettles, Promise!Settle
<1>2. Own
  BY <1>0, <1>1 DEF Own, OfThisRun
<1>3. Alone
  BY <1>2, OwnIsAlone
<1>4. /\ \A q \in Stages \ {Payload} :
           evidence'[q] = NoEvidence \/ evidence'[q].of = flow'.run
      /\ Running' /\ flow'.at <= 6 => job' = 0
      /\ disk'.accounting.job \in {0, job'}
      /\ disk'.required.of \in {0, job'} /\ disk'.adHoc \in {0, job'}
      /\ disk'.reports \in {0, job'}
  BY <1>1, <1>3 DEF Alone, Running
<1>5. \A q \in AfterScheduler : OfThisRun(q)' <=> OfThisRun(q)
  BY <1>0, <1>1 DEF OfThisRun
<1>6. CASE PayloadPasses
  <2>1. disk'.raw = job /\ job' = job
        /\ evidence'[Payload] = [status |-> "pass", of |-> job]
    BY <1>0, <1>6, PayloadStep
  <2>2. paid'
    BY <1>0, <1>6, PayloadStep, Zenon
  <2> QED
    BY <1>4, <2>1, <2>2 DEF Alone
<1>7. CASE WrapperReports
  <2>1. /\ disk'.raw = disk.raw /\ paid' = paid /\ job' = job
        /\ paid => evidence' = evidence
    BY <1>0, <1>7, ReportStep
  <2> QED
    BY <1>0, <1>1, <1>3, <1>4, <1>5, <2>1 DEF Alone, AfterScheduler
<1>8. CASE WrapperSettles
  <2>1. UNCHANGED <<disk, paid, job, evidence>>
    BY <1>8 DEF WrapperSettles, Promise!Settle
  <2> QED
    BY <1>0, <1>1, <1>3, <1>4, <1>5, <2>1 DEF Alone, AfterScheduler
<1> QED
  BY <1>6, <1>7, <1>8 DEF WrapperStep

LEMMA OwnWaits ==
    ASSUME OwnInv, WaitStep, Own' PROVE Alone'
<1>0. Typed /\ EarnedByJobs /\ "preflight" \in Stages
      /\ Payload \in Stages /\ "wait_mock_lsf" \in Stages \ {Payload}
      /\ AfterScheduler \subseteq Stages \ {Payload} /\ BusyPlaces
      /\ NothingAhead /\ paid \in BOOLEAN
  BY StageNames DEF OwnInv, AnyOrderInv, AfterScheduler, Typed, JobTyped
<1>1. UNCHANGED <<job, paid, disk>>
  BY DEF WaitStep, WaitBegins, WaitExpires, WaitFindsNobody, WaitReports,
         jobVars, Promise!Expire, Promise!Settle, Promise!Report
<1>2. CASE WaitBegins \/ WaitExpires \/ WaitFindsNobody
  <2>1. evidence' = evidence
    BY <1>2 DEF WaitBegins, WaitExpires, WaitFindsNobody
  <2>2. flow' = flow
    <3>1. CASE WaitBegins
      BY <1>0, <3>1, EntersFlow DEF WaitBegins, Own, Typed
    <3>2. CASE WaitExpires \/ WaitFindsNobody
      BY <3>2 DEF WaitExpires, WaitFindsNobody
    <3> QED
      BY <1>2, <3>1, <3>2
  <2>3. Alone
    BY <2>1, <2>2, OwnIsAlone DEF Own, OfThisRun
  <2> QED
    BY <1>1, <2>1, <2>2, <2>3
    DEF Alone, AfterScheduler, OfThisRun, Running
<1>3. CASE WaitReports
  <2>1. PICK passed \in BOOLEAN :
          /\ Concludes("wait_mock_lsf", passed)
          /\ passed => verdict = "DONE"
    BY <1>0, <1>3, WaitConcludes
  <2>2. Running /\ flow'.run = flow.run /\ flow'.fresh = flow.fresh
        /\ (Running' => flow'.at = flow.at + 1)
    BY <1>0, <2>1, EndsOnward DEF Concludes, Onward, Own
  <2>3. /\ \A q \in Stages \ {"wait_mock_lsf"} : evidence'[q] = evidence[q]
        /\ \/ evidence'["wait_mock_lsf"] = evidence["wait_mock_lsf"]
           \/ evidence'["wait_mock_lsf"].of = flow.run
        /\ ~passed => \/ evidence'["wait_mock_lsf"] =
                              evidence["wait_mock_lsf"]
                      \/ evidence'["wait_mock_lsf"].status # "pass"
    BY <1>0, <2>1, <2>2, ConcludesEvidence
  <2>4. Own
    BY <1>0, <2>2, <2>3 DEF Own, OfThisRun, Running
  <2>5. Alone
    BY <2>4, OwnIsAlone
  <2>6. passed => paid
    BY <1>0, <2>1 DEF EarnedByJobs
  <2>7. \A q \in AfterScheduler : OfThisRun(q)' => OfThisRun(q) \/ paid
    BY <1>0, <2>2, <2>3, <2>6 DEF OfThisRun
  <2>8. flow.at \in Nat
    BY <1>0 DEF Typed, FlowTyped, Flow
  <2>9. Running' /\ flow'.at <= 6 => job' = 0
    BY <1>1, <2>2, <2>5, <2>8 DEF Alone
  <2>10. \A q \in Stages \ {Payload} :
           evidence'[q] = NoEvidence \/ evidence'[q].of = flow'.run
    BY <2>2, <2>3, <2>5 DEF Alone
  <2>11. evidence'[Payload] = evidence[Payload]
    BY <1>0, <2>3
  <2> QED
    BY <1>1, <2>5, <2>7, <2>9, <2>10, <2>11 DEF Alone, AfterScheduler
<1> QED
  BY <1>2, <1>3 DEF WaitStep

LEMMA OwnDocumented ==
    ASSUME OwnInv, DocStep, Own' PROVE Alone'
<1>0. Typed /\ EarnedByJobs /\ "preflight" \in Stages
      /\ Payload \in Stages \ {"manifest", "manifest_smoke"}
      /\ AfterScheduler \subseteq
           Stages \ {Payload, "manifest", "manifest_smoke"}
      /\ BusyPlaces /\ NothingAhead /\ paid \in BOOLEAN
  BY StageNames DEF OwnInv, AnyOrderInv, AfterScheduler, Typed, JobTyped
<1>1. /\ UNCHANGED <<job, paid>>
      /\ disk'.accounting = disk.accounting /\ disk'.raw = disk.raw
      /\ disk'.required = disk.required /\ disk'.adHoc = disk.adHoc
      /\ disk'.reports = disk.reports
      /\ \A q \in Stages \ {"manifest", "manifest_smoke"} :
           evidence'[q] = evidence[q]
  BY <1>0, DocKeeps DEF jobVars, WorkKept
<1>2. Running /\ Onward
  BY <1>0, DocOnward DEF Own
<1>3. \A q \in Stages : evidence'[q] = evidence[q]
                          \/ evidence'[q].of = flow.run
  BY <1>0, <1>2, DocKeeps
<1>4. Own
  BY <1>0, <1>1, <1>2 DEF Own, OfThisRun, Onward, Running
<1>5. Alone
  BY <1>4, OwnIsAlone
<1>6. \A q \in AfterScheduler : OfThisRun(q)' <=> OfThisRun(q)
  BY <1>0, <1>1, <1>2 DEF OfThisRun, Onward
<1>7. flow.at \in Nat
  BY <1>0 DEF Typed, FlowTyped, Flow
<1>8. Running' /\ flow'.at <= 6 => job' = 0
  BY <1>1, <1>2, <1>5, <1>7 DEF Alone, Onward
<1>9. \A q \in Stages \ {Payload} :
        evidence'[q] = NoEvidence \/ evidence'[q].of = flow'.run
  BY <1>2, <1>3, <1>5 DEF Alone, Onward
<1>10. evidence'[Payload] = evidence[Payload]
  BY <1>0, <1>1
<1> QED
  BY <1>1, <1>5, <1>6, <1>8, <1>9, <1>10 DEF Alone, AfterScheduler

LEMMA OwnRootStep ==
    ASSUME OwnInv, Next PROVE OwnRoot'
<1> SUFFICES ASSUME Own' PROVE Alone'
  BY DEF OwnRoot
<1>1. CASE Simple
  <2>1. PICK s \in Stages, passed \in BOOLEAN : SimpleTarget(s, passed)
    BY <1>1, SimpleIsOneStep
  <2> QED
    BY <2>1, OwnAdmitted, OwnWorked
<1>2. CASE StartPlaybook
  <2>1. "preflight" \in Stages \ {Payload}
    BY StageNames
  <2>2. evidence["preflight"].of <= flow.run /\ flow.run \in Nat
    BY <2>1 DEF OwnInv, AnyOrderInv, NothingAhead, Typed, FlowTyped, Flow
  <2>3. evidence["preflight"].of \in Nat
    BY <2>1 DEF OwnInv, AnyOrderInv, Typed, Evidence
  <2>4. flow'.run = flow.run + 1 /\ evidence' = evidence
    BY <1>2, StartTyped DEF OwnInv, AnyOrderInv
  <2> QED
    BY <2>2, <2>3, <2>4 DEF Own, OfThisRun
<1> QED
  BY <1>1, <1>2, OwnSubmits, OwnPays, OwnWaits, OwnDocumented, StepsOfRun

LEMMA OwnInitInv == Init => OwnInv
<1> SUFFICES ASSUME Init PROVE OwnInv
  OBVIOUS
<1>1. AnyOrderInv
  BY AnyOrderInit
<1>2. NothingAhead
  BY DEF Init, NothingAhead, NoEvidence, Running
<1>3. ~Own
  BY DEF Init, Own
<1> QED
  BY <1>1, <1>2, <1>3 DEF OwnInv, OwnRoot

LEMMA OwnStepInv == OwnInv /\ [Next]_vars => OwnInv'
<1>1. ASSUME OwnInv, Next PROVE OwnInv'
  <2>1. AnyOrderInv'
    BY <1>1, AnyOrderStep DEF OwnInv
  <2>2. NothingAhead'
    BY <1>1, AheadStep DEF OwnInv, AnyOrderInv
  <2> QED
    BY <1>1, <2>1, <2>2, OwnRootStep DEF OwnInv
<1>2. ASSUME OwnInv, UNCHANGED vars PROVE OwnInv'
  <2>1. AnyOrderInv'
    BY <1>2, AnyOrderStep DEF OwnInv
  <2>2. NothingAhead' /\ OwnRoot'
    BY <1>2
    DEF vars, jobVars, OwnInv, NothingAhead, OwnRoot, Own, Alone, OfThisRun,
        Running, AfterScheduler
  <2> QED
    BY <2>1, <2>2 DEF OwnInv
<1> QED
  BY <1>1, <1>2

(***************************************************************************)
(* The evidence on a root that a fresh preflight has admitted is its       *)
(* playbook's alone.                                                       *)
(***************************************************************************)
THEOREM OwnInvariant == Spec => []OwnInv
  BY OwnInitInv, OwnStepInv, PTL DEF Spec

(***************************************************************************)
(* On such a root nothing behind the scheduler passes unless the payload   *)
(* of this playbook's job has, and all products are of that job.           *)
(***************************************************************************)
THEOREM RootStaysOwn == Spec => []AdmittedRootIsOwn
<1>1. OwnInv => AdmittedRootIsOwn
  <2> SUFFICES ASSUME OwnInv, Own PROVE
        /\ \A s \in Stages \ {Payload} :
             evidence[s] = NoEvidence \/ evidence[s].of = flow.run
        /\ disk.accounting.job \in {0, job}
        /\ (\E s \in AfterScheduler : OfThisRun(s)) =>
               /\ job \in earned
               /\ evidence[Payload] = [status |-> "pass", of |-> job]
               /\ \A i \in 1 .. 3 : Products(disk)[i] \in {0, job}
    BY DEF AdmittedRootIsOwn, Own
  <2>1. paid => job \in earned
    BY DEF OwnInv, AnyOrderInv, EarnedByJobs
  <2>2. \A i \in 1 .. 3 : Products(disk)[i] \in {0, job}
    BY OwnIsAlone DEF Alone, Products
  <2> QED
    BY <2>1, <2>2, OwnIsAlone DEF Alone
<1> QED
  BY <1>1, OwnInvariant, PTL
-----------------------------------------------------------------------------
(***************************************************************************)
(* A playbook that has passed so far has its audit behind it.              *)
(***************************************************************************)
CompletedIsQuiet == flow.outcome = "complete" => verdict = "DONE"

AuditInv ==
    /\ AnyOrderInv /\ NothingAhead
    /\ StagesPassed /\ JobAudited /\ ProductsAudited
    /\ CompletedIsQuiet /\ CompletedRunIsAudited

LEMMA WhichTarget ==
    ASSUME NEW i \in 1 .. 15
    PROVE  /\ Order[i] = "submit_mock_lsf" <=> i = 6
           /\ Order[i] = "wait_mock_lsf" <=> i = 7
           /\ Order[i] = "collect_mock_lsf" <=> i = 8
           /\ Order[i] = "extract_required" <=> i = 9
           /\ Order[i] = "extract_ad_hoc" <=> i = 10
           /\ Order[i] = "build_reports" <=> i = 11
           /\ Order[i] = "validate" <=> i = 12
           /\ Order[i] = "inventory_post" <=> i = 13
           /\ Order[i] = "manifest" <=> i = 14
           /\ Order[i] = "manifest_smoke" <=> i = 15
           /\ Order[i] # Payload /\ Order[i] \in Stages
  BY OrderOfTargets

LEMMA GoodTyped ==
    ASSUME Typed, Good
    PROVE  flow.at \in 1 .. 15 /\ Order[flow.at] \in Stages
<1>1. flow.at \in 1 .. 15
  BY DEF Typed, FlowTyped, Flow, Good
<1> QED
  BY <1>1, OrderOfTargets

(***************************************************************************)
(* The playbook goes on after a target that has passed.                    *)
(***************************************************************************)
LEMMA GoodConcludes ==
    ASSUME Typed, StagesPassed, NEW s \in Stages, NEW passed \in BOOLEAN,
           Concludes(s, passed), Good'
    PROVE  /\ Good /\ passed /\ s = Order[flow.at]
           /\ flow'.at = flow.at + 1 /\ flow.at \in 1 .. 15
           /\ flow'.run = flow.run
           /\ \A q \in Stages \ {s} : evidence'[q] = evidence[q]
           /\ \A i \in 1 .. 15 : i < flow'.at => OfThisRun(Order[i])'
<1>1. Running' /\ flow'.good
  BY DEF Good
<1>2. Running /\ flow'.run = flow.run /\ flow'.at = flow.at + 1
      /\ flow.good /\ passed
  BY <1>1, EndsOnward DEF Concludes, Onward
<1>3. Good
  BY <1>2 DEF Good
<1>4. flow.at \in 1 .. 15 /\ s = Order[flow.at]
  BY <1>2, <1>3, GoodTyped DEF Concludes
<1>5. /\ \A q \in Stages \ {s} : evidence'[q] = evidence[q]
      /\ evidence'[s] = [status |-> "pass",
                         of |-> IF Running THEN flow.run ELSE 0]
  BY <1>2, ConcludesEvidence
<1>6. evidence'[s].of = flow'.run /\ evidence'[s].status = "pass"
  BY <1>2, <1>5
<1>7. ASSUME NEW i \in 1 .. 15, i < flow'.at
      PROVE  OfThisRun(Order[i])'
  <2>1. CASE i = flow.at
    BY <1>4, <1>6, <2>1 DEF OfThisRun
  <2>2. CASE i < flow.at
    <3>1. OfThisRun(Order[i])
      BY <1>3, <2>2 DEF StagesPassed
    <3>2. Order[i] \in Stages \ {s}
      BY <1>4, <2>2, OrderOfTargets
    <3> QED
      BY <1>2, <1>5, <3>1, <3>2 DEF OfThisRun
  <2> QED
    BY <1>2, <1>4, <1>7, <2>1, <2>2
<1> QED
  BY <1>2, <1>3, <1>4, <1>5, <1>7

LEMMA GoodWrites ==
    ASSUME Typed, flow.at \in 1 .. 15, Writes(Order[flow.at], TRUE)
    PROVE  /\ flow.at \notin {6, 7, 14, 15}
           /\ disk'.raw = disk.raw
           /\ IF flow.at = 8
              THEN disk'.accounting = [job |-> job, state |-> verdict]
              ELSE disk'.accounting = disk.accounting
           /\ disk'.required.of = IF flow.at = 9 THEN disk.raw
                                  ELSE disk.required.of
           /\ disk'.adHoc = IF flow.at = 10 THEN disk.raw ELSE disk.adHoc
           /\ disk'.reports = IF flow.at = 11 THEN disk.required.of
                              ELSE disk.reports
           /\ disk'.validation = IF flow.at = 12 THEN "pass"
                                 ELSE disk.validation
           /\ disk'.post = IF flow.at = 13
                           THEN [raw |-> disk.raw, products |-> Products(disk)]
                           ELSE disk.post
<1> DEFINE s == Order[flow.at]
<1>0. s \in Stages /\ s # Payload
  BY WhichTarget
<1>1. flow.at \notin {6, 7, 14, 15}
  BY WhichTarget, StageNames DEF Writes, Copies
<1>2. /\ disk'.raw = disk.raw
      /\ flow.at # 8 => disk'.accounting = disk.accounting
      /\ flow.at # 9 => disk'.required.of = disk.required.of
      /\ flow.at # 10 => disk'.adHoc = disk.adHoc
      /\ flow.at # 11 => disk'.reports = disk.reports
      /\ flow.at # 12 => disk'.validation = disk.validation
      /\ flow.at # 13 => disk'.post = disk.post
  BY <1>0, WhichTarget, WritesFields
<1>3. /\ flow.at = 8 =>
           disk'.accounting = [job |-> job, state |-> verdict]
      /\ flow.at = 9 => disk'.required.of = disk.raw
      /\ flow.at = 10 => disk'.adHoc = disk.raw
      /\ flow.at = 11 => disk'.reports = disk.required.of
      /\ flow.at = 12 => disk'.validation = "pass"
      /\ flow.at = 13 =>
           disk'.post = [raw |-> disk.raw, products |-> Products(disk)]
  <2>1. ASSUME NEW q \in Stages, q = s
        PROVE  /\ q = "collect_mock_lsf" =>
                    disk'.accounting = [job |-> job, state |-> verdict]
               /\ q = "extract_required" => disk'.required.of = disk.raw
               /\ q = "extract_ad_hoc" => disk'.adHoc = disk.raw
               /\ q = "build_reports" => disk'.reports = disk.required.of
               /\ q = "validate" => disk'.validation = "pass"
               /\ q = "inventory_post" => disk'.post =
                    [raw |-> disk.raw, products |-> Products(disk)]
    <3>1. Writes(q, TRUE)
      BY <2>1
    <3> QED
      BY <3>1, WritesPassed
  <2> QED
    BY <1>0, <2>1, WhichTarget
<1> QED
  BY <1>1, <1>2, <1>3

LEMMA AuditSimple ==
    ASSUME AuditInv, Simple, Good'
    PROVE  StagesPassed' /\ JobAudited' /\ ProductsAudited'
<1>1. PICK s \in Stages, passed \in BOOLEAN : SimpleTarget(s, passed)
  BY SimpleIsOneStep
<1>2. /\ Target(s, passed) /\ Writes(s, passed) /\ UNCHANGED jobVars
      /\ Concludes(s, passed) /\ busy' = "none"
  BY <1>1 DEF SimpleTarget, Target
<1>3. Typed /\ EarnedByJobs
  BY DEF AuditInv, AnyOrderInv
<1>4. /\ Good /\ passed /\ s = Order[flow.at]
      /\ flow'.at = flow.at + 1 /\ flow.at \in 1 .. 15
      /\ \A q \in Stages \ {s} : evidence'[q] = evidence[q]
      /\ \A i \in 1 .. 15 : i < flow'.at => OfThisRun(Order[i])'
  BY <1>2, <1>3, GoodConcludes DEF AuditInv
<1>5. Writes(Order[flow.at], TRUE) /\ Ready(Order[flow.at])
  BY <1>2, <1>4, Zenon DEF Target
<1>6. /\ flow.at \notin {6, 7, 14, 15}
      /\ disk'.raw = disk.raw
      /\ IF flow.at = 8
         THEN disk'.accounting = [job |-> job, state |-> verdict]
         ELSE disk'.accounting = disk.accounting
      /\ disk'.required.of = IF flow.at = 9 THEN disk.raw
                             ELSE disk.required.of
      /\ disk'.adHoc = IF flow.at = 10 THEN disk.raw ELSE disk.adHoc
      /\ disk'.reports = IF flow.at = 11 THEN disk.required.of
                         ELSE disk.reports
      /\ disk'.validation = IF flow.at = 12 THEN "pass"
                            ELSE disk.validation
      /\ disk'.post = IF flow.at = 13
                      THEN [raw |-> disk.raw, products |-> Products(disk)]
                      ELSE disk.post
  BY <1>3, <1>4, <1>5, GoodWrites
<1>7. StagesPassed'
  BY <1>2, <1>4 DEF StagesPassed
<1>8. /\ flow.at > 7 => verdict = "DONE" /\ reported = "DONE"
      /\ flow.at > 6 /\ paid =>
           evidence[Payload] = [status |-> "pass", of |-> job]
           /\ disk.raw = job
      /\ flow.at > 8 => disk.accounting = [job |-> job, state |-> "DONE"]
      /\ flow.at > 7 => disk.raw = job
  BY <1>3, <1>4 DEF AuditInv, JobAudited, EarnedByJobs
<1>9. evidence'[Payload] = evidence[Payload]
  BY <1>4, WhichTarget, StageNames
<1>10. UNCHANGED <<job, verdict, paid, reported>>
  BY <1>2 DEF jobVars
<1>11. JobAudited'
  BY <1>4, <1>6, <1>8, <1>9, <1>10 DEF JobAudited
<1>12. /\ flow.at > 9 => disk.required.of = job
       /\ flow.at > 10 => disk.adHoc = job
       /\ flow.at > 11 => disk.reports = job
       /\ flow.at > 12 => disk.validation = "pass"
       /\ flow.at > 13 =>
            disk.post = [raw |-> job, products |-> <<job, job, job>>]
  BY <1>4 DEF AuditInv, ProductsAudited
<1>13. /\ flow'.at > 9 => disk'.required.of = job
       /\ flow'.at > 10 => disk'.adHoc = job
       /\ flow'.at > 11 => disk'.reports = job
       /\ flow'.at > 12 => disk'.validation = "pass"
  BY <1>4, <1>6, <1>8, <1>12
<1>14. flow'.at > 13 =>
         disk'.post = [raw |-> job, products |-> <<job, job, job>>]
  BY <1>4, <1>6, <1>8, <1>12 DEF Products
<1>15. ProductsAudited'
  BY <1>2, <1>10, <1>13, <1>14 DEF ProductsAudited
<1> QED
  BY <1>7, <1>11, <1>15

LEMMA AuditSubmit ==
    ASSUME AuditInv, Submit, Good'
    PROVE  StagesPassed' /\ JobAudited' /\ ProductsAudited'
<1>1. Typed /\ "submit_mock_lsf" \in Stages
  BY StageNames DEF AuditInv, AnyOrderInv
<1>2. PICK passed \in BOOLEAN : Target("submit_mock_lsf", passed)
  BY <1>1, SubmitIsTarget
<1>3. Concludes("submit_mock_lsf", passed) /\ busy' = "none"
  BY <1>2 DEF Target
<1>4. /\ "submit_mock_lsf" = Order[flow.at]
      /\ flow'.at = flow.at + 1 /\ flow.at \in 1 .. 15
      /\ \A i \in 1 .. 15 : i < flow'.at => OfThisRun(Order[i])'
  BY <1>1, <1>3, GoodConcludes DEF AuditInv
<1>5. flow'.at = 7
  BY <1>4, WhichTarget
<1>6. ~paid'
  BY <1>1, SubmitIsTarget, Zenon
<1> QED
  BY <1>3, <1>4, <1>5, <1>6 DEF StagesPassed, JobAudited, ProductsAudited
LEMMA OrderedStages ==
    \A i \in 1 .. 15 : Order[i] \in Stages \ {Payload}
  BY OrderOfTargets

LEMMA AuditWrapper ==
    ASSUME AuditInv, WrapperStep, Good'
    PROVE  StagesPassed' /\ JobAudited' /\ ProductsAudited'
<1>0. Typed /\ BusyPlaces /\ paid \in BOOLEAN /\ flow.at \in Nat
  BY DEF AuditInv, AnyOrderInv, Typed, JobTyped, FlowTyped, Flow
<1>1. /\ UNCHANGED <<flow, busy>> /\ verdict = "RUN"
      /\ \A q \in Stages \ {Payload} : evidence'[q] = evidence[q]
  BY <1>0, PayloadStep, ReportStep
  DEF WrapperStep, WrapperSettles, Promise!Settle, PayloadPasses,
      WrapperReports
<1>2. Good
  BY <1>1 DEF Good, Running
<1>3. flow.at <= 7
  BY <1>0, <1>1, <1>2 DEF AuditInv, JobAudited
<1>4. busy # "refreshed" /\ busy' # "refreshed"
  BY <1>1, <1>2, <1>3 DEF AuditInv, AnyOrderInv, BusyPlaces, Good
<1>5. ProductsAudited'
  BY <1>0, <1>1, <1>3, <1>4 DEF ProductsAudited
<1>6. StagesPassed'
  <2>1. \A i \in 1 .. 15 : OfThisRun(Order[i])' <=> OfThisRun(Order[i])
    BY <1>1, OrderedStages DEF OfThisRun
  <2>2. Order[14] = "manifest" /\ Order[15] = "manifest_smoke"
    BY OrderOfTargets
  <2>3. 14 \in 1 .. 15 /\ 15 \in 1 .. 15
    OBVIOUS
  <2>4. /\ OfThisRun("manifest")' <=> OfThisRun("manifest")
        /\ OfThisRun("manifest_smoke")' <=> OfThisRun("manifest_smoke")
    BY <1>1, OrderedStages, <2>2, <2>3 DEF OfThisRun
  <2>5. /\ \A i \in 1 .. 15 : i < flow.at => OfThisRun(Order[i])
        /\ busy \in {"evidenced"} => OfThisRun("manifest")
        /\ busy \in {"attempted", "refreshed"} => OfThisRun("manifest_smoke")
    BY <1>2 DEF AuditInv, StagesPassed
  <2> QED
    BY <1>1, <2>1, <2>4, <2>5 DEF StagesPassed
<1>7. CASE PayloadPasses
  <2>1. /\ disk'.raw = job /\ job' = job
        /\ evidence'[Payload] = [status |-> "pass", of |-> job]
    BY <1>0, <1>7, PayloadStep
  <2>2. JobAudited'
    BY <1>0, <1>1, <1>3, <2>1 DEF JobAudited
  <2> QED
    BY <1>5, <1>6, <2>2
<1>8. CASE WrapperReports \/ WrapperSettles
  <2>1. /\ disk'.raw = disk.raw /\ paid' = paid /\ job' = job
        /\ paid => evidence'[Payload] = evidence[Payload]
    BY <1>0, <1>8, ReportStep DEF WrapperSettles, Promise!Settle
  <2>2. flow.at > 6 /\ paid =>
          evidence[Payload] = [status |-> "pass", of |-> job]
            /\ disk.raw = job
    BY <1>2 DEF AuditInv, JobAudited
  <2>3. JobAudited'
    BY <1>0, <1>1, <1>3, <2>1, <2>2 DEF JobAudited
  <2> QED
    BY <1>5, <1>6, <2>3
<1> QED
  BY <1>7, <1>8 DEF WrapperStep

LEMMA AuditWait ==
    ASSUME AuditInv, WaitStep, Good'
    PROVE  StagesPassed' /\ JobAudited' /\ ProductsAudited'
<1>0. Typed /\ BusyPlaces /\ flow.at \in Nat
      /\ "wait_mock_lsf" \in Stages \ {Payload} /\ Payload \in Stages
  BY StageNames DEF AuditInv, AnyOrderInv, Typed, FlowTyped, Flow
<1>1. UNCHANGED <<job, paid, disk>> /\ busy' \in {"wait", "none"}
  BY DEF WaitStep, WaitBegins, WaitExpires, WaitFindsNobody, WaitReports,
         jobVars, Promise!Expire, Promise!Settle, Promise!Report
<1>2. CASE WaitBegins \/ WaitExpires \/ WaitFindsNobody
  <2>1. evidence' = evidence
    BY <1>2 DEF WaitBegins, WaitExpires, WaitFindsNobody
  <2>2. flow' = flow
    <3>1. CASE WaitBegins
      BY <1>0, <3>1, EntersOnward DEF WaitBegins, Good
    <3>2. CASE WaitExpires \/ WaitFindsNobody
      BY <3>2 DEF WaitExpires, WaitFindsNobody
    <3> QED
      BY <1>2, <3>1, <3>2
  <2>3. Good
    BY <2>2 DEF Good, Running
  <2>4. flow.at <= 7
    <3>1. CASE WaitBegins
      BY <1>0, <2>3, <3>1, TakesWhere DEF WaitBegins, Begins, Good
    <3>2. CASE WaitExpires \/ WaitFindsNobody
      BY <1>0, <2>3, <3>2 DEF WaitExpires, WaitFindsNobody, BusyPlaces, Good
    <3> QED
      BY <1>2, <3>1, <3>2
  <2>5. StagesPassed'
    BY <1>1, <2>1, <2>2, <2>3 DEF AuditInv, StagesPassed, OfThisRun
  <2>6. JobAudited'
    BY <1>0, <1>1, <2>1, <2>2, <2>3, <2>4 DEF AuditInv, JobAudited
  <2>7. ProductsAudited'
    BY <1>0, <1>1, <2>2, <2>4 DEF ProductsAudited
  <2> QED
    BY <2>5, <2>6, <2>7
<1>3. CASE WaitReports
  <2>1. PICK passed \in BOOLEAN :
          /\ Concludes("wait_mock_lsf", passed)
          /\ passed => verdict = "DONE"
    BY <1>0, <1>3, WaitConcludes
  <2>2. /\ Good /\ passed /\ "wait_mock_lsf" = Order[flow.at]
        /\ flow'.at = flow.at + 1 /\ flow.at \in 1 .. 15
        /\ \A q \in Stages \ {"wait_mock_lsf"} : evidence'[q] = evidence[q]
        /\ \A i \in 1 .. 15 : i < flow'.at => OfThisRun(Order[i])'
    BY <1>0, <2>1, GoodConcludes DEF AuditInv
  <2>3. flow.at = 7 /\ flow'.at = 8
    BY <2>2, WhichTarget
  <2>4. /\ verdict = "DONE" /\ verdict' = "DONE" /\ reported' = "DONE"
        /\ busy' = "none"
    BY <1>3, <2>1, <2>2, Zenon DEF WaitReports, Promise!Report
  <2>5. evidence'[Payload] = evidence[Payload]
    BY <1>0, <2>2
  <2>6. paid => evidence[Payload] = [status |-> "pass", of |-> job]
                  /\ disk.raw = job
    BY <2>2, <2>3 DEF AuditInv, JobAudited
  <2>7. JobAudited'
    BY <1>1, <2>3, <2>4, <2>5, <2>6 DEF JobAudited
  <2> QED
    BY <2>2, <2>3, <2>4, <2>7 DEF StagesPassed, ProductsAudited
<1> QED
  BY <1>2, <1>3 DEF WaitStep
(***************************************************************************)
(* The manifest and smoke targets leave what is audited so far alone.      *)
(***************************************************************************)
LEMMA DocAuditKept ==
    ASSUME AuditInv, DocStep, Good, flow.at \in {14, 15},
           flow'.at \in {14, 15}, busy' # "refreshed"
    PROVE  JobAudited' /\ ProductsAudited'
<1>0. Typed /\ Payload \in Stages \ {"manifest", "manifest_smoke"}
  BY StageNames DEF AuditInv, AnyOrderInv
<1>1. /\ UNCHANGED <<job, verdict, paid, reported>>
      /\ evidence'[Payload] = evidence[Payload]
      /\ disk'.accounting = disk.accounting /\ disk'.raw = disk.raw
      /\ disk'.required = disk.required /\ disk'.adHoc = disk.adHoc
      /\ disk'.reports = disk.reports /\ disk'.validation = disk.validation
      /\ disk'.post = disk.post
  BY <1>0, DocKeeps DEF jobVars, WorkKept
<1>2. /\ paid => evidence[Payload] = [status |-> "pass", of |-> job]
                 /\ disk.raw = job
      /\ verdict = "DONE" /\ reported = "DONE"
      /\ disk.accounting = [job |-> job, state |-> "DONE"]
  BY DEF AuditInv, JobAudited
<1>3. /\ disk.required.of = job /\ disk.adHoc = job /\ disk.reports = job
      /\ disk.validation = "pass"
      /\ disk.post = [raw |-> job, products |-> <<job, job, job>>]
  BY DEF AuditInv, ProductsAudited
<1>4. JobAudited'
  BY <1>1, <1>2 DEF JobAudited
<1>5. ProductsAudited'
  BY <1>1, <1>3 DEF ProductsAudited
<1> QED
  BY <1>4, <1>5

LEMMA DocStagesKept ==
    ASSUME AuditInv, Good, flow' = flow, flow.at \in {14, 15},
           \A i \in 1 .. 15 : i < flow.at =>
             evidence'[Order[i]] = evidence[Order[i]]
    PROVE  \A i \in 1 .. 15 : i < flow'.at => OfThisRun(Order[i])'
  BY DEF AuditInv, StagesPassed, OfThisRun

LEMMA AuditDocument ==
    ASSUME AuditInv, DocStep, Good'
    PROVE  StagesPassed' /\ JobAudited' /\ ProductsAudited'
<1>0. /\ Typed /\ BusyPlaces /\ NothingAhead
      /\ "manifest" \in Stages /\ "manifest_smoke" \in Stages
      /\ Order[14] = "manifest" /\ Order[15] = "manifest_smoke"
  BY StageNames, OrderOfTargets DEF AuditInv, AnyOrderInv
<1>1. Running /\ Running' /\ flow'.good
  BY <1>0, DocOnward DEF Good, Onward
<1>2. ~Ends(FALSE)
  BY <1>0, <1>1, EndsOnward
<1>3. UNCHANGED evidence => \A i \in 1 .. 15 :
        evidence'[Order[i]] = evidence[Order[i]]
  OBVIOUS
<1>4. CASE ManifestAssemble
  <2>1. flow' = flow /\ flow.at = 14 /\ busy' = "assembled"
        /\ UNCHANGED evidence
    BY <1>0, <1>1, <1>4, EntersOnward, TakesWhere
    DEF ManifestAssemble, Begins, Assemble
  <2>2. Good
    BY <1>1, <2>1 DEF Good
  <2>3. JobAudited' /\ ProductsAudited'
    BY <2>1, <2>2, DocAuditKept
  <2>4. StagesPassed'
    BY <1>3, <2>1, <2>2, DocStagesKept DEF StagesPassed
  <2> QED
    BY <2>3, <2>4
<1>5. CASE ManifestEvidence
  <2>1. flow' = flow /\ flow.at = 14 /\ busy' = "evidenced"
        /\ Records("manifest", "pass")
    BY <1>0, <1>1, <1>5 DEF ManifestEvidence, BusyPlaces
  <2>2. Good
    BY <1>1, <2>1 DEF Good
  <2>3. JobAudited' /\ ProductsAudited'
    BY <2>1, <2>2, DocAuditKept
  <2>4. /\ evidence'["manifest"] =
             [status |-> "pass", of |-> IF Running THEN flow.run ELSE 0]
        /\ \A q \in Stages \ {"manifest"} : evidence'[q] = evidence[q]
    BY <1>0, <2>1, RecordsEvidence
  <2>5. OfThisRun("manifest")'
    BY <1>1, <2>1, <2>4 DEF OfThisRun
  <2>6. \A i \in 1 .. 15 : i < 14 => evidence'[Order[i]] = evidence[Order[i]]
    BY <2>4, WhichTarget
  <2> QED
    BY <2>1, <2>2, <2>3, <2>5, <2>6, DocStagesKept DEF StagesPassed
<1>6. CASE ManifestReassemble
  <2>1. busy = "evidenced" /\ busy' = "none" /\ Ends(TRUE)
        /\ UNCHANGED evidence
    BY <1>6 DEF ManifestReassemble, Assemble
  <2>2. flow.at = 14 /\ flow'.at = 15 /\ flow.good /\ flow'.run = flow.run
    <3>1. Onward /\ (flow'.good => flow.good) /\ flow'.at = flow.at + 1
      BY <1>0, <1>1, <2>1, EndsOnward
    <3>2. flow.good
      BY <1>1, <3>1, Zenon
    <3>3. flow.at = 14
      BY <1>0, <1>1, <2>1 DEF BusyPlaces
    <3> QED
      BY <3>1, <3>2, <3>3 DEF Onward
  <2>3. Good
    BY <1>1, <2>2 DEF Good
  <2>4. JobAudited' /\ ProductsAudited'
    BY <2>1, <2>2, <2>3, DocAuditKept
  <2>5. /\ OfThisRun("manifest")
        /\ \A i \in 1 .. 15 : i < 14 => OfThisRun(Order[i])
    BY <2>1, <2>2, <2>3 DEF AuditInv, StagesPassed
  <2>6. \A i \in 1 .. 15 : i < 15 => OfThisRun(Order[i])
    BY <1>0, <2>5
  <2>7. \A i \in 1 .. 15 : i < flow'.at => OfThisRun(Order[i])'
    BY <2>1, <2>2, <2>6 DEF OfThisRun
  <2> QED
    BY <2>1, <2>4, <2>7 DEF StagesPassed
<1>7. CASE SmokeCheck
  <2>1. /\ Enters /\ busy' = "checked" /\ UNCHANGED evidence
        /\ Begins("manifest_smoke", 0)
    BY <1>2, <1>7 DEF SmokeCheck
  <2>2. flow' = flow /\ flow.at = 15
    BY <1>0, <1>1, <2>1, EntersOnward, TakesWhere DEF Begins
  <2>3. Good
    BY <1>1, <2>2 DEF Good
  <2>4. JobAudited' /\ ProductsAudited'
    BY <2>1, <2>2, <2>3, DocAuditKept
  <2>5. StagesPassed'
    BY <1>3, <2>1, <2>2, <2>3, DocStagesKept DEF StagesPassed
  <2> QED
    BY <2>4, <2>5
<1>8. CASE SmokeEvidence
  <2>1. flow' = flow /\ flow.at = 15 /\ busy' = "attempted"
        /\ Records("manifest_smoke", "pass")
    BY <1>0, <1>1, <1>8 DEF SmokeEvidence, BusyPlaces
  <2>2. Good
    BY <1>1, <2>1 DEF Good
  <2>3. JobAudited' /\ ProductsAudited'
    BY <2>1, <2>2, DocAuditKept
  <2>4. /\ evidence'["manifest_smoke"] =
             [status |-> "pass", of |-> IF Running THEN flow.run ELSE 0]
        /\ \A q \in Stages \ {"manifest_smoke"} : evidence'[q] = evidence[q]
    BY <1>0, <2>1, RecordsEvidence
  <2>5. OfThisRun("manifest_smoke")'
    BY <1>1, <2>1, <2>4 DEF OfThisRun
  <2>6. \A i \in 1 .. 15 : i < 15 => evidence'[Order[i]] = evidence[Order[i]]
    BY <2>4, WhichTarget
  <2> QED
    BY <2>1, <2>2, <2>3, <2>5, <2>6, DocStagesKept DEF StagesPassed
<1>9. CASE SmokeRefresh
  <2>1. /\ flow' = flow /\ flow.at = 15 /\ busy = "attempted"
        /\ busy' = "refreshed" /\ UNCHANGED <<evidence, job, verdict>>
        /\ disk'.manifest = Whole /\ WorkKept
        /\ disk'.receipt.status = disk.receipt.status
    BY <1>0, <1>1, <1>9, AssembleFields DEF SmokeRefresh, BusyPlaces, jobVars
  <2>2. Good
    BY <1>1, <2>1 DEF Good
  <2>3. Assembled' = Assembled
    BY <2>1 DEF Assembled, FinalRecord, WorkKept
  <2>4. /\ disk'.manifest.kind = "whole"
        /\ disk'.manifest.content = Assembled'
    BY <2>1, <2>3 DEF Whole
  <2>5. JobAudited'
    BY <1>0, <1>9, <2>1, <2>2, DocKeeps, StageNames
    DEF AuditInv, JobAudited, WorkKept, jobVars, DocStep
  <2>6. /\ disk.required.of = job /\ disk.adHoc = job /\ disk.reports = job
        /\ disk.validation = "pass"
        /\ disk.post = [raw |-> job, products |-> <<job, job, job>>]
    BY <2>1, <2>2 DEF AuditInv, ProductsAudited
  <2>7. ProductsAudited'
    BY <2>1, <2>4, <2>6 DEF ProductsAudited, WorkKept
  <2>8. OfThisRun("manifest_smoke")'
    BY <2>1, <2>2 DEF AuditInv, StagesPassed, OfThisRun
  <2>9. StagesPassed'
    BY <1>3, <2>1, <2>2, <2>8, DocStagesKept DEF StagesPassed
  <2> QED
    BY <2>5, <2>7, <2>9
<1>10. ASSUME SmokeReceipt PROVE FALSE
  <2>1. flow.at = 15 /\ \E passed \in BOOLEAN : Ends(passed)
    BY <1>0, <1>1, <1>10, SmokeReceived DEF SmokeReceipt, BusyPlaces
  <2> QED
    BY <1>0, <1>1, <2>1, EndsOnward
<1>11. ASSUME PlaybookDies PROVE FALSE
  BY <1>0, <1>1, <1>11, DiesFlow DEF PlaybookDies, Running, Typed
<1> QED
  BY <1>2, <1>4, <1>5, <1>6, <1>7, <1>8, <1>9, <1>10, <1>11
  DEF DocStep, ReassemblyRaises, Tears, Stops

LEMMA AuditStart ==
    ASSUME AuditInv, StartPlaybook, Good'
    PROVE  StagesPassed' /\ JobAudited' /\ ProductsAudited'
<1>1. flow'.at = 1 /\ busy' = "none"
  BY StartTyped DEF AuditInv, AnyOrderInv
<1> QED
  BY <1>1 DEF StagesPassed, JobAudited, ProductsAudited

LEMMA AuditGood ==
    ASSUME AuditInv, Next
    PROVE  StagesPassed' /\ JobAudited' /\ ProductsAudited'
<1>1. CASE Good'
  BY <1>1, AuditSimple, AuditSubmit, AuditWrapper, AuditWait, AuditDocument,
     AuditStart, StepsOfRun
<1>2. CASE ~Good'
  BY <1>2 DEF StagesPassed, JobAudited, ProductsAudited
<1> QED
  BY <1>1, <1>2
(***************************************************************************)
(* Only the smoke receipt completes a playbook.                            *)
(***************************************************************************)
LEMMA EndsComplete ==
    ASSUME Typed, NEW passed \in BOOLEAN, Ends(passed),
           flow'.outcome = "complete"
    PROVE  /\ Running /\ flow.at = 15 /\ flow.good /\ passed
           /\ flow'.run = flow.run
<1>1. flow.at \in 0 .. 15 /\ FlowTyped
  BY DEF Typed, FlowTyped, Flow
<1>2. Running /\ flow.at = 15
  BY <1>1, EndsFlow DEF Running
<1> QED
  BY <1>1, <1>2, EndsFlow

LEMMA CompletesBySmoke ==
    ASSUME AuditInv, Next, flow'.outcome = "complete"
    PROVE  SmokeReceipt
<1>0. Typed /\ BusyPlaces /\ NothingAhead
  BY DEF AuditInv, AnyOrderInv
<1>1. ASSUME Simple PROVE FALSE
  <2>1. PICK s \in Stages, passed \in BOOLEAN : SimpleTarget(s, passed)
    BY <1>1, SimpleIsOneStep
  <2>2. Concludes(s, passed) /\ Writes(s, passed)
    BY <2>1 DEF SimpleTarget, Target
  <2>3. Running /\ flow.at = 15 /\ passed
    BY <1>0, <2>2, EndsComplete DEF Concludes
  <2>4. s = Order[flow.at] /\ flow.at \in 1 .. 15
    BY <2>2, <2>3 DEF Concludes
  <2>5. Writes(Order[flow.at], TRUE)
    BY <2>2, <2>3, <2>4, Zenon
  <2> QED
    BY <1>0, <2>3, <2>4, <2>5, GoodWrites
<1>2. ASSUME Submit PROVE FALSE
  <2>1. PICK passed \in BOOLEAN : Concludes("submit_mock_lsf", passed)
    BY <1>0, <1>2, SubmitIsTarget DEF Target
  <2>2. Running /\ flow.at = 15
    BY <1>0, <2>1, EndsComplete DEF Concludes
  <2> QED
    BY <2>1, <2>2, OrderOfTargets DEF Concludes
<1>3. ASSUME WrapperStep PROVE FALSE
  <2>1. UNCHANGED flow /\ verdict = "RUN"
    BY <1>0, <1>3, PayloadStep, ReportStep
    DEF WrapperStep, WrapperSettles, Promise!Settle, PayloadPasses,
        WrapperReports
  <2> QED
    BY <2>1 DEF AuditInv, CompletedIsQuiet
<1>4. ASSUME WaitStep PROVE FALSE
  <2>1. CASE WaitBegins
    BY <1>0, <2>1, EntersFlow DEF WaitBegins, Typed, Running
  <2>2. CASE WaitExpires \/ WaitFindsNobody
    BY <1>0, <2>2 DEF WaitExpires, WaitFindsNobody, NothingAhead
  <2>3. CASE WaitReports
    <3>1. PICK passed \in BOOLEAN : Ends(passed)
      BY <2>3 DEF WaitReports
    <3> QED
      BY <1>0, <2>3, <3>1, EndsComplete DEF WaitReports, BusyPlaces
  <2> QED
    BY <1>4, <2>1, <2>2, <2>3 DEF WaitStep
<1>5. ASSUME StartPlaybook PROVE FALSE
  BY <1>0, <1>5, StartTyped
<1>6. ASSUME Ends(FALSE) PROVE FALSE
  BY <1>0, <1>6, EndsComplete
<1>7. ASSUME ManifestAssemble \/ (SmokeCheck /\ Enters) PROVE FALSE
  BY <1>0, <1>7, EntersFlow DEF ManifestAssemble, Typed, Running
<1>8. ASSUME ManifestEvidence \/ SmokeEvidence \/ SmokeRefresh PROVE FALSE
  BY <1>0, <1>8
  DEF ManifestEvidence, SmokeEvidence, SmokeRefresh, Assemble, NothingAhead
<1>9. ASSUME ManifestReassemble PROVE FALSE
  <2>1. PICK passed \in BOOLEAN : Ends(passed) /\ busy = "evidenced"
    BY <1>9 DEF ManifestReassemble, Assemble
  <2>2. Running /\ flow.at = 15
    BY <1>0, <2>1, EndsComplete
  <2> QED
    BY <1>0, <2>1, <2>2 DEF BusyPlaces
<1>10. ASSUME PlaybookDies PROVE FALSE
  BY <1>0, <1>10, DiesFlow DEF PlaybookDies, Typed
<1> QED
  BY <1>1, <1>2, <1>3, <1>4, <1>5, <1>6, <1>7, <1>8, <1>9, <1>10, StepsOfRun
  DEF DocStep, ReassemblyRaises, Tears, Stops, SmokeCheck

LEMMA CompletedStep ==
    ASSUME AuditInv, Next
    PROVE  CompletedIsQuiet' /\ CompletedRunIsAudited'
<1> SUFFICES ASSUME flow'.outcome = "complete"
             PROVE  CompletedIsQuiet' /\ CompletedRunIsAudited'
  BY DEF CompletedIsQuiet, CompletedRunIsAudited
<1>0. Typed /\ EarnedByJobs /\ SmokeReceipt
  BY CompletesBySmoke DEF AuditInv, AnyOrderInv
<1>1. /\ Passes(disk.manifest) /\ Ends(TRUE) /\ WorkKept
      /\ disk'.receipt = [status |-> "pass", current |-> TRUE]
      /\ disk'.manifest = disk.manifest
      /\ UNCHANGED <<job, verdict, reported, evidence>>
      /\ busy = "refreshed"
  BY <1>0, SmokeReceived, EndsComplete DEF SmokeReceipt, jobVars
<1>2. Running /\ flow.at = 15 /\ flow.good /\ flow'.run = flow.run
  BY <1>0, <1>1, EndsComplete
<1>3. Good
  BY <1>2 DEF Good
<1>4. /\ verdict = "DONE"
      /\ paid => evidence[Payload] = [status |-> "pass", of |-> job]
                 /\ disk.raw = job
      /\ disk.accounting = [job |-> job, state |-> "DONE"]
  BY <1>2, <1>3 DEF AuditInv, JobAudited
<1>5. paid
  BY <1>0, <1>4 DEF EarnedByJobs
<1>6. /\ disk.required.of = job /\ disk.adHoc = job /\ disk.reports = job
      /\ disk.validation = "pass"
      /\ disk.post = [raw |-> job, products |-> <<job, job, job>>]
      /\ disk.manifest.content = Assembled
  BY <1>1, <1>2, <1>3 DEF AuditInv, ProductsAudited
<1>7. \A i \in 1 .. 15 : OfThisRun(Order[i])
  <2>1. /\ OfThisRun(Order[15])
        /\ \A i \in 1 .. 15 : i < 15 => OfThisRun(Order[i])
    BY <1>1, <1>2, <1>3, OrderOfTargets DEF AuditInv, StagesPassed
  <2> QED
    BY <2>1
<1>8. \A i \in DOMAIN Order : OfThisRun(Order[i])'
  BY <1>1, <1>2, <1>7, OrderOfTargets DEF OfThisRun
<1>9. FinalRecord = [job |-> job, state |-> "DONE"]
  BY <1>4 DEF FinalRecord, NoVerdict
<1>10. LET content == disk.manifest.content
       IN  /\ content.stages = evidence
           /\ content.final = [job |-> job, state |-> "DONE"]
           /\ content.validation = "pass"
           /\ content.post = [raw |-> job, products |-> <<job, job, job>>]
  BY <1>6, <1>9 DEF Assembled
<1>11. Products(disk)' = <<job, job, job>>
  BY <1>1, <1>6 DEF Products, WorkKept
<1>12. evidence[Payload] = [status |-> "pass", of |-> job]
  BY <1>4, <1>5
<1>13. CompletedRunIsAudited'
  BY <1>1, <1>8, <1>10, <1>11, <1>12 DEF CompletedRunIsAudited
<1> QED
  BY <1>1, <1>4, <1>13 DEF CompletedIsQuiet

LEMMA AuditInitInv == Init => AuditInv
<1> SUFFICES ASSUME Init PROVE AuditInv
  OBVIOUS
<1>1. AnyOrderInv /\ NothingAhead
  BY OwnInitInv DEF OwnInv
<1> QED
  BY <1>1
  DEF Init, AuditInv, StagesPassed, JobAudited, ProductsAudited, Good,
      Running, CompletedIsQuiet, CompletedRunIsAudited

LEMMA AuditStepInv == AuditInv /\ [Next]_vars => AuditInv'
<1>1. ASSUME AuditInv, Next PROVE AuditInv'
  <2>1. AnyOrderInv' /\ NothingAhead'
    BY <1>1, AnyOrderStep, AheadStep DEF AuditInv, AnyOrderInv
  <2> QED
    BY <1>1, <2>1, AuditGood, CompletedStep DEF AuditInv
<1>2. ASSUME AuditInv, UNCHANGED vars PROVE AuditInv'
  <2>1. AnyOrderInv'
    BY <1>2, AnyOrderStep DEF AuditInv
  <2>2. UNCHANGED <<job, verdict, paid, reported, flow, busy, evidence, disk>>
    BY <1>2 DEF vars, jobVars
  <2>3. NothingAhead' /\ StagesPassed' /\ JobAudited' /\ CompletedIsQuiet'
    BY <1>2, <2>2
    DEF AuditInv, NothingAhead, StagesPassed, JobAudited, CompletedIsQuiet,
        OfThisRun, Running, Good
  <2>4. ProductsAudited'
    BY <1>2, <2>2
    DEF AuditInv, ProductsAudited, Good, Running, Assembled, FinalRecord
  <2>5. CompletedRunIsAudited'
    BY <1>2, <2>2
    DEF AuditInv, CompletedRunIsAudited, OfThisRun, Products
  <2> QED
    BY <2>1, <2>3, <2>4, <2>5 DEF AuditInv
<1> QED
  BY <1>1, <1>2

(***************************************************************************)
(* As long as every target has passed, a playbook, on a fresh or a reused  *)
(* run root, has each link of its audit behind it.                         *)
(***************************************************************************)
THEOREM AuditInvariant == Spec => []AuditInv
  BY AuditInitInv, AuditStepInv, PTL DEF Spec

(***************************************************************************)
(* So a playbook that ends well leaves a manifest, under a matching        *)
(* receipt, of this very run and of the job it submitted.                  *)
(***************************************************************************)
THEOREM CompletedStaysAudited == Spec => []CompletedRunIsAudited
<1>1. AuditInv => CompletedRunIsAudited
  BY DEF AuditInv
<1> QED
  BY <1>1, AuditInvariant, PTL

=============================================================================
