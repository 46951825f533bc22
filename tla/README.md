# Formal verification of the synthetic provenance workflow

TLA+ modules, TLC runs and TLAPS proofs for the Python package `provenance`,
its Make targets and the Ansible playbook that drives them. Paths below are
relative to the repository unless they start with `tla/`.

## 1. Inventory of the system

One *run* is a directory `runs/{run_id}` and a sequence of Make targets over
it. Every target starts a short-lived `uv run provenance <command>` process;
the processes share nothing but files. The one process that outlives its
command is the mock-LSF *wrapper*, started by `submit-mock-lsf` in a session of
its own.

| component | state it keeps | operations | interacts with |
|---|---|---|---|
| mock-LSF scheduler (`scheduler.py`) | `scheduler/job-state.json`, `terminal-state.json`, `submission.yaml`, `accounting.yaml`, logs | submit, wait, collect, wrapper | spawns the wrapper; wrapper calls `stages.py`; wait kills the process group |
| stages (`stages.py`) | stage evidence, stdout/stderr logs, products | simulation, two extractions; stage order; scheduler gate | runs scripts of the controlled source |
| command line (`cli.py`, `Makefile`) | `*.stage.json`, inventories, receipts | one command per target; errors become exit 2 | every module |
| workflow playbook (`ansible/`) | position in the stage list | one target after the other, also behind one that fails; the task fails when the loop is over | `make` |
| Git state (`git_state.py`) | none (reads a worktree) | repository state, ref resolution, tracked files, script identity | preflight, workspace, manifest |
| preflight (`preflight.py`) | none | rules over configuration and repositories; fresh run root | git state, config |
| workspace (`workspace.py`) | run directories, copied inputs and scripts | prepare, materialize inputs, materialize scripts | controlled source, hashing |
| manifest (`manifest.py`) | `manifest.yaml`, smoke receipt | assemble (twice), smoke check with a refresh | all evidence files |
| CSV validation (`validation.py`) | none | shape and key checks over rows | extraction products |
| inventory, hashing (`inventory.py`, `hashing.py`) | inventories | listing, role inference, hash policy | manifest |
| configuration (`config.py`, `configs/`) | none | scheduler section checks | every command |
| reports (`reports.py`) | workbook, chart, slides | generated from CSV | manifest |
| controlled source (`templates/`) | raw output file | engine writes a temporary file and moves it | stages |
| bootstrap (`scripts/`) | controlled source repository | create, verify, update | preflight |

What is hard here:

- **Concurrency.** The wrapper runs beside the commands. Submit, wrapper and
  wait all write `job-state.json` with read-modify-write and no lock, and the
  targets are public: nothing but the playbook keeps two commands apart.
- **Files written in two steps.** `Path.write_text` truncates and then fills;
  pollers read in between.
- **Crashes.** The wrapper may die between its two verdict files; a submit
  may die before it publishes the pid. Recovery reads what is left.
- **Timeouts.** The wait's deadline races the wrapper's verdict; the handshake
  has a deadline of its own.
- **Resubmission.** `RUN_ROOT_POLICY=reuse` runs targets again over old
  evidence, of which submit removes only `terminal-state.json`.
- **A loop that goes on.** The playbook is one looped task: the targets behind a
  failed one run over what is there. What keeps a run honest is therefore
  what each target asks of the files, not the order alone.
- **A worktree that others change.** The controlled source is judged at
  preflight and at each materialization and used file by file, later, live.
- **A manifest about itself.** It is assembled twice and refreshed by the smoke
  check, so that it lists the evidence of its own making.

What makes each component correct:

- *scheduler*: DONE is never made up; a verdict, once reported, is final; TIMEOUT
  leaves no process behind; one payload at a time; waits end.
- *stages*: extraction reads the output of the job that is DONE; a stage passes
  only with all its outputs.
- *workflow*: a playbook that ends well has passed every stage over its own
  job; a root admitted as fresh holds nothing of anyone else; playbooks end.
- *git state, preflight, workspace*: what is copied is what the recorded commit
  holds; what extraction ran is what the manifest identifies.
- *bootstrap*: when it says done, the tag names a clean commit of the template,
  and no uncommitted work was overwritten.
- *manifest*: it is complete when the smoke check passes, and DONE in its
  scheduler section belongs to a payload that passed.
- *validation, configuration, inventory*: each computes its documented
  predicate, at the boundaries too.

`PROJECT.json` lists the hazards line by line with the property that covers
each, and for those without one the reason. Five of these are behaviours that the
models have and that the properties exempt, because the code does not prevent
them and no document promises otherwise: the engine of a wrapper killed alone, a
resubmission between the extraction gate and the read, a controlled source that
changes while it is being copied, copies of a materialization that stopped half-way, and
scripts edited after preflight.

## 2. Modules

| module | models |
|---|---|
| `MockLsf` | submit, wrapper, payload, wait, collect and the extraction gate of one run id; any command at any time |
| `SerialLsf` | the same actions with at most one command in the foreground, as the playbook runs them; refinement mapping to `JobPromise` |
| `JobPromise` | the abstract job: RUN, verdict, payload passed, report, release |
| `MockLsfProofs`, `SerialLsfProofs` | inductive invariants and theorems about `MockLsf` and `SerialLsf` |
| `PromiseProofs` | step simulation: `SerialLsf` implements `JobPromise` |
| `MCMockLsf` | the instance TLC checks |
| `Workflow` | the playbook, focused targets, every evidence file, the manifest and the smoke receipt of one run root; composed with `JobPromise` as its scheduler |
| `ControlledRepo` | the controlled source as a Git repository, and the operator who changes it |
| `Bootstrap` | the bootstrap script over `ControlledRepo`, killed and restarted anywhere |
| `SourceGate` | preflight, the two materializations, extraction and the manifest's view of the repository, over `Bootstrap` |
| `BootstrapProofs`, `SourceGateProofs` | theorems about `Bootstrap`, and about `SourceGate` as its refinement |
| `WorkflowProofs` | theorems about `Workflow` |
| `RuleProofs`, `KeyPathProofs` | theorems about the rules, for inputs of every size; the second about required key paths |
| `CsvShape` | the CSV shape checks, and what a truncated product looks like to them |
| `KeyPaths` | the walk along required manifest keys, and what it should find |
| `StageRecords` | stage order in the playbook and in the manifest, and the run's time range |
| `StageGate` | what preflight asks of a stage's command, and what is executed for it |
| `MCRules` | the bounded inputs over which `CsvShape`, `KeyPaths` and `StageRecords` are checked |
| `MCStageGate` | the executing stages in every working directory, over any files of their names |

### MockLsf and the code

State. `jobState` and `terminalState` are files: missing, torn (truncated, or
garbled by two overlapping writers) or whole, with the two keys that decide
anything, `state` and `pid`. A torn file keeps its intended entry as a ghost
that no action reads. `submit`, `wrapper` and `wait` are program counters, one
step per read, write or spawn; `submitState`, `wrapperState` and `waitState`
are the mappings these processes hold in memory, which is where stale data
comes from. `evidence`, `rawOutput`, `accounting`, `submission` are the other
files, each reduced to whose it is and what it says. `passed` is history.

| code | actions |
|---|---|
| `submit_mock_lsf_job` | `SubmitRefused`, `SubmitCheck`, `SubmitUnlink`, `SubmitTruncate`/`SubmitFill` (first record, then pid), `SubmitSpawn`, `SubmitReread`, `SubmitRereadFails`, `SubmitRecord` |
| `run_mock_lsf_wrapper` | `WrapperHandshake`, `WrapperHandshakeFails`, `WrapperTruncate`/`WrapperFill` (claim, then final state), `WriteEvidence`, `TerminalTruncate`/`TerminalFill` |
| `run_synthetic_simulation` and the engine | `EngineOutput`, `PayloadPasses`, `PayloadFails`, `PayloadRaises`, `OrphanEnds` |
| `wait_mock_lsf_job`, `_cmd_wait_mock_lsf` | `WaitStart`, `WaitRead`, `WaitReadFails`, `WaitTerminal`, `WaitTimeout`, `WaitSleep`, `WaitVanished`, `WaitRecover`, `WaitTruncate`/`WaitFill` (twice: the job's write and the command's) |
| `collect_mock_lsf_accounting` | `CollectRead`, `CollectWrite` |
| `_require_scheduler_done_for_extraction` and the stage | `ExtractGate`, `ExtractRun` |
| kill, power loss | `SubmitCrash`, `WrapperCrash`, `WaitCrash` |

`DeadlinePasses` is `time.monotonic()` crossing the deadline of a wait. The
operators before an action whose comment says "seeded fault" are faulty
variants of it; no specification uses them. They show that each property can
fail.

Abstractions, and why they are sound for the properties checked:

- Wrapper `j` has pid `j`; start ticks make a reused pid not alive, so pids are
  not reused. `_terminate_process_group` does not compare ticks; that is
  listed as a hazard and not modelled.
- A wrapper that has ended is reaped once its submit has exited (by init); until
  then `kill(pid, 0)` succeeds.
- SIGTERM, the pause of 0.1 s and SIGKILL are one step: a Python wrapper and the
  shell scripts it runs die of the first.
- `evidence`, `submission` and `accounting` are written in one step: no modelled
  process reads them while they are being written.
- Timestamps, log files, messages and hashes decide nothing here.
- `run-simulation`, the direct way to run the payload, is an action of `Workflow`
  and not of this module.

### Workflow and the code

State. `evidence` holds for each stage the status in its `*.stage.json` and the
playbook that wrote it (0 for a target on its own); for the payload, the job.
`disk` is every other file of the run root, each reduced to the job it is of and
to what later targets ask of it. `flow` is the playbook, `busy` the step of a
target that reads back its own writes. The five variables of `JobPromise`
are the scheduler: `Submit`, `PayloadPasses`, `WrapperSettles`, `WaitExpires`,
`WaitFindsNobody` and `WaitReports` are conjunctions with its actions, and
`serial_crash` and the theorem `PromiseKept` show that the real scheduler refines
them. So the workflow is checked over a scheduler of a few states that stands for the detailed one.

| code | actions |
|---|---|
| the playbook's loop | `StartPlaybook`, `Takes`, `Ends`, `PlaybookDies` |
| support targets (evidence written last, as passed) | `Preflight`, `PrepareWorkspace`, `MaterializeInputs`, `MaterializeProcs`, `InventoryPre`, `Submit`, `BuildReports`, `InventoryPost`, each through `Support` |
| targets with a verdict of their own | `Validate`, `WaitReports`, `Collect`, `RunSimulation`, `ExtractRequired`, `ExtractAdHoc` |
| the wrapper | `PayloadPasses`, `WrapperReports`, `WrapperSettles` |
| the wait | `WaitBegins`, `WaitExpires`, `WaitFindsNobody`, `WaitReports` |
| `_cmd_assemble_run_manifest` | `ManifestAssemble`, `ManifestEvidence`, `ManifestReassemble` |
| `_cmd_smoke_manifest` | `SmokeCheck`, `SmokeEvidence`, `SmokeRefresh`, `SmokeReceipt` |
| a refusal; an error or kill before any output, between outputs and evidence, inside the evidence, inside manifest or receipt | `Refused`; `Errs`, `BreaksOff`, `Stops`, `ReassemblyRaises` |

Abstractions: a target is atomic apart from the cuts named in the last row; the
wrapper and the payload run beside the targets. A product is the job whose raw
output it was made from and, for the required one, whether its shape is right.
The manifest is what it was assembled from. A file torn by a kill is
modelled for stage evidence, manifest (at each of its writes) and receipt, the files
that are read without a way round; a torn manifest may still be readable YAML.
`disk.opened` stands for the directories a command of the scheduler, the direct
payload or the reports make before they look at anything: a refusal may leave a
root that is no longer bare (`Opens`).

### ControlledRepo, Bootstrap, SourceGate and the code

State. A tree gives each template file a version (content and mode). The
repository is commits, `head`, the release tag, index and worktree; the
operator edits, commits, checks out and moves the tag. `edited` is history: work
of his that no commit holds. In `SourceGate` a target holds in memory what the
Python process holds: the HEAD it captured, the files still to copy, the hashes
taken so far; `dest` is the copies, `record` the evidence files, `executed` what
the latest extraction ran. `calm`, `torn` and `since` are history.

| code | actions |
|---|---|
| `bootstrap_controlled_source.sh`, command by command | `BootStart`, `BootGitInit`, `BootMatch`, `BootVerify`, `BootClear`, `BootCopy`, `BootAdd`, `BootCommit`, `BootTag`, `BootFinal`, `BootKilled` |
| `capture_repository_state` in preflight and materialization | `Capture` |
| `resolve_ref`, `script_identity`, end of `run_preflight` | `PreflightVerdict` |
| `_materialization_context`, `_copy_controlled_file`, the commands' evidence | `MaterializeResolve`, `MaterializeCopy`, `MaterializeHash`, `MaterializeRecord`, `MaterializeStops` |
| `_run_configured_stage` starting a script in place | `Extract` |
| `_pre_run_inventory_records`, `_controlled_repository_manifest_record` | `InventoryEntry`, `ManifestScript`, `ManifestRepository` (read in the properties) |

`CopiesAreOfTheCommit` and `AuditIsTrue` speak of a repository that nobody
changed under the target, or since preflight. That is the assumption
docs/how_to_use_this_mvp.md states under "No time-of-check/time-of-use lock"; the
model has all the other interleavings too and `LineageAgrees` holds in them.
TLC showed that preflight alone does not make the audit true, because it lets
HEAD and ref differ: it takes a materialization, which compares them.

### The rules

`CsvShape`, `KeyPaths` and `StageRecords` have no state. Each states
beside the code's function what it is relied on for, and `MCRules` picks every
input of a bounded set: a cut product is noticed exactly when a field is missing
or the minimum of rows is; an empty value is found in whatever list it sits; the
manifest lists evidence in the playbook's order if no two stages share a
`display_order`; the run's time range covers the stages, short of less than a
second when a stamp falls on a whole second (`isoformat` writes no fraction then,
and "Z" sorts behind ".").

`StageGate` has both ends of a configured command. `StagePasses` is what
`_validate_stages` and `_validate_scheduler_payload` demand; `Executed` is the file
that is started later, which the code finds in two ways: a configured stage by its
`command_kind` and the prefix of its command (`_stage_command_argv`), the payload by
what exists in its working directory and then in `sim-run-root`
(`_command_argv`), whatever the kind. A path is the sequence of its parts, and a file
is a path under the wrapper, the controlled source, `sim-run-root` or
`provenance`. The two ends do not meet: finding 5.

## 3. Runs

Deadlock is not checked: every command and every playbook ends, and the bounds
run out.

| run | specification | instance | shows |
|---|---|---|---|
| `any_two_submits` | `Spec` | 2 submissions, submits and wrappers killable, collect and extraction | `DoneNeedsPass`, `EvidencePrecedesDone` under concurrent submissions |
| `any_two_waits` | `Spec` | 1 submission, 2 waits, everything killable, collect | `TypeOK`, the two above, `TimeoutMeansDead` under concurrent waits |
| `any_live` | `FairSpec` | 1 submission, 1 wait, submit and wrapper killable | `WaitReturns`, `HandshakeEnds` |
| `serial_crash` | `FairSerialSpec` | 2 submissions, 2 waits, wrapper and wait killable, collect and extraction | `AtMostOneWrapper`, `TerminalIsQuiet`, `ReportedVerdictStands`, `DoneIsBacked`, `ExtractsOwnOutput`, refinement `ImplementsPromise`, liveness `WaitEndsJob` |
| `second_payload` | `Spec` | 2 submissions | violation, finding 1 |
| `early_wait` | `Spec` | 1 submission, 1 wait | violation, finding 2 |
| `late_timeout` | `SerialSpec` | 1 submission, 1 wait | violation, finding 3 |
| `workflow` | `Workflow!Spec` | 2 playbooks, 1 focused target, 1 fault | `AdmittedRootIsOwn`, `CompletedRunIsAudited`, `ManifestDoneIsEarned`, `ReceiptCoversManifest`, `PlaybookEnds` |
| `playbook_fails` | `Workflow!Spec` | 1 playbook, 1 focused target, no fault | violation, finding 4 |
| `source_gate` | `SourceGate!Spec` | 1 input, 1 script, 2 versions, 2 interventions of the operator, any number of targets and bootstraps | `DoneMeansContract`, `EditsSurviveBootstrap`, `CopiesAreOfTheCommit`, `LineageAgrees`, `AuditIsTrue` |
| `rules` | `MCRules!Spec` | every input listed in `MCRules` | `TornProductIsNoticed`, `SmokeMissesNothing`, `OneStageOrder`, `RunCoversStages` |
| `stray_script` | `MCStageGate!Spec` | payload and one extraction, 3 working directories, any of 6 files there | violation, finding 5 |

*Bounds.* Every safety invariant of a run, `EditsSurviveBootstrap` and the refinement
hold beyond the bounds below by proof (section 4); the runs keep the models alive,
show that each property can fail, and check liveness. The first seven runs are of `MCMockLsf`. Their only bounds are the sets `Jobs` and `Waiters`: each member is one
invocation, and a process makes finitely many steps apart from polling, so no
counter needs a cap. Two submissions are the least with a leftover of an
earlier job, two waits the least with a stale write-back over another wait's
verdict. A stale write-back over the record of a *resubmission* needs two submissions
and a wait in any order; that instance has five million states without any kill,
and is left to the theorems `DoneIsEarned` and `DoneHasEvidence`, which hold for any
number of both. `Crashes` and `Readers` only switch actions off, to keep a run to
the question it asks; the proofs leave them arbitrary.

In `Workflow`, `MaxRuns`, `MaxFocused` and `MaxFaults` count playbooks, targets
outside them and faults. Two playbooks are the least with old evidence under a
reused root, and each target inside one is tried with every cut; one focused
target is the least that makes a root a fresh playbook meets, or puts the direct
payload under a run; one fault can be in either playbook, in the wrapper or in a
target. More faults and focused targets are covered by the proofs. In `SourceGate`, `MaxEdits` is two because an
edit and its commit, or a commit and a moved tag, are the least that change the
repository under a clean state; one input and one script give each kind of
file. Targets and bootstraps are not bounded. In `MCRules`, three data rows and
three fields exceed the configured minimum and width, four stages and an unknown one
allow every tie and order, their evidence is listed in every order (the names stand
for any names, and the code sorts files by name), and six ticks span two whole seconds.

*Symmetry* permutes submissions and waits in the two `any_two_*` runs, which
check invariants only.

*Fairness.* Weak fairness of each started submit, wrapper and wait, and of a
polling wait's deadline: the operating system runs started processes and
monotonic time passes. There is none for starting a command, for crashes, or
for the payload, which may hang; no liveness property relies on its ending.
`WaitEndsJob` allows a wait that ends in an error, because a wait that reads a
file in the middle of a write exits with 2 and leaves the job running.

For `Workflow`, weak fairness of a running playbook's target steps: Ansible takes
the next item, the operating system runs it, and the wait's deadline passes.
None for starting a playbook, for faults, for the wrapper or for the payload.

### What the violations show

1. `second_payload`: `_has_live_existing_job` counts a RUN record without a pid
   as dead and nothing locks the check to the spawn, so concurrent submits of
   one run id both start a payload. The design note of the mock-bsub change
   asks for a refusal.
2. `early_wait`: a wait between submit's first record and the publication of the
   pid reports EXIT "process vanished" (or TIMEOUT with nothing to kill); the
   wrapper's handshake takes the terminal state as its go-ahead, sets RUN again
   and ends in DONE. The extraction gate opens after a reported failure.
3. `late_timeout`: TIMEOUT is written to `job-state.json` only, over a wrapper
   that has already put DONE into `terminal-state.json`. The documentation
   gives the latter the final `TIMEOUT`, and the manifest prefers it.

4. `playbook_fails`: a focused preflight has made the run root; a fresh
   playbook's preflight refuses it, as it should; the loop takes the next item, and
   `prepare-workspace` passes and records itself in the refused root. The
   Makefile calls preflight "Admission: fail fast before the run can start", and
   the README gives the playbook "fail-fast sequencing". `AdmittedRootIsOwn` is
   what does hold, and is worth having because of the loop: of a root that was
   admitted, nothing behind the scheduler passes without this playbook's payload.

5. `stray_script`: preflight looks at the path, the first token and the kind of a
   stage's command, and not at its `working_directory`. A payload configured to run
   in the wrapper repository passes, and executes the wrapper's own
   `procs/run-script.sh` if there is one, since the working directory comes before
   `sim-run-root`; a materialized command without a prefix is relative to the working
   directory as well. The architecture document says of preflight that no stage
   executes untracked scripts from elsewhere and that the payload command resolves to
   the approved controlled script. The shipped configuration runs the payload in
   `sim-run-root` and the extractions from the controlled source, and is not affected.

A bootstrap whose tag check fails has already committed: HEAD has moved past the
tag, and the next bootstrap finds a clean repository that does not match and
fails in the same way. The script says so in its error; no run is about it.

A case no document speaks about: the wrapper *alone* is killed, by a signal to
its pid and not to its group. The wait records EXIT without killing the group,
the engine runs on, and its `mv` may replace the raw output of a resubmitted
job after that job's DONE. `ExtractsOwnOutput` names this exception
(`Abandoned`) and allows no other; without it TLC finds the case in
`serial_crash`.

## 4. Proofs

TLAPS checks the theorems below for arbitrary constants. The assumptions they use
are those the modules declare: `NoPidAssumption` (`NoPid` is no job),
`RepoAssumption` (inputs and scripts are different files, the template's version
is a version and the absent file is none, `MaxEdits` is a number),
`GateAssumption` (what a stage executes is a script) and `WorkflowAssumption`
(the three bounds are numbers). No constant is assumed finite.

| theorem | states |
|---|---|
| `TypeCorrect`, `DoneInvariant`, `DoneIsEarned`, `DoneHasEvidence`, `ExpiredJobIsDead` (`MockLsfProofs`) | `Spec => []` of `TypeOK`, `DoneInv`, `DoneNeedsPass`, `EvidencePrecedesDone`, `TimeoutMeansDead` |
| `SerialInvariant`, `OneWrapper`, `TerminalStaysQuiet`, `VerdictStands`, `DoneStaysBacked`, `ExtractionIsOwn` (`SerialLsfProofs`) | under `SubmitsSurvive`, `SerialSpec => []` of `SerialInv`, `AtMostOneWrapper`, `TerminalIsQuiet`, `ReportedVerdictStands`, `DoneIsBacked`, `ExtractsOwnOutput` |
| `PromiseKept` (`PromiseProofs`) | under `SubmitsSurvive`, `SerialSpec => ImplementsPromise` |
| `BootInvariant`, `DoneIsContract`, `EditsSurvive` (`BootstrapProofs`) | `BootSpec` implies `[]BootInv`, `[]DoneMeansContract`, `EditsSurviveBootstrap` |
| `RunLeavesRepo`, `RunDoneIsContract`, `RunEditsSurvive` (`SourceGateProofs`) | `Spec => BootSpec`, and so the same two of a whole run |
| `GateInvariant`, `CopiesOfTheCommit`, `LineageStaysTrue`, `AuditStaysTrue` (`SourceGateProofs`) | `Spec => []` of `GateInv`, `CopiesAreOfTheCommit`, `LineageAgrees`, `AuditIsTrue` |
| `AnyOrderInvariant`, `ManifestStaysEarned`, `ReceiptStaysTrue` (`WorkflowProofs`) | `Spec => []` of `AnyOrderInv`, `ManifestDoneIsEarned`, `ReceiptCoversManifest` |
| `OwnInvariant`, `RootStaysOwn` (`WorkflowProofs`) | `Spec => []` of `OwnInv`, `AdmittedRootIsOwn` |
| `AuditInvariant`, `CompletedStaysAudited` (`WorkflowProofs`) | `Spec => []` of `AuditInv`, `CompletedRunIsAudited` |
| `CutsAreNoticed`, `RangeCovers`, `ManifestFollows` (`RuleProofs`) | `CutIsNoticed` for any rows, header and minimum; `RangeCoversStages` for any number of stages and stamps; `ManifestFollowsPlaybook` for any number of stages and records, each with a name of its own |
| `EveryItemIsLookedAt` (`KeyPathProofs`) | `NothingIsMissed` for every manifest and path of any depth |
| `TornProducts`, `RangesCover`, `OneOrder` (`RuleProofs`), `SmokeChecks` (`KeyPathProofs`) | the same, `Spec => []` of `TornProductIsNoticed`, `RunCoversStages`, `OneStageOrder`, `SmokeMissesNothing` |

Every conjunct of every inductive invariant was an invariant of a TLC run before
it was proved. Each proof that a step keeps one has a lemma per process or
target and in it a case per action.

**`MockLsf`**, any commands at any time:

- `StartInv`: types; a process is spawned once, by its own submit; every record
  in a file or a memory names only spawned processes. Without it a "spawn" could
  revive a dead process, or find a memory that says DONE.
- `DoneInv` adds: wherever DONE is held, in a file, in the memory of a wrapper, a
  wait or a collect, or by an open gate, a payload has passed, its raw output
  exists and stage evidence is on disk, the last except in a wrapper that is
  about to write it. A submit never holds DONE. The property itself speaks of
  files only and is not inductive: a wait that holds a stale DONE will write it.
- `TimeoutInv` adds: TIMEOUT with a pid, in `job-state.json` or in a wait's
  memory, names an ended process; submits, wrappers and `terminal-state.json`
  never hold TIMEOUT, so recovery and the handshake cannot carry it back.

**`SerialLsf`**, one command at a time. `SerialInv` says what each of the four
parties may find: `OneCommand` (the discipline, without counting), `SubmitPhases`,
`WrapperPhases` and `WaitPhases` (at each step of a submit, a wrapper or a wait, what
the two verdict files hold and who is alive), `RecordNamesJob` and `ReportsStand`
(whom the files are about), `DoneTraced` and `OutputOwned` (whose payload a DONE
and a raw output are of). None of the five properties is inductive alone: that
there is one wrapper depends on the check of the next submit, which depends on
the pid in the record, which depends on every write of a wrapper and a wait in
between.

The hypothesis `SubmitsSurvive == "submit" \notin Crashes` is needed: a submit killed
between the spawn and the publication of the pid leaves a record without a
pid beside a live wrapper, and the next submit takes that for a dead job
(finding 1 has the same root). Wrappers and waits may be killed anywhere, as in
`serial_crash`.

**Refinement.** `PromiseInv` adds `VerdictsSettle`: a wait that has read RUN finds RUN
still, or a verdict that is in both files, and what it is about to write
contradicts nothing there. That is what makes the abstract verdict move only as
`JobPromise` allows. The mapping counts submitted jobs, so the proof also keeps
that set finite; `Jobs` itself need not be. Each step of a process then maps to a
named step of the promise or leaves its variables alone.

**`Bootstrap`**. `BootInv` has the types, `EditsShow` (uncommitted work differs from
HEAD, so `git status` sees it), how far the script has come, and for an
undisturbed script what each command finds: worktree, index, HEAD and tag fall
into line one command after the other. The contract speaks of the last command
only. `EditsSurvive` is an action property and follows from the same invariant.

**`SourceGate`**. `RunLeavesRepo` proves that the targets only read the repository, so
the bootstrap's theorems carry over. `GateInv` adds what a target holds: the commit
it captured is HEAD, clean, and the tag once resolved, unless something was
changed under it (`CalmTarget`); the files copied and hashed so far
(`HashesAgree`); what finished targets have left (`RecordsNameCommits`,
`SinceHolds`). `LineageAgrees` needs none of the calm, and is itself inductive.

**`Workflow`** has three invariants on one base.

- `AnyOrderInv` needs no playbook: verdicts of DONE are earned in the scheduler's
  files, in accounting and in the manifest, which copies them (`EarnedByJobs`,
  `DoneIsEarned`); a smoke check that is past its own evidence finds that
  evidence there and, after its refresh, in the manifest (`SmokeUnderWay`), which
  is what a matching receipt relies on.
- `OwnInv` adds that no evidence is of a playbook still to come (`NothingAhead`),
  without which a new playbook could take an old file for its own, and `Alone`:
  everything on an admitted root is of this playbook or this job, and up to the
  submit there is no job.
- `AuditInv` has, for each position in the playbook, the links of the audit that
  must lie behind it (`StagesPassed`, `JobAudited`, `ProductsAudited`); the final
  manifest's claims are the conjunction of the links at position 15. After the
  end, `CompletedIsQuiet` keeps a late wrapper or wait from changing the verdict
  under the finished run.

**The rules** have no invariant to find; their theorems are about operators. A
remainder of a product is described by its length and its rows, once, in
`RemainderRows`. The time range is a `CHOOSE` of a first and a last stamp as text, so
the proof owes that there are such stamps: a set of numbers has a least member
because `<` is well founded, and a finite one a greatest, because the smallest set
without one would have a smaller part without one.

The two loops need an induction. `UpTo` has it for sets of numbers: of the
numbers at which a claim fails, the least has none before it. The same lemma
shows that a recursive function satisfies its equation, since there is a function
for each depth (`WalkEquation`, `ReachedEquation`, `FlattenEquation`,
`TargetsEquation`).

- *Order.* A place in the stable sort is one more than the number of items that
  come before the item. Of two items one comes before the other and has fewer
  before it, so no two share a place, and by counting every place is taken
  (`Ranked`, `Sorted`). The targets keep the order of the sorted stages
  (`TargetsFollow`). Two records out of order would then have stages whose
  `display_order` both rises and falls. The theorem asks for names of their own:
  if two stages of different order had one name, the manifest would go by the last
  of them, the playbook would run both, and no order of the evidence could follow.
- *Key paths.* `OnTheWay` is the loop invariant: as long as the walk has not stopped, its
  level holds exactly the items that the path has led to, and none before lacked
  its part; it stops only at a level where one does. Manifests are taken from
  a set of values that is closed under items (`ValueSet`), which any JSON document
  is in; keys, texts and depth are arbitrary.

Model-checked only:

- Liveness (`WaitReturns`, `HandshakeEnds`, `WaitEndsJob`, `PlaybookEnds`): fairness and
  ENABLED are out of the prover's reach.
- The five runs that show violations.

## 5. Not modelled, and the plan

Not modelled, with the reason:

- The engine of a wrapper that was killed alone, in `Workflow`: `JobPromise` has
  no such action. `MockLsf` has it (`OrphanEnds`).
- The child of a killed playbook that lives on, and two preflights of one run id
  at the same time: nothing in the repository excludes either, and no document
  speaks of them.
- Files torn in the middle of a write other than stage evidence, manifest, receipt
  and the scheduler's state files; directories left by a target that fails in other
  ways than `Opens` has it.
- The number checks of the configuration. They let `.nan` and `.inf` pass as a
  timeout; the runs assume that a deadline passes.
- Preflight's checks of the clean paths of the wrapper repository.
- Cuts inside a CSV field: no check of the shape can see them.
- Absolute paths, names looked up in `PATH`, and arguments of stage commands.
- Pid reuse within one wait.
- Layout of reports, workbook and chart encoding, formatting of time stamps other than
  its effect on their order, YAML and JSON syntax, inventory listing and roles.

What is left, in this order:

1. The inventories' listing rules, as a rule module of their own.
2. The constants of the scheduler section that bound the handshake and the wait.
