----------------------------- MODULE SerialLsf -----------------------------
(***************************************************************************)
(* The mock-LSF scheduler as the playbook drives it: one Make target at a  *)
(* time, each run to its end before the next one starts.  The wrapper of a *)
(* submitted job runs beside them.  Targets come in any order and may be   *)
(* repeated, as in focused debugging over a reused run root.               *)
(*                                                                         *)
(* The discipline is that of the task loop in                              *)
(* ansible/playbooks/run_synthetic_workflow.yml: the command task of one   *)
(* target returns only when make has.                                      *)
(***************************************************************************)
EXTENDS MockLsf, Naturals

One(condition) == IF condition THEN 1 ELSE 0

Foreground ==
    Cardinality({j \in Jobs : submit[j] \in SubmitBusy})
        + Cardinality({w \in Waiters : wait[w] \in WaitBusy})
        + One(collect # "none") + One(extract = "open")

SerialNext == Next /\ Foreground' <= 1

SerialSpec == Init /\ [][SerialNext]_vars

FairSerialSpec == SerialSpec /\ Fairness

-----------------------------------------------------------------------------
Submitting == \E j \in Jobs : submit[j] \in SubmitBusy

(***************************************************************************)
(* Resubmission is refused for exactly as long as a wrapper can still      *)
(* write: two wrappers never live at once, whatever was killed in between. *)
(***************************************************************************)
AtMostOneWrapper ==
    \A j, k \in Jobs :
        wrapper[j] \in WrapperLive /\ wrapper[k] \in WrapperLive => j = k

(***************************************************************************)
(* A terminal job-state.json means nobody will write it any more: neither  *)
(* a wrapper that read an earlier state nor one that is about to claim.    *)
(***************************************************************************)
TerminalIsQuiet ==
    Whole(jobState) /\ IsTerminal(jobState.entry)
        => \A j \in Jobs : wrapper[j] \notin WrapperLive

(***************************************************************************)
(* What a wait has reported of a job, and the playbook has acted on, stays *)
(* what job-state.json says of that job.                                   *)
(***************************************************************************)
ReportedVerdictStands ==
    \A w \in Waiters :
        /\ wait[w] = "done"
        /\ waitState[w].pid = jobState.entry.pid
        => waitState[w] = jobState.entry

(***************************************************************************)
(* Between submissions, a DONE in job-state.json names a job whose payload *)
(* passed, and its terminal-state.json and stage evidence are of the same  *)
(* job and say the same.                                                   *)
(***************************************************************************)
DoneIsBacked ==
    /\ Whole(jobState)
    /\ jobState.entry.state = "DONE"
    /\ ~Submitting
    => /\ jobState.entry.pid \in passed
       /\ terminalState = jobState
       /\ evidence = [pid |-> jobState.entry.pid, status |-> "pass"]

(***************************************************************************)
(* Extraction that passes the gate reads the raw output of the job that    *)
(* the gate's DONE is about, never the output of another job that passed.  *)
(* What may have replaced it is the output of an engine that ran on after  *)
(* its wrapper alone was killed, since no wait kills it: see the README.   *)
(***************************************************************************)
Abandoned == {j \in Jobs \ passed : wrapper[j] = "dead"}

ExtractsOwnOutput ==
    extract = "open" => rawOutput \in {jobState.entry.pid} \cup Abandoned

(***************************************************************************)
(* A wait that returns a state, and one that is interrupted by nothing but *)
(* a torn read, leaves no wrapper running: the job ends, hung payload or   *)
(* not, once somebody waits for it.                                        *)
(***************************************************************************)
WaitEndsJob ==
    \A w \in Waiters :
        wait[w] \in WaitBusy
            ~> \/ wait[w] = "failed"
               \/ \A j \in Jobs : wrapper[j] \notin WrapperLive

(***************************************************************************)
(* docs/architecture.md lists the final DONE, EXIT or TIMEOUT as what      *)
(* terminal-state.json holds.  So the two files agree on a finished job.   *)
(***************************************************************************)
VerdictFilesAgree ==
    /\ Whole(jobState)
    /\ IsTerminal(jobState.entry)
    /\ terminalState.content = "whole"
    => terminalState.entry.state = jobState.entry.state

-----------------------------------------------------------------------------
(***************************************************************************)
(* The serial scheduler implements JobPromise.  A job counts as submitted  *)
(* from the truncation that puts its first record into job-state.json.     *)
(***************************************************************************)
Submitted ==
    {j \in Jobs : wrapper[j] # "unborn" \/ submit[j] \in {"initFill", "spawn"}}

Reported ==
    IF \E w \in Waiters :
         wait[w] = "done" /\ waitState[w].pid = jobState.entry.pid
    THEN jobState.entry.state
    ELSE "none"

Promise == INSTANCE JobPromise WITH
    job <- Cardinality(Submitted),
    verdict <- jobState.entry.state,
    paid <- jobState.entry.pid \in passed,
    reported <- Reported,
    released <- extract = "open"

(***************************************************************************)
(* Every step of the files and processes is a step of the promise or is    *)
(* invisible to it: in particular no verdict moves from EXIT or TIMEOUT to *)
(* DONE, and none moves at all once it is reported.                        *)
(***************************************************************************)
ImplementsPromise == Promise!Spec

=============================================================================
