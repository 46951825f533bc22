----------------------------- MODULE JobPromise -----------------------------
(***************************************************************************)
(* What the mock-LSF boundary promises about the jobs of a run id, without *)
(* files, processes or polling:                                            *)
(*                                                                         *)
(*   - a submitted job is RUN until it gets a verdict, and DONE is a       *)
(*     verdict only of a job whose payload has passed;                     *)
(*   - until a wait has reported the verdict, the wait's deadline may turn *)
(*     it into TIMEOUT, and nothing else changes it;                       *)
(*   - a reported verdict is final: only a new job replaces it;            *)
(*   - the extraction stages are released only under DONE, and while they  *)
(*     are, neither the job nor its verdict changes.                       *)
(***************************************************************************)
EXTENDS Naturals

VARIABLES
    job,        \* the number of jobs submitted
    verdict,    \* the state of the latest of them
    paid,       \* its payload has passed
    reported,   \* the verdict of it a wait has returned, or "none"
    released    \* an extraction stage is past its gate

vars == <<job, verdict, paid, reported, released>>

Init ==
    /\ job = 0
    /\ verdict = "none"
    /\ paid = FALSE
    /\ reported = "none"
    /\ released = FALSE

Submit ==
    /\ ~released
    /\ job' = job + 1
    /\ verdict' = "RUN"
    /\ paid' = FALSE
    /\ reported' = "none"
    /\ UNCHANGED released

Pass ==
    /\ verdict = "RUN"
    /\ paid' = TRUE
    /\ UNCHANGED <<job, verdict, reported, released>>

Settle ==
    /\ verdict = "RUN"
    /\ \/ verdict' = "DONE" /\ paid
       \/ verdict' = "EXIT"
    /\ UNCHANGED <<job, paid, reported, released>>

Expire ==
    /\ verdict \in {"RUN", "DONE", "EXIT"}
    /\ reported = "none"
    /\ ~released
    /\ verdict' = "TIMEOUT"
    /\ UNCHANGED <<job, paid, reported, released>>

Report ==
    /\ verdict \in {"DONE", "EXIT", "TIMEOUT"}
    /\ reported' = verdict
    /\ UNCHANGED <<job, verdict, paid, released>>

Release ==
    /\ verdict = "DONE"
    /\ released' = TRUE
    /\ UNCHANGED <<job, verdict, paid, reported>>

Finish ==
    /\ released' = FALSE
    /\ UNCHANGED <<job, verdict, paid, reported>>

Next ==
    \/ Submit \/ Pass \/ Settle \/ Expire \/ Report \/ Release \/ Finish

Spec == Init /\ [][Next]_vars

=============================================================================
