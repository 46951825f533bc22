----------------------------- MODULE MCMockLsf -----------------------------
(***************************************************************************)
(* Model checking of MockLsf and SerialLsf on small sets of submissions    *)
(* and waits.  Submissions, and waits, are interchangeable; the symmetry   *)
(* is used in the runs that check invariants only.                         *)
(***************************************************************************)
EXTENDS SerialLsf, TLC

Symmetry == Permutations(Jobs) \cup Permutations(Waiters)

=============================================================================
