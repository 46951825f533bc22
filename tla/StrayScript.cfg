\* What preflight passes, run over any files of those names.
SPECIFICATION Spec
INVARIANT OnlyApprovedRuns
CHECK_DEADLOCK FALSE
