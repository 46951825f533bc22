\* What the configured loop does after a preflight that has not passed.
CONSTANTS
    MaxRuns = 1
    MaxFocused = 1
    MaxFaults = 0
SPECIFICATION Spec
INVARIANT AdmissionFailsFast
CHECK_DEADLOCK FALSE
