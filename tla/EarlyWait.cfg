\* A wait that polls before submit has published the pid.
CONSTANTS
    Jobs = {j1}
    Waiters = {w1}
    NoPid = NoPid
    Crashes = {}
    Readers = {}
SPECIFICATION Spec
INVARIANT ReportedFailureStands
CHECK_DEADLOCK FALSE
