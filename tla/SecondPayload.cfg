\* Two concurrent submissions: the live-job check does not see an unpublished job.
CONSTANTS
    Jobs = {j1, j2}
    Waiters = {}
    NoPid = NoPid
    Crashes = {}
    Readers = {}
SPECIFICATION Spec
INVARIANT NoSecondPayload
CHECK_DEADLOCK FALSE
