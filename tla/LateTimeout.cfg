\* The deadline racing the wrapper's last writes, one command at a time.
CONSTANTS
    Jobs = {j1}
    Waiters = {w1}
    NoPid = NoPid
    Crashes = {}
    Readers = {}
SPECIFICATION SerialSpec
INVARIANT VerdictFilesAgree
CHECK_DEADLOCK FALSE
