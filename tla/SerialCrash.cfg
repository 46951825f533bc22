\* One command at a time; the wrapper, and a command that waits for it, may be
\* killed between any two steps.  With fairness, a job that is waited for ends.
CONSTANTS
    Jobs = {j1, j2}
    Waiters = {w1, w2}
    NoPid = NoPid
    Crashes = {"wrapper", "wait"}
    Readers = {"collect", "extract"}
SPECIFICATION FairSerialSpec
INVARIANTS
    AtMostOneWrapper
    TerminalIsQuiet
    ReportedVerdictStands
    DoneIsBacked
    ExtractsOwnOutput
PROPERTIES
    ImplementsPromise
    WaitEndsJob
CHECK_DEADLOCK FALSE
