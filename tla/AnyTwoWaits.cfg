\* One submission, two waits over it in any interleaving, everything killed.
CONSTANTS
    Jobs = {j1}
    Waiters = {w1, w2}
    NoPid = NoPid
    Crashes = {"submit", "wrapper", "wait"}
    Readers = {"collect"}
SPECIFICATION Spec
INVARIANTS
    TypeOK
    DoneNeedsPass
    EvidencePrecedesDone
    TimeoutMeansDead
SYMMETRY Symmetry
CHECK_DEADLOCK FALSE
