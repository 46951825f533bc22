\* Two submissions in any interleaving, any of them and their wrappers killed.
CONSTANTS
    Jobs = {j1, j2}
    Waiters = {}
    NoPid = NoPid
    Crashes = {"submit", "wrapper"}
    Readers = {"collect", "extract"}
SPECIFICATION Spec
INVARIANTS
    DoneNeedsPass
    EvidencePrecedesDone
SYMMETRY Symmetry
CHECK_DEADLOCK FALSE
