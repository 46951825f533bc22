\* Liveness of waits and handshakes, one submission and one wait in any order.
CONSTANTS
    Jobs = {j1}
    Waiters = {w1}
    NoPid = NoPid
    Crashes = {"submit", "wrapper"}
    Readers = {}
SPECIFICATION FairSpec
PROPERTIES
    WaitReturns
    HandshakeEnds
CHECK_DEADLOCK FALSE
