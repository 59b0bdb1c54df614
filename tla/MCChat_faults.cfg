SPECIFICATION Spec
CONSTANTS
    Requests = {r1, w1, w2}
    WsRequests = {w1, w2}
    Threads = {t1}
    Procs = {p1}
    NoReq = NoReq
    Diffs <- PlainDiffs
    MaxTokens = 1
    MaxUpdates = 0
    Faults = {"deny", "expire", "disconnect", "cut", "redis", "crash", "error"}
SYMMETRY Symmetry
INVARIANTS
    ChatInv
    SerialUnlessLost
PROPERTIES
    TurnsKept
CHECK_DEADLOCK FALSE
