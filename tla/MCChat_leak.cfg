SPECIFICATION Spec
CONSTANTS
    Requests = {r1, r2}
    WsRequests = {}
    Threads = {t1, t2}
    Procs = {p1}
    NoReq = NoReq
    Diffs <- CorrectedDiffs
    MaxTokens = 1
    MaxUpdates = 0
    Faults = {}
SYMMETRY Symmetry
INVARIANTS
    TokensOwn
CHECK_DEADLOCK FALSE
