SPECIFICATION FairSpec
CONSTANTS
    Requests = {r1, r2}
    WsRequests = {}
    Threads = {t1, t2}
    Procs = {p1}
    NoReq = NoReq
    Diffs <- PlainDiffs
    MaxTokens = 2
    MaxUpdates = 1
    Faults = {"error"}
INVARIANTS
    UndisturbedIsExact
PROPERTIES
    StreamsAndLocksEnd
CHECK_DEADLOCK FALSE
