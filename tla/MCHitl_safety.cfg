SPECIFICATION DeskSpec
CONSTANTS
    Sessions = {s1, s2}
    Threads = {t1, t2}
    ThreadRows = {t1}
    Admins = {a1, a2}
    Pollers = {p1, p2}
    NoSession = NoSession
    NoThread = NoThread
    EscalationDelay = 1
    MaxTime = 2
    MaxCrashes = 1
    Sockets = {k1, k2, k3}
    Broadcasts = {b1, b2}
    Docs = {d1}
    Workers = {n1, n2}
    Searches = {g1}
    NoDoc = NoDoc
    MaxAttempts = 2
    CleanupTries = 2
    AdminRetries = 1
    MaxWorkerCrashes = 1
    PipelineFaults = {"work", "late", "database", "crash", "milvus", "admin"}
SYMMETRY Symmetry
INVARIANTS
    HitlInv
    PendingHasTask
    AtMostOneTicket
    BroadcastInv
    QuietReachesAll
    DeletedNeverShown
    CompletedIsSearchable
    PipelineInv
PROPERTIES
    SessionLifeKept
    LateTakeRefused
CHECK_DEADLOCK FALSE
