SPECIFICATION DeskSpec
CONSTANTS
    Sessions = {s1}
    Threads = {t1}
    ThreadRows = {t1}
    Admins = {a1}
    Pollers = {p1}
    NoSession = NoSession
    NoThread = NoThread
    EscalationDelay = 1
    MaxTime = 2
    MaxCrashes = 0
    Sockets = {k1}
    Broadcasts = {b1}
    Docs = {}
    Workers = {}
    Searches = {}
    NoDoc = NoDoc
    MaxAttempts = 1
    CleanupTries = 0
    AdminRetries = 0
    MaxWorkerCrashes = 0
    PipelineFaults = {}
INVARIANT TakenNotTicketed
CHECK_DEADLOCK FALSE
