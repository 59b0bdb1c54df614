SPECIFICATION ProgressSpec
CONSTANTS
    Inputs <- AllInputs
    MaxTurns = 2
    Faults = {"summary", "llm", "graph"}
    RagQueries = {"r1", "r2"}
    Threads = 1
    MaxRetries = 1
    Found = {0, 2, 3}
    Scores = {0, 1}
    Top = 2
    Callers = {"k1", "k2", "k3"}
    failure_threshold = 2
    half_open_max_calls = 2
    Requests = {"q1", "q3"}
    Gates = {"g1", "g2"}
    gate <- MCgate
    UserRps = {1, 2}
    Agents = {"a1", "a2"}
    Workflows = {"w1", "w2"}
    Offers <- MCOffers
    role <- MCrole
    Asked <- MCAsked
    max_retries = 1
    MaxRegistrations = 2
    Votes = {v1, v2}
    Voters = {u1}
    Known = {u1}
    Messages = {m1}
    Reads = {r1}
    Nobody = Nobody
    Docs = {d1}
    Workers = {n1, n2}
    Searches = {}
    NoDoc = NoDoc
    MaxAttempts = 2
    CleanupTries = 2
    AdminRetries = 1
    MaxWorkerCrashes = 1
    PipelineFaults = {"work", "late", "database", "crash", "milvus", "admin"}
INVARIANTS
    AgentInv
    HumanIsCalled
    HallucinationIsCorrected
    AnswerOnce
    ReportedIsBilled
    BreakerInv
    RateInv
    OrchInv
    RagInv
PROPERTIES
    TurnsAndQueriesEnd
    Recovers
    WindowEnds
    AgentsReturn
    CachesSettle
    DocSettles
CHECK_DEADLOCK FALSE
