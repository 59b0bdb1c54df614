SPECIFICATION ServicesSpec
CONSTANTS
    Components = {"billing", "feedback", "experiments", "stats", "toolbox", "plugins", "chunking", "rollout", "gateway", "startup", "session", "streams", "metrics", "invoices", "health", "versions"}
    Chats = {"c1", "c2"}
    Tenants = {"t1", "t2"}
    PlanIds = {1, 2}
    FreeLimit = 1
    Limits = {2}
    MaxPeriod = 2
    Votes = {"v1", "v2", "v3"}
    Voters = {u1, u2}
    Known = {u1}
    Messages = {m1, m2}
    Reads = {r1}
    Nobody = Nobody
    Exps = {"e1", "e2"}
    Updates = {"w1"}
    MaxMetrics = 1
    Weightings <- MCWeightings
    Batch = 10
    MaxSamples = 60
    MaxGap = 6
    Tools = {"t1", "t2"}
    Handlers = {"h1", "h2"}
    Async = {"h1"}
    Batches = {"b1", "b2"}
    calls <- MCcalls
    mode <- MCmode
    PluginNames = {"p1", "p2"}
    Events = {"e1", "e2"}
    Missing = Missing
    MaxRegistrations = 3
    chunk_size = 3
    chunk_overlap = 1
    separators <- MCseparators
    Blanks = {"newline", "space"}
    Letter = "letter"
    MaxText = 7
    MaxHistory = 2
    Prompts = {"p1", "p2"}
    Guarded = {"p1", "p2"}
    Primary = "m1"
    Secondary = "m2"
    Models = {"m1", "m2"}
    Personas = {"x"}
    Names = {"null", "y"}
    Temperatures = {"cold", "warm"}
    Unset = "none"
    Threshold = 1
    Callers = {"c1"}
    Customers = {"t1"}
    MaxStarts = 1
    SessionIds = {"s1"}
    Topics = {"x"}
    NoTopic = "none"
    Recent = 1
    Older = 1
    Window = 2
    Budgets = {0, 7, 16, 1600, 4096, 8192}
    MaxNodes = 3
    MaxTitles = 1
    Streams = {"s1", "s2"}
    Capacity = 2
    ChunkSize = 3
    Lengths = {0, 1, 3, 4, 6, 8}
    MaxChunks = 4
    ThreadIds = {"t1", "t2"}
    SessionRows = {"h1", "h2"}
    Questions = {"q1", "q2", "q3"}
    question_of <- MCquestion_of
    prefix_of <- MCprefix_of
    MissedLimit = 1
    Metrics = {"f", "c"}
    Ranges = {1, 2, 3}
    LastDay = 4
    Payers = {"t1", "t2"}
    Strangers = {"t3"}
    Periods = {"june"}
    ListLimit = 2
    MaxInvoices = 3
    Subscribers = {"t1", "t2"}
    Readings <- MCReadings
    MaxChecks = 2
    PromptIds = {"p1"}
    Contents = {"x", "y"}
    MaxVersions = 4
INVARIANTS
    BillingInv
    FeedbackIsTrue
    StudiesInv
    AnswerInv
    ChunksInv
    OfficeInv
PROPERTIES
    SoleVoteToggles
    LedgerIsKept
CHECK_DEADLOCK FALSE
