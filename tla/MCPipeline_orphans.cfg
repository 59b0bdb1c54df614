SPECIFICATION FairPipelineSpec
CONSTANTS
    Docs = {d1}
    Workers = {w1}
    Searches = {q1}
    NoDoc = NoDoc
    MaxAttempts = 3
    CleanupTries = 3
    AdminRetries = 0
    MaxWorkerCrashes = 0
    PipelineFaults = {}
PROPERTIES
    DeletedIsCleaned
CHECK_DEADLOCK FALSE
