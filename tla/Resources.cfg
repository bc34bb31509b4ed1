CONSTANTS
    w1 = w1
    w2 = w2
    a = a
    b = b
    c = c
    r = r
    Workers = {w1, w2}
    Steps = {a, b, c}
    Resources = {r}
    None = None
    Shared = Shared
    Family <- Same
    Runner <- RunnerC
    MaxBatchSize = 1
    InitialLimits <- LimitTwo
    DefaultRetryCount = 1
    RetryDelay = 0
    RemoveDelay = 1
    DisconnectDelay = 1
    DisableWindow = 0
    HardTimeout = None
    DisablePersist = 0
    Cooldown = 0
    Need <- NeedTwoC
    Requires <- Nothing
    Yields <- Nothing
    Priority <- UrgentC
    IsBatchable <- Never
    RetryCount <- CountOne
    Roots <- SplitRoots
    AssistantWorkers = {}
    Processes <- TwoForFirst
    Claims = {"PENDING"}
    Amount = {1}
    Behaviours = {}
    d = d
    Mortal = {}
    Endings = {"DONE", "FAILED"}
SPECIFICATION ClusterSpec
INVARIANTS WithinLimits
PROPERTIES PriorityRespected UrgentStepsAreReserved
