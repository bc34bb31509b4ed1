CONSTANTS
    w1 = w1
    w2 = w2
    a = a
    b = b
    c = c
    r = r
    Workers = {w1, w2}
    Steps = {a, b}
    Resources = {r}
    None = None
    Shared = Shared
    Family <- Same
    Runner <- RunnerC
    MaxBatchSize = 1
    InitialLimits <- LimitOne
    DefaultRetryCount = 2
    RetryDelay = 0
    RemoveDelay = 1
    DisconnectDelay = 1
    DisableWindow = 0
    HardTimeout = None
    DisablePersist = 0
    Cooldown = 0
    Need <- NeedOne
    Requires <- Nothing
    Yields <- ChainDeps
    Priority <- Flat
    IsBatchable <- Never
    RetryCount <- CountTwo
    Roots <- ChainRoots
    AssistantWorkers = {}
    Processes <- NoneForSecond
    Claims = {"PENDING", "DISABLED"}
    Amount = {0,1}
    Behaviours = {"track", "decrease", "repeat", "mark_done", "limits", "pause", "restart"}
    d = d
    Mortal = {w2}
    Endings = {"DONE"}
SPECIFICATION ClusterSpec
INVARIANTS RunsAreNotRemoved
