CONSTANTS
    w1 = w1
    w2 = w2
    a = a
    b = b
    c = c
    r = r
    Workers = {w1, w2}
    Steps = {a}
    Resources = {}
    None = None
    Shared = Shared
    Family <- Same
    Runner <- RunnerC
    MaxBatchSize = 1
    InitialLimits <- LimitOne
    DefaultRetryCount = 2
    RetryDelay = 0
    RemoveDelay = 1
    DisconnectDelay = 1
    DisableWindow = 0
    HardTimeout = None
    DisablePersist = 0
    Cooldown = 0
    Need <- NeedNothing
    Requires <- Nothing
    Yields <- Nothing
    Priority <- Flat
    IsBatchable <- Never
    RetryCount <- CountTwo
    Roots <- AllRoots
    AssistantWorkers = {}
    Processes <- OneProcess
    Claims = {"PENDING"}
    Amount = {1}
    Behaviours = {"lost"}
    d = d
    Mortal = {w1}
    Endings = {"DONE", "FAILED"}
SPECIFICATION FairClusterSpec
PROPERTIES DeadRunsAreReclaimed LostWorkIsFound FailuresAreRetried
