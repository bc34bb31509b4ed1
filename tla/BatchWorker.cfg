CONSTANTS
    w1 = w1
    w2 = w2
    a = a
    b = b
    c = c
    r = r
    Workers = {w1}
    Steps = {a, b, c, r}
    Resources = {}
    None = None
    Shared = Shared
    Family <- Same
    Runner <- SumRunner
    MaxBatchSize = 2
    InitialLimits <- LimitOne
    DefaultRetryCount = 2
    RetryDelay = 0
    RemoveDelay = 1
    DisconnectDelay = 1
    DisableWindow = 0
    HardTimeout = None
    DisablePersist = 0
    Cooldown = 0
    Need <- NeedNothing
    Requires <- Nothing
    Yields <- Nothing
    Priority <- Flat
    IsBatchable <- BatchMember
    RetryCount <- CountTwo
    Roots <- BatchRoots
    AssistantWorkers = {}
    Processes <- OneProcess
    Claims = {"PENDING", "DONE"}
    Amount = {1}
    Behaviours = {"lost", "unloadable"}
    d = d
    Mortal = {w1}
    Endings = {"DONE", "FAILED"}
SPECIFICATION ClusterSpec
INVARIANTS MembersHaveRunner OwnershipAgrees
PROPERTIES FailuresAreCountedOnce
