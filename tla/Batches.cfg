CONSTANTS
    w1 = w1
    w2 = w2
    a = a
    b = b
    c = c
    r = r
    Workers = {w1, w2}
    Steps = {a, b, c}
    Resources = {}
    None = None
    Shared = Shared
    Family <- Same
    Runner <- RunnerC
    MaxBatchSize = 2
    InitialLimits <- LimitOne
    DefaultRetryCount = 1
    RetryDelay = 0
    RemoveDelay = 1
    DisconnectDelay = 1
    DisableWindow = 0
    HardTimeout = None
    DisablePersist = 0
    Cooldown = 0
    Need <- NeedNothing
    Requires <- Nothing
    Yields <- Nothing
    Priority <- Flat
    IsBatchable <- BatchMember
    RetryCount <- CountOne
    Roots <- BatchRoots
    AssistantWorkers = {}
    Processes <- OneProcess
    Claims = {"PENDING", "DISABLED"}
    Amount = {1}
    Behaviours = {"lost"}
    d = d
    Mortal = {w1, w2}
    Endings = {"DONE"}
SPECIFICATION ClusterSpec
INVARIANTS RunsCanBeReclaimed MembersHaveRunner
SYMMETRY WorkerSymmetry
