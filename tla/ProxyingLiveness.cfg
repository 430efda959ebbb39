SPECIFICATION FairSpec
CONSTANTS
    Clients = {a}
    Servers = {s}
    Queues = {q}
    Kinds = {"sync", "callback"}
    MortalThreads = {a, s}
    MaxCalls = 2
    MaxReuse = 0
    HasWaitAsync = TRUE
    MallocMayFail = FALSE
    MayExitInTask = FALSE
    None = None
PROPERTIES SyncCallReturns ContextIsFreed
CHECK_DEADLOCK FALSE
