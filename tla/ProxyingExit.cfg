SPECIFICATION FairSpec
CONSTANTS
    Clients = {a, b}
    Servers = {s}
    Queues = {q}
    Kinds = {"sync"}
    MortalThreads = {s}
    MaxCalls = 2
    MaxReuse = 0
    HasWaitAsync = TRUE
    MallocMayFail = FALSE
    MayExitInTask = TRUE
    None = None
PROPERTIES SyncCallReturns
CHECK_DEADLOCK FALSE
