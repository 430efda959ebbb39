SPECIFICATION Spec
CONSTANTS
    Clients = {a}
    Servers = {s}
    Queues = {q}
    Kinds = {"async", "sync", "callback", "callback_no_cancel"}
    MortalThreads = {a, s}
    MaxCalls = 2
    MaxReuse = 0
    HasWaitAsync = FALSE
    MallocMayFail = TRUE
    MayExitInTask = TRUE
    None = None
INVARIANTS TypeOK ContextHasOneHolder
PROPERTIES KeepsPromise
CHECK_DEADLOCK FALSE
