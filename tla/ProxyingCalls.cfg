SPECIFICATION Spec
CONSTANTS
    Clients = {a, b}
    Servers = {s}
    Queues = {p, q}
    Kinds = {"async", "sync"}
    MortalThreads = {s}
    MaxCalls = 2
    MaxReuse = 1
    HasWaitAsync = TRUE
    MallocMayFail = FALSE
    MayExitInTask = FALSE
    None = None
SYMMETRY Symmetry
INVARIANTS MailboxOpenWhileHeld WorkIsAnnounced QueueOutlivesNotification
CHECK_DEADLOCK FALSE
