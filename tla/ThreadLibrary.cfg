SPECIFICATION LibrarySpec
CONSTANTS
    Task = {ta, tb}
    Uninitialized = Uninitialized
    InitialCapacity = 2
    MaxCapacity = 8
    LockWorkers = {v, w}
    LockLoops = {m}
    LockRequests = 1
    MaxSignals = 1
    SemWorkers = {u, v, w}
    SemTotal = 2
    SemRequests = 2
    SizesWorkers = {v, w}
    SizesLoops = {m}
    Sizes = {1, 2}
    SizesTotal = 3
    SizesRequests = 1
    Addresses = {a, b}
    MaxWaits = 3
    Main = Main
    Pthreads = {p, q}
    None = None
    MaxSections = 2
    MaxFailures = 1
SYMMETRY Symmetry
INVARIANTS
    QueuedSlotsWritten
    LocksExclude
    LibcLockExcludes
    NoStrandedSleeper
    BroadcastReachesWaiters
    InstancesConserved
    CanceledWaitIsSilent
PROPERTY IsFifo
CHECK_DEADLOCK FALSE
