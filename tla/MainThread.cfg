SPECIFICATION FairSpec
CONSTANTS
    Main = Main
    Workers = {w}
    None = None
    MaxMainCalls = 1
    MaxWorkerCalls = 2
    MaxTaskCalls = 1
    UserLocks = {"u"}
    TimedLocks = {"u"}
    Growers = {w}
INVARIANTS NoSelfDeadlock RegisterIsSingle TasksDoNotNest NoStrandedWaiter
PROPERTIES EveryCallReturns
