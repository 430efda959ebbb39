SPECIFICATION Spec
CONSTANTS
    Main = Main
    Workers = {w1, w2}
    None = None
    MaxMainCalls = 1
    MaxWorkerCalls = 1
    MaxTaskCalls = 0
    UserLocks = {"u"}
    TimedLocks = {}
    Growers = {w1}
INVARIANTS NoStrandedWaiter
