SPECIFICATION Spec
CONSTANTS
    Main = Main
    Workers = {w}
    None = None
    MaxMainCalls = 1
    MaxWorkerCalls = 1
    MaxTaskCalls = 1
    UserLocks = {}
    TimedLocks = {}
    Growers = {Main}
INVARIANTS NoSelfDeadlock
