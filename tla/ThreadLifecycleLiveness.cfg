SPECIFICATION FairSpec
CONSTANTS
    Main = Main
    None = None
    b1 = b1
    b2 = b2
    w1 = w1
    w2 = w2
    Blocks = {b1, b2}
    WebWorkers = {w1, w2}
    PoolSize = 2
    Builds = {FALSE}
    Canvases = FALSE
    Cancels = TRUE
    TimedJoins = FALSE
    MaxCreates = 2
PROPERTIES JoinReturns DetachedIsFreed
CHECK_DEADLOCK FALSE
