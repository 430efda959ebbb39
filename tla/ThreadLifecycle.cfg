SPECIFICATION Spec
CONSTANTS
    Main = Main
    None = None
    b1 = b1
    b2 = b2
    b3 = b3
    w1 = w1
    w2 = w2
    w3 = w3
    Blocks = {b1, b2, b3}
    WebWorkers = {w1, w2, w3}
    PoolSize = 2
    Builds = {TRUE, FALSE}
    Canvases = TRUE
    Cancels = FALSE
    TimedJoins = TRUE
    MaxCreates = 3
SYMMETRY Symmetry
INVARIANTS CleanedUpOnce BlocksInUseAreLive
CHECK_DEADLOCK FALSE
