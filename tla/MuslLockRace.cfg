SPECIFICATION Spec
CONSTANTS
    Main = Main
    Pthreads = {p, q}
    None = None
    MaxSections = 1
    MaxFailures = 0
INVARIANT NeedLocksWhileThreaded
CHECK_DEADLOCK FALSE
