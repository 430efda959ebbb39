SPECIFICATION Spec
CONSTANTS
    Threads = {t1, t2}
    Files = {f1}
    NoThread = NoThread
    NoFile = NoFile
INVARIANT WriteHasAccessHandle
