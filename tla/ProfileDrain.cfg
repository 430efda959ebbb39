SPECIFICATION Spec
CONSTANTS
    Threads = {t1, t2, t3}
    Files = {f1}
    NoThread = NoThread
    NoFile = NoFile
SYMMETRY Symmetry
INVARIANTS
    AdmittedIsNeverRefused
    ProxyTargetAlive
    WorkerQuarantined
    DrainHoldsSeal
    StorageGuardedByLock
    ResultTruthful
PROPERTIES
    SealedForGood
    ImplementsHandoff
