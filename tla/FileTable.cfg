SPECIFICATION Spec
CONSTANTS
    t1 = t1
    t2 = t2
    leasedFile = leasedFile
    plainFile = plainFile
    Special = Special
    None = None
    Threads = {t1, t2}
    OpenStates = {o1, o2, o3}
    Leased = {leasedFile}
    Others = {plainFile}
    FdMax = 3
    StdStreams = 1
SYMMETRY Symmetry
INVARIANTS OpenCountExact HandleMatchesKind WritableHasAccess LocksHaveDescriptor DrainedIsClosed
CHECK_DEADLOCK FALSE
