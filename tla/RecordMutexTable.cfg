\* Three threads on two keys, and a flusher.
CONSTANTS
    Keys = {k1, k2}
    Cells = {o1, o2, o3}
    Threads = {t1, t2, t3}
    Flushers = {g1}
    None = None
SPECIFICATION FairSpec
INVARIANTS
    MutualExclusion
    RefsCounted
PROPERTIES
    ImplementsKeyLock
    FlusherEnters
