CONSTANTS
    Procs = {p1, p2, p3}
    Ids = {a, b}
    Locks = {e1, e2, e3}
    NoProc = NoProc
    NoId = NoId
    NoLock = NoLock
SPECIFICATION FairSpec
INVARIANTS
    TypeOK
    MutualExclusion
    MapHoldsOnlyWork
PROPERTIES
    ImplementsIdMutex
    EveryCallerGetsIn
