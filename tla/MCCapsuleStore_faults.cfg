CONSTANTS
    MaxRequests = 2
    Verifiers = {v1}
    Hosts = {h1}
    HostOf <- OneHost
    Ids = {a}
    Bodies = {x, y}
    Paths = {a}
    PathOf <- OwnPath
    Failing = {"db", "disk", "ledger"}
    Policies <- DailyPolicy
    MaxCrashes = 1
    MaxDamage = 1
    PowerMayFail = FALSE
    Purger = Purger
    NoProc = NoProc
    NoId = NoId
    NoRow = NoRow
    NoFile = NoFile
    NoReq = NoReq
    Garbage = Garbage
    a = a
    b = b
    h1 = h1
    h2 = h2
    v1 = v1
SYMMETRY Symmetry
SPECIFICATION Spec
INVARIANTS
    TypeOK
    AckedDurable
    FilesAreKnown
    CorruptIsEvidence
PROPERTIES
    PurgeIsNotCorruption
    ImplementsBlindStore
CHECK_DEADLOCK FALSE
