CONSTANTS
    MaxRequests = 2
    Verifiers = {v1}
    Hosts = {h1}
    HostOf <- OneHost
    Ids = {a, b}
    Bodies = {x, y}
    Paths = {a, b}
    PathOf <- OwnPath
    Failing = {}
    Policies <- NewestPolicy
    MaxCrashes = 1
    MaxDamage = 0
    PowerMayFail = FALSE
    Purger = Purger
    NoProc = NoProc
    NoId = NoId
    NoRow = NoRow
    NoFile = NoFile
    NoReq = NoReq
    Garbage = Garbage
    a = a
    b = b
    h1 = h1
    h2 = h2
    v1 = v1
SYMMETRY Symmetry
SPECIFICATION Spec
PROPERTIES
    PurgeKeepsABackup
CHECK_DEADLOCK FALSE
