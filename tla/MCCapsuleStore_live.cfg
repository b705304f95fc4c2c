CONSTANTS
    MaxRequests = 2
    Verifiers = {v1}
    Hosts = {h1, h2}
    HostOf <- TwoHosts
    Ids = {a}
    Bodies = {x}
    Paths = {a}
    PathOf <- OwnPath
    Failing = {"disk"}
    Policies <- LatestPolicy
    MaxCrashes = 1
    MaxDamage = 0
    PowerMayFail = TRUE
    Purger = Purger
    NoProc = NoProc
    NoId = NoId
    NoRow = NoRow
    NoFile = NoFile
    NoReq = NoReq
    Garbage = Garbage
    a = a
    b = b
    h1 = h1
    h2 = h2
    v1 = v1
SPECIFICATION FairSpec
PROPERTIES
    AnswersAreTrue
    EveryCallReturns
CHECK_DEADLOCK FALSE
