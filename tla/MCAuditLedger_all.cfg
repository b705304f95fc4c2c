CONSTANTS
    serve = serve
    cli = cli
    w1 = w1
    w2 = w2
    v1 = v1
    v2 = v2
    Server = serve
    Ledgers = {serve}
    Writers = {w1, w2}
    Readers = {v1}
    LedgerOf <- OneLedgerOf
    Events = {a, b}
    MaxEvents = 3
    MaxStops = 2
    MaxDamage = 1
    DbMayFail = TRUE
    NoProc = NoProc
    Lost = Lost
SPECIFICATION FairSpec
INVARIANTS
    TypeOK
    KeepsTheLog
    NoFork
    HealthyVerifies
PROPERTIES
    ValidMeansWhole
    EveryCallReturns
