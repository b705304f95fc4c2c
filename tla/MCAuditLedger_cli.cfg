CONSTANTS
    serve = serve
    cli = cli
    w1 = w1
    w2 = w2
    v1 = v1
    v2 = v2
    Server = serve
    Ledgers = {serve, cli}
    Writers = {w1}
    Readers = {v1, v2}
    LedgerOf <- TwoLedgerOf
    Events = {a, b}
    MaxEvents = 3
    MaxStops = 1
    MaxDamage = 0
    DbMayFail = FALSE
    NoProc = NoProc
    Lost = Lost
SPECIFICATION Spec
INVARIANTS
    HealthyVerifies
