CONSTANTS
    Apps = {a, b}
    Codes = {x}
    Keys = {k, l}
    Claims = {c1, c2}
    Ttls = {1}
    MaxTime = 2
    DbMayFail = TRUE
    NoApp = NoApp
    NoKey = NoKey
    NoReq = NoReq
SYMMETRY Symmetry
SPECIFICATION Spec
INVARIANTS
    TypeOK
    HandedOnce
    TokensAreSound
    ChainNeverLies
PROPERTIES
    ClearedOnRecord
