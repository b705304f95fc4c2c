CONSTANTS
    Capsules = {c}
    share = share
    host = host
    Targets = {share, host}
    KindOf <- MCKindOf
    Saves <- MCSaves
    Syncs = {s1, s2}
    Budget = 1
    Grace = 1
    Skew <- MCSkew
    MaxTime = 2
    MaxWork = 3
    MaxEdits = 1
    MaxFaults = 1
    NoTarget = NoTarget
    NoJob = NoJob
SPECIFICATION Spec
INVARIANTS
    TypeOK
    SuccessIsACopy
    StagingIsSafe
PROPERTIES
    ReplicasAreKept
    RoundsAreComplete
