CONSTANTS
    TicksPerDay = 2
    MonthDays <- MCMonthDays
    FirstWeekday = 3
    Instants <- MCInstants
    ProductOf <- MCProductOf
    Policies <- MCPolicies
    MaxDeposits = 3
    NoJob = NoJob
    NoPurge = NoPurge
SPECIFICATION Spec
INVARIANTS
    TypeOK
    NothingLostEarly
PROPERTIES
    PurgeFollowsThePolicy
CHECK_DEADLOCK FALSE
