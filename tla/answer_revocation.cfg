\* A rotation in flight outlives a revocation.
SPECIFICATION Spec

CONSTANTS
    Users = {u1}
    Idems = {i1, i2}
    Unknown = Unknown
    Horizon = 4
    DayStart <- OneDay
    MonthStart <- OneDay
    RateWindow = 1  RateLimit = 3
    Deadline = 1
    MetaKeep = 99  LedgerKeep = 99
    MonthlyTokens = 99
    Requests = {q1, q2}
    UserQuota <- Generous
    Estimate = 2
    Totals = {1}
    StartDelay = 1
    LastArrival = 1
    MaxCrashes = 0
    MaxFaults = 0
INVARIANTS RevocationBlocks
CHECK_DEADLOCK FALSE
