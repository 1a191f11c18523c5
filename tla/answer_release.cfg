\* Every admitted request leaves the slot.
SPECIFICATION FairSpec

CONSTANTS
    Users = {u1}
    Idems = {i1, i2}
    Unknown = Unknown
    Horizon = 6
    DayStart <- OneDay
    MonthStart <- OneDay
    RateWindow = 1  RateLimit = 3
    Deadline = 1
    MetaKeep = 99  LedgerKeep = 99
    MonthlyTokens = 99
    Requests = {q1, q2}
    UserQuota <- Generous
    Estimate = 2
    Totals = {1}
    StartDelay = 1
    LastArrival = 3
    MaxCrashes = 1
    MaxFaults = 0
PROPERTIES SlotReleased HoldsLease
CHECK_DEADLOCK FALSE
