\* One model, abandoned rows, a crash and a store.finish that raises.
SPECIFICATION Spec
SYMMETRY Interchange
CONSTANTS
    Users = {u1}
    Idems = {i1, i2}
    Unknown = Unknown
    Horizon = 7
    DayStart <- OneDay
    MonthStart <- OneDay
    RateWindow = 1  RateLimit = 3
    Deadline = 1
    MetaKeep = 1  LedgerKeep = 3
    MonthlyTokens = 99
    Requests = {q1, q2}
    UserQuota <- Generous
    Estimate = 2
    Totals = {1}
    StartDelay = 1
    LastArrival = 4
    MaxCrashes = 1
    MaxFaults = 1
INVARIANTS OneUpstream InferenceOnce ResultMatchesLedger GaugeCounts
PROPERTIES SlotKept
CHECK_DEADLOCK FALSE
