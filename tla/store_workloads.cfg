\* Members come and go, requests age until they are pruned, the event log fills.
SPECIFICATION WorkSpec
SYMMETRY WorkSymmetry
CONSTANTS
    u1 = u1  u2 = u2  k1 = k1  k2 = k2
    Users = {u1, u2, u3}
    Idems = {i1, i2}
    Unknown = Unknown
    NoUser = NoUser
    Horizon = 6
    DayStart <- MCDayStart
    MonthStart <- MCMonthStart
    RateWindow = 1  RateLimit = 2
    Deadline = 1
    MetaKeep = 1  LedgerKeep = 3
    MonthlyTokens = 9
    EventLimit = 2  EventKeep = 3  CoalesceWindow = 2
    Codes = {x1, x2}  Keys = {k1, k2, k3, k4}
    Callers = {c1, c2}
    Founders <- OneFounder
    InviteQuotas <- InviteOne  InviteLives <- Lives  InviteKeep = 1
    DenialCodes = {"capacity"}
    Estimates = {1}
    Totals = {1}
    Endings = {"ok"}
    LockWait = 1
INVARIANTS IdempotencyWindow MembershipSound LogSound
PROPERTIES WithdrawnForGood
CHECK_DEADLOCK FALSE
