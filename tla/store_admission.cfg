\* Two members compete with stale clock readings for the slot, their quotas, the
\* rate limit and the monthly budget.
SPECIFICATION AdmissionSpec
SYMMETRY CallSymmetry
CONSTANTS
    u1 = u1  u2 = u2  k1 = k1  k2 = k2
    Users = {u1, u2}
    Idems = {i1, i2}
    Unknown = Unknown
    NoUser = NoUser
    Horizon = 3
    DayStart <- MCDayStart
    MonthStart <- MCMonthStart
    RateWindow = 2  RateLimit = 1
    Deadline = 1
    MetaKeep = 20  LedgerKeep = 20
    MonthlyTokens = 5
    EventLimit = 0  EventKeep = 3  CoalesceWindow = 2
    Codes = {}  Keys = {k1, k2}
    Callers = {c1, c2}
    Founders <- TwoFounders
    InviteQuotas = {}  InviteLives = {}  InviteKeep = 1
    DenialCodes = {}
    Estimates = {2}
    Totals = {3}
    Endings = {"ok", "cancelled"}
    LockWait = 1
INVARIANTS AdmissionSound LimitsKept
PROPERTIES SettledOnce ImplementsLease
CHECK_DEADLOCK FALSE
