\* The cache of telemetry, the limit of the dashboard, its pages and its page in the
\* browser, the sampler of resources and the budget of spans.
SPECIFICATION FairSpec
CONSTANTS
    catalog = catalog  metric = metric  summary = summary
    v1 = v1  v2 = v2  v3 = v3
    Viewers = {v1, v2}
    Keys <- MCKeys
    Wants <- MCWants
    Catalog = catalog
    None = None
    Entries = 2  Refresh = 1  Usable = 2  QueryLimit = 1
    Horizon = 4
    Members = {m1, m2, m3}
    Window = 2  Limit = 2  Table = 2
    LastMoment = 4  LastStay = 1
    Exporters = {e1, e2}
    Batch = 2  Budget = 2  Hour = 2
    MaxSpans = 5  LastReading = 5
    Owners = {u1, u2}  Reader = u1
    PageSize = 1  RowLimit = 3  MaxOffset = 2  MaxRows = 4
    Persons = {p1, p2}  Nobody = Nobody
    Unmeasured = Unmeasured
    Interval = 2  SampleTime = 1  LastInstant = 6
INVARIANTS ShownInTime LimitFair SpansInBudget PagesExact PollingExact OwnDataShown AgeHonest
PROPERTIES QueriesSpaced EveryReaderAnswered
CHECK_DEADLOCK FALSE
