\* The worker: two processes, three objects of which two fit, and one destination.
\* The rollout: two resources, four jobs and two mishaps.
SPECIFICATION CloudSpec
CONSTANTS
    Workers = {w1, w2}
    MaxUploads = 3
    Dests = {d1}
    None = None
    Garbage = Garbage  TraceKey = TraceKey
    MaxObjects = 2
    Retention = 2
    Horizon = 3
    MaxRows = 2
    Nil = Nil  Addresses = {a1, a2}
    MaxJobs = 4
    MaxIds = 2
    Mishaps = 2
INVARIANTS ObjectsBounded ReportSound SignalTruthful OnlyReviewedApplied KeysMadeOnce
PROPERTIES ReportForward
CHECK_DEADLOCK FALSE
