\* Three requests share three slots and two caches; two prefixes do not fit together.
SPECIFICATION FairSpec
CONSTANTS
    Requests = {q1, q2, q3}
    PrefixKeys = {k1, k2}
    k1 = k1  k2 = k2
    Size <- Sizes
    NoPrefix = NoPrefix
    Capacity = 2
    Remote = TRUE
INVARIANTS SlotsExact GaugesExact CacheSound
PROPERTIES EveryRequestEnds
CHECK_DEADLOCK FALSE
