SPECIFICATION Spec
CONSTANTS
    v1 = v1
    v2 = v2
    u1 = u1
    u2 = u2
    NoUrl = NoUrl
    Visitors <- TwoVisitors
    Urls <- TwoUrls
    MaxEntries = 0
    TTL = 2
    MaxTime = 2
INVARIANTS
    CacheBounded
    FreshEnough
PROPERTIES
    WatchersSeeTheSite
    EveryVisitAnswered
