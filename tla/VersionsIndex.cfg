\* Two requests over three ticks, one version; upstream and the cache may fail.
CONSTANTS
    Requests = {q1, q2}
    None = None
    IndexTTL = 1
    MaxTime = 3
    MaxFetch = 1
    MaxVersions = 1
    Faulty = {"read", "write"}
    Failing = {"error", "notfound"}
    Evicting = TRUE
SPECIFICATION Spec
INVARIANTS
    LagIsBounded
    RevalidatedTracksFetches
    DegradedMeansFailed
PROPERTIES
    IsCoalesced
    CacheMovesForward
CHECK_DEADLOCK FALSE
