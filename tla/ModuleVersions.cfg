\* Two requests for one or two modules, one of them cached earlier, of a registry with a path of
\* its own; a cooldown of two ticks, a TTL of one; the registry and the cache may fail.
CONSTANTS
    Requests = {q1, q2}
    Modules = {m1, m2}
    None = None
    Cached = {m1}
    Registry = "custom"
    VersionsTTL = 1
    RetryAfter = 2
    MaxTime = 2
    Faulty = {"read", "write", "upstream"}
    Evicting = TRUE
SPECIFICATION FairSpec
INVARIANTS
    DiscoveryIsCheap
    RefusalsHaveACause
PROPERTIES
    IsCoalesced
    Answered
CHECK_DEADLOCK FALSE
