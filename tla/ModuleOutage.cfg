\* Two requests for one module of a registry with a path of its own, which fails for a while.
CONSTANTS
    Requests = {q1, q2}
    Modules = {m1}
    None = None
    Cached = {m1}
    Registry = "custom"
    VersionsTTL = 1
    RetryAfter = 1
    MaxTime = 2
    Faulty = {"upstream"}
    Evicting = FALSE
SPECIFICATION Spec
INVARIANTS
    CachedSurvivesOutage
CHECK_DEADLOCK FALSE
