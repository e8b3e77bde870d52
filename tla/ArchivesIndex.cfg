\* Two requests, three platforms fetched two at a time; upstream may fail or stall.
CONSTANTS
    Requests = {q1, q2}
    Platforms = {linux, darwin, windows}
    None = None
    maxPlatformConcurrency = 2
    Failing = {"error", "notfound"}
    Faulty = {"read", "write"}
    Evicting = TRUE
SPECIFICATION StallSpec
INVARIANTS
    IndexIsComplete
    RefusalsHaveACause
PROPERTIES
    IsCoalesced
    FailureEndsBuild
    LetGo
CHECK_DEADLOCK FALSE
