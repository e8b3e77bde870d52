\* Three requests for one archive; upstream, the cache and the staging disk may all fail.
CONSTANTS
    Requests = {q1, q2, q3}
    Population = population
    Good = good
    Bad = bad
    None = None
    Replies = {"described", "otherfile", "nodigest", "notfound", "error"}
    Downloads = {good, bad, "toobig", "error"}
    Faulty = {"read", "write", "staging"}
    Evicting = TRUE
SPECIFICATION FairSpec
INVARIANTS
    OnlyVerified
    RefusalsHaveACause
    StagingIsClean
PROPERTIES
    IsCoalesced
    Answered
CHECK_DEADLOCK FALSE
