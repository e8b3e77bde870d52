\* Two clients, a link of half a second and a clock of half seconds; the cache, upstream and the
\* staging disk may all fail, and upstream may change its mind about the source.
CONSTANTS
    Clients = {c1, c2}
    Population = population
    Resolver = resolver
    None = None
    Sources = {"https", "http", "github", "opaque"}
    AllowHTTP = FALSE
    Faulty = {"read", "write", "staging", "upstream"}
    Evicting = TRUE
    Signed = TRUE
    Second = 2
    LinkTTL = 1
    MaxTime = 2
SPECIFICATION FairSpec
INVARIANTS
    RefusalsHaveACause
    StagingIsClean
    SecondDownloadHasACause
PROPERTIES
    IsCoalesced
    LinkLifetime
    Answered
CHECK_DEADLOCK FALSE
