\* Two callers in one replica, nothing fails: the second finds the first's unverified warm copy.
CONSTANTS
    r1 = r1
    p1 = p1
    p2 = p2
    None = None
    Replicas = {r1}
    Callers = {p1, p2}
    Home <- PairHome
    Uploads = {u1}
    Published = {good}
    Foreign = {bad}
    RegistryDigest = good
    IndexDigest = good
    HasDurable = TRUE
    Verifying = TRUE
    Immutable = TRUE
    Faulty = {}
    Evicting = FALSE
    Crashing = FALSE
SPECIFICATION Spec
INVARIANTS
    DurableHitsVerified
SYMMETRY PairSymmetry
CHECK_DEADLOCK FALSE
