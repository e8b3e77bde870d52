\* Two overlapping callers in one replica, a tampered bucket, every failure, evictions, crashes.
CONSTANTS
    r1 = r1
    p1 = p1
    p2 = p2
    None = None
    Replicas = {r1}
    Callers = {p1, p2}
    Home <- PairHome
    Uploads = {u1, u2}
    Published = {good}
    Foreign = {bad}
    RegistryDigest = good
    IndexDigest = good
    HasDurable = TRUE
    Verifying = TRUE
    Immutable = TRUE
    Faulty = {"local", "durable"}
    Evicting = TRUE
    Crashing = TRUE
SPECIFICATION Spec
INVARIANTS
    ForeignCopyIsChecked
    WarmHitVerified
PROPERTIES
    AckedStaysLocal
    UploadLands
SYMMETRY PairSymmetry
CHECK_DEADLOCK FALSE
