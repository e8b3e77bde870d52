\* A sweep has to remove two of three files or one; two modification times.
CONSTANTS
    v = v
    a = a
    z = z
    Keys <- MCKeys
    SizesOf <- MCSizes
    None = None
    MaxTime = 1
    MaxServed = 1
    Faulty = {"touch", "write", "scan", "remove", "staging", "upstream"}
    MaxBytes = 10
    Entries <- MCEntries
    Refused = Refused
    MaxConcurrency = 1
SPECIFICATION Spec
INVARIANTS
    TypeOK
    WarmFailuresHaveACause
PROPERTIES
    SweepKeepsBudget
    EvictsOldestFirst
    StopEndsPrewarm
CHECK_DEADLOCK FALSE
