\* Three Puts and two removals of one key, any step failing, two node crashes.
CONSTANTS
    Writers = {w1, w2, w3}
    Removers = {d1, d2}
    None = None
    Crashes = 2
SPECIFICATION Spec
INVARIANTS
    NeverTorn
PROPERTIES
    LostOnlyWithItsDirectory
    IsObjectStore
CHECK_DEADLOCK FALSE
