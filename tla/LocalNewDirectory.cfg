\* Two Puts and a removal of one key, any step failing, one node crash.
CONSTANTS
    Writers = {w1, w2}
    Removers = {d1}
    None = None
    Crashes = 1
SPECIFICATION Spec
INVARIANTS
    AckedSurvives
CHECK_DEADLOCK FALSE
