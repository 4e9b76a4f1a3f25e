SPECIFICATION Spec
CONSTANTS
    Messages = {m1}
    LogMax = 4
    TrimTo = 3
    MaxCrashes = 1
    Mishaps = {}
    None = None
CHECK_DEADLOCK FALSE
INVARIANTS
    ModelHasIt
