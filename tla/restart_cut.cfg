SPECIFICATION Spec
CONSTANTS
    Messages = {m1}
    LogMax = 3
    TrimTo = 2
    MaxCrashes = 1
    Mishaps = {"long_turn"}
    None = None
CHECK_DEADLOCK FALSE
INVARIANTS
    NothingOpen
