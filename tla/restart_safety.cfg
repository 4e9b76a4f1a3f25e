SPECIFICATION Spec
CONSTANTS
    Messages = {m1, m2}
    LogMax = 5
    TrimTo = 4
    MaxCrashes = 2
    Mishaps = {}
    None = None
CHECK_DEADLOCK FALSE
INVARIANTS
    TypeOK
    NeverInNeither
    RunsOnce
    NothingOpen
    CutTurnSealed
    HeldShown
