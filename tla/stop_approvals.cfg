SPECIFICATION Spec
CONSTANTS
    Messages = {m1}
    Calls = {a1, a2}
    Gated = {a1, a2}
    Questions = {}
    ParallelSafe = {}
    Imports = {}
    ApprovalTimeout = FALSE
    MaxSteps = 1
    None = None
CHECK_DEADLOCK FALSE
PROPERTIES
    StopEndsTurn
