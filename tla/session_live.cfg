SPECIFICATION AttendedSpec
CONSTANTS
    Messages = {m1, m2}
    Calls = {a1, a2, q1, q2, i1}
    Gated = {a1, a2, i1}
    Questions = {q1, q2}
    ParallelSafe = {a1}
    Imports = {i1}
    ApprovalTimeout = FALSE
    MaxSteps = 1
    None = None
CHECK_DEADLOCK FALSE
PROPERTIES
    AcceptedIsTaken
    StopEndsTurn
