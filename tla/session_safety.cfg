SPECIFICATION Spec
CONSTANTS
    Messages = {m1, m2, m3}
    Calls = {a1, a2, q1, i1}
    Gated = {a1, a2, i1}
    Questions = {q1}
    ParallelSafe = {a1, q1}
    Imports = {i1}
    ApprovalTimeout = TRUE
    MaxSteps = 1
    None = None
SYMMETRY Symmetry
CHECK_DEADLOCK FALSE
INVARIANTS
    TypeOK
    OpenTurnsExact
    SealedOnce
    ParkedShows
    PauseNotLost
    RunningElsewhere
    StopHitsItsTurn
    SteeringOpen
    StopEndsQuestions
PROPERTIES
    StopNotLost
    SteersOwnTurn
    EndedStaysEnded
    RunsInOrder
