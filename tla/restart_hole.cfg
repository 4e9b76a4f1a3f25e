SPECIFICATION Spec
CONSTANTS
    MaxEvents = 3
    LogMax = 3
    TrimTo = 3
    MaxDrops = 0
    MaxRestarts = 1
    MaxFrames = 0
    Mishaps = {"hole"}
CHECK_DEADLOCK FALSE
PROPERTIES
    CatchesUp
