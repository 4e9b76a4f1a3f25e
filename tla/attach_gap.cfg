SPECIFICATION Spec
CONSTANTS
    MaxEvents = 2
    LogMax = 2
    TrimTo = 1
    MaxDrops = 0
    MaxRestarts = 0
    MaxFrames = 0
    Mishaps = {"attach"}
CHECK_DEADLOCK FALSE
PROPERTIES
    CatchesUp
