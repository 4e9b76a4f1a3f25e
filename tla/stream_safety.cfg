SPECIFICATION Spec
CONSTANTS
    MaxEvents = 3
    LogMax = 2
    TrimTo = 1
    MaxDrops = 1
    MaxRestarts = 1
    MaxFrames = 1
    Mishaps = {"attach", "hole"}
CHECK_DEADLOCK FALSE
INVARIANTS
    TypeOK
    
    CursorWithinLog
    DiskInMemory
PROPERTIES
    
    CatchesUpOrStrayed
