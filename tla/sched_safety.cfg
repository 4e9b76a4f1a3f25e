SPECIFICATION Spec
CONSTANTS
    Jobs = {j1, j2}
    Cadenced = {j1}
    Graced = {j2}
    Blockable = {}
    Linked = {j1}
    RunNows = {r1}
    Drains = {d1}
    Interval = 1
    RetryDelay = 1
    Retries = 1
    MaxTime = 1
    MaxSessions = 2
    MaxEdits = 1
    MaxCrashes = 1
    MaxGeneration = 2
    None = None
CHECK_DEADLOCK FALSE
INVARIANTS
    TypeOK
    OneRunAtATime
    
    
    WaitsForItsPark
    
    ReleaseSticks
PROPERTIES
    OutcomeStands
    CardBlocksSlot
    ScheduleKept
CONSTRAINT Bounded
