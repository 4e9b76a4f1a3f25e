SPECIFICATION Spec
CONSTANTS
    Jobs = {j1, j2}
    Cadenced = {j1}
    Graced = {}
    Blockable = {}
    Linked = {}
    RunNows = {}
    Drains = {d1}
    Interval = 1
    RetryDelay = 1
    Retries = 0
    MaxTime = 0
    MaxSessions = 2
    MaxEdits = 0
    MaxCrashes = 0
    MaxGeneration = 0
    None = None
CHECK_DEADLOCK FALSE
PROPERTIES
    NothingFiresInHold
