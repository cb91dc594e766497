SPECIFICATION FairSpec
CONSTANTS
    Nodes = {0, 1}
    MaxSteps = 2
    MaxUpdates = 2
    MinInterval = 1
    SnapshotInterval = 2
    Refresh = TRUE
    None = None
CHECK_DEADLOCK FALSE
INVARIANT UnknownUpdateEndsSearch
INVARIANT TargetsAreFresh
INVARIANT SealedIsComplete
INVARIANT NoFalseAlarm
PROPERTY UpdatesAtBarriers
PROPERTY SearchEnds
