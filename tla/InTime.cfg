SPECIFICATION CSpec
CONSTANTS
    prefix = prefix
    unknown = unknown
    Targets = {prefix, unknown}
    Window = 2
    LastArrival = 6
    MaxTime = 6
    MaxRecords = 6
    MaxFailures = 1
    MaxLives = 2
INVARIANTS
    ReachesM3InTime
