SPECIFICATION CFairSpec
CONSTANTS
    prefix = prefix
    unknown = unknown
    Targets = {prefix, unknown}
    Window = 2
    LastArrival = 1
    MaxTime = 4
    MaxRecords = 4
    MaxFailures = 1
    MaxLives = 2

INVARIANTS
    PairsBelongTogether
    HalfMeansClosed
    PairsInOrder
    ResultsAccounted
PROPERTIES
 ResultsLeave
 HandsOverOnce
