SPECIFICATION RelayLiveSpec
CONSTANTS
    NConns = 2
    Locals = {lc}
    MaxCollector = 1
    MaxTask = 2
    MaxLosses = 1
CHECK_DEADLOCK FALSE
INVARIANTS
    BoundsKept
PROPERTIES
    Recovers
    Converges
