SPECIFICATION FairSpec
CONSTANTS
    s1 = s1
    Spaces = {s1}
    Clients = {c1}
    None = None
    Found = {}
    CutFound = {}
    Ordinal <- MCOrdinal
    ChanSize = 1
    MaxStarts = 2
    MaxCalls = 2
CHECK_DEADLOCK FALSE
INVARIANTS
    KeeperInv
PROPERTIES
    StopReturns
    PlottingEnds
