SPECIFICATION FairSpec
CONSTANTS
    s1 = s1
    s2 = s2
    Spaces = {s1, s2}
    Invalid = {}
    Bound = {s1, s2}
    Quality <- MCQuality
    Target <- MCTarget
    AllowAhead = 1
    Massip2 = 1
    ChanSize = 1
    MaxSlot = 4
    MaxHeight = 2
    MaxTips = 3
    Handlers = {h1, h2}
    Configs <- MCConfigs
    MaxRequests = 2
    Starts <- MCStarts
CHECK_DEADLOCK FALSE
INVARIANTS
    OncePerHeight
    EarliestBest
PROPERTIES
    StopAllStops
    WorkEnds
