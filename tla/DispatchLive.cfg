SPECIFICATION LiveSpec
CONSTANTS
    c1 = c1
    c2 = c2
    Collectors = {c1}
    Early = {c1}
    None = None
    Score <- MCScore
    Bound = {c1}
    TaskCap = 1
    RequestCap = 10
    MaxStops = 1
    MaxSlot = 3
    MaxRounds = 2
CHECK_DEADLOCK FALSE
INVARIANTS
    TasksInUse
PROPERTIES
    RoundEnds
    BothStop
