SPECIFICATION Spec
CONSTANTS
    s1 = s1
    Spaces = {s1, s2}
    Clients = {c1, c2}
    None = None
    Found = {s1, s2}
    CutFound = {s1}
    Ordinal <- MCOrdinal
    ChanSize = 1
    MaxStarts = 1
    MaxCalls = 2
SYMMETRY ClientSymmetry
CHECK_DEADLOCK FALSE
INVARIANTS
    IndexConsistent
    PlottingOwned
    OnlyPlottedServes
    PoppedIsPlotting
