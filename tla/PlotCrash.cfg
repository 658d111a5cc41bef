SPECIFICATION FairSpec
CONSTANTS
    Half = 4
    P <- MCHash
    FB <- MCFB
    RecordSize = 1
    ByteBase = 8
    MaxMem = 10
    MinMem = 4
    Available = {3, 5, 100}
    BufSize = 4
    MaxRuns = 3
CHECK_DEADLOCK FALSE
INVARIANTS
    CheckpointSound
    SourceKept
    PlotComplete
PROPERTIES
    CheckpointGrows
    PlotEnds
