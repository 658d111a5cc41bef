SPECIFICATION Spec
CONSTANTS
    c1 = c1
    c2 = c2
    Collectors = {c1, c2}
    Early = {c1}
    None = None
    Score <- MCScore
    Bound = {c1, c2}
    TaskCap = 1
    RequestCap = 10
    MaxStops = 2
    MaxSlot = 1
    MaxRounds = 1
CHECK_DEADLOCK FALSE
INVARIANTS
    NoPanic
    AnswersMatch
    EveryoneAsked
