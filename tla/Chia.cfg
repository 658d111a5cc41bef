SPECIFICATION FairSpec
CONSTANTS
    a = a
    b = b
    q1 = q1
    Plots = {a, b}
    Dirs <- MCDirs
    Rank <- MCRank
    Generate = TRUE
    Execute = TRUE
    Found <- MCFound
    Workers = 1
    Clients = {c1, c2}
    Queries = {q1}
    Budgets <- MCBudgets
CHECK_DEADLOCK FALSE
INVARIANTS
    ViewsAgree
    Complete
PROPERTIES
    AllServed
