---------------------------- MODULE MCChiaKeeper ----------------------------
EXTENDS ChiaKeeper

CONSTANTS a, b, q1

\* b lies in both directories; a has more qualities than plots are asked for
MCDirs == <<{b}, {a, b}>>
MCRank == [s \in Plots |-> IF s = a THEN 2 ELSE 1]
MCFound == [s \in Plots |-> IF s = a THEN 3 ELSE 1]

\* two actions, or one query while the plotter runs
MCBudgets == {[calls |-> 2, queries |-> 0], [calls |-> 0, queries |-> 1]}
=============================================================================
