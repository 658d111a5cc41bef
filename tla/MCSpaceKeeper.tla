---------------------------- MODULE MCSpaceKeeper ----------------------------
EXTENDS SpaceKeeper, TLC

CONSTANT s1

\* s1 has the lower ordinal and is plotted first
MCOrdinal == [s \in Spaces |-> IF s = s1 THEN 1 ELSE 2]

\* clients run the same code
ClientSymmetry == Permutations(Clients)

=============================================================================
