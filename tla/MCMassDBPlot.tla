---------------------------- MODULE MCMassDBPlot ----------------------------
EXTENDS MassDBPlot

\* a permutation: every slot of HashMapA has a record
MCPermutation == [x \in Value |-> (5 * x + 3) % Volume]

\* a hash with a collision: the slot of P(2) is set twice, one slot stays empty
MCHash == [MCPermutation EXCEPT ![5] = MCPermutation[2]]

MCFB == [c \in Value \X Value |-> (c[1] * c[1] + 3 * c[2]) % Volume]

=============================================================================
