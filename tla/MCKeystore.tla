---------------------------- MODULE MCKeystore ----------------------------
EXTENDS Keystore, TLC

Symmetry == Permutations(Accounts) \cup Permutations(Pass)
===========================================================================
