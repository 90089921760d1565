------------------------------ MODULE MC_Accounts ------------------------------
EXTENDS Accounts, TLC

Symmetry == Permutations(Turns)
=============================================================================
