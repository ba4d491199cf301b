-------------------------- MODULE MCCircularRewards --------------------------
EXTENDS CircularRewards, TLC

Symmetry == Permutations(ProductIds) \cup Permutations(Users)
=============================================================================
