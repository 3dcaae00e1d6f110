---------------------------- MODULE MCRebalance ----------------------------
EXTENDS Rebalance, TLC

Symmetric == Permutations(Spot)
=============================================================================
