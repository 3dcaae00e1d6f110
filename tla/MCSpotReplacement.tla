------------------------- MODULE MCSpotReplacement -------------------------
EXTENDS SpotReplacement, TLC

Symmetric == Permutations(Spot) \cup Permutations(InitialOD)
=============================================================================
