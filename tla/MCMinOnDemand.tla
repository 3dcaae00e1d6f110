--------------------------- MODULE MCMinOnDemand ---------------------------
(* An instance of MinOnDemand for TLC: settings out of range on both sides, *)
(* percentages on both sides of a half (START.md:372-378).                  *)
EXTENDS MinOnDemand

SomeTagNumbers == {Unset, -1, 2, 5}
SomeTagPercentages == {Unset, 16, 17, 75, 101}
SomeCliNumbers == {-1, 0, 2}
SomeCliPercentages == {0, 34, 100}
=============================================================================
