------------------------- MODULE MCSpotTermination -------------------------
(* SpotTermination for TLC: its sets are model values, given in the .cfg.   *)
EXTENDS SpotTermination
=============================================================================
