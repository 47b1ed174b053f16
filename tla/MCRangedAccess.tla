--------------------------- MODULE MCRangedAccess ---------------------------
(* Instances of RangedAccess for TLC.                                      *)
EXTENDS RangedAccess

EveryFault == FaultKinds
=============================================================================
