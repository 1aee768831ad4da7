--------------------------- MODULE MCEnforcement ----------------------------
(* Instances of Enforcement for TLC.                                       *)
EXTENDS MCAccounting, Enforcement
=============================================================================
