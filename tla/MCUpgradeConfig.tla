--------------------------- MODULE MCUpgradeConfig ---------------------------
(* Values for the constants of UpgradeConfig.                              *)
EXTENDS UpgradeConfig

CONSTANTS v1, v2
=============================================================================
