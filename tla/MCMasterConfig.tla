--------------------------- MODULE MCMasterConfig ---------------------------
(* Small instances of MasterConfig for TLC.                                *)
EXTENDS MasterConfig

CONSTANTS m1, m2, m3
=============================================================================
