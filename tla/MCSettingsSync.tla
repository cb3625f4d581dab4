--------------------------- MODULE MCSettingsSync ---------------------------
(* Small instances of SettingsSync for TLC.                                *)
EXTENDS SettingsSync

CONSTANTS zero, a, b, c, MaxModuleRestarts, MaxMasterRestarts

\* Both variables take the same values.
SharedLegal == [v \in Vars |-> {a, b}]
\* One value of each variable is not a value of the other.
OverlappingLegal == [v \in Vars |-> IF v = 1 THEN {a, b} ELSE {b, c}]
Restarts == [module |-> MaxModuleRestarts, master |-> MaxMasterRestarts]
=============================================================================
