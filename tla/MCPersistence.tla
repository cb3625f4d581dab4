---------------------------- MODULE MCPersistence ----------------------------
(* Small instances of Persistence for TLC.                                 *)
EXTENDS Persistence

\* A variable of two bytes and one of a single byte.
TwoAndOne == <<2, 1>>
\* Two variables of one byte.
OneAndOne == <<1, 1>>
=============================================================================
