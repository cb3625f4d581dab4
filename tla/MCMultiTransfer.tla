--------------------------- MODULE MCMultiTransfer ---------------------------
(* Small instances of MultiTransfer for TLC.                               *)
EXTENDS MultiTransfer

CONSTANTS zero, a, b

(* The values are interchangeable, so the database may start with either.  *)
MCInit == Init /\ dval = a
MCSpec == MCInit /\ [][Next]_vars /\ Fairness
=============================================================================
