----------------------------- MODULE MCSampling -----------------------------
(* Small instances of Sampling for TLC.                                    *)
EXTENDS Sampling

\* Two scan columns: every second tick, and every third.
Intervals == <<2, 3>>
=============================================================================
