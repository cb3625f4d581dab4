------------------------------ MODULE Intervals ------------------------------
(***************************************************************************)
(* Times in a word that wraps around: millis() and the differences and     *)
(* comparisons made of it.                                                 *)
(***************************************************************************)
EXTENDS Integers

CONSTANT Half     \* half the number of values of the word

Wrap == 2 * Half
millis == 0..(Wrap - 1)

ASSUME HalfAssumption == Half \in Nat /\ Half > 1

(* The time n ticks after t, where n is no more than Wrap. *)
Later(t, n) == IF t + n < Wrap THEN t + n ELSE t + n - Wrap

(* The difference (uint32_t)(t - then). *)
Since(then, t) == IF then <= t THEN t - then ELSE t + Wrap - then

(* Whether an interval has passed since it was last said to have passed,   *)
(* and the time to remember.                                               *)
mi_interval_elapsed(lastRun, now, interval) == Since(lastRun, now) >= interval
LastRun(lastRun, now, interval) ==
  IF mi_interval_elapsed(lastRun, now, interval) THEN now ELSE lastRun

(* The sign bit of the difference is not set. *)
mi_is_after(A, B) == Since(B, A) < Half
mi_after_or_equal(A, B) == A = B \/ mi_is_after(A, B)
=============================================================================
