------------------------------- MODULE MCClock ------------------------------
(* Five samples, of which one slower than all others is dropped; a source  *)
(* on host time and one behind it; a read takes no time or, when the       *)
(* thread is preempted, longer than the gap.  Times lie above Mant, where  *)
(* f64 is two nanoseconds apart and four after a preempted read.           *)
EXTENDS Clock

Lags == <<0, 17>>
Powers == {2 ^ k : k \in 0..14}
=============================================================================
