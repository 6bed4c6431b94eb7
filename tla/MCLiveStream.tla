--------------------------- MODULE MCLiveStream ---------------------------
(* Instances of LiveStream for TLC. *)
EXTENDS LiveStream

CONSTANT a

(* Metric and spike frames share a channel; kernels have their own, and a   *)
(* second kernel can come while the flag of the first one is set.           *)
TwoEach == [c \in Chan |-> 2]
============================================================================
