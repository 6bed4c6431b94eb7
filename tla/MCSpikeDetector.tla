-------------------------- MODULE MCSpikeDetector --------------------------
(* Instances of SpikeDetector for TLC. *)
EXTENDS SpikeDetector

CONSTANT a
============================================================================
