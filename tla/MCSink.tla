------------------------------ MODULE MCSink ------------------------------
(* Instances of Sink for TLC. *)
EXTENDS Sink

CONSTANTS m1, s1, e1, e2, o1, k1, p1

(* m: metric sample, s: string, e: event, o: offset, k: kernel SOL, p: spike *)
MCTableOf ==
  [r \in Row |-> CASE r = m1 -> Metric
                   [] r = s1 -> Strings
                   [] r \in {e1, e2} -> Events
                   [] r = o1 -> ClockOffsets
                   [] r = k1 -> KernelSol
                   [] r = p1 -> Spikes]

(* e2 travels alone: its string was announced before; a batch whose events  *)
(* are all metric samples reaches the sink empty.                           *)
Mixed == {{m1, s1, e1}, {e2, o1}, {}}
============================================================================
