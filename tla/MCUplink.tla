----------------------------- MODULE MCUplink -----------------------------
(* Instances of Uplink for TLC. *)
EXTENDS Uplink

CONSTANTS m1, m2, f1, percent

(* m: metric event, f: metric frame. *)
MCLaneOf == [i \in Item |-> IF i = f1 THEN "frames" ELSE "events"]
MCUnitOf == [i \in Item |-> IF i \in {m1, m2} THEN {percent} ELSE {}]

OneEach == [l \in Lane |-> 1]
============================================================================
