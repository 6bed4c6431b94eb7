---------------------------- MODULE MCFastRing ----------------------------
(* Instances of FastRing for TLC. *)
EXTENDS FastRing

CONSTANTS a, b, s1, s2, f1, f2, f3

(* Two streams whose frames list two series in either order, or one twice. *)
TwoStreams == [f \in Frame |-> IF f = f3 THEN s2 ELSE s1]
TwoSeries  == [f \in Frame |-> CASE f = f1 -> <<a, b>>
                                 [] f = f2 -> <<a, a>>
                                 [] f = f3 -> <<b, a>>]
============================================================================
