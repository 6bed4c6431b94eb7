------------------------------ MODULE MCReplay ------------------------------
(* An agent configured as node 1, one without an id and one that replays   *)
(* nothing; two requests, the longer one exceeding the channel.            *)
EXTENDS Replay

Ids == [a \in Agent |-> IF a = "a1" THEN 1 ELSE 0]
Requests == {<<"k7", "k8", "k9">>, <<>>}
Kernels == {[corr |-> "k7", name |-> "gemm", dur |-> 3],
            [corr |-> "k8", name |-> "copy", dur |-> 1]}
=============================================================================
