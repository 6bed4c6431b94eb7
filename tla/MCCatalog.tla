------------------------------ MODULE MCCatalog -----------------------------
(* Two live events (one without a category) and two reports of a kernel    *)
(* each, the first at the time of the live kernel, uploaded to the server; *)
(* the CLI imports the second one as well.                                 *)
(* Widths 2, 4, 8, 16, of which 8 and 16 keep a view, as 32 ms and 2 s do  *)
(* among the eight of the code; 2 and 4 stand for the two widths whose view *)
(* names its buckets, 1 us and 8 us.                                       *)
EXTENDS Catalog

Widths4 == <<2, 4, 8, 16>>
Shed2 == <<2, 4>>
Keep2 == <<8, 16>>

k1 == [ts |-> 3, gpu |-> 0, cat |-> "KERNEL"]
n1 == [ts |-> 6, gpu |-> 256, cat |-> "UNSPECIFIED"]
x1 == [ts |-> 3, gpu |-> 1, cat |-> "KERNEL"]
x2 == [ts |-> 13, gpu |-> 0, cat |-> "KERNEL"]

Events == {k1, n1, x1, x2}
LiveEvents == {k1, n1}
Uploads == {"u1", "u2"}
CliUploads == {"u2"}
Reports == [u \in Uploads |-> IF u = "u1" THEN {x1} ELSE {x2}]

Request(s, e, p, k, g, c) ==
    [start |-> s, end |-> e, pixels |-> p, kind |-> k, gpus |-> g, cats |-> c]

\* Raw and every width; ranges that cut buckets; filters.
Queries ==
    {Request(s, 16, 8, "default", {}, {}) : s \in {0, 3, 4}}
    \cup {Request(0, e, 2, "default", {}, {}) : e \in {13, 16}}
    \cup {Request(0, 16, 32, "default", {}, {}), Request(0, 32, 2, "default", {}, {}),
          Request(0, 32, 4, "default", {}, {}),
          Request(14, 16, 0, "default", {}, {}), Request(5, 5, 1, "default", {}, {}),
          Request(0, 16, 2, "metric", {}, {})}
    \cup {Request(0, 16, 8, "raw", {0}, c) : c \in {{"KERNEL"}, {"bogus"}}}
    \cup {Request(0, 16, p, "activity", {0}, {"KERNEL"}) : p \in {4, 8}}
=============================================================================
