------------------------------ MODULE Delivery ------------------------------
(***************************************************************************)
(* What the way from an agent's ring to the collector promises of an item  *)
(* that the ring has accepted: it waits until it has exactly one fate.  It *)
(* is taken or refused by the sink, which the collector acknowledges, or   *)
(* it is lost, and that only if a connection, the collector or the agent   *)
(* has failed.  A fate is final: nothing lost arrives after all, nothing   *)
(* that arrived arrives again.  Batches, sessions, retries and the order   *)
(* of arrival are left open.                                               *)
(***************************************************************************)
CONSTANT Item

VARIABLES
  waiting,   \* accepted by the ring and without a fate
  accepted,  \* handed to the sink
  refused,   \* refused by a full sink
  lost,      \* lost with a connection or a process
  broken     \* something has failed, or the agent was told to stop

vars == <<waiting, accepted, refused, lost, broken>>

Init ==
  /\ waiting = {} /\ accepted = {} /\ refused = {} /\ lost = {}
  /\ broken = FALSE

Enter(i) ==
  /\ i \notin waiting \cup accepted \cup refused \cup lost
  /\ waiting' = waiting \cup {i}
  /\ UNCHANGED <<accepted, refused, lost, broken>>

Take(S) ==
  /\ waiting' = waiting \ S
  /\ accepted' = accepted \cup S
  /\ UNCHANGED <<refused, lost, broken>>

Refuse(S) ==
  /\ waiting' = waiting \ S
  /\ refused' = refused \cup S
  /\ UNCHANGED <<accepted, lost, broken>>

(* A failure, and what is lost with it at once or later. *)
Fail(S) ==
  /\ broken' = TRUE
  /\ waiting' = waiting \ S
  /\ lost' = lost \cup S
  /\ UNCHANGED <<accepted, refused>>

Next ==
  \/ \E i \in Item : Enter(i)
  \/ \E S \in SUBSET waiting : Take(S) \/ Refuse(S) \/ Fail(S)

Spec == Init /\ [][Next]_vars
=============================================================================
