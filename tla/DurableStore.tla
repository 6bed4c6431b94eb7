---------------------------- MODULE DurableStore ----------------------------
(***************************************************************************)
(* What the sink promises the rest of the collector: a row it has taken is *)
(* held until it is in the store; rows never reach the store in another    *)
(* way; only the end of the process may lose what is held.  How rows are   *)
(* batched, in which order tables are written and how often a row is       *)
(* written is left open.                                                   *)
(***************************************************************************)
CONSTANT Row      \* the rows the store has a table for

VARIABLES
  held,     \* rows taken and not yet let go
  stored,   \* rows in the store at least once
  up        \* the sink is running

vars == <<held, stored, up>>

Init ==
  /\ held = {}
  /\ stored = {}
  /\ up = TRUE

(* Take rows never seen before. *)
Take(S) ==
  /\ up
  /\ S \cap (held \cup stored) = {}
  /\ held' = held \cup S
  /\ UNCHANGED <<stored, up>>

(* Store some of the held rows and let go only of rows that are stored. *)
Store(S, R) ==
  /\ up
  /\ S \subseteq held
  /\ R \subseteq held \cap (stored \cup S)
  /\ stored' = stored \cup S
  /\ held' = held \ R
  /\ UNCHANGED up

(* The end of the sink: what a last write does not save is lost. *)
Stop(S) ==
  /\ up
  /\ S \subseteq held
  /\ stored' = stored \cup S
  /\ held' = {}
  /\ up' = FALSE

Next ==
  \/ \E S \in SUBSET Row : Take(S)
  \/ \E S \in SUBSET held, R \in SUBSET held : Store(S, R)
  \/ \E S \in SUBSET held : Stop(S)

Spec == Init /\ [][Next]_vars
============================================================================
