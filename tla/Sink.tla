------------------------------- MODULE Sink -------------------------------
(***************************************************************************)
(* The collector's batched writer into ClickHouse (store/sink.rs).         *)
(*                                                                         *)
(* Producers put messages into a bounded channel: gRPC ingest streams with *)
(* the non-blocking try_push, the profiling mutation and the spike         *)
(* detector with a send that waits for room.  One task receives messages,  *)
(* absorbs their rows into pending buffers and flushes those into five     *)
(* tables, one insert after the other.  Any insert may fail, and a failed  *)
(* insert may still have stored some of its rows.                          *)
(*                                                                         *)
(* A row is one occurrence: two equal rows sent twice are two members of   *)
(* Row.  A message is the set of its rows.                                 *)
(***************************************************************************)
EXTENDS Naturals, Sequences, FiniteSets

CONSTANTS
  Row,            \* the row occurrences producers may send
  TableOf,        \* the table each row belongs to
  Batch,          \* the batches ingest streams may try to push
  ChanCap,        \* capacity of the mpsc channel (256 in the code)
  MaxBatchRows,   \* SinkConfig.max_batch_rows: pending events that force a flush
  MaxFails        \* bound: how many inserts ClickHouse fails in a behaviour

(* Tables are numbered in the order flush inserts them. *)
Metric       == 0     \* samples of the live plane: no table takes them
Strings      == 1
Events       == 2
ClockOffsets == 3
KernelSol    == 4
Spikes       == 5

ASSUME SinkAssumption ==
  /\ TableOf \in [Row -> Metric..Spikes]
  /\ \A m \in Batch : /\ m \subseteq {r \in Row : TableOf[r] \in Metric..ClockOffsets}
                       /\ IsFiniteSet(m)
  /\ ChanCap \in Nat \ {0}
  /\ MaxBatchRows \in Nat \ {0}
  /\ MaxFails \in Nat

VARIABLES
  chan,      \* messages in the channel, oldest first
  waiters,   \* messages of senders suspended in send().await, oldest first
  pending,   \* rows in the five pending_* buffers
  pc,        \* where the task is: its select, a flush, the last flush, its end
  step,      \* in a flush, the table whose insert is under way
  closed,    \* every Sink handle has been dropped
  copies,    \* how often each row has been stored in ClickHouse
  fails,     \* inserts that have returned an error
  offered,   \* history: rows some producer has tried to push
  accepted,  \* history: rows of messages that entered the channel
  needs      \* history: for each row the strings accepted no later than it

vars == <<chan, waiters, pending, pc, step, closed, copies, fails, offered, accepted, needs>>

----------------------------------------------------------------------------
InTable(S, t) == {r \in S : TableOf[r] = t}

(* What absorb keeps of a message: every row but metric samples. *)
Absorbed(m) == {r \in m : TableOf[r] # Metric}

RowsIn(msgs) == UNION {msgs[i] : i \in 1..Len(msgs)}

durable == {r \in Row : copies[r] > 0}

(* The kinds of SinkMsg besides Batch carry one row. *)
IsKernelSol(m) == \E r \in m : m = {r} /\ TableOf[r] = KernelSol
IsSpike(m)     == \E r \in m : m = {r} /\ TableOf[r] = Spikes

(* needs after message m has entered the channel behind everything else.  *)
NeedsWith(m) ==
  [r \in Row |-> IF r \in m
                 THEN InTable(accepted \cup m, Strings)
                 ELSE needs[r]]

Flushing == pc \in {"flush", "final"}

Init ==
  /\ chan = <<>>
  /\ waiters = <<>>
  /\ pending = {}
  /\ pc = "select"
  /\ step = Strings
  /\ closed = FALSE
  /\ copies = [r \in Row |-> 0]
  /\ fails = 0
  /\ offered = {}
  /\ accepted = {}
  /\ needs = [r \in Row |-> {}]

----------------------------------------------------------------------------
(* Producers.  The semaphore behind the channel is fair: while a sender    *)
(* waits, a freed slot is its own and try_send sees a full channel.        *)

(* Mutated form of HasRoom: off by one. *)
HasRoomForOneMore == Len(chan) <= ChanCap /\ waiters = <<>>

HasRoom == Len(chan) < ChanCap /\ waiters = <<>>

Accept(m) ==
  /\ accepted' = accepted \cup m
  /\ needs' = NeedsWith(m)

Enter(m) == chan' = Append(chan, m) /\ Accept(m)

(* Sink::try_push.  Full and Closed hand the batch back; the caller drops it. *)
TryPush(m) ==
  /\ ~closed
  /\ m \cap offered = {}
  /\ offered' = offered \cup m
  /\ IF pc # "aborted" /\ HasRoom THEN Enter(m) ELSE UNCHANGED <<chan, accepted, needs>>
  /\ UNCHANGED <<waiters, pending, pc, step, closed, copies, fails>>

(* Sink::push_kernel_sol and Sink::push_spike: send at once, or wait.      *)
(* With the receiver gone the send returns an error.                       *)
Send(m) ==
  /\ ~closed
  /\ m \cap offered = {}
  /\ offered' = offered \cup m
  /\ \/ pc # "aborted" /\ HasRoom /\ Enter(m) /\ UNCHANGED waiters
     \/ /\ pc # "aborted" /\ ~HasRoom
        /\ waiters' = Append(waiters, m)
        /\ UNCHANGED <<chan, accepted, needs>>
     \/ pc = "aborted" /\ UNCHANGED <<chan, waiters, accepted, needs>>
  /\ UNCHANGED <<pending, pc, step, closed, copies, fails>>

PushKernelSol(m) == IsKernelSol(m) /\ Send(m)

PushSpike(m) == IsSpike(m) /\ Send(m)

(* The HTTP server drops the profiling mutation when its client goes away, *)
(* and with it a send that still waits.                                    *)
CancelSend(i) ==
  /\ i \in 1..Len(waiters)
  /\ IsKernelSol(waiters[i])
  /\ waiters' = SubSeq(waiters, 1, i - 1) \o SubSeq(waiters, i + 1, Len(waiters))
  /\ UNCHANGED <<chan, pending, pc, step, closed, copies, fails, offered, accepted, needs>>

(* The last handle is dropped; a waiting sender still owns one. *)
Close ==
  /\ ~closed /\ waiters = <<>> /\ pc # "aborted"
  /\ closed' = TRUE
  /\ UNCHANGED <<chan, waiters, pending, pc, step, copies, fails, offered, accepted, needs>>

----------------------------------------------------------------------------
(* The task.                                                               *)

StartFlush(kind) ==
  /\ pc' = kind
  /\ step' = Strings

(* Mutated form of Recv: the threshold is passed, not reached. *)
RecvPastThreshold ==
  /\ pc = "select" /\ chan # <<>>
  /\ pending' = pending \cup Absorbed(Head(chan))
  /\ IF waiters = <<>>
     THEN chan' = Tail(chan) /\ UNCHANGED <<waiters, accepted, needs>>
     ELSE /\ chan' = Append(Tail(chan), Head(waiters))
          /\ waiters' = Tail(waiters)
          /\ Accept(Head(waiters))
  /\ IF Cardinality(InTable(pending', Events)) > MaxBatchRows
     THEN StartFlush("flush")
     ELSE UNCHANGED <<pc, step>>
  /\ UNCHANGED <<closed, copies, fails, offered>>

(* The recv arm of the select.  The freed slot goes to the first waiter.   *)
Recv ==
  /\ pc = "select" /\ chan # <<>>
  /\ pending' = pending \cup Absorbed(Head(chan))
  /\ IF waiters = <<>>
     THEN chan' = Tail(chan) /\ UNCHANGED <<waiters, accepted, needs>>
     ELSE /\ chan' = Append(Tail(chan), Head(waiters))
          /\ waiters' = Tail(waiters)
          /\ Accept(Head(waiters))
  /\ IF Cardinality(InTable(pending', Events)) >= MaxBatchRows
     THEN StartFlush("flush")
     ELSE UNCHANGED <<pc, step>>
  /\ UNCHANGED <<closed, copies, fails, offered>>

(* Mutated form of RecvNone: the loop ends as soon as the handles are gone. *)
RecvNoneEarly ==
  /\ pc = "select" /\ closed
  /\ StartFlush("final")
  /\ UNCHANGED <<chan, waiters, pending, closed, copies, fails, offered, accepted, needs>>

(* recv() = None: the channel is closed and empty; one last flush follows. *)
RecvNone ==
  /\ pc = "select" /\ chan = <<>> /\ closed
  /\ StartFlush("final")
  /\ UNCHANGED <<chan, waiters, pending, closed, copies, fails, offered, accepted, needs>>

(* Mutated form of Tick: only pending events are worth a flush. *)
TickForEvents ==
  /\ pc = "select" /\ InTable(pending, Events) # {}
  /\ StartFlush("flush")
  /\ UNCHANGED <<chan, waiters, pending, closed, copies, fails, offered, accepted, needs>>

(* The ticker arm of the select. *)
Tick ==
  /\ pc = "select" /\ pending # {}
  /\ StartFlush("flush")
  /\ UNCHANGED <<chan, waiters, pending, closed, copies, fails, offered, accepted, needs>>

AfterFlush == IF pc = "final" THEN "done" ELSE "select"

Stored(S) == [r \in Row |-> IF r \in S THEN copies[r] + 1 ELSE copies[r]]

(* Mutated form of InsertOk: the buffers are not cleared after the flush. *)
InsertOkKeeps ==
  /\ Flushing
  /\ copies' = Stored(InTable(pending, step))
  /\ IF step < Spikes
     THEN step' = step + 1 /\ UNCHANGED <<pending, pc>>
     ELSE pc' = AfterFlush /\ UNCHANGED <<pending, step>>
  /\ UNCHANGED <<chan, waiters, closed, fails, offered, accepted, needs>>

(* One table of flush succeeds (an empty buffer is skipped).  After the    *)
(* last table every buffer is cleared, with no await in between.           *)
InsertOk ==
  /\ Flushing
  /\ copies' = Stored(InTable(pending, step))
  /\ IF step < Spikes
     THEN step' = step + 1 /\ UNCHANGED <<pending, pc>>
     ELSE pending' = {} /\ pc' = AfterFlush /\ UNCHANGED step
  /\ UNCHANGED <<chan, waiters, closed, fails, offered, accepted, needs>>

(* Mutated form of InsertFails: the failed table's buffer is given up. *)
InsertFailsForgets ==
  /\ Flushing /\ InTable(pending, step) # {}
  /\ fails < MaxFails /\ fails' = fails + 1
  /\ \E S \in SUBSET InTable(pending, step) : copies' = Stored(S)
  /\ pc' = AfterFlush
  /\ pending' = pending \ InTable(pending, step)
  /\ UNCHANGED <<chan, waiters, step, closed, offered, accepted, needs>>

(* Mutated form of InsertFails: the flush goes on with the next table. *)
InsertFailsGoesOn ==
  /\ Flushing /\ InTable(pending, step) # {} /\ step < Spikes
  /\ fails < MaxFails /\ fails' = fails + 1
  /\ \E S \in SUBSET InTable(pending, step) : copies' = Stored(S)
  /\ step' = step + 1
  /\ UNCHANGED <<chan, waiters, pending, pc, closed, offered, accepted, needs>>

(* The insert returns an error, having stored some of its rows or all of   *)
(* them (the answer was lost): flush returns with every buffer as it was.  *)
InsertFails ==
  /\ Flushing /\ InTable(pending, step) # {}
  /\ fails < MaxFails /\ fails' = fails + 1
  /\ \E S \in SUBSET InTable(pending, step) : copies' = Stored(S)
  /\ pc' = AfterFlush
  /\ UNCHANGED <<chan, waiters, pending, step, closed, offered, accepted, needs>>

(* Ctrl-C makes app::run return; the runtime drops the task where it      *)
(* stands, an insert in flight included, with its buffers and channel.     *)
Abort ==
  /\ pc \notin {"done", "aborted"}
  /\ pc' = "aborted"
  /\ chan' = <<>> /\ waiters' = <<>> /\ pending' = {}
  /\ \E S \in SUBSET InTable(pending, step) :
       copies' = IF Flushing THEN Stored(S) ELSE copies
  /\ UNCHANGED <<step, closed, fails, offered, accepted, needs>>

(* Nothing is left to run. *)
Ended == pc \in {"done", "aborted"} /\ UNCHANGED vars

Produce ==
  \/ \E m \in Batch : TryPush(m)
  \/ \E r \in Row : PushKernelSol({r})
  \/ \E r \in Row : PushSpike({r})
  \/ \E i \in 1..Len(waiters) : CancelSend(i)
  \/ Close

Next == Produce \/ Recv \/ RecvNone \/ Tick \/ InsertOk \/ InsertFails \/ Abort \/ Ended

Spec == Init /\ [][Next]_vars

(* The runtime polls a ready task, so its steps are weakly fair.  select!  *)
(* picks at random among ready arms: the ticker is not starved by an       *)
(* ever-full channel.  Nothing is assumed of producers, Close or Abort.    *)
Fairness ==
  /\ WF_vars(Recv)
  /\ WF_vars(RecvNone)
  /\ WF_vars(InsertOk)
  /\ SF_vars(Tick)

FairSpec == Spec /\ Fairness

----------------------------------------------------------------------------
TypeOK ==
  /\ chan \in Seq(SUBSET Row) /\ Len(chan) <= ChanCap
  /\ waiters \in Seq(SUBSET Row)
  /\ pending \in SUBSET Row
  /\ pc \in {"select", "flush", "final", "done", "aborted"}
  /\ step \in Strings..Spikes
  /\ closed \in BOOLEAN
  /\ copies \in [Row -> Nat]
  /\ fails \in 0..MaxFails
  /\ offered \in SUBSET Row
  /\ accepted \in SUBSET Row
  /\ needs \in [Row -> SUBSET Row]

(* Custody: as long as the task lives, a row that try_push, push_kernel_sol *)
(* or push_spike accepted is in the channel, in a pending buffer or stored; *)
(* absorb and flush lose nothing, whatever inserts fail in whatever order.  *)
Custody ==
  pc # "aborted" => Absorbed(accepted) \subseteq RowsIn(chan) \cup pending \cup durable

(* A stored event, offset, SOL record or spike never refers to a dictionary *)
(* entry that is still missing: every string accepted no later than the row *)
(* is stored before it.  It rests on the FIFO channel, on flush's order of  *)
(* inserts and on its early return when the insert of strings fails.        *)
StringsFirst ==
  \A r \in durable : TableOf[r] > Strings => needs[r] \subseteq durable

(* flush keeps what it has already inserted when a later insert fails, so   *)
(* rows are stored again by the retry; but each extra copy of a row costs   *)
(* one failed insert.                                                       *)
CopiesBound == \A r \in Row : copies[r] <= fails + 1

(* Until an insert fails, the recv arm keeps the event buffer below         *)
(* max_batch_rows whenever the task is back in its select.                  *)
BufferBound ==
  fails = 0 /\ ~Flushing => Cardinality(InTable(pending, Events)) < MaxBatchRows

(* When every handle is dropped, the task drains the channel before the     *)
(* last flush: if that flush succeeds, every accepted row is stored.        *)
CleanStop == pc = "done" /\ pending = {} => Absorbed(accepted) \subseteq durable

(* An accepted row is eventually stored, unless the process exits or the    *)
(* one attempt of the last flush fails: a failed flush is always retried.   *)
EventuallyStored ==
  \A r \in Row :
    r \in Absorbed(accepted) ~>
      \/ r \in durable
      \/ pc = "aborted"
      \/ pc = "done" /\ pending # {}

----------------------------------------------------------------------------
Alive == pc \notin {"done", "aborted"}

(* The rows the task still answers for: in the channel or in a buffer.      *)
Owned == IF Alive THEN Absorbed(RowsIn(chan)) \cup pending ELSE {}

Store == INSTANCE DurableStore
  WITH Row    <- Absorbed(Row),
       held   <- Owned,
       stored <- durable,
       up     <- Alive

(* The batching task implements the abstract store: every step of a sender, *)
(* of the select loop, of a flush or of a failing insert is a step the      *)
(* promise allows.                                                          *)
ImplementsStore == Store!Spec
============================================================================
