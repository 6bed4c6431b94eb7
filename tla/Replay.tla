------------------------------- MODULE Replay -------------------------------
(***************************************************************************)
(* On-demand kernel profiling: agents register with the collector under a  *)
(* node id, the profileKernels mutation looks the node up, dials the agent *)
(* and drains its stream of KernelSol messages, persisting each through    *)
(* the sink; spikeContext later reads what was persisted.                  *)
(*                                                                         *)
(* A KernelSol is its correlation id.  The sink is a queue that is flushed *)
(* as a whole (module Sink has its detail).  timeout_ms of a request is    *)
(* carried to the agent and read nowhere, and the collector sets no        *)
(* connect, request or keep-alive timeout, so no action stands for any: an *)
(* agent whose host is cut off, or whose process is stuck, is silent, and  *)
(* nobody notices.                                                         *)
(***************************************************************************)
EXTENDS Integers, Sequences, FiniteSets, FiniteSetsExt, SequencesExt

CONSTANTS Agent,      \* agent processes
          Configured, \* the node id each agent is configured with, 0 for none
          WithRpc,    \* the agents that advertise an RPC address
          Synthetic,  \* the agents that answer with synthetic rows
          Request,    \* sequences of correlation ids a client asks for
          Kernel,     \* kernels stored in the spike's window: [corr, name, dur]
          ChanCap,    \* capacity of the agent's result channel, 32 in the code
          MaxCalls, MaxRegs, MaxRestarts  \* bounds on calls, sessions, restarts

ASSUME ReplayAssumption ==
    /\ Configured \in [Agent -> Nat]
    /\ WithRpc \subseteq Agent /\ Synthetic \subseteq Agent
    /\ ChanCap \in Nat \ {0}
    /\ \A req \in Request : req \in Seq({req[i] : i \in DOMAIN req})

VARIABLES
    up,        \* agents that are running
    silent,    \* those of them that are stuck or whose host is cut off
    nextId,    \* next_node_id of the collector
    registry,  \* node id -> the entry of AgentRegistry
    regs, calls, restarts,  \* counters of the bounds
    pc,        \* the mutation: "idle", "connect", "drain", "persist", "ack", "error"
    node, ids, target,      \* its arguments and the agent it dialled
    completed, cur, results,  \* rows received, the last one, rows to return
    todo,      \* ids the agent's task has still to send
    chan,      \* the agent's result channel
    reading,   \* the receiving end of chan is alive
    stalled,   \* neither a message nor an end will come from the stream any more
    sinkOpen, queue, kernel_sol  \* the sink, its queue, the table

agents == <<up, silent>>
args == <<node, ids, target>>
progress == <<completed, cur, results>>
caller == <<pc, args, progress>>
wire == <<todo, chan, reading, stalled>>
store == <<sinkOpen, queue, kernel_sol>>
bounds == <<regs, calls, restarts>>
vars == <<agents, nextId, registry, bounds, caller, wire, store>>

NodeId == 1..MaxRegs \cup {Configured[a] : a \in Agent}
NoEntry == [agent |-> "none", addr |-> FALSE]

Init == /\ up = Agent /\ silent = {} /\ nextId = 1 /\ registry = [n \in NodeId |-> NoEntry]
        /\ regs = 0 /\ calls = 0 /\ restarts = 0
        /\ pc = "idle" /\ node = 0 /\ ids = <<>> /\ target = "none"
        /\ completed = 0 /\ cur = "none" /\ results = <<>>
        /\ todo = <<>> /\ chan = <<>> /\ reading = FALSE /\ stalled = FALSE
        /\ sinkOpen = TRUE /\ queue = {} /\ kernel_sol = {}

-----------------------------------------------------------------------------
(* Registration: ingest/grpc.rs and AgentRegistry of replay.rs.            *)

\* Every session of an agent registers anew; the entry of an id is replaced.
\* The agent ignores the id it was assigned.
Register(a) ==
    LET assigned == IF Configured[a] = 0 THEN nextId ELSE Configured[a]
    IN  /\ a \in up \ silent /\ regs < MaxRegs
        /\ regs' = regs + 1
        /\ nextId' = IF Configured[a] = 0 THEN nextId + 1 ELSE nextId
        /\ registry' = [registry EXCEPT ![assigned] =
                            [agent |-> a, addr |-> a \in WithRpc]]
        /\ UNCHANGED <<agents, calls, restarts, caller, wire, store>>

\* The agent process ends; a stream it served breaks, at the next read.
AgentEnds(a) ==
    /\ a \in up
    /\ up' = up \ {a} /\ silent' = silent \ {a}
    /\ IF target = a THEN todo' = <<>> /\ chan' = <<>> /\ stalled' = FALSE
                     ELSE UNCHANGED <<todo, chan, stalled>>
    /\ UNCHANGED <<nextId, registry, bounds, caller, reading, store>>

\* The agent's host is cut off without a word, or its process gets stuck.  Of a
\* stream it serves the collector has what has arrived, which may be all of it
\* with its end, and waits for the rest.
GoesSilent(a) ==
    /\ a \in up \ silent
    /\ silent' = silent \cup {a}
    /\ \/ /\ target = a /\ (reading \/ todo # <<>>)
          /\ stalled' = TRUE /\ todo' = <<>>
          /\ \E k \in 0..Len(chan) : chan' = SubSeq(chan, 1, k)
       \/ /\ target # a \/ todo = <<>>
          /\ UNCHANGED <<todo, chan, stalled>>
    /\ UNCHANGED <<up, nextId, registry, bounds, caller, reading, store>>

\* The collector is started again: registry, ids, calls and queue are gone.
Restart ==
    /\ restarts < MaxRestarts
    /\ restarts' = restarts + 1
    /\ nextId' = 1 /\ registry' = [n \in NodeId |-> NoEntry]
    /\ pc' = "idle" /\ reading' = FALSE /\ queue' = {} /\ sinkOpen' = TRUE
    /\ UNCHANGED <<agents, regs, calls, args, progress, todo, chan, stalled, kernel_sol>>

-----------------------------------------------------------------------------
(* The mutation: profile_kernels of api/graphql.rs and of replay.rs.       *)

Finish(how) == pc' = how /\ reading' = FALSE

\* A request arrives.  Calls do not overlap here, the tasks of two calls being
\* independent of each other.
Call(n, req) ==
    /\ pc \in {"idle", "ack", "error"} /\ todo = <<>> /\ calls < MaxCalls
    /\ calls' = calls + 1
    /\ node' = n /\ ids' = req /\ completed' = 0 /\ cur' = "none" /\ results' = <<>>
    /\ target' = registry[n].agent
    /\ pc' = IF registry[n] # NoEntry /\ registry[n].addr THEN "connect" ELSE "error"
    /\ chan' = <<>> /\ stalled' = FALSE
    /\ UNCHANGED <<agents, nextId, registry, regs, restarts, todo, reading, store>>

\* Dial the agent; profile_kernels of rpc_server.rs spawns the synthetic task
\* or puts the one error into the channel.  From a silent agent comes nothing:
\* the operating system gives up dialling a host that is cut off, but a stuck
\* process is dialled, and never answers.
Connect ==
    /\ pc = "connect"
    /\ \/ /\ target \in up \ silent
          /\ pc' = "drain" /\ reading' = TRUE
          /\ IF target \in Synthetic THEN todo' = ids /\ UNCHANGED chan
                                     ELSE chan' = <<"unimplemented">> /\ UNCHANGED todo
          /\ UNCHANGED stalled
       \/ /\ target \in silent
          /\ pc' = "drain" /\ reading' = TRUE /\ stalled' = TRUE
          /\ UNCHANGED <<todo, chan>>
       \/ /\ target \notin up \ silent
          /\ Finish("error")
          /\ UNCHANGED <<todo, chan, stalled>>
    /\ UNCHANGED <<agents, nextId, registry, bounds, args, progress, store>>

\* tx.send returns at once when the receiver was dropped.
SendOk == ~reading \/ Len(chan) < ChanCap

\* synthetic_replay: one row per id, errors ignored.
AgentSends ==
    /\ todo # <<>> /\ SendOk
    /\ todo' = Tail(todo)
    /\ chan' = IF reading THEN Append(chan, Head(todo)) ELSE chan
    /\ UNCHANGED <<agents, nextId, registry, bounds, caller, reading, stalled, store>>

\* The next message: a row, the error, or, from a broken stream, an error.
Drain ==
    /\ pc = "drain" /\ chan # <<>>
    /\ chan' = Tail(chan)
    /\ IF Head(chan) = "unimplemented"
       THEN Finish("ack") /\ UNCHANGED <<completed, cur>>
       ELSE /\ pc' = "persist" /\ completed' = completed + 1
            /\ cur' = Head(chan) /\ UNCHANGED reading
    /\ UNCHANGED <<agents, nextId, registry, bounds, args, results, todo, stalled, store>>

\* Mutated form of StreamOver: the RPC server keeps a sender of the channel.
StreamOverHeld == chan = <<>> /\ todo = <<>> /\ target \notin up /\ ~stalled

\* All was sent and the sender dropped, or the agent ended.
StreamOver == chan = <<>> /\ todo = <<>> /\ ~stalled

StreamEnds ==
    /\ pc = "drain" /\ StreamOver
    /\ Finish("ack")
    /\ UNCHANGED <<agents, nextId, registry, bounds, args, progress, todo, chan, stalled, store>>

\* Mutated form of Push: try_send, which loses the row when the queue is in use.
PushIfIdle(row) == IF queue = {} THEN {row} ELSE queue

Push(row) == queue \cup {row}

\* sink.push_kernel_sol().await under the node id of the request; an error of
\* a closed sink is only logged.
Persist ==
    /\ pc = "persist"
    /\ pc' = "drain"
    /\ queue' = IF sinkOpen THEN Push(<<node, cur>>) ELSE queue
    /\ results' = Append(results, cur)
    /\ UNCHANGED <<agents, nextId, registry, bounds, args, completed, cur, wire, sinkOpen, kernel_sol>>

\* The client goes away: the future of the mutation is dropped where it waits.
Cancel ==
    /\ pc \in {"connect", "drain", "persist"}
    /\ Finish("idle")
    /\ UNCHANGED <<agents, nextId, registry, bounds, args, progress, todo, chan, stalled, store>>

Flush == /\ queue # {} /\ sinkOpen
         /\ kernel_sol' = kernel_sol \cup queue /\ queue' = {}
         /\ UNCHANGED <<agents, nextId, registry, bounds, caller, wire, sinkOpen>>

SinkCloses == /\ sinkOpen
              /\ sinkOpen' = FALSE /\ queue' = {}
              /\ UNCHANGED <<agents, nextId, registry, bounds, caller, wire, kernel_sol>>

CallStep == Connect \/ Drain \/ StreamEnds \/ Persist

Next == \/ \E a \in Agent : Register(a) \/ AgentEnds(a) \/ GoesSilent(a)
        \/ Restart \/ Cancel \/ Flush \/ SinkCloses
        \/ \E n \in NodeId, req \in Request : Call(n, req)
        \/ CallStep \/ AgentSends

\* The server's and the agent's runtimes poll their tasks; a silent agent's
\* task has nothing it could do.
Fairness == WF_vars(CallStep) /\ WF_vars(AgentSends) /\ WF_vars(Flush)

Spec == Init /\ [][Next]_vars /\ Fairness

-----------------------------------------------------------------------------
(* spikeContext of api/graphql.rs, for the window that holds Kernel.       *)

\* Columns of `events` after all migrations that the queries below name.
EventColumns == {"ts_ns", "duration_ns", "node_id", "gpu_id", "category", "name_id",
                 "correlation_id", "metric_id", "metric_value"}
UtilColumns == {"value", "name_id", "category", "gpu_id", "ts_ns"}

\* Shares of utilisation in tenths of a percent.
Bottleneck(mem, gpu) == CASE 10 * mem > 12 * gpu /\ mem > 50  -> "memory"
                          [] 10 * gpu > 12 * mem /\ gpu > 200 -> "compute"
                          [] OTHER                            -> "unclassified"

\* The three names with the largest total duration.
TopKernels ==
    LET names == {k.name : k \in Kernel}
        Total(n) == MapThenSumSet(LAMBDA k : k.dur, {k \in Kernel : k.name = n})
    IN  {n \in names : Cardinality({m \in names : Total(m) > Total(n)}) < 3}

\* The 32 longest kernels, each with its rows of kernel_sol, of any node.  (By
\* ClickHouse's default an unmatched row of a LEFT JOIN holds zeroes and is
\* counted too, and a kernel without SOL would show zeroes in place of none.)
KernelsInWindow ==
    {[corr |-> k.corr, sol |-> \E r \in kernel_sol : r[2] = k.corr] :
        k \in {j \in Kernel : Cardinality({i \in Kernel : i.dur > j.dur}) < 32}}

\* Four queries in a row, each of which fails the resolver; the second one
\* averages a column that `events` does not have.  METRIC rows are never
\* stored, so the averages would be those of no rows.
SpikeContext ==
    IF ~(UtilColumns \subseteq EventColumns) THEN [error |-> TRUE]
    ELSE [error |-> FALSE, bottleneck |-> Bottleneck(0, 0),
          top |-> TopKernels, kernels |-> KernelsInWindow]

-----------------------------------------------------------------------------
(* Properties.                                                             *)

\* An acknowledgement is honest, whatever ended the stream: it counts the rows
\* it returns, these answer the first ids of the request in order, and each of
\* them is in the sink or in kernel_sol unless the sink itself has closed.
AckHonest ==
    pc = "ack" =>
        /\ completed = Len(results) /\ IsPrefix(results, ids)
        /\ sinkOpen => \A i \in DOMAIN results :
                           <<node, results[i]>> \in queue \cup kernel_sol

Waiting == pc \in {"connect", "drain", "persist"}

\* A call ends although timeout_ms is ignored, unless its agent has fallen
\* silent: no reply is waited for that neither comes nor fails.  And the agent's
\* replay task ends, also when the client has gone away and nobody reads its
\* channel.  (A call whose agent is silent waits for ever, against
\* perfweave.proto:259, which has its stream closed after timeout_ms.)
HeardCallEnds == /\ Waiting ~> ~Waiting \/ stalled
                 /\ (todo # <<>>) ~> (todo = <<>>)

\* graphql.rs, profile_kernels: once a result is in kernel_sol, the next
\* spikeContext of the same window returns it.
ProfiledIsShown ==
    \A r \in kernel_sol : (\E k \in Kernel : k.corr = r[2]) =>
        /\ ~SpikeContext.error
        /\ [corr |-> r[2], sol |-> TRUE] \in SpikeContext.kernels
=============================================================================
