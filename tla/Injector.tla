------------------------------ MODULE Injector ------------------------------
(***************************************************************************)
(* The CUPTI injection library inside a target process and the agents that *)
(* listen for it.  Threads of the target call ship() with one batch each;  *)
(* ship() holds the GLOBAL mutex for its whole length, dials the agent's   *)
(* Unix socket when it has no connection or the write fails, and counts    *)
(* what it drops.  An agent removes the socket file, binds it, accepts     *)
(* connections and runs one handler per connection, which reads            *)
(* length-prefixed batches and pushes their events into the event ring.    *)
(*                                                                         *)
(* A frame is two pieces, its length and its body; the socket holds at     *)
(* most WireCap pieces and write_all blocks while it is full.  What a      *)
(* batch contains is left out.  An agent that is started again is another  *)
(* member of Agent.                                                        *)
(***************************************************************************)
EXTENDS Integers, Sequences, FiniteSets

CONSTANTS Batch,      \* the batches the target ships, each of them once
          Oversized,  \* those longer than the 64 MiB a handler accepts
          Thread,     \* threads of the target that run CUPTI callbacks
          Agent,      \* agent processes on this host, started in any order
          WireCap,    \* pieces the socket buffer holds
          NoAgent, NoBatch, NoThread

ASSUME InjectorAssumption ==
    /\ Oversized \subseteq Batch
    /\ WireCap \in Nat \ {0}
    /\ NoAgent \notin Agent /\ NoBatch \notin Batch /\ NoThread \notin Thread
    /\ IsFiniteSet(Batch)

VARIABLES
    installed,  \* InitializeInjection has returned
    lock,       \* the thread that holds GLOBAL, or NoThread
    pc,         \* where each thread is in ship()
    cur,        \* the batch each thread ships
    sent,       \* pieces of it written to the current connection
    conn,       \* index of the connection in GLOBAL, 0 for None
    conns,      \* every connection made: its agent, socket buffer and handler
    path,       \* the agent whose socket the path names, or NoAgent
    agent,      \* "off", "starting", "serving", "deaf" or "gone"
    ring,       \* the batches each agent pushed into its event ring
    dropped,    \* DROPPED_BATCHES
    written     \* history, per batch: -1 before ship(), then the connection it
                \* was wholly written to, 0 for none

process == <<installed, lock, pc, cur, sent, conn, dropped, written>>
vars == <<process, conns, path, agent, ring>>

\* Every ship() dials at most twice and InitializeInjection at most once.
MaxConns == 2 * Cardinality(Batch) + 1

Init == /\ installed = FALSE /\ lock = NoThread /\ conn = 0 /\ conns = <<>>
        /\ pc = [t \in Thread |-> "idle"] /\ cur = [t \in Thread |-> NoBatch]
        /\ sent = [t \in Thread |-> 0] /\ dropped = 0
        /\ path = NoAgent /\ agent = [a \in Agent |-> "off"]
        /\ ring = [a \in Agent |-> <<>>] /\ written = [b \in Batch |-> -1]

-----------------------------------------------------------------------------
(* transport.rs: both dialling loops retry until they connect or until an  *)
(* attempt after the deadline fails; retries change nothing.               *)

Listening == path # NoAgent /\ agent[path] = "serving"

\* A connect() that succeeds: the connection waits in the listener's backlog.
Dial == /\ Listening
        /\ conns' = Append(conns, [agent |-> path, state |-> "backlog",
                                   wire |-> <<>>, len |-> NoBatch])
        /\ conn' = Len(conns')

\* Mutated form of GivesUp: reconnect() ignores its budget.
GivesUpNever == FALSE

GivesUp == ~Listening

\* InitializeInjection: a process that cannot reach an agent is left running.
InitializeInjection ==
    /\ ~installed
    /\ installed' = TRUE
    /\ Dial \/ (GivesUp /\ UNCHANGED <<conn, conns>>)
    /\ UNCHANGED <<lock, pc, cur, sent, dropped, written, path, agent, ring>>

-----------------------------------------------------------------------------
(* lib.rs, ship().                                                         *)

Call(t, b) ==
    /\ installed /\ pc[t] = "idle" /\ written[b] = -1
    /\ pc' = [pc EXCEPT ![t] = "lock"]
    /\ cur' = [cur EXCEPT ![t] = b]
    /\ written' = [written EXCEPT ![b] = 0]
    /\ UNCHANGED <<installed, lock, sent, conn, conns, dropped, path, agent, ring>>

\* Mutated form of LockFree: the guard is not held across the write.
LockShared == TRUE

\* GLOBAL.lock(): free means that no other thread is inside.
LockFree == lock = NoThread

Acquire(t) ==
    /\ pc[t] = "lock" /\ LockFree
    /\ lock' = t
    /\ pc' = [pc EXCEPT ![t] = IF conn = 0 THEN "dial" ELSE "write"]
    /\ UNCHANGED <<installed, cur, sent, conn, conns, dropped, written, path, agent, ring>>

\* ship() returns and drops its guard.
Return(t) == /\ lock' = NoThread
             /\ pc' = [pc EXCEPT ![t] = "idle"]
             /\ cur' = [cur EXCEPT ![t] = NoBatch]
             /\ sent' = [sent EXCEPT ![t] = 0]

\* Both dials of ship(): without a connection (200 ms) and after a failed
\* write (500 ms).  Only the first one counts the batch when it fails.
Redial(t) ==
    /\ pc[t] \in {"dial", "redial"}
    /\ \/ /\ Dial
          /\ pc' = [pc EXCEPT ![t] = IF pc[t] = "dial" THEN "write" ELSE "rewrite"]
          /\ sent' = [sent EXCEPT ![t] = 0]
          /\ UNCHANGED <<lock, cur, dropped>>
       \/ /\ GivesUp
          /\ dropped' = IF pc[t] = "dial" THEN dropped + 1 ELSE dropped
          /\ Return(t)
          /\ UNCHANGED <<conn, conns>>
    /\ UNCHANGED <<installed, written, path, agent, ring>>

\* The next piece of cur[t] goes into the socket; the last one ends ship().
WriteAll(t) ==
    /\ pc[t] \in {"write", "rewrite"}
    /\ conns[conn].state # "closed"
    /\ Len(conns[conn].wire) < WireCap
    /\ LET kind == IF sent[t] = 0 THEN "len" ELSE "body"
       IN  conns' = [conns EXCEPT ![conn].wire = Append(@, <<kind, cur[t]>>)]
    /\ IF sent[t] = 0
       THEN sent' = [sent EXCEPT ![t] = 1] /\ UNCHANGED <<lock, pc, cur, written>>
       ELSE Return(t) /\ written' = [written EXCEPT ![cur[t]] = conn]
    /\ UNCHANGED <<installed, conn, dropped, path, agent, ring>>

\* Mutated form of CountFailure: counts only when the reconnect fails, as the
\* comment has it, so a failed second write is counted nowhere.
CountFailureLate(t) == dropped

\* A write to a connection the agent closed: counted and dialled again the
\* first time, only logged after the reconnect.
CountFailure(t) == IF pc[t] = "write" THEN dropped + 1 ELSE dropped

WriteFails(t) ==
    /\ pc[t] \in {"write", "rewrite"}
    /\ conns[conn].state = "closed"
    /\ dropped' = CountFailure(t)
    /\ IF pc[t] = "write"
       THEN pc' = [pc EXCEPT ![t] = "redial"] /\ UNCHANGED <<lock, cur, sent>>
       ELSE Return(t)
    /\ UNCHANGED <<installed, conn, conns, written, path, agent, ring>>

Ship(t) == Acquire(t) \/ Redial(t) \/ WriteAll(t) \/ WriteFails(t)

-----------------------------------------------------------------------------
(* The agent: main.rs / local_agent.rs and sampler/cupti.rs.               *)

\* The agent's end of a connection is gone, and with it what was not read.
Closed(c) == [c EXCEPT !.state = "closed", !.wire = <<>>, !.len = NoBatch]

CloseConns(a, states) ==
    conns' = [i \in DOMAIN conns |->
                IF conns[i].agent = a /\ conns[i].state \in states
                THEN Closed(conns[i])
                ELSE conns[i]]

\* std::fs::remove_file before the receiver is spawned.
Start(a) ==
    /\ agent[a] = "off"
    /\ agent' = [agent EXCEPT ![a] = "starting"]
    /\ path' = NoAgent
    /\ UNCHANGED <<process, conns, ring>>

\* UnixListener::bind; it fails when another agent has bound meanwhile, and
\* the agent then runs without a receiver.
Bind(a) ==
    /\ agent[a] = "starting"
    /\ IF path = NoAgent
       THEN path' = a /\ agent' = [agent EXCEPT ![a] = "serving"]
       ELSE agent' = [agent EXCEPT ![a] = "deaf"] /\ UNCHANGED path
    /\ UNCHANGED <<process, conns, ring>>

\* Shutdown ends the accept loop and drops the listener; handlers go on.
StopReceiver(a) ==
    /\ agent[a] = "serving"
    /\ agent' = [agent EXCEPT ![a] = "deaf"]
    /\ CloseConns(a, {"backlog"})
    /\ UNCHANGED <<process, path, ring>>

\* The process ends, at any point; the socket file stays.
Exit(a) ==
    /\ agent[a] \in {"starting", "serving", "deaf"}
    /\ agent' = [agent EXCEPT ![a] = "gone"]
    /\ CloseConns(a, {"backlog", "served"})
    /\ UNCHANGED <<process, path, ring>>

Accept(i) ==
    /\ i \in DOMAIN conns /\ conns[i].state = "backlog"
    /\ conns' = [conns EXCEPT ![i].state = "served"]
    /\ UNCHANGED <<process, path, agent, ring>>

\* Mutated form of HandleConn: read() in place of read_exact() for the body, so
\* a frame whose body has not arrived is taken for a batch.
HandleConnShort(i) ==
    /\ i \in DOMAIN conns /\ conns[i].state = "served" /\ conns[i].wire # <<>>
    /\ LET head == Head(conns[i].wire)
       IN  /\ conns' = [conns EXCEPT ![i].wire = Tail(@)]
           /\ IF head[1] = "len"
              THEN ring' = [ring EXCEPT ![conns[i].agent] = Append(@, head[2])]
              ELSE UNCHANGED ring
    /\ UNCHANGED <<process, path, agent>>

\* handle_conn: whatever arrives first is taken for a length, whatever
\* arrives next for the body; a body that is not the one announced does not
\* decode and is dropped.  An oversized length closes the connection.
HandleConn(i) ==
    /\ i \in DOMAIN conns /\ conns[i].state = "served" /\ conns[i].wire # <<>>
    /\ LET c    == conns[i]
           head == Head(c.wire)
           rest == [c EXCEPT !.wire = Tail(@)]
       IN  IF c.len = NoBatch
           THEN /\ conns' = [conns EXCEPT ![i] =
                     IF head[2] \in Oversized THEN Closed(c)
                                              ELSE [rest EXCEPT !.len = head[2]]]
                /\ UNCHANGED ring
           ELSE /\ conns' = [conns EXCEPT ![i] = [rest EXCEPT !.len = NoBatch]]
                /\ IF head = <<"body", c.len>>
                   THEN ring' = [ring EXCEPT ![c.agent] = Append(@, c.len)]
                   ELSE UNCHANGED ring
    /\ UNCHANGED <<process, path, agent>>

AgentStep(a) == Start(a) \/ Bind(a) \/ StopReceiver(a) \/ Exit(a)

Next == \/ InitializeInjection
        \/ \E t \in Thread : Ship(t) \/ \E b \in Batch : Call(t, b)
        \/ \E a \in Agent : AgentStep(a)
        \/ \E i \in 1..MaxConns : Accept(i) \/ HandleConn(i)

\* The target's threads run, and the runtime of a live agent polls its
\* accept loop and handlers; agents start and end as they like.
Fairness == /\ WF_vars(InitializeInjection)
            /\ \A t \in Thread : WF_vars(Ship(t))
            /\ \A i \in 1..MaxConns : WF_vars(Accept(i)) /\ WF_vars(HandleConn(i))

Spec == Init /\ [][Next]_vars /\ Fairness

-----------------------------------------------------------------------------
(* Properties.                                                             *)

\* A batch that ship() wholly wrote is on its way or in the agent's ring as
\* long as the agent keeps the connection: no other thread's pieces ever come
\* between the length and the body handle_conn reads.
WrittenArrives ==
    \A b \in Batch : written[b] > 0 =>
        LET c == conns[written[b]]
        IN  \/ c.state = "closed"
            \/ \E k \in DOMAIN c.wire : c.wire[k] = <<"body", b>>
            \/ \E k \in DOMAIN ring[c.agent] : ring[c.agent][k] = b

\* The retry after a failed write never makes a batch reach the event rings
\* of this host's agents twice, whichever agent it was first offered to.
DeliveredOnce ==
    \A b \in Batch : Cardinality({p \in Agent \X (1..Cardinality(Batch) + 1) :
                        p[2] \in DOMAIN ring[p[1]] /\ ring[p[1]][p[2]] = b}) <= 1

\* DROPPED_BATCHES is at least the number of batches ship() gave up without
\* having written them wholly to any connection.
DropsCounted ==
    Cardinality({b \in Batch : written[b] = 0 /\ \A t \in Thread : cur[t] # b}) <= dropped

\* ship() returns: whatever the agents do, no thread of the target waits for
\* the GLOBAL mutex, a dial or a full socket for ever.
ShipReturns == \A t \in Thread : (pc[t] # "idle") ~> (pc[t] = "idle")
=============================================================================
