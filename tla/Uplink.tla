------------------------------ MODULE Uplink ------------------------------
(***************************************************************************)
(* From an agent's ring to the collector's sink: the event ring (ring.rs), *)
(* the uploader (grpc_client.rs) with its interner (intern.rs), the gRPC   *)
(* stream of a session and the collector's ingest task (ingest/grpc.rs).   *)
(*                                                                         *)
(* A session is one ingest stream.  When its connection breaks, what has   *)
(* been sent and not received is lost; the collector's task may still be   *)
(* working on what was received while the agent has already opened the     *)
(* next session.  The sink answers each batch as the module Sink lets it:  *)
(* taken, refused because the channel is full, or refused because the sink *)
(* is gone.  Durations (backoff, intervals) are left out.                  *)
(***************************************************************************)
EXTENDS Naturals, Sequences, FiniteSets, SequencesExt

CONSTANTS
  Item,        \* what samplers push: events and metric frames, each once
  LaneOf,      \* the lane of the ring an item is pushed to
  UnitOf,      \* the strings an event carries as text (a metric's unit)
  RingCap,     \* capacity of each lane
  MaxBatch,    \* UploaderConfig.max_batch_events
  LinkCap,     \* batches between tx.send and the server (outbox of 16, HTTP/2 window)
  MaxLosses    \* bound: how many connections are lost in a behaviour

Lane    == {"events", "frames"}
Session == 1..MaxLosses + 1

ASSUME UplinkAssumption ==
  /\ LaneOf \in [Item -> Lane]
  /\ RingCap \in [Lane -> Nat]
  /\ MaxBatch \in Nat \ {0}
  /\ LinkCap \in Nat \ {0}
  /\ MaxLosses \in Nat

VARIABLES
  (* the agent *)
  ring,       \* the two lanes, oldest first
  dropped,    \* per lane, pushes refused since the counter was last taken
  pc,         \* where the uploader is
  batch,      \* the batch it is putting together or sending
  seen,       \* the interner: strings already announced
  cur,        \* its session, 0 before the first
  quit,       \* the agent's shutdown watch holds true
  (* the connection of each session *)
  link,       \* "unused", "open" or "lost"
  wire,       \* batches under way to the collector
  acks,       \* acknowledgements under way to the agent
  (* the collector *)
  collector,  \* "up", "closing" (the sink is gone) or "down"
  task,       \* per session the ingest task: "none", "recv", "ack" or "ended"
  count,      \* its counters
  (* history *)
  made,       \* items pushed so far
  overflow,   \* items a full lane refused
  warned,     \* per lane, refusals reported in the log
  sent,       \* per session, every batch sent
  taken,      \* per session, every batch the ingest task took, with its fate
  gone,       \* items lost with a connection, a task or the agent
  losses      \* connections lost so far

agent     == <<ring, dropped, pc, batch, seen, cur, quit>>
server    == <<collector, task, count>>
history   == <<made, overflow, warned, sent, taken, gone, losses>>
vars      == <<ring, dropped, pc, batch, seen, cur, quit, link, wire, acks,
               collector, task, count, made, overflow, warned, sent, taken, gone, losses>>

----------------------------------------------------------------------------
NoBatch == [events |-> <<>>, frames |-> <<>>, strings |-> {}]

ItemsOf(b) == ToSet(b.events) \cup ToSet(b.frames)

ItemsIn(bs) == UNION {ItemsOf(bs[i]) : i \in DOMAIN bs}

Zero == [accepted |-> 0, dropped |-> 0]

Init ==
  /\ ring = [l \in Lane |-> <<>>]
  /\ dropped = [l \in Lane |-> 0]
  /\ pc = "connect"
  /\ batch = NoBatch
  /\ seen = {}
  /\ cur = 0
  /\ quit = FALSE
  /\ link = [n \in Session |-> "unused"]
  /\ wire = [n \in Session |-> <<>>]
  /\ acks = [n \in Session |-> <<>>]
  /\ collector \in {"up", "down"}
  /\ task = [n \in Session |-> "none"]
  /\ count = [n \in Session |-> Zero]
  /\ made = {}
  /\ overflow = {}
  /\ warned = [l \in Lane |-> 0]
  /\ sent = [n \in Session |-> <<>>]
  /\ taken = [n \in Session |-> <<>>]
  /\ gone = {}
  /\ losses = 0

----------------------------------------------------------------------------
(* Samplers: EventRing::push and push_frame. *)
Push(i) ==
  LET l == LaneOf[i]
  IN  /\ i \notin made
      /\ made' = made \cup {i}
      /\ IF Len(ring[l]) < RingCap[l]
         THEN /\ ring' = [ring EXCEPT ![l] = Append(@, i)]
              /\ UNCHANGED <<dropped, overflow>>
         ELSE /\ dropped' = [dropped EXCEPT ![l] = @ + 1]
              /\ overflow' = overflow \cup {i}
              /\ UNCHANGED ring
      /\ UNCHANGED <<pc, batch, seen, cur, quit, link, wire, acks, server,
                     warned, sent, taken, gone, losses>>

Quit ==
  /\ ~quit /\ quit' = TRUE
  /\ UNCHANGED <<ring, dropped, pc, batch, seen, cur, link, wire, acks, server, history>>

----------------------------------------------------------------------------
(* The uploader outside a session: run. *)

(* Mutated form of Connect: the first failure is final. *)
ConnectOnce ==
  /\ pc = "connect" /\ ~quit
  /\ (collector = "up" /\ pc' = "register") \/ pc' = "stopped"
  /\ UNCHANGED <<ring, dropped, batch, seen, cur, quit, link, wire, acks, server, history>>

(* The loop head: unless told to stop, try to connect. *)
Connect ==
  /\ pc = "connect" /\ ~quit
  /\ (collector = "up" /\ pc' = "register") \/ pc' = "sleep"
  /\ UNCHANGED <<ring, dropped, batch, seen, cur, quit, link, wire, acks, server, history>>

(* The sleep ends when its time is over or at shutdown. *)
Wake ==
  /\ pc = "sleep" /\ pc' = "connect"
  /\ UNCHANGED <<ring, dropped, batch, seen, cur, quit, link, wire, acks, server, history>>

(* Register and Ingest succeed: a session starts, with a task of its own.  *)
Open ==
  /\ pc = "register" /\ collector = "up" /\ cur <= MaxLosses
  /\ cur' = cur + 1
  /\ link' = [link EXCEPT ![cur'] = "open"]
  /\ task' = [task EXCEPT ![cur'] = "recv"]
  /\ pc' = "select"
  /\ UNCHANGED <<ring, dropped, batch, seen, quit, wire, acks, collector, count, history>>

(* One of the two calls fails: run_session returns the error. *)
OpenFails ==
  /\ pc = "register"
  /\ seen' = {} /\ pc' = "sleep"
  /\ UNCHANGED <<ring, dropped, batch, cur, quit, link, wire, acks, server, history>>

----------------------------------------------------------------------------
(* The connection of session n is lost, and with it the items S.  Of what  *)
(* is on the wire the ingest task still gets what has reached it, a prefix. *)
Lose(n, S) ==
  /\ link' = [link EXCEPT ![n] = "lost"]
  /\ acks' = [acks EXCEPT ![n] = <<>>]
  /\ \E k \in (IF task[n] = "ended" THEN {0} ELSE 0..Len(wire[n])) :
       /\ wire' = [wire EXCEPT ![n] = SubSeq(@, 1, k)]
       /\ gone' = gone \cup S \cup ItemsIn(SubSeq(wire[n], k + 1, Len(wire[n])))

(* Ctrl-C drops the uploader at whatever await it is in, with the batch at  *)
(* hand and the stream; the shutdown arm of the select does no more.        *)
Leave ==
  /\ quit /\ pc \in {"connect", "sleep", "register", "select", "send"}
  /\ pc' = "stopped"
  /\ batch' = NoBatch
  /\ IF cur > 0 /\ link[cur] = "open"
     THEN Lose(cur, ItemsOf(batch))
     ELSE gone' = gone \cup ItemsOf(batch) /\ UNCHANGED <<link, acks, wire>>
  /\ UNCHANGED <<ring, dropped, seen, cur, quit, server,
                 made, overflow, warned, sent, taken, losses>>

(* The select of run_session: the flush tick runs drain_up_to, one event at *)
(* a time, and drain_frames.                                                *)
FlushTick ==
  /\ pc = "select" /\ pc' = "drain_events"
  /\ UNCHANGED <<ring, dropped, batch, seen, cur, quit, link, wire, acks, server, history>>

DrainEvent ==
  /\ pc = "drain_events" /\ Len(batch.events) < MaxBatch /\ ring["events"] # <<>>
  /\ batch' = [batch EXCEPT !.events = Append(@, Head(ring["events"]))]
  /\ ring' = [ring EXCEPT !["events"] = Tail(@)]
  /\ UNCHANGED <<dropped, pc, seen, cur, quit, link, wire, acks, server, history>>

EventsDrained ==
  /\ pc = "drain_events"
  /\ Len(batch.events) = MaxBatch \/ ring["events"] = <<>>
  /\ pc' = "drain_frames"
  /\ UNCHANGED <<ring, dropped, batch, seen, cur, quit, link, wire, acks, server, history>>

DrainFrame ==
  /\ pc = "drain_frames" /\ ring["frames"] # <<>>
  /\ batch' = [batch EXCEPT !.frames = Append(@, Head(ring["frames"]))]
  /\ ring' = [ring EXCEPT !["frames"] = Tail(@)]
  /\ UNCHANGED <<dropped, pc, seen, cur, quit, link, wire, acks, server, history>>

(* Interner::record for the unit of every metric event of the batch. *)
UnitsIn(b) == UNION {UnitOf[i] : i \in ToSet(b.events)}

(* Mutated form of FramesDrained: a batch without events is skipped, with  *)
(* the frames it has drained.                                              *)
FramesForgotten ==
  /\ pc = "drain_frames" /\ ring["frames"] = <<>>
  /\ IF batch.events = <<>>
     THEN pc' = "select" /\ batch' = NoBatch /\ UNCHANGED seen
     ELSE /\ batch' = [batch EXCEPT !.strings = UnitsIn(batch) \ seen]
          /\ seen' = seen \cup UnitsIn(batch)
          /\ pc' = "send"
  /\ UNCHANGED <<ring, dropped, cur, quit, link, wire, acks, server, history>>

FramesDrained ==
  /\ pc = "drain_frames" /\ ring["frames"] = <<>>
  /\ IF ItemsOf(batch) = {}
     THEN pc' = "select" /\ UNCHANGED <<batch, seen>>
     ELSE /\ batch' = [batch EXCEPT !.strings = UnitsIn(batch) \ seen]
          /\ seen' = seen \cup UnitsIn(batch)
          /\ pc' = "send"
  /\ UNCHANGED <<ring, dropped, cur, quit, link, wire, acks, server, history>>

(* tx.send waits for room; the select is not polled meanwhile. *)
Send ==
  /\ pc = "send" /\ link[cur] = "open" /\ Len(wire[cur]) < LinkCap
  /\ wire' = [wire EXCEPT ![cur] = Append(@, batch)]
  /\ sent' = [sent EXCEPT ![cur] = Append(@, batch)]
  /\ batch' = NoBatch
  /\ pc' = "select"
  /\ UNCHANGED <<ring, dropped, seen, cur, quit, link, acks, server,
                 made, overflow, warned, taken, gone, losses>>

(* ... an acknowledgement: logged, nothing else. *)
ReadAck ==
  /\ pc = "select" /\ acks[cur] # <<>>
  /\ acks' = [acks EXCEPT ![cur] = Tail(@)]
  /\ UNCHANGED <<agent, link, wire, server, history>>

(* Mutated form of DropTick: a warning only when frames were dropped. *)
DropTickQuiet ==
  /\ pc = "select"
  /\ warned' = IF dropped["frames"] > 0 THEN [l \in Lane |-> warned[l] + dropped[l]] ELSE warned
  /\ dropped' = [l \in Lane |-> 0]
  /\ UNCHANGED <<ring, pc, batch, seen, cur, quit, link, wire, acks, server,
                 made, overflow, sent, taken, gone, losses>>

(* Mutated form of DropTick: the counter of events is never taken. *)
DropTickFrames ==
  /\ pc = "select"
  /\ warned' = [warned EXCEPT !["frames"] = @ + dropped["frames"]]
  /\ dropped' = [dropped EXCEPT !["frames"] = 0]
  /\ UNCHANGED <<ring, pc, batch, seen, cur, quit, link, wire, acks, server,
                 made, overflow, sent, taken, gone, losses>>

(* ... the drop tick: both counters are swapped for zero and reported. *)
DropTick ==
  /\ pc = "select"
  /\ warned' = [l \in Lane |-> warned[l] + dropped[l]]
  /\ dropped' = [l \in Lane |-> 0]
  /\ UNCHANGED <<ring, pc, batch, seen, cur, quit, link, wire, acks, server,
                 made, overflow, sent, taken, gone, losses>>

(* Mutated form of SessionFails: the interner is not reset. *)
SessionFailsKeepsSeen ==
  /\ pc \in {"select", "send"}
  /\ link[cur] = "lost" \/ (task[cur] = "ended" /\ acks[cur] = <<>>)
  /\ IF link[cur] = "open"
     THEN Lose(cur, ItemsOf(batch))
     ELSE gone' = gone \cup ItemsOf(batch) /\ UNCHANGED <<link, acks, wire>>
  /\ batch' = NoBatch
  /\ pc' = "sleep"
  /\ UNCHANGED <<ring, dropped, seen, cur, quit, server,
                 made, overflow, warned, sent, taken, losses>>

(* Mutated form of SessionFails: the last batch sent is queued again. *)
SessionFailsRequeues ==
  /\ pc \in {"select", "send"}
  /\ link[cur] = "lost" \/ (task[cur] = "ended" /\ acks[cur] = <<>>)
  /\ IF link[cur] = "open"
     THEN Lose(cur, ItemsOf(batch))
     ELSE gone' = gone \cup ItemsOf(batch) /\ UNCHANGED <<link, acks, wire>>
  /\ seen' = {}
  /\ batch' = NoBatch
  /\ pc' = "sleep"
  /\ ring' = [ring EXCEPT !["events"] =
                (IF sent[cur] = <<>> THEN <<>> ELSE sent[cur][Len(sent[cur])].events) \o @]
  /\ UNCHANGED <<dropped, cur, quit, server, made, overflow, warned, sent, taken, losses>>

(* The stream failed or the collector closed it; the batch at hand is      *)
(* dropped, the interner reset.                                            *)
SessionFails ==
  /\ pc \in {"select", "send"}
  /\ link[cur] = "lost" \/ (task[cur] = "ended" /\ acks[cur] = <<>>)
  /\ IF link[cur] = "open"
     THEN Lose(cur, ItemsOf(batch))
     ELSE gone' = gone \cup ItemsOf(batch) /\ UNCHANGED <<link, acks, wire>>
  /\ seen' = {}
  /\ batch' = NoBatch
  /\ pc' = "sleep"
  /\ UNCHANGED <<ring, dropped, cur, quit, server,
                 made, overflow, warned, sent, taken, losses>>

----------------------------------------------------------------------------
(* The network: an open connection breaks. *)
Break(n) ==
  /\ link[n] = "open" /\ losses < MaxLosses
  /\ losses' = losses + 1
  /\ Lose(n, {})
  /\ UNCHANGED <<agent, server, made, overflow, warned, sent, taken>>

----------------------------------------------------------------------------
(* The ingest task of session n: one batch.  Its frames and metric events  *)
(* go to the live rings, the rest to Sink::try_push.                       *)
(* Mutated form of Rows: metric events, which go to the live rings, are    *)
(* not counted.                                                            *)
RowsForSink(b) == Len(SelectSeq(b.events, LAMBDA i : UnitOf[i] = {}))

Rows(b) == Len(b.events)

Took(n, fate) == taken' = [taken EXCEPT ![n] = Append(@, [batch |-> Head(wire[n]), fate |-> fate])]

Ingest(n) ==
  /\ task[n] = "recv" /\ wire[n] # <<>> /\ collector = "up"
  /\ LET rows == Rows(Head(wire[n]))
     IN  \/ Took(n, "ok") /\ count' = [count EXCEPT ![n].accepted = @ + rows]
         \/ Took(n, "full") /\ count' = [count EXCEPT ![n].dropped = @ + rows]
  /\ wire' = [wire EXCEPT ![n] = Tail(@)]
  /\ task' = [task EXCEPT ![n] = "ack"]
  /\ UNCHANGED <<agent, link, acks, collector, made, overflow, warned, sent, gone, losses>>

(* The sink is gone: the task answers with an error and returns. *)
IngestClosed(n) ==
  /\ task[n] = "recv" /\ wire[n] # <<>> /\ collector = "closing"
  /\ Took(n, "closed")
  /\ gone' = gone \cup ItemsIn(Tail(wire[n]))
  /\ wire' = [wire EXCEPT ![n] = <<>>]
  /\ task' = [task EXCEPT ![n] = "ended"]
  /\ UNCHANGED <<agent, link, acks, collector, count, made, overflow, warned, sent, losses>>

(* The answer to the batch.  On a lost connection it goes nowhere, or the   *)
(* task notices and returns.                                                *)
Ack(n) ==
  /\ task[n] = "ack"
  /\ \/ /\ link[n] = "open"
        /\ acks' = [acks EXCEPT ![n] = Append(@, count[n])]
        /\ task' = [task EXCEPT ![n] = "recv"]
        /\ UNCHANGED <<wire, gone>>
     \/ /\ link[n] = "lost"
        /\ task' = [task EXCEPT ![n] = "recv"]
        /\ UNCHANGED <<acks, wire, gone>>
     \/ /\ link[n] = "lost"
        /\ task' = [task EXCEPT ![n] = "ended"]
        /\ wire' = [wire EXCEPT ![n] = <<>>]
        /\ gone' = gone \cup ItemsIn(wire[n])
        /\ UNCHANGED acks
  /\ UNCHANGED <<agent, link, collector, count, made, overflow, warned, sent, taken, losses>>

(* The stream ends, with an error or cleanly. *)
StreamEnds(n) ==
  /\ task[n] = "recv" /\ wire[n] = <<>> /\ link[n] = "lost"
  /\ task' = [task EXCEPT ![n] = "ended"]
  /\ UNCHANGED <<agent, link, wire, acks, collector, count, history>>

(* A live stream yields an error instead of the next batch, which did not   *)
(* decode (it is larger than tonic takes, say): the task answers with the   *)
(* error and returns, and the agent sees its stream end.                    *)
StreamErrs(n) ==
  /\ task[n] = "recv" /\ wire[n] # <<>> /\ link[n] = "open" /\ losses < MaxLosses
  /\ losses' = losses + 1
  /\ task' = [task EXCEPT ![n] = "ended"]
  /\ gone' = gone \cup ItemsIn(wire[n])
  /\ wire' = [wire EXCEPT ![n] = <<>>]
  /\ UNCHANGED <<agent, link, acks, collector, count, made, overflow, warned, sent, taken>>

(* The collector is being stopped: its sink task is the first to go.       *)
CollectorCloses ==
  /\ collector = "up" /\ losses < MaxLosses
  /\ collector' = "closing"
  /\ losses' = losses + 1
  /\ UNCHANGED <<agent, link, wire, acks, task, count, made, overflow, warned, sent, taken, gone>>

(* The collector's process ends, by a crash or after closing. *)
CollectorExits ==
  /\ \/ collector = "up" /\ losses < MaxLosses /\ losses' = losses + 1
     \/ collector = "closing" /\ UNCHANGED losses
  /\ collector' = "down"
  /\ link' = [n \in Session |-> IF link[n] = "open" THEN "lost" ELSE link[n]]
  /\ task' = [n \in Session |-> IF task[n] = "none" THEN "none" ELSE "ended"]
  /\ wire' = [n \in Session |-> <<>>]
  /\ acks' = [n \in Session |-> <<>>]
  /\ gone' = gone \cup UNION {ItemsIn(wire[n]) : n \in Session}
  /\ UNCHANGED <<agent, count, made, overflow, warned, sent, taken>>

CollectorStarts ==
  /\ collector = "down"
  /\ collector' = "up"
  /\ UNCHANGED <<agent, link, wire, acks, task, count, history>>

----------------------------------------------------------------------------
Uploader ==
  \/ Connect \/ Wake \/ Open \/ OpenFails
  \/ Leave \/ FlushTick \/ DrainEvent \/ EventsDrained \/ DrainFrame \/ FramesDrained
  \/ Send \/ ReadAck \/ DropTick \/ SessionFails

IngestTask(n) == Ingest(n) \/ IngestClosed(n) \/ Ack(n) \/ StreamEnds(n)

Ended ==
  /\ pc = "stopped"
  /\ UNCHANGED vars

Next ==
  \/ \E i \in Item : Push(i)
  \/ Quit
  \/ Uploader
  \/ \E n \in Session : Break(n) \/ StreamErrs(n)
  \/ \E n \in Session : IngestTask(n)
  \/ CollectorCloses \/ CollectorExits \/ CollectorStarts
  \/ Ended

Spec == Init /\ [][Next]_vars

(* Both processes' tasks are polled by their runtimes.  The select picks at *)
(* random among ready arms, so none that is ready again and again starves.  *)
TaskFairness ==
  /\ WF_vars(Connect) /\ WF_vars(Wake) /\ WF_vars(Open \/ OpenFails)
  /\ WF_vars(DrainEvent \/ EventsDrained \/ DrainFrame \/ FramesDrained)
  /\ WF_vars(Send)
  /\ SF_vars(FlushTick) /\ SF_vars(DropTick) /\ SF_vars(ReadAck) /\ SF_vars(SessionFails)
  /\ \A n \in Session : WF_vars(IngestTask(n))

(* The world outside: a collector that is down comes back, one that closes  *)
(* exits, and a call that could succeed again and again does succeed.       *)
OutageEnds ==
  /\ WF_vars(CollectorStarts)
  /\ WF_vars(collector = "closing" /\ CollectorExits)
  /\ SF_vars(Connect /\ pc' = "register")
  /\ SF_vars(Open)

FairSpec == Spec /\ TaskFairness /\ OutageEnds

----------------------------------------------------------------------------
Batches == [events : Seq(Item), frames : Seq(Item), strings : SUBSET UNION {UnitOf[i] : i \in Item}]

TypeOK ==
  /\ ring \in [Lane -> Seq(Item)] /\ \A l \in Lane : Len(ring[l]) <= RingCap[l]
  /\ dropped \in [Lane -> Nat]
  /\ pc \in {"connect", "sleep", "register", "select", "drain_events", "drain_frames",
             "send", "stopped"}
  /\ batch \in Batches
  /\ cur \in 0..MaxLosses + 1
  /\ quit \in BOOLEAN
  /\ link \in [Session -> {"unused", "open", "lost"}]
  /\ wire \in [Session -> Seq(Batches)] /\ \A n \in Session : Len(wire[n]) <= LinkCap
  /\ acks \in [Session -> Seq([accepted : Nat, dropped : Nat])]
  /\ collector \in {"up", "closing", "down"}
  /\ task \in [Session -> {"none", "recv", "ack", "ended"}]
  /\ count \in [Session -> [accepted : Nat, dropped : Nat]]
  /\ losses \in 0..MaxLosses

InRing     == ToSet(ring["events"]) \cup ToSet(ring["frames"])
OnWire     == UNION {ItemsIn(wire[n]) : n \in Session}
TakenBy(n) == UNION {ItemsOf(taken[n][j].batch) : j \in DOMAIN taken[n]}
TakenItems == UNION {TakenBy(n) : n \in Session}

(* Nothing disappears in silence: an item that entered the ring is in the   *)
(* ring, in the batch at hand, on a wire, with the collector, or went with  *)
(* a lost connection or the agent's end; without those nothing is lost.     *)
Custody ==
  /\ made \ overflow \subseteq InRing \cup ItemsOf(batch) \cup OnWire \cup TakenItems \cup gone
  /\ losses = 0 /\ ~quit => gone = {}

(* The uploader never sends an item twice, so a reconnect while the old     *)
(* session's task is still working delivers no duplicate.  No run needs it: *)
(* ImplementsDelivery, below, leaves a taken item no second fate either.    *)
AtMostOnce ==
  /\ TakenItems \cap (InRing \cup ItemsOf(batch) \cup OnWire) = {}
  /\ \A n, m \in Session : \A j \in DOMAIN taken[n], k \in DOMAIN taken[m] :
       <<n, j>> # <<m, k>> => ItemsOf(taken[n][j].batch) \cap ItemsOf(taken[m][k].batch) = {}

(* The refinement: what waits, and what the collector answered.              *)
Waiting == InRing \cup ItemsOf(batch) \cup OnWire

WithFate(fate) ==
  UNION {UNION {ItemsOf(taken[n][j].batch) : j \in {k \in DOMAIN taken[n] : taken[n][k].fate = fate}} :
           n \in Session}

Promise == INSTANCE Delivery WITH
  waiting  <- Waiting,
  accepted <- WithFate("ok"),
  refused  <- WithFate("full"),
  lost     <- gone \cup WithFate("closed"),
  broken   <- losses > 0 \/ quit

(* An item that the ring accepted has one fate in the end and never a second *)
(* one: what is lost with a session does not arrive after all, although its *)
(* task works on, and nothing is lost before a failure.                     *)
ImplementsDelivery == Promise!Spec

EventsIn(bs) == UNION {ToSet(bs[j].events) : j \in DOMAIN bs}

(* The counters in the acks account for every event of the session that is  *)
(* no longer on its way: accepted, dropped and under way make up the sent.  *)
Balanced ==
  \A n \in Session :
    link[n] = "open" /\ task[n] # "ended" =>
      count[n].accepted + count[n].dropped + Cardinality(EventsIn(wire[n]))
        = Cardinality(EventsIn(sent[n]))

(* Every refused push is in the drop counter or has been reported, once.    *)
DropsAccounted ==
  \A l \in Lane :
    dropped[l] + warned[l] = Cardinality({i \in overflow : LaneOf[i] = l})

AnnouncedBy(n, j) == UNION {sent[n][k].strings : k \in 1..j}

(* On each session's stream the text of a unit comes with or before the     *)
(* first event that uses it, and only once: the interner is reset between   *)
(* sessions, and never within one.                                          *)
UnitsAnnounced ==
  \A n \in Session : \A j \in DOMAIN sent[n] :
    /\ UnitsIn(sent[n][j]) \subseteq AnnouncedBy(n, j)
    /\ sent[n][j].strings \cap AnnouncedBy(n, j - 1) = {}

(* What enters the ring reaches the collector or is lost with a session,   *)
(* unless the agent is told to stop: connect and backoff never give up, and *)
(* nobody waits for ever on a full wire.                                    *)
EventuallyTaken ==
  \A i \in Item : i \in InRing ~> i \in TakenItems \cup gone \/ quit

InSession == pc \in {"select", "drain_events", "drain_frames", "send"}

(* Refused pushes, those of an outage before it included, are reported in   *)
(* a session that lasts: the arm of the drop tick is not starved by ticks   *)
(* that flush, acks and waits for room.  Outside a session nobody reads the *)
(* counters, however long the outage (against grpc_client.rs:6, which has   *)
(* them surfaced every 5 s).                                                *)
ReportedInSession ==
  \A l \in Lane : dropped[l] > 0 ~> dropped[l] = 0 \/ quit \/ ~InSession
============================================================================
