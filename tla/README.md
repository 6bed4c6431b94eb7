# A TLA+ verification of PerfWeave

PerfWeave collects GPU metrics and kernel activity from agents, keeps the
recent metrics in memory for a live view, stores everything else in ClickHouse
and shows both in a browser. This directory holds TLA+ models of its core, the
TLC instances that check them and proofs checked by TLAPS. Paths below are
relative to `src/`; the server's sources are under
`crates/perfweave-server/src/`, the agent's under `crates/perfweave-agent/src/`.

## 1. The system

```
samplers -> EventRing -> uploader ==gRPC stream==> ingest task --try_push--> Sink --> ClickHouse
 (agent)    ring.rs     grpc_client.rs              ingest/grpc.rs            store/sink.rs
                                                     |        |                 ^
                                            push points   publish_kernel        | push_spike (waits)
                                                     v        v                 |
                                   FastRing --> snapshot --> ticker      spike detector
                                  fast_ring.rs       |       live.rs     spike_detect.rs
                                                     |          |               |
                                                     +--------->+--broadcast<---+
                                                                |
                                                           SSE handlers ==> browser (web/src/live.ts)

target process --Unix socket--> CUPTI receiver --> EventRing          ClickHouse: events --views--> tiles_activity
 cupti-inject/lib.rs            sampler/cupti.rs                          ^                    |
                                                                uploads, CLI (imports.rs)   timeline.rs, graphql.rs
browser --profileKernels--> graphql.rs --replay.rs--> rpc_server.rs (agent) --KernelSol--> Sink --> kernel_sol
```

| Component | State | Operations | Hard behaviour | What makes it correct |
|---|---|---|---|---|
| Sink (`store/sink.rs`) | channel of 256, five pending buffers, ticker | `try_push`, `push_kernel_sol`, `push_spike`, recv, tick, flush, last flush | an insert fails after others succeeded, or is only partly stored; senders wait, are cancelled, or are refused; the process ends in the middle of a flush | accepted rows are never lost while it lives; strings are stored before the rows that refer to them; bounded duplicates; a drained stop; everything is stored in the end |
| Live rings (`fast_ring.rs`) | per series a fast and a slow circular buffer, the published snapshot | `push`, `publish`, `snapshot` | pushes of several streams between the publisher's copy and store; timestamps out of order; the head wraps | the fast ring is the newest pushes; the slow ring decimates them; a snapshot is a past state |
| Agent ring (`ring.rs`) | two bounded lanes, two drop counters | `push`, `push_frame`, `drain_up_to`, `drain_frames`, `take_dropped` | pushes while it is drained; full lanes | nothing disappears without being counted |
| Uploader (`grpc_client.rs`, `intern.rs`) | connection, session, interner | connect, backoff, register, select of flush, ack, drop report | outages, lost streams with batches under way, a shutdown at every await | no item twice, none lost in silence, strings announced in every session, drops reported |
| Ingest (`ingest/grpc.rs`) | a task and two counters per stream, clock table, node ids | `register`, `ingest` | the task of a lost session overlaps the next session; a full or closed sink | counters account for every event |
| Spike detector (`spike_detect.rs`) | Welford statistics and last spike per series | tick, judge, report | it awaits a full sink inside a tick; stale series; times that go back | exact statistics; spikes stand out and are spaced; each reported once |
| Live stream (`live.rs`, `web/src/live.ts`) | two broadcast channels; in the browser EventSources, rings, flags | tick, subscribe, lag, receive, switch live mode | slow browsers, reconnects, restarts, switching while frames are under way; one flag for two EventSources, one for a timeout | ordered rings without duplicates, loss only by lag, an honest HUD, kernels shown, progress |
| Registry and replay (`replay.rs`, `rpc_server.rs`, `api/graphql.rs`) | map from node to RPC address, next node id; one call with its stream | `register`, `get`, `profile_kernels`, the replay task, `spike_context` | restarts, agents that end or go silent, clients that go away, a sink that closes in the middle of a result list; no timeout anywhere | acknowledged rows are persisted; a call whose agent can be heard ends, and so does every replay task; what was profiled is shown |
| Clock fit and skew (`clock_sync.rs`, `common/clock.rs`, `ingest/skew.rs`) | samples of a measurement, the fit, table of fits | `measure`, `fit_theil_sen`, `latest_proto`, `upsert`, `map` | times that `f64` holds to 256 ns only, preempted reads, negative offsets in unsigned words, fits that are not sent | slow reads do not move the fit; both sides map alike with the fit that was sent |
| Timeline API, LOD, migrations (`api/lod.rs`, `api/timeline.rs`, `store/migrations.rs`) | the tables and views ClickHouse has, rows and tiles | apply, choose a width, fall back to raw, query | a start that ends after any statement; level boundaries; widths without a view, views that name no columns | the views read what is stored; no answer counts what is not; every zoom shows something |
| Imports (`api/imports.rs`) | one temporary directory per process | export, insert | uploads that overlap | an import inserts its own rows |
| CUPTI injection (`perfweave-cupti-inject`, `sampler/cupti.rs`) | the connection behind a mutex, drop counter; the agents' sockets and handlers | ship, dial, retry; bind, accept, read | threads that ship at once, writes that block or fail half-way, agents that replace each other | no batch mixed or twice, drops counted, the target never hangs |
| Web timeline and panels (`web/src/timeline`, `web/src/panels`) | viewport, selection, fetched tiles | pan, zoom, fetch, select | answers that arrive out of order | what is shown belongs to the current viewport or selection |

`PROJECT.json` lists every component with its status and every hazard with its
line; the properties below are aimed at those hazards.

## 2. Modules

| Module | Models | Built on |
|---|---|---|
| `DurableStore` | the abstract promise of the sink: rows are held until they are stored, only the end of the process loses them | - |
| `Delivery` | the abstract promise of the way from an agent's ring to the collector: what the ring accepted waits until it has exactly one fate, and is lost only if something failed | - |
| `Sink` | `store/sink.rs` | refines `DurableStore` |
| `FastRing` | `fast_ring.rs`, and the ingest loop that pushes a frame's points | - |
| `Uplink` | `ring.rs`, `grpc_client.rs`, `intern.rs`, the ingest task of `ingest/grpc.rs` and both processes' ends | refines `Delivery`; the sink's three answers stand for `Sink` |
| `OrderStatistics` | the absolute value and `sorted[len / 2]`, which the detector and the clock fit both use | - |
| `SpikeDetector` | `spike_detect.rs` | `OrderStatistics`; reads what `FastRing` publishes |
| `LiveStream` | `live.rs`, `web/src/live.ts` | sends what `FastRing` publishes and `SpikeDetector` reports |
| `Injector` | `perfweave-cupti-inject` (`lib.rs`, `transport.rs`) and the agents' receiver `sampler/cupti.rs` | what arrives in `ring` is what `Uplink` pushes |
| `Catalog` | `store/migrations.rs`, `api/imports.rs`, `api/lod.rs`, `api/timeline.rs`, the row conversion of `store/sink.rs` | a flush stands for `Sink`, duplicates included |
| `Replay` | `register` of `ingest/grpc.rs`, `replay.rs`, `rpc_server.rs`, `profile_kernels` and `spike_context` of `api/graphql.rs` | its queue stands for `Sink` |
| `Clock` | `common/clock.rs`, `clock_sync.rs`, `ingest/skew.rs`, `validate_clocks.rs` | `OrderStatistics` |
| `SinkProofs`, `FastRingProofs`, `LiveStreamProofs`, `UplinkProofs`, `InjectorProofs`, `CatalogProofs`, `ReplayProofs` | theorems | the module named before `Proofs` |
| `EstimatorProofs` | theorems | `SpikeDetector` and `Clock` |
| `MC*` | the instances for TLC | the module of the same name |

An action is what the code does between two awaits (or two lock operations):
in Rust a task cannot be preempted there by another step on the same state. A
definition called "Mutated form of D" is a plausible bug in D, kept beside it;
with it in D's place the property named for it in `PROJECT.json` fails.

### Sink

A row is an occurrence (two equal rows are two members of `Row`) and a message
is the set of its rows. `chan` is the channel, `waiters` the senders suspended
in `send().await` (tokio's semaphore is fair, so while someone waits `try_send`
finds the channel full), `pending` the five buffers together, and `step` the
table whose insert is under way. `TryPush`, `PushKernelSol`, `PushSpike` and
`CancelSend` are the producers, `Recv`, `RecvNone` and `Tick` the arms of the
select, and `InsertOk`/`InsertFails` one table of `flush`. A failed insert may
have stored any subset of its rows, as an HTTP insert whose answer is lost can.
`Abort` is the end of the runtime after Ctrl-C (`api/app.rs`): the task is
dropped at an await, an insert in flight included.

Not in the model: the conversion of events into rows field by field, the
durations of the ticker, and `Sink::push`, which nobody calls.

### FastRing

A series has the two circular buffers of the code with head, length and
capacity. `Begin` starts a frame on a stream with one corrected timestamp,
`Push` takes one point under the mutex, `Build` copies all series under the
same mutex and `Store` swaps the snapshot after the unlock. Timestamps are
arbitrary members of `Time`, because two sessions of an agent may overlap and
clock fits move. The sum `last_slow_ns + 950 ms` is assumed not to overflow
`u64`. A series starts with `last_slow_ns = 0`, so a sample of its first `Gap` after time 0 can be
missing from the slow ring; `SlowDecimates` names that case. A snapshot carries its cut (how many pushes precede it) as history, and a
sample its frame and its place in it, because nothing keeps a frame from listing a
series twice: `FramesInOrder` speaks of the points of a frame, not of its series.

### Uplink

A session is one ingest stream with its own task at the collector. `Lose`
decides how much of what was sent had been received: a prefix. `Leave` is the
end of the agent: `main.rs` selects on Ctrl-C, which drops the uploader at
whatever await it is in. `Ingest` leaves the sink's answer open (taken or
full), `IngestClosed` is the third answer. `CollectorCloses` and
`CollectorExits` are the collector's stop, with the window in which the sink is
gone and streams still live. `LinkCap` stands for the outbox of 16 and the
HTTP/2 window. `StreamErrs` is an error on a connection that lives, of a message that is too large or
ill-formed: the task answers with it and ends, and the agent finds out when it reads that answer.
Acks are unbounded in the model; a wait of both sides for each
other would need more unread acks than channel and window hold.
`ImplementsDelivery` maps the ring's lanes, the batch at hand and all wires to
`waiting`, what the tasks have taken to `accepted`, `refused` or `lost` by the
sink's answer, and what went down with a connection, a task or the agent to
`lost`. Items that a full lane refuses never enter; the drop counters account for
them.
For metric events and frames `refused` is the sink's answer only: their points are in the live rings
before `try_push` is called (`ingest/grpc.rs:118`).
Backoff times and the values of clock offsets are left out. `wait_for_one` has
no caller.

### SpikeDetector

`TickOnce` copies every series out of the snapshot, `Judge` is one round of the
loop up to the await of `push_spike`, `Report` its return and the broadcast.
Both passes are modelled with exact fractions: `Update` is Welford's update,
`Escalates` the z-score test with both sides squared, `Median` and `Deviations`
the median and the deviations, and `StandsOut` the second test with
3.5 * 1.4826 as 51891 / 10000. `Median` is `Middle` of `OrderStatistics`: instead of
sorting, it picks the value that at most half of the list is below and more than
half is not above, which is `sorted[len / 2]`. Rounding of `f64` is left out. The judgement
uses the whole slow tail and fires at exactly the threshold, as the code does
(its header speaks of the last 60 s and of "> 3.5").

### LiveStream

`log` is the history of a channel, of which the newest `Cap` messages are
kept. A handler polls its receiver while the connection has room
(`Forward`), and a receiver that has fallen behind is moved to the oldest
message kept (`Lag`), which `filter_map` hides from the browser. The browser
creates two EventSources each time live mode is switched on (`Enable`), and the
cleanup of the effect closes them (`Disable`). `OnMetric`, `OnSpike` and
`OnKernel` are the listeners. `pending` is the flag `kernelsPendingRef` and `timers` counts the
100 ms timeouts that run; `KernelsTick` is one that fires. The cleanup clears neither. An
EventSource reconnects after network errors; an HTTP error, which would end it, is not
produced by these routes.

Times are not in the model. The code stamps frames with the wall clock
(`common/src/clock.rs:110`), which may step back, and `live.ts:191` takes the time as it
comes, so nothing is claimed of the time the tape shows.

### Injector

Threads of the target call `ship` with one batch each (`Call`); `Acquire` takes
`GLOBAL`, `Redial` is either `reconnect`, `WriteAll` puts one piece into the
socket, `WriteFails` meets a closed connection. A frame has two pieces, length
and body, so that a write can block or fail between them; the socket holds
`WireCap` of them. The dialling loops are one step each: their retries change
nothing but time. An agent removes the file (`Start`), binds (`Bind`, which fails
if another has bound meanwhile), accepts, and reads frames (`HandleConn`: the first
piece is a length, the second a body, and a body that was not announced does not
decode). `StopReceiver` is the shutdown of the accept loop, `Exit` the end of the
process with all its connections.

### Catalog

`MIGRATIONS` is the list of those statements that matter to the timeline: the
tables, the activity view of every width, the drops of 0006 (`Shed`) and its
re-creations (`Keep`, as a set `Kept`).
`Apply` runs one, `Stop` may follow any. `Insert` is ClickHouse: a row goes
into `events` and, at the same time, through every view that exists; `read` remembers
which events the view of a width has read. `Named`, `Tile` and `Count` say what the view
makes of them. ClickHouse fills the table of a `TO` view by the names of the columns that the
view selects, and gives the others their defaults. Of the eight views in
`migrations/0003_tiles.sql` the 1 us one names all its columns (lines 43-55), the 8 us one the
bucket and its width only, and the six others, both kept ones included (lines 88-107, and again
in `0006_shed_metric_tiles.sql:31`), neither, so that what they write is found at width 0
and at none of the eight. Since 0006 drops the two that name their buckets, tiles that a query
finds are written only while migrations run (an import by the CLI at that moment). `Row` is
what the sink's conversion does to an event (a GPU id is cut to 8 bits, an
event without a category becomes METRIC). `ServeActivity`, `ServeRaw` and
`ServeMetric` are what the three queries answer from that state, each a function from
its groups (bucket, GPU and category, or the time of raw rows) to the rows counted there, so
that rows of equal times count separately. Their `SELECT ... AS category` is read as the
column. `due` is history: the rows inserted since a start has once gone through all migrations.

### Replay

One call at a time; two calls share nothing but the registry and the sink.
`Call` looks the node up, `Connect` dials and makes the agent spawn its task,
`AgentSends` fills the channel of the stream, `Drain` and `Persist` are the loop
of the mutation, `Cancel` the drop of its future where it awaits, `AgentEnds` and
`Restart` the ends of the two processes. `timeout_ms` is carried along and read
nowhere, and the collector sets no connect, request or keep-alive timeout, so nothing stands for
any. `GoesSilent` is an agent that is stuck, or whose host is cut off: any beginning of what it had sent
has arrived, and neither more nor an end ever will (`stalled`). `SpikeContext` is the resolver: it fails if
its second query names a column that `events` does not have.

### Clock

An `f64` is a whole number of units of 1 / `Fine`, rounded half to even to `Mant` significant units
(`F64`): every cast, quotient, product and sum of `fit_theil_sen` is rounded where the code's
arithmetic rounds. `Mant` stands for 2^53 and `Grains` for the spacings; at 1.7e18 ns the spacing
is 256 ns. `round`, `ceil` and the cast to a slope over 2^30 (`Den`) follow, and `ToWord` is the cast of
a signed number to an unsigned word (`Word` for 2^64). The deltas of the slopes are below 2^53 and
therefore exact. The specification is `ClockSpec`, its parts are `ClockInit` and `ClockNext`, as one proof
module is about it and `SpikeDetector`. `Sample` reads the host, the source and the host again with
any delays (the host clock is not stepped back in the middle of a measurement), `Filtered` drops the
slow reads, `Measure` fits and judges as `validate-clocks` does, `NextSource` turns to
the next source, `Ship` takes a fit through `latest_proto` and `upsert`. The collector's
entry is replaced and never removed; `sent` is the history of what it was made from. Nothing in the
agent calls `OffsetHandle::set` yet; `Ship` is what the two halves that exist would do.

## 3. Runs

| Run | Instance | Shows |
|---|---|---|
| `sink` | 7 rows, at least one of every table, 3 batches, one of them empty, a kernel record, a spike, channel of 1, threshold 2, a failing insert | `TypeOK`, `Custody`, `StringsFirst`, `CopiesBound`, `BufferBound`, `CleanStop`, `EventuallyStored`, `ImplementsStore` (refinement) |
| `rings` | 2 streams, 3 frames of two points (two series in either order, or one series twice), 4 times, rings of 2 and 2 | `FastIsTail`, `SlowDecimates`, `SnapshotFaithful`, `FramesInOrder`, `EventuallyPublished` |
| `spikes` | 1 series, 4 samples of 3 values and 2 times, 5 judgements | `WelfordExact`, `SpikesStandOut`, `SpikesSpaced`, `ReportedInOrder` |
| `live_stream` | 1 browser, live mode on twice, 2 messages on each of two channels that keep 1, one fault | `RingsInOrder`, `LagsOnly`, `ConnectedHonest`, `KernelsShown`, `CatchesUp` |
| `uplink_safety` | 3 items in both lanes, lanes of 1, wire of 2, 2 losses and so 3 sessions | `Custody`, `Balanced`, `UnitsAnnounced`, `DropsAccounted`, `ImplementsDelivery` (refinement) |
| `uplink_live` | 2 items, 1 loss | `EventuallyTaken`, `ReportedInSession` |
| `injector` | 2 threads, 3 batches (one oversized), 2 agents, a socket of 1 piece | `WrittenArrives`, `DeliveredOnce`, `DropsCounted`, `ShipReturns` |
| `catalog` | 4 widths of which 2 keep a view, 2 starts, 2 live events, 2 uploads, one of them also imported by the CLI, 2 copies of a row, 15 requests | `ViewsRead`, `AnswersStored`, `ImportsOwnRows` |
| `replay` | 3 agents, 2 calls of 3 ids or none, channel of 2, 2 registrations, 1 restart | `AckHonest`, `HeardCallEnds` |
| `clock` | 2 sources, 5 samples of which 1 may be dropped, delays 0 and 40, `f64` of 8 bits, words of 1024 | `Recovers`, `MapAgrees` |
| `catalog_tiles`, `replay_context` | the instances of `catalog` and `replay` | the findings of section 5 |

Why the bounds are enough:

- *Sink.* A channel of one slot makes every second sender wait or be refused;
  a threshold of two events is reached exactly, passed by a batch and missed;
  the failure may strike any table of any flush, the last one included, and any
  part of the insert may have been stored. One event may travel with its string or
  after it. More than one failure is left to the proofs, which hold for every `MaxFails`.
- *FastRing.* Four pushes into one series wrap both heads and overwrite in
  both rings; the times lie below, at and above the gap and go back. Two
  streams with frames in opposite order are the least in which a snapshot can cut
  two frames; a series listed twice can be cut between its own two points. For other capacities there are the proofs.
- *Uplink.* Three sessions allow an old task to be working while the next one is
  opened and lost again. Lanes of one overflow at once; a batch can still carry
  more than a lane holds, because pushes go on while it is drained. 
- *SpikeDetector.* Warm-up 3 and a z-threshold of 1 replace 16 and 3, which need
  eleven samples before anything can escalate. Series share nothing but the list
  of copies, so one is enough for the statistics and the rate limit.
- *Injector.* A socket of one piece makes every write block between length and
  body. Two agents are enough for one to take the path of the other, to lose
  the race for it, and to be the second target of a retry; the third batch finds
  the connection that the oversized one has closed.
- *Catalog.* A second start repeats all statements over rows of the first; a row
  stored twice is a retried flush. The requests use raw and all four widths,
  ranges on and off the edges of buckets, zero pixels and both filters; one
  event has a GPU id that does not fit into 8 bits, and two kernels have the same time.
- *Replay.* Three ids exceed the channel of two, so that the agent's task waits.
  An agent may go silent before it is dialled, with any part of its rows arrived, or with all of
  them. One agent is configured with the id that the collector hands out first.
- *Clock.* Five samples give ten slopes with ties, or six once the filter has
  dropped a slower one; a preempted read (40 against a gap of 4) outlies all others, and the verdict
  goes both ways. Times start at 301, above `Mant` = 256, so that the spacing of `f64` is 2 ns and 4 ns
  after a few slow reads; offsets and lags of 17 are not multiples of it. `Word` = 1024 lets `MapAgrees` try
  every word; the products of slope and time exceed it.
- *LiveStream.* A channel that keeps one message and a wire of one make every
  pause of the browser a lag. Rings of one and two are trimmed and can show a
  duplicate. The second kernel can arrive while the flag of the first is set, after its timeout, or
  after live mode was off in between.

Fairness:

- Rust tasks that are ready are polled, so their steps are weakly fair. `select!`
  chooses at random among ready arms, so an arm that is ready again and again is
  not starved: the sink's `Tick` and the uploader's `FlushTick`, `DropTick` and
  `ReadAck` are strongly fair.
- Nothing is assumed of producers, users, shutdowns, crashes or failing inserts
  (whose number `MaxFails` bounds; without an end of failures nothing could be
  stored).
- `uplink_live` assumes in `OutageEnds` that a collector that is down comes back
  and that a connect or register that can succeed again and again does succeed. `ReportedInSession` speaks
  of sessions that last and claims nothing of an outage.
- `injector` assumes that the target's threads run and that a live agent's runtime
  polls its accept loop and its handlers; nothing is assumed of when agents start,
  stop or end.
- `replay` assumes that both runtimes poll their tasks and that the sink flushes. Agents end or go silent
  as they please; `HeardCallEnds` excepts a call whose agent has gone silent on it, and only that.
- `live_stream` assumes that handlers with room are polled and that the browser
  runs ready events and timers.

## 4. Proofs

The theorems hold for every value of the constants that satisfies the named
`ASSUME` of the module (types, positive capacities, sentinels outside their sets; TLC
evaluates them in every run). Nothing else is assumed. Each module proves one
invariant `IInv` by induction, with a lemma per action or per conjunct, and gets
the properties from it. TLC has checked the parts of `IInv` it can evaluate (types over
infinite sets apart) on the instances of section 3.

| Module | `Spec =>` | What carries the proof |
|---|---|---|
| `SinkProofs` | `[]TypeOK`, `[]Custody`, `[]StringsFirst`, `[]CopiesBound`, `[]BufferBound`, `[]CleanStop`, `ImplementsStore` | see below |
| `FastRingProofs` | `[]TypeOK`, `[]FastIsTail`, `[]SlowDecimates`, `[]SnapshotFaithful`, `[]FramesInOrder` | rings without the modulus; pushes as prefixes of frames |
| `UplinkProofs` | `[]Custody`, `[]AtMostOnce`, `[]Balanced`, `[]UnitsAnnounced`, `[]DropsAccounted`, `ImplementsDelivery` | every item has one place; wires are windows of what was sent |
| `InjectorProofs` | `[]WrittenArrives`, `[]DeliveredOnce`, `[]DropsCounted` | the mutex, and lengths and bodies alternating on every connection |
| `LiveStreamProofs` | `[]RingsInOrder`, `[]LagsOnly`, `[]ConnectedHonest` | what a source will still send is newer than what is held |
| `CatalogProofs` | `[]ViewsRead`, `[]AnswersStored`, `[]ImportsOwnRows` | the statements run so far and the views they leave; sums over finite sets |
| `ReplayProofs` | `[]AckHonest` | the request cut into rows received, channel and agent's list |
| `EstimatorProofs` | `[]SpikesSpaced`, `[]ReportedInOrder`, `[]SpikesStandOut`, `[]WelfordExact` | the last firing is not behind any spike of its series; running sums carried by the statistics |
| | for `ClockSpec`: `[]Recovers`, `[]MapAgrees` | a median lies where most values lie, rounding bounds, arithmetic modulo the word |

**Sink.** `IInv` adds to the listed invariants

- `Fresh`: messages in the channel, those of waiting senders and what is
  still to be offered do not overlap (a row is one occurrence), without which a
  row could be absorbed twice and `CopiesBound` would fail;
- `Lifecycle`: a closed channel has no waiters, an aborted task nothing at all;
- `Written` and `PendingCopies`: during a flush the tables before `step` are
  stored, and the copies of pending rows of the other tables do not exceed the
  failures so far; this is what a retry after a partial failure needs;
- `NeedsStrings` and `Behind`: the strings a row needs are stored, pending or not
  behind it in the channel; this FIFO argument carries `StringsFirst`.

`BufferBound` needs in addition that everything accepted is finite (`NextFinite`),
since it speaks of cardinalities. The refinement maps the channel and the
buffers to `held` and the rows stored at least once to `stored`: a send is a
`Take`, every step of a flush a `Store`, the end of the task a `Stop`.

**FastRing.** The invariant says that a ring *holds* a sequence (`RingHolds`): the
slot `i` places behind the head, computed without the modulus, has its `i`-th newest
element. For the fast ring the sequence is the history of pushes; for the slow
ring it is a sequence of kept samples whose existence is part of the invariant
and which decimates the history. `SnapshotFaithful` follows because a snapshot
refers to prefixes of histories, and those never change. `FramesInOrder` needs a
second invariant, `Order`: the pushes are exactly the points that the ingest tasks
have passed (`NoneAhead`, `NoneMissing`), so that a copy taken under the mutex shows
the points `1..Pos(f)` of each frame `f`, and of one stream only the frame its task
is in can be cut. Later pushes lie behind the cut (`CutsStay`), so the copy keeps
that between `Build` and `Store` and as the snapshot.

**Uplink.** An item is in one lane, in the batch at hand, or in one batch that was
sent (`OnePlace`, `SentOnce`). What the task of a session has taken is a prefix of
what that session was sent, and its wire holds a window of the rest, without a
gap in between while the task runs and without one behind while the connection is
open (`Streams`); sessions before the current one fall under it too, so a task that
works on after its session was lost cannot take an item again. `Opened` and
`NoLossNoEnd` tie the states of links and tasks to the session number and
to the losses; `GoneForGood` says that what was lost is not on its way and
was not taken; `Interned` says that within a session the interner knows exactly
the strings the stream has announced and those of the batch at hand.

For `ImplementsDelivery` every step is shown to move items in one of four ways
(`Moves`): an item enters, what waits stays or is lost, the batch at the head of a wire is
answered, or it is rejected and the rest of the wire lost with its task. The sets that the
mapping unites must be disjoint for this, the wires of all sessions included (`Apart`,
from `SentOnce` and `Streams`); that nothing is lost before a failure is
`NoLossNoEnd`, and that a failure is never forgotten `StaysBroken`.

**Injector.** `Guarded` is the mutual exclusion of `GLOBAL`. `AllFramed` says that on
every connection that is not closed lengths and bodies alternate, each body after its own
length, and that only the thread inside `ship` may owe one; hence what a handler
decodes is a batch and not the rest of another. `BodiesOnce` and `RingsOnce` say where the one body of a
written batch can be. For the drop counter the
invariant is stronger than `DropsCounted`: it counts a batch in its second attempt
as given up already, because the code increments before it retries.

**LiveStream.** Only sources of the last switch to live mode are in use
(`LastOpened`). The wire of such a source, followed by the log from its position, is rising
and newer than all that the rings hold (`Ahead`), which carries `RingsInOrder`. `LagsOnly` is
part of the invariant as it stands: a message leaves a wire only by being received, and a handler that lags
moves to the oldest message kept. For `ConnectedHonest` only the metric EventSource of the last switch
can set the flag, by `LastOpened`, and every step that fails or closes it clears the flag.

**Catalog.** `MigrationFacts` is about the list of statements: a kept view is created
and never dropped, at whatever widths. `KeptViews` says that the statements run since a start have left
the kept views they create, and that after one complete run these views stay, although
later starts repeat the whole list and may stop anywhere. `OneAtATime` is
the pair of overlapping uploads, both marked.

`ViewsRead` needs `KeptViews` for the rows that are due, and holds of the other views because one
insert reads a row at most once per view. For `AnswersStored` a view reads activity only
(`ReadsActivity`); what remains are lemmas about sums. An activity answer sums, over its groups, the
counts of each group, which are at most the rows stored of it, and these are rows of the range and of
the bucket its end cuts. The raw answer cuts the rows of one time, and the sum of what is left is the limit or all of
them; this goes by induction over the times, in their order.

**Replay.** `Flow` cuts the request into three: the rows received are its first ids, the channel
its next ones, the agent's list the others; or the agent has ended or gone silent, which leaves a beginning
of them, or answered that it cannot profile. `Stored` adds that each row received has been pushed.

**SpikeDetector.** The rate limit needs no order of the samples' times: a spike fires only when
its time is `SpikeGap` past `last_fired`, and `last_fired` is not behind any earlier spike
of the series. `SpikesStandOut` says what the second pass promises without naming its
medians: `FiredStandOut` keeps the verdict for every spike that fired, and
`StandsOutFacts` derives from it, by counting in a strict order, that some value splits the tail in halves
and most of the tail is nearer to it than the spike. For `WelfordExact` the invariant `WelfordSums`
says that count, mean and squared deviations are those of the sums of all values and all squares judged;
one update keeps that (`SumsNext`), fractions being compared by cross products, and
`SumsExact` turns the sums into the textbook mean and deviations.

**Clock.** `ClockInv` says that samples lie in the order of time on both clocks (`Taken`), that a
fit is that of the samples held (`Fitted`) and that the collector's entry is the fit sent last, as words
(`Shipped`, about the history `sent`, so that measuring on and turning to the next source leave it alone).
`Recovers` rests on `MiddleWithin`: what most values of a list lie between, its median lies between. If
most slopes are 1, the median slope is, and a product by it costs one rounding (`MulOne`). `F64Close` bounds what one
rounding costs by half the spacing, `UnitMonotone` and `UnitScaled` compare spacings, and `OffsetClose`
adds them up: an offset differs from the lag of its sample by twice the spacing at twice the time.
The median offset therefore does, whatever the minority. At today's times the bound is about 1.03 us: the spacing
at twice 1.7e18 ns is 512 ns. `WordMaps` is the collector's side: a negative offset that travels as a
large word gives the same result modulo the word. It assumes what `MapAgrees` does, that the mapped time
is not before the epoch and the slope below half a word; the code checks neither.

Sums, running statistics and orders are recursive by nature. Their lemmas go by
induction all the same, through the least natural number at which a statement would fail
(`LeastElement`, `Induction`), because the induction theorems of the library take an
operator as a parameter, which the provers cannot instantiate.

Only model-checked is every liveness property (`EventuallyStored`, `EventuallyPublished`,
`EventuallyTaken`, `ReportedInSession`, `ShipReturns`, `HeardCallEnds`, `KernelsShown`,
`CatchesUp`): they rest on fairness, which means on `ENABLED`, and that is beyond the provers. All
invariants and refinements of the passing runs are proved.

Proved and not in a run are the `TypeOK` of `FastRing` and `AtMostOnce` of `Uplink`: that no
item is taken twice follows from `ImplementsDelivery`, which `uplink_safety` checks.

## 5. Findings

1. `catalog_tiles`: a row that activity requests of every kind have in the middle of their range
   shows in no answer. Two faults meet here. The timeline picks a width among all eight and reads
   `tiles_activity` at that width (`api/timeline.rs:102`), but since
   `migrations/0006_shed_metric_tiles.sql` only 32 ms and 2 s have a view, while the header of 0006
   says that other levels are computed from `events` on demand. And the two views that are kept name none
   of the columns they compute (`migrations/0003_tiles.sql:88`, `0006:31`), so that bucket, width and count
   of what they write are defaults, against `0003:5`. The trace: a start, one row inserted,
   which both kept views read, and which requests at a shed and at a kept width do not show.
2. `replay_context`: `spike_context` averages a column `value` of `events`, whose
   columns are `metric_id` and `metric_value` (`migrations/0001_events.sql:33`). The
   query fails and with it the resolver, so a profiled kernel is never shown,
   against `api/graphql.rs:481`.

Seen while modelling, without a run of their own:

- *Live rings.* Decimation compares with `last_slow_ns`, which starts at 0
  (`fast_ring.rs:91`), so a first sample with a time below 950 ms is not kept; the
  unit test at `fast_ring.rs:208` says that all five of its samples survive in both
  rings, and the slow one keeps four. `SlowDecimates` excepts these samples.
- *Uploader.* Drop counters are reported only inside a session
  (`grpc_client.rs:141`), so nothing is reported during an outage, however long, where
  `grpc_client.rs:6` promises a warning every 5 s. `ReportedInSession` is what holds. Only the units of metrics are
  announced (`grpc_client.rs:111`); names of kernels, API calls and markers are sent
  as hashes without their text, against `common/src/intern.rs:1`. Acks are only
  logged, although `proto/perfweave.proto:225` speaks of trimming the ring.
- *Ingest.* A batch that a full sink refuses takes its string announcements along,
  and the interner does not repeat them within the session.
- *Imports.* Uploads that overlap share `perfweave-import-<pid>/trace.sqlite`, so that
  one may insert the rows of the other (`ImportsOwnRows` excludes them).
- *Registry.* An id handed out may be the configured id of another agent, the
  later registration wins, and an agent keeps sending with its configured id; so a
  call may reach an agent that does not own the process (`replay.rs:4`). A node
  without an address is a GraphQL error, not the 409 of `replay.rs:12`.
- *Profiling.* A call to an agent that is stuck or whose host is cut off never ends
  (`replay.rs:72`, `api/graphql.rs:512`); `proto/perfweave.proto:259` calls `timeout_ms` a
  soft timeout after which the agent closes the stream, and nothing reads it. `HeardCallEnds` excepts
  these calls. Rows are acknowledged when they are in the sink's queue; a crash
  before the flush loses them. `kernel_sol` is joined by correlation id alone and
  always stored with GPU 0.
- *Injection.* `DROPPED_BATCHES` also counts batches whose retry succeeded.
- *Clock.* `residual_max_ns` is taken before slope and offset are rounded and of times rounded to
  `f64` (`common/src/clock.rs:86-101`): a slope over 2^30 is off by up to 0.8 s at today's nanosecond
  counts, which the residual does not show, against `proto/perfweave.proto:184`. A residual is 0 or at least 256 ns at these times, where
  `validate_clocks.rs:17` asks for less than 50. An identity fit is not sent
  (`clock_sync.rs:96`) and no entry of the collector is ever removed, so that the fit sent before stays in
  force; `clock_sync.rs:95` says that such a fit carries no information. `measure` returns a fit over its
  limit, against its comment at `clock_sync.rs:21`. With ten samples or fewer the latency filter drops
  nothing. Applying a fit twice is not applying it once (`skew.rs:8` calls it idempotent).
- *Timeline.* Nothing writes `tiles_metric`, against `0006:7`. An event without a
  category is stored as METRIC and shown nowhere. The views of `tiles_metric` in 0003 are dropped
  by 0006 and were not looked at.

## 6. Not modelled, and the plan

Still open:

1. Web timeline and panels: overlapping fetches without cancellation, answers
   for an old viewport or selection.
2. `Uplink` composed with `Sink`, replacing the open answer of `try_push`, and with
   `Injector` as a producer.
3. Proofs: the refinement of `DurableStore` by `Replay`'s queue.

Left out for good: reading hardware counters and `/proc` (I/O), the layout of
CUPTI records and of Arrow answers, PM attribution and record parsing (nothing
calls them), rendering, argument parsing and diagnostics, and the GraphQL queries
that are one read of ClickHouse. They keep no state that other parts depend on.
