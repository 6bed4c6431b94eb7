---------------------------- MODULE LiveStream ----------------------------
(***************************************************************************)
(* The live plane's broadcast: the metric ticker, the channels and the SSE *)
(* handlers (live.rs) and the browser's useLiveStream (web/src/live.ts).   *)
(*                                                                         *)
(* Each broadcast channel keeps its newest Cap messages; a receiver that   *)
(* falls further behind is told so and goes on with the oldest one kept.   *)
(* A message is its place in log, the history of all sends on a channel.   *)
(* The browser opens one EventSource per channel each time live mode is    *)
(* switched on; an EventSource that fails connects again by itself.        *)
(* Values and times of frames, rates and the estimate of the clock skew    *)
(* are left out: nothing here decides by them.                             *)
(***************************************************************************)
EXTENDS Naturals, Sequences, FiniteSets

CONSTANTS
  Series,      \* (node, gpu, metric)
  Cap,         \* capacity of a broadcast channel (1024 and 8192)
  WireCap,     \* messages between an SSE handler and the browser
  RING_SIZE,         \* samples the browser keeps per series (120)
  SPIKE_RING_SIZE,   \* spikes it keeps (512)
  KERNEL_RING_SIZE,  \* kernels it keeps (200 000)
  MaxLog,      \* bound: messages sent, per channel
  MaxOpens,    \* bound: how often live mode is switched on
  MaxFaults    \* bound: broken connections and ends of the server

Chan   == {"metrics", "kernels"}
Source == Chan \X (1..MaxOpens)

ASSUME LiveStreamAssumption ==
  /\ {Cap, WireCap, RING_SIZE, SPIKE_RING_SIZE, KERNEL_RING_SIZE} \subseteq Nat \ {0}
  /\ MaxLog \in [Chan -> Nat]
  /\ {MaxOpens, MaxFaults} \subseteq Nat

VARIABLES
  (* the server *)
  up,          \* its process is running
  snap,        \* the series of the published snapshot
  log,         \* per channel every message sent
  (* the browser *)
  enabled,     \* live mode
  opens,       \* how often it was switched on
  es,          \* the EventSources
  connected,   \* the HUD's flag
  rings,       \* the rings of metrics (per series), spikes and kernels
  pending,     \* the flag that new kernels are to be shown (kernelsPendingRef)
  timers,      \* the timeouts running that will show them
  shown,       \* kernels received when the ring was last shown
  (* history *)
  recv,        \* per source the messages received since it subscribed
  got,         \* kernels received
  faults

server  == <<up, snap, log>>
showing == <<pending, timers, shown, got>>
browser == <<enabled, opens, connected, rings, showing, recv>>
vars    == <<server, browser, es, faults>>

----------------------------------------------------------------------------
Unopened   == [state |-> "new", start |-> 1, pos |-> 1, wire |-> <<>>]
Closed     == [Unopened EXCEPT !.state = "closed"]
NoSnapshot == {}

(* A ring after x was appended and its front spliced away. *)
Keep(s, x, size) ==
  LET t == Append(s, x)
  IN  IF Len(t) > size THEN SubSeq(t, Len(t) - size + 1, Len(t)) ELSE t

Init ==
  /\ up = TRUE /\ snap = NoSnapshot
  /\ log = [c \in Chan |-> <<>>]
  /\ enabled = FALSE /\ opens = 0
  /\ es = [s \in Source |-> Unopened]
  /\ connected = FALSE
  /\ rings = [series |-> [k \in Series |-> <<>>], spikes |-> <<>>, kernels |-> <<>>]
  /\ pending = FALSE /\ timers = 0 /\ shown = 0
  /\ recv = [s \in Source |-> {}]
  /\ got = 0
  /\ faults = 0

----------------------------------------------------------------------------
(* FastRing::publish: a newer snapshot.  A series once seen stays. *)
Publish ==
  /\ up
  /\ \E K \in SUBSET Series : snap' = snap \cup K
  /\ UNCHANGED <<up, log, browser, es, faults>>

Send(c, m) ==
  /\ up /\ Len(log[c]) < MaxLog[c]
  /\ log' = [log EXCEPT ![c] = Append(@, m)]
  /\ UNCHANGED <<up, snap, browser, es, faults>>

(* spawn_metric_ticker: the latest value of every series, in one frame. *)
MetricTick == Send("metrics", [type |-> "metric", keys |-> snap])

(* The detector publishes a spike. *)
PublishSpike == Send("metrics", [type |-> "spike", keys |-> {}])

(* An ingest task publishes a kernel event. *)
PublishKernel == Send("kernels", [type |-> "kernel", keys |-> {}])

(* The process ends, by Ctrl-C or a crash, and its connections with it.    *)
Exit ==
  /\ up /\ faults < MaxFaults
  /\ up' = FALSE
  /\ faults' = faults + 1
  /\ snap' = NoSnapshot
  /\ es' = [s \in Source |-> IF es[s].state = "open"
                              THEN [es[s] EXCEPT !.state = "broken"] ELSE es[s]]
  /\ UNCHANGED <<log, browser>>

Start ==
  /\ ~up /\ up' = TRUE
  /\ UNCHANGED <<snap, log, browser, es, faults>>

----------------------------------------------------------------------------
(* The SSE handler of an open EventSource polls its receiver as long as    *)
(* there is room on the connection.                                        *)

Lagging(s) == Len(log[s[1]]) >= es[s].pos + Cap

(* Mutated form of Lag: subscribe again, at the end of the channel. *)
LagResubscribes(s) ==
  /\ up /\ es[s].state = "open" /\ Len(es[s].wire) < WireCap /\ Lagging(s)
  /\ es' = [es EXCEPT ![s].pos = Len(log[s[1]]) + 1]
  /\ UNCHANGED <<server, browser, faults>>

(* Lagged: the handler yields nothing, keeps the connection and goes on    *)
(* with the oldest message kept.                                           *)
Lag(s) ==
  /\ up /\ es[s].state = "open" /\ Len(es[s].wire) < WireCap /\ Lagging(s)
  /\ es' = [es EXCEPT ![s].pos = Len(log[s[1]]) - Cap + 1]
  /\ UNCHANGED <<server, browser, faults>>

(* Mutated form of Forward: a message waits for the next one. *)
ForwardLate(s) ==
  /\ up /\ es[s].state = "open" /\ Len(es[s].wire) < WireCap
  /\ ~Lagging(s) /\ es[s].pos < Len(log[s[1]])
  /\ es' = [es EXCEPT ![s].wire = Append(@, es[s].pos), ![s].pos = @ + 1]
  /\ UNCHANGED <<server, browser, faults>>

Forward(s) ==
  /\ up /\ es[s].state = "open" /\ Len(es[s].wire) < WireCap
  /\ ~Lagging(s) /\ es[s].pos <= Len(log[s[1]])
  /\ es' = [es EXCEPT ![s].wire = Append(@, es[s].pos), ![s].pos = @ + 1]
  /\ UNCHANGED <<server, browser, faults>>

----------------------------------------------------------------------------
(* The browser.  The effect of useLiveStream runs when live mode changes.  *)
Enable ==
  /\ ~enabled /\ opens < MaxOpens
  /\ enabled' = TRUE
  /\ opens' = opens + 1
  /\ es' = [s \in Source |-> IF s[2] = opens' THEN [es[s] EXCEPT !.state = "connecting"]
                                              ELSE es[s]]
  /\ UNCHANGED <<server, faults, connected, rings, showing, recv>>

(* Mutated form of Disable: the EventSources are left open. *)
DisableLeavesOpen ==
  /\ enabled
  /\ enabled' = FALSE
  /\ connected' = FALSE
  /\ UNCHANGED <<server, faults, es, opens, rings, showing, recv>>

(* Mutated form of Disable: the timeout is cleared too, the flag is not. *)
DisableStopsTimers ==
  /\ enabled
  /\ enabled' = FALSE
  /\ es' = [s \in Source |-> IF es[s].state = "new" THEN es[s] ELSE Closed]
  /\ recv' = [s \in Source |-> {}]
  /\ connected' = FALSE
  /\ timers' = 0
  /\ UNCHANGED <<server, faults, opens, rings, pending, shown, got>>

(* The effect's cleanup; a timeout that is running still fires. *)
Disable ==
  /\ enabled
  /\ enabled' = FALSE
  /\ es' = [s \in Source |-> IF es[s].state = "new" THEN es[s] ELSE Closed]
  /\ recv' = [s \in Source |-> {}]
  /\ connected' = FALSE
  /\ UNCHANGED <<server, faults, opens, rings, showing>>

(* Mutated form of Subscribe: the messages still kept are sent again. *)
SubscribeReplays(s) ==
  /\ up /\ es[s].state = "connecting"
  /\ LET n == Len(log[s[1]])
         p == IF n > Cap THEN n - Cap + 1 ELSE 1
     IN  es' = [es EXCEPT ![s] = [state |-> "open", start |-> p, pos |-> p, wire |-> <<>>]]
  /\ recv' = [recv EXCEPT ![s] = {}]
  /\ UNCHANGED <<server, faults, enabled, opens, connected, rings, showing>>

(* The request reaches the server: the handler subscribes at the end of    *)
(* the channel.                                                            *)
Subscribe(s) ==
  /\ up /\ es[s].state = "connecting"
  /\ es' = [es EXCEPT ![s] = [state |-> "open", start |-> Len(log[s[1]]) + 1,
                              pos |-> Len(log[s[1]]) + 1, wire |-> <<>>]]
  /\ recv' = [recv EXCEPT ![s] = {}]
  /\ UNCHANGED <<server, faults, enabled, opens, connected, rings, showing>>

(* The connection breaks. *)
Break(s) ==
  /\ es[s].state = "open" /\ faults < MaxFaults
  /\ faults' = faults + 1
  /\ es' = [es EXCEPT ![s].state = "broken"]
  /\ UNCHANGED <<server, browser>>

(* onerror of an EventSource that broke or could not connect; it tries again. *)
OnError(s) ==
  /\ es[s].state \in {"broken", "connecting"}
  /\ es' = [es EXCEPT ![s].state = "connecting", ![s].wire = <<>>]
  /\ connected' = FALSE
  /\ UNCHANGED <<server, faults, enabled, opens, rings, showing, recv>>

(* The listener of the event at the front of the wire. *)
Receive(s, type) ==
  /\ es[s].state \in {"open", "broken"} /\ es[s].wire # <<>>
  /\ log[s[1]][Head(es[s].wire)].type = type
  /\ es' = [es EXCEPT ![s].wire = Tail(@)]
  /\ recv' = [recv EXCEPT ![s] = @ \cup {Head(es[s].wire)}]

OnMetric(s) ==
  LET i == Head(es[s].wire)
      m == log["metrics"][i]
  IN  /\ Receive(s, "metric")
      /\ rings' = [rings EXCEPT !.series =
                     [k \in Series |-> IF k \in m.keys THEN Keep(@[k], i, RING_SIZE) ELSE @[k]]]
      /\ connected' = TRUE
      /\ UNCHANGED <<server, faults, enabled, opens, showing>>

OnSpike(s) ==
  /\ Receive(s, "spike")
  /\ rings' = [rings EXCEPT !.spikes = Keep(@, Head(es[s].wire), SPIKE_RING_SIZE)]
  /\ UNCHANGED <<server, faults, enabled, opens, connected, showing>>

(* A kernel found with the flag set waits for the timeout that runs. *)
OnKernel(s) ==
  /\ Receive(s, "kernel")
  /\ rings' = [rings EXCEPT !.kernels = Keep(@, Head(es[s].wire), KERNEL_RING_SIZE)]
  /\ got' = got + 1
  /\ pending' = TRUE
  /\ timers' = IF pending THEN timers ELSE timers + 1
  /\ UNCHANGED <<server, faults, enabled, opens, connected, shown>>

(* A timeout fires: the Timeline reads the ring again. *)
KernelsTick ==
  /\ timers > 0
  /\ timers' = timers - 1
  /\ pending' = FALSE
  /\ shown' = got
  /\ UNCHANGED <<server, faults, es, enabled, opens, connected, rings, got, recv>>

(* The user leaves live mode for good. *)
Off == ~enabled /\ opens = MaxOpens /\ UNCHANGED vars

----------------------------------------------------------------------------
Handler(s)  == Lag(s) \/ Forward(s)
Listener(s) == OnMetric(s) \/ OnSpike(s) \/ OnKernel(s)

Next ==
  \/ Publish \/ MetricTick \/ PublishSpike \/ PublishKernel
  \/ Exit \/ Start
  \/ \E s \in Source : Handler(s) \/ Subscribe(s) \/ Break(s) \/ OnError(s) \/ Listener(s)
  \/ Enable \/ Disable \/ Off
  \/ KernelsTick

Spec == Init /\ [][Next]_vars

(* The server's runtime polls handlers whose connection has room, and the  *)
(* browser runs ready events and timers.  The user, the network and the    *)
(* server's process are free.                                              *)
Fairness ==
  /\ \A s \in Source : WF_vars(Handler(s)) /\ WF_vars(Listener(s))
  /\ WF_vars(KernelsTick)

FairSpec == Spec /\ Fairness

----------------------------------------------------------------------------
TypeOK ==
  /\ up \in BOOLEAN
  /\ snap \subseteq Series
  /\ \A s \in Source :
       /\ es[s].state \in {"new", "connecting", "open", "broken", "closed"}
       /\ es[s].wire \in Seq(1..MaxLog[s[1]]) /\ Len(es[s].wire) <= WireCap
       /\ es[s].pos \in 1..MaxLog[s[1]] + 1
  /\ \A k \in Series : Len(rings.series[k]) <= RING_SIZE
  /\ Len(rings.spikes) <= SPIKE_RING_SIZE /\ Len(rings.kernels) <= KERNEL_RING_SIZE
  /\ {enabled, connected, pending} \subseteq BOOLEAN
  /\ timers \in 0..1

Rising(q) == \A i, j \in 1..Len(q) : i < j => q[i] < q[j]

(* The rings of the browser hold messages in the order they were sent, and *)
(* none twice, however often live mode is switched, connections break and  *)
(* the server restarts: no two EventSources of a channel feed them at once. *)
RingsInOrder ==
  /\ \A k \in Series : Rising(rings.series[k])
  /\ Rising(rings.spikes) /\ Rising(rings.kernels)

OnWire(s, i) == \E n \in 1..Len(es[s].wire) : es[s].wire[n] = i

(* A slow browser loses nothing that the channel still holds: every message *)
(* between an open EventSource's subscription and its handler's place was   *)
(* received, is on the wire, or has left the channel, although handlers lag *)
(* at any time and the connection gives room one message at a time.         *)
LagsOnly ==
  \A s \in Source : es[s].state = "open" =>
    \A i \in es[s].start..es[s].pos - 1 :
      i \in recv[s] \/ OnWire(s, i) \/ i + Cap <= Len(log[s[1]])

(* The HUD does not show a connection that is gone and known to be: while   *)
(* the flag is set live mode is on, and the metric EventSource of the last  *)
(* switch has connected and has not failed since, in whatever order errors  *)
(* of both EventSources, late frames and switches of live mode come.        *)
ConnectedHonest ==
  connected => /\ enabled
               /\ es[<<"metrics", opens>>].state \in {"open", "broken"}

(* Kernels that were received are shown in the end: the flag that batches  *)
(* the updates is never left set without a timeout that clears it, also    *)
(* when live mode ends in between.                                         *)
KernelsShown == \A n \in 1..MaxLog["kernels"] : got = n ~> shown >= n

Behind(s) == es[s].state = "open" /\ (es[s].pos <= Len(log[s[1]]) \/ es[s].wire # <<>>)

(* A browser catches up with what was sent since it subscribed, unless its  *)
(* EventSource breaks or is closed: lag never ends a connection or leaves   *)
(* the newest message behind.                                               *)
CatchesUp == \A s \in Source : Behind(s) ~> ~Behind(s)
============================================================================
