----------------------------- MODULE FastRing -----------------------------
(***************************************************************************)
(* The in-memory metric rings of the live plane (fast_ring.rs).            *)
(*                                                                         *)
(* gRPC ingest tasks push the points of metric frames one by one, each     *)
(* under the writer mutex.  A publisher task copies every series under the *)
(* same mutex and, after letting it go, stores the copy as the snapshot    *)
(* that the live ticker and the spike detector read.  A series keeps two   *)
(* rings: the newest samples (fast) and a decimated tail (slow).           *)
(*                                                                         *)
(* A sample's value is abstracted to the point it came from.  Timestamps   *)
(* are arbitrary: streams interleave and clock fits move them both ways.   *)
(* They are assumed to stay Gap below 2^64, where line 91 would overflow.  *)
(***************************************************************************)
EXTENDS Naturals, Sequences, FiniteSets

CONSTANTS
  Key,        \* (node, gpu, metric): the series
  Stream,     \* ingest tasks
  Frame,      \* metric frames (a Metric event is a frame of one point)
  StreamOf,   \* the stream a frame arrives on
  PointsOf,   \* the series of a frame's points, in order
  Time,       \* the timestamps a frame may carry after clock correction
  NoFrame,    \* the origin of the samples that fill a new ring
  FastCap,    \* FAST_CAPACITY (100)
  SlowCap,    \* SLOW_CAPACITY (120)
  Gap         \* least distance of two samples of the slow ring (950 ms)

ASSUME FastRingAssumption ==
  /\ StreamOf \in [Frame -> Stream]
  /\ PointsOf \in [Frame -> Seq(Key)]
  /\ Time \subseteq Nat
  /\ NoFrame \notin Frame
  /\ FastCap \in Nat \ {0}
  /\ SlowCap \in Nat \ {0}
  /\ Gap \in Nat \ {0}

VARIABLES
  writer,     \* the mutex-protected map from keys to their rings
  task,       \* per stream: the frame at hand, its time, its next point
  begun,      \* frames that a stream has started to absorb
  publisher,  \* "idle" in its select, "built" between unlock and store, "stopped"
  built,      \* the copy made under the lock, not yet stored
  snapshot,   \* what readers load
  shutdown,   \* the shutdown watch holds true
  hist        \* history: every sample ever pushed to each series

vars == <<writer, task, begun, publisher, built, snapshot, shutdown, hist>>

Sample == [ts : Nat, frame : Frame \cup {NoFrame}, point : Nat]

Zero == [ts |-> 0, frame |-> NoFrame, point |-> 0]

----------------------------------------------------------------------------
(* One ring: a buffer of cap slots, the slot to write next and a length.   *)

EmptyRing(cap) == [buf |-> [i \in 0..cap - 1 |-> Zero], head |-> 0, len |-> 0]

RingPush(r, cap, s) ==
  [buf  |-> [r.buf EXCEPT ![r.head] = s],
   head |-> (r.head + 1) % cap,
   len  |-> IF r.len < cap THEN r.len + 1 ELSE r.len]

(* Mutated form of read_ring: the oldest sample is taken to be at the head. *)
read_ring_from_head(r, cap) ==
  [i \in 1..r.len |-> r.buf[(r.head + i - 1) % cap]]

(* The content of a ring, oldest first. *)
read_ring(r, cap) ==
  LET start == (r.head + cap - r.len) % cap
  IN  [i \in 1..r.len |-> r.buf[(start + i - 1) % cap]]

(* SeriesRing. *)
NewSeries == [slow |-> EmptyRing(SlowCap), fast |-> EmptyRing(FastCap), last_slow |-> 0]

(* Mutated form of SeriesPush: a sample exactly Gap later is too early. *)
SeriesPushLate(q, s) ==
  IF s.ts > q.last_slow + Gap
  THEN [slow      |-> RingPush(q.slow, SlowCap, s),
        fast      |-> RingPush(q.fast, FastCap, s),
        last_slow |-> s.ts]
  ELSE [q EXCEPT !.fast = RingPush(q.fast, FastCap, s)]

SeriesPush(q, s) ==
  IF s.ts >= q.last_slow + Gap
  THEN [slow      |-> RingPush(q.slow, SlowCap, s),
        fast      |-> RingPush(q.fast, FastCap, s),
        last_slow |-> s.ts]
  ELSE [q EXCEPT !.fast = RingPush(q.fast, FastCap, s)]

SeriesSnapshot(q) ==
  [slow |-> read_ring(q.slow, SlowCap), fast |-> read_ring(q.fast, FastCap)]

(* A snapshot carries as history, per series, how many pushes precede it.  *)
NoSnapshot == [series |-> <<>>, cut |-> [k \in Key |-> 0]]

Init ==
  /\ writer = <<>>
  /\ task = [s \in Stream |-> [ts |-> 0, frame |-> NoFrame, next |-> 1]]
  /\ begun = {}
  /\ publisher = "idle"
  /\ built = NoSnapshot
  /\ snapshot = NoSnapshot
  /\ shutdown = FALSE
  /\ hist = [k \in Key |-> <<>>]

----------------------------------------------------------------------------
(* Ingest tasks.  A frame's timestamp is corrected once, for all points.   *)
Busy(s) == task[s].frame # NoFrame /\ task[s].next <= Len(PointsOf[task[s].frame])

Begin(f, t) ==
  /\ f \notin begun
  /\ ~Busy(StreamOf[f])
  /\ begun' = begun \cup {f}
  /\ task' = [task EXCEPT ![StreamOf[f]] = [ts |-> t, frame |-> f, next |-> 1]]
  /\ UNCHANGED <<writer, publisher, built, snapshot, shutdown, hist>>

(* FastRing::push of the next point, atomic under the mutex. *)
Push(s) ==
  LET key    == PointsOf[task[s].frame][task[s].next]
      sample == [ts |-> task[s].ts, frame |-> task[s].frame, point |-> task[s].next]
      ring   == IF key \in DOMAIN writer THEN writer[key] ELSE NewSeries
  IN  /\ Busy(s)
      /\ writer' = [k \in DOMAIN writer \cup {key} |->
                      IF k = key THEN SeriesPush(ring, sample) ELSE writer[k]]
      /\ hist' = [hist EXCEPT ![key] = Append(@, sample)]
      /\ task' = [task EXCEPT ![s].next = @ + 1]
      /\ UNCHANGED <<begun, publisher, built, snapshot, shutdown>>

----------------------------------------------------------------------------
(* Mutated form of Build: the mutex is taken per series, so that some of    *)
(* them are copied before and others after a push.                          *)
BuildPerSeries ==
  /\ publisher = "idle"
  /\ \E S \in SUBSET DOMAIN writer :
       built' = [series |-> [k \in DOMAIN snapshot.series \cup S |->
                               IF k \in S THEN SeriesSnapshot(writer[k])
                                          ELSE snapshot.series[k]],
                 cut    |-> [k \in Key |-> IF k \in S THEN Len(hist[k])
                                                     ELSE snapshot.cut[k]]]
  /\ publisher' = "built"
  /\ UNCHANGED <<writer, task, begun, snapshot, shutdown, hist>>

(* Mutated form of Build: the tick is skipped unless a series is new. *)
BuildWhenNew ==
  /\ publisher = "idle" /\ DOMAIN writer # DOMAIN snapshot.series
  /\ built' = [series |-> [k \in DOMAIN writer |-> SeriesSnapshot(writer[k])],
               cut    |-> [k \in Key |-> Len(hist[k])]]
  /\ publisher' = "built"
  /\ UNCHANGED <<writer, task, begun, snapshot, shutdown, hist>>

(* The publisher.  FastRing::publish copies under the mutex ...            *)
Build ==
  /\ publisher = "idle"
  /\ built' = [series |-> [k \in DOMAIN writer |-> SeriesSnapshot(writer[k])],
               cut    |-> [k \in Key |-> Len(hist[k])]]
  /\ publisher' = "built"
  /\ UNCHANGED <<writer, task, begun, snapshot, shutdown, hist>>

(* Mutated form of Store: the snapshot shares the rings instead of a copy. *)
StoreShared ==
  /\ publisher = "built"
  /\ snapshot' = [built EXCEPT !.series =
                    [k \in DOMAIN built.series |-> SeriesSnapshot(writer[k])]]
  /\ built' = NoSnapshot
  /\ publisher' = "idle"
  /\ UNCHANGED <<writer, task, begun, shutdown, hist>>

(* ... and stores the copy when the mutex is free again. *)
Store ==
  /\ publisher = "built"
  /\ snapshot' = built
  /\ built' = NoSnapshot
  /\ publisher' = "idle"
  /\ UNCHANGED <<writer, task, begun, shutdown, hist>>

(* Ctrl-C: the shutdown watch turns true. *)
Shutdown ==
  /\ ~shutdown
  /\ shutdown' = TRUE
  /\ UNCHANGED <<writer, task, begun, publisher, built, snapshot, hist>>

(* The publisher leaves its loop. *)
Stop ==
  /\ shutdown /\ publisher = "idle"
  /\ publisher' = "stopped"
  /\ UNCHANGED <<writer, task, begun, built, snapshot, shutdown, hist>>

Ended ==
  /\ publisher = "stopped" /\ begun = Frame
  /\ \A s \in Stream : ~Busy(s)
  /\ UNCHANGED vars

Next ==
  \/ \E f \in Frame, t \in Time : Begin(f, t)
  \/ \E s \in Stream : Push(s)
  \/ Build
  \/ Store
  \/ Shutdown
  \/ Stop
  \/ Ended

Spec == Init /\ [][Next]_vars

(* The publisher's ticker fires every 100 ms and its task is always polled; *)
(* an ingest task runs the loop over a frame's points without awaiting.     *)
Fairness ==
  /\ WF_vars(Build)
  /\ WF_vars(Store)
  /\ \A s \in Stream : WF_vars(Push(s))

FairSpec == Spec /\ Fairness

----------------------------------------------------------------------------
RingType(cap) ==
  [buf : [0..cap - 1 -> Sample], head : 0..cap - 1, len : 0..cap]

SeriesType == [slow : RingType(SlowCap), fast : RingType(FastCap), last_slow : Nat]

TypeOK ==
  /\ DOMAIN writer \subseteq Key
  /\ \A k \in DOMAIN writer : writer[k] \in SeriesType
  /\ task \in [Stream -> [ts : Nat, frame : Frame \cup {NoFrame}, next : Nat \ {0}]]
  /\ begun \subseteq Frame
  /\ publisher \in {"idle", "built", "stopped"}
  /\ shutdown \in BOOLEAN
  /\ hist \in [Key -> Seq(Sample)]

(* The newest samples of h, at most n of them, oldest first. *)
Newest(h, n) ==
  IF Len(h) <= n THEN h ELSE [i \in 1..n |-> h[Len(h) - n + i]]

(* What a decimated tail of the pushes h must be: samples of h at least Gap *)
(* apart that leave no gap open: a sample is missing only because an older  *)
(* one that is kept was too close to it, because it left a full ring, or    *)
(* because it lies in the first Gap after time 0, where last_slow_ns starts *)
(* (the first of the five samples of the unit test at fast_ring.rs:208 is   *)
(* missing for that reason, against the test).                              *)
Decimates(slow, h) ==
  LET Kept(i) == \E j \in 1..Len(slow) : slow[j] = h[i]
  IN  /\ \A j \in 1..Len(slow) : \E i \in 1..Len(h) : slow[j] = h[i]
      /\ \A j \in 1..Len(slow) - 1 : slow[j].ts + Gap <= slow[j + 1].ts
      /\ \A i \in 1..Len(h) :
           \/ Kept(i)
           \/ h[i].ts < Gap
           \/ \E l \in 1..i - 1 : Kept(l) /\ h[i].ts < h[l].ts + Gap
           \/ Len(slow) = SlowCap /\ h[i].ts < slow[1].ts

(* The fast ring of a series, read through its moving head, is the newest   *)
(* FAST_CAPACITY pushes in the order of the pushes, before and after the    *)
(* head wraps around.                                                       *)
FastIsTail ==
  \A k \in DOMAIN writer :
    read_ring(writer[k].fast, FastCap) = Newest(hist[k], FastCap)

(* The slow ring decimates the pushes of its series, in whatever order      *)
(* their timestamps arrive, but for samples of the first Gap after time 0.  *)
SlowDecimates ==
  \A k \in DOMAIN writer :
    Decimates(read_ring(writer[k].slow, SlowCap), hist[k])

Prefix(h, n) == [i \in 1..n |-> h[i]]

(* A snapshot that is stored, or about to be, is a state the rings really   *)
(* had: it holds exactly the series pushed to before its cut, each as its   *)
(* rings were at the cut.                                                   *)
Faithful(snap) ==
  /\ DOMAIN snap.series = {k \in Key : snap.cut[k] > 0}
  /\ \A k \in DOMAIN snap.series :
       LET h == Prefix(hist[k], snap.cut[k])
       IN  /\ snap.series[k].fast = Newest(h, FastCap)
           /\ Decimates(snap.series[k].slow, h)

(* What readers load is a past state of the rings, untouched by the pushes  *)
(* that go on between the copy, the unlock and the store.                   *)
SnapshotFaithful == Faithful(snapshot) /\ Faithful(built)

(* The points of frame f that precede the cut of a snapshot. *)
ShownIn(snap, f) ==
  {i \in 1..Len(PointsOf[f]) :
     LET k == PointsOf[f][i]
     IN  \E j \in 1..snap.cut[k] : hist[k][j].frame = f /\ hist[k][j].point = i}

Shown(f) == ShownIn(snapshot, f)

Torn(f) == Shown(f) # {} /\ Shown(f) # 1..Len(PointsOf[f])

(* A snapshot may cut through a frame (the mutex is taken per point), but   *)
(* what it shows of a frame is a beginning of it, and of each stream it     *)
(* cuts through one frame at most.                                          *)
FramesInOrder ==
  /\ \A f \in Frame : Shown(f) = 1..Cardinality(Shown(f))
  /\ \A f, g \in Frame :
       Torn(f) /\ Torn(g) /\ StreamOf[f] = StreamOf[g] => f = g

(* Every sample reaches the snapshot readers see, unless the publisher is   *)
(* told to stop.                                                            *)
EventuallyPublished ==
  \A f \in Frame :
    f \in begun ~> (shutdown \/ Shown(f) = 1..Len(PointsOf[f]))
============================================================================
