--------------------------- MODULE SpikeDetector ---------------------------
(***************************************************************************)
(* The spike detector (spike_detect.rs): a tick copies the latest sample   *)
(* and the slow tail of every series out of the published snapshot, judges *)
(* them one after the other and reports what stands out: first to the      *)
(* sink, in a send that waits for room, then to the broadcast channel.     *)
(*                                                                         *)
(* Values are natural numbers and the statistics are exact: running mean   *)
(* and sum of squares are fractions, and comparisons of square roots and   *)
(* quotients are written as products.  Rounding of f64 is left out.        *)
(***************************************************************************)
EXTENDS Integers, Sequences, FiniteSets, FiniteSetsExt, OrderStatistics

CONSTANTS
  Series,     \* (node, gpu, metric)
  Value,      \* values of samples
  Time,       \* timestamps of samples
  SlowCap,    \* SLOW_CAPACITY
  SlowGap,    \* least distance of two samples of the slow tail
  WarmUp,     \* judgements before a series may spike (16)
  ZSquared,   \* square of WELFORD_Z_THRESHOLD (9)
  SpikeGap,   \* least distance of two spikes of a series (10 s)
  MaxSnaps,   \* bound: samples published
  MaxJudged   \* bound: judgements per series

ASSUME SpikeDetectorAssumption ==
  /\ Value \subseteq Nat
  /\ Time \subseteq Nat
  /\ {SlowCap, SlowGap, WarmUp, ZSquared, SpikeGap} \subseteq Nat \ {0}
  /\ {MaxSnaps, MaxJudged} \subseteq Nat

VARIABLES
  snap,        \* the snapshot: per series its latest sample and slow tail
  pc,          \* "select", "loop", "push" (in push_spike) or "stopped"
  work,        \* the copies still to be judged in this tick
  at,          \* the spike being reported
  welford,     \* per series count, mean and m2
  last_fired,  \* per series the time of its last spike
  shutdown,    \* the shutdown watch holds true
  judged,      \* history: per series the values judged
  fired,       \* history: the copies that spiked, in order
  offered,     \* history: how many of them the sink has answered for
  announced,   \* history: the spikes broadcast, in order
  snaps        \* snapshots published so far

vars == <<snap, pc, work, at, welford, last_fired, shutdown, judged, fired, offered,
          announced, snaps>>

----------------------------------------------------------------------------
(* Fractions, in lowest terms. *)
gcd(a, b) == Max({d \in 1..b : a % d = 0 /\ b % d = 0})

Frac(a, b) == LET d == gcd(a, b) IN [num |-> a \div d, den |-> b \div d]

Plus(f, g)  == Frac(f.num * g.den + g.num * f.den, f.den * g.den)
Minus(f, g) == Frac(f.num * g.den - g.num * f.den, f.den * g.den)
Times(f, g) == Frac(f.num * g.num, f.den * g.den)
Whole(x)    == [num |-> x, den |-> 1]

----------------------------------------------------------------------------
(* Pass 1: Welford's running mean and sum of squared deviations. *)
NoWelford == [n |-> 0, mean |-> Whole(0), m2 |-> Whole(0)]

(* Mutated form of Update: both factors use the old mean. *)
UpdateOldMean(w, x) ==
  LET n     == w.n + 1
      delta == Minus(Whole(x), w.mean)
      mean  == Plus(w.mean, Times(delta, Frac(1, n)))
  IN  [n |-> n, mean |-> mean, m2 |-> Plus(w.m2, Times(delta, delta))]

Update(w, x) ==
  LET n      == w.n + 1
      delta  == Minus(Whole(x), w.mean)
      mean   == Plus(w.mean, Times(delta, Frac(1, n)))
      delta2 == Minus(Whole(x), mean)
  IN  [n |-> n, mean |-> mean, m2 |-> Plus(w.m2, Times(delta, delta2))]

(* |x - mean| / sigma > WELFORD_Z_THRESHOLD, with sigma^2 = m2 / (n - 1). *)
Escalates(w, x) ==
  LET d == Minus(Whole(x), w.mean)
      l == Times(Times(d, d), Whole(w.n - 1))
      r == Times(Whole(ZSquared), w.m2)
  IN  w.n >= WarmUp /\ w.n >= 2 /\ w.m2.num > 0 /\ l.num * r.den > r.num * l.den

(* Pass 2: median and median absolute deviation of the slow tail. *)
Median(q) == Middle(q, LAMBDA x, y : x < y)

Deviations(q) == [i \in 1..Len(q) |-> Abs(q[i] - Median(q))]

(* 3.5 times 1.4826, in units of 1 / 10000. *)
MadFactor == 51891

(* Mutated form of StandsOut: a deviation of zero is not refused. *)
StandsOutFlat(x, slow) ==
  LET mad == IF slow = <<>> THEN 0 ELSE Median(Deviations(slow))
      med == IF slow = <<>> THEN 0 ELSE Median(slow)
  IN  10000 * Abs(x - med) >= MadFactor * mad

(* mad > 0 and |x - median| / mad >= MAD_Z_THRESHOLD; an empty tail has mad 0. *)
StandsOut(x, slow) ==
  LET mad == IF slow = <<>> THEN 0 ELSE Median(Deviations(slow))
      med == IF slow = <<>> THEN 0 ELSE Median(slow)
  IN  mad > 0 /\ 10000 * Abs(x - med) >= MadFactor * mad

----------------------------------------------------------------------------
Extended(f, k, v) == [j \in DOMAIN f \cup {k} |-> IF j = k THEN v ELSE f[j]]

Nothing == [key |-> "none"]

Init ==
  /\ snap = <<>> /\ snaps = 0
  /\ pc = "select" /\ work = {} /\ at = Nothing
  /\ welford = <<>> /\ last_fired = <<>>
  /\ shutdown = FALSE
  /\ judged = [k \in Series |-> <<>>]
  /\ fired = <<>> /\ offered = 0 /\ announced = <<>>

NewSeries == [value |-> 0, ts |-> 0, slow |-> <<>>, last_slow |-> 0]

(* A sample reaches the rings and the publisher stores the next snapshot;   *)
(* the slow tail gets the sample if it is SlowGap after the last one there. *)
Publish ==
  /\ snaps < MaxSnaps /\ snaps' = snaps + 1
  /\ \E k \in Series, x \in Value, t \in Time :
       LET old  == IF k \in DOMAIN snap THEN snap[k] ELSE NewSeries
           kept == IF Len(old.slow) < SlowCap THEN old.slow ELSE Tail(old.slow)
       IN  snap' = Extended(snap, k,
                     IF t >= old.last_slow + SlowGap
                     THEN [value |-> x, ts |-> t, slow |-> Append(kept, x), last_slow |-> t]
                     ELSE [old EXCEPT !.value = x, !.ts = t])
  /\ UNCHANGED <<pc, work, at, welford, last_fired, shutdown, judged, fired, offered, announced>>

(* The ticker arm: everything is copied before the first await. *)
TickOnce ==
  /\ pc = "select" /\ DOMAIN snap # {}
  /\ \A k \in Series : Len(judged[k]) < MaxJudged
  /\ work' = {[key |-> k, value |-> snap[k].value, ts |-> snap[k].ts, slow |-> snap[k].slow] :
                k \in DOMAIN snap}
  /\ pc' = "loop"
  /\ UNCHANGED <<snap, at, welford, last_fired, shutdown, judged, fired, offered, announced, snaps>>

(* Mutated form of Recent: a subtraction that wraps when time goes back. *)
RecentWrapping(s) ==
  s.key \in DOMAIN last_fired /\ s.ts >= last_fired[s.key] /\ s.ts < last_fired[s.key] + SpikeGap

(* latest_ts.saturating_sub(prev) < 10 s *)
Recent(s) == s.key \in DOMAIN last_fired /\ s.ts < last_fired[s.key] + SpikeGap

(* One round of the loop, up to the await of push_spike. *)
Judge(s) ==
  /\ pc = "loop" /\ s \in work
  /\ work' = work \ {s}
  /\ judged' = [judged EXCEPT ![s.key] = Append(@, s.value)]
  /\ LET old == IF s.key \in DOMAIN welford THEN welford[s.key] ELSE NoWelford
         new == Update(old, s.value)
     IN  /\ welford' = Extended(welford, s.key, new)
         /\ IF Escalates(new, s.value) /\ StandsOut(s.value, s.slow) /\ ~Recent(s)
            THEN /\ last_fired' = Extended(last_fired, s.key, s.ts)
                 /\ at' = s
                 /\ fired' = Append(fired, s)
                 /\ pc' = "push"
            ELSE UNCHANGED <<last_fired, at, fired, pc>>
  /\ UNCHANGED <<snap, shutdown, offered, announced, snaps>>

(* Mutated form of Report: a spike is dropped when the sink refuses it. *)
ReportStored ==
  /\ pc = "push"
  /\ offered' = offered + 1
  /\ announced' = Append(announced, at) \/ UNCHANGED announced
  /\ at' = Nothing
  /\ pc' = "loop"
  /\ UNCHANGED <<snap, work, welford, last_fired, shutdown, judged, fired, snaps>>

(* push_spike returns, with or without an error; the spike is broadcast.   *)
Report ==
  /\ pc = "push"
  /\ offered' = offered + 1
  /\ announced' = Append(announced, at)
  /\ at' = Nothing
  /\ pc' = "loop"
  /\ UNCHANGED <<snap, work, welford, last_fired, shutdown, judged, fired, snaps>>

LoopEnds ==
  /\ pc = "loop" /\ work = {}
  /\ pc' = "select"
  /\ UNCHANGED <<snap, work, at, welford, last_fired, shutdown, judged, fired, offered,
                 announced, snaps>>

Shutdown ==
  /\ ~shutdown /\ shutdown' = TRUE
  /\ UNCHANGED <<snap, pc, work, at, welford, last_fired, judged, fired, offered, announced, snaps>>

(* The shutdown arm: not before the round of the ticker arm is over. *)
Stop ==
  /\ shutdown /\ pc = "select"
  /\ pc' = "stopped"
  /\ UNCHANGED <<snap, work, at, welford, last_fired, shutdown, judged, fired, offered,
                 announced, snaps>>

Ended == pc = "stopped" /\ UNCHANGED vars

Next ==
  \/ Publish \/ TickOnce
  \/ \E s \in work : Judge(s)
  \/ Report \/ LoopEnds \/ Shutdown \/ Stop \/ Ended

Spec == Init /\ [][Next]_vars

----------------------------------------------------------------------------
TypeOK ==
  /\ DOMAIN snap \subseteq Series
  /\ \A k \in DOMAIN snap : snap[k].slow \in Seq(Value) /\ Len(snap[k].slow) <= SlowCap
  /\ pc \in {"select", "loop", "push", "stopped"}
  /\ \A s \in work : s.key \in Series /\ s.value \in Value /\ s.ts \in Time
  /\ DOMAIN welford \subseteq Series
  /\ \A k \in DOMAIN welford : welford[k].n \in Nat /\ welford[k].m2.num >= 0
  /\ DOMAIN last_fired \subseteq Series
  /\ shutdown \in BOOLEAN

(* Reference definitions: sum, mean and, over a common denominator, the sum *)
(* of squared deviations from the mean; equality of fractions.              *)
SumOf(q) ==
  LET sum[i \in 0..Len(q)] == IF i = 0 THEN 0 ELSE sum[i - 1] + q[i]
  IN  sum[Len(q)]

MeanOf(q) == Frac(SumOf(q), Len(q))

SquaresOf(q) ==
  LET d(i) == Len(q) * q[i] - SumOf(q)
  IN  Frac(SumOf([i \in 1..Len(q) |-> d(i) * d(i)]), Len(q) * Len(q))

Same(f, g) == f.den > 0 /\ g.den > 0 /\ f.num * g.den = g.num * f.den

(* The one-pass update computes what two passes over all judged values      *)
(* would, however ticks, waiting reports and other series interleave.       *)
WelfordExact ==
  \A k \in DOMAIN welford :
    /\ welford[k].n = Len(judged[k])
    /\ Same(welford[k].mean, MeanOf(judged[k]))
    /\ Same(welford[k].m2, SquaresOf(judged[k]))

Among(q, P(_)) == Cardinality({i \in 1..Len(q) : P(q[i])})

(* A spike stands out of its slow tail: more than half of the tail lies     *)
(* strictly nearer to a value that splits the tail in halves than it does.  *)
SpikesStandOut ==
  \A i \in 1..Len(fired) :
    LET x == fired[i].value
        q == fired[i].slow
    IN  \E m \in Value :
          /\ 2 * Among(q, LAMBDA v : v <= m) >= Len(q)
          /\ 2 * Among(q, LAMBDA v : v >= m) >= Len(q)
          /\ 2 * Among(q, LAMBDA v : Abs(v - m) < Abs(x - m)) > Len(q)

(* The spikes of a series are SpikeGap apart and in the order of time, also *)
(* when a sample's time goes back or a sample is judged in many ticks.      *)
SpikesSpaced ==
  \A i, j \in 1..Len(fired) :
    i < j /\ fired[i].key = fired[j].key => fired[i].ts + SpikeGap <= fired[j].ts

(* Every spike is announced once, in the order of detection, and none       *)
(* before the sink has answered for it.                                     *)
ReportedInOrder ==
  /\ announced = SubSeq(fired, 1, offered)
  /\ Len(fired) = IF pc = "push" THEN offered + 1 ELSE offered
============================================================================
