------------------------------- MODULE Clock --------------------------------
(***************************************************************************)
(* Clock alignment: `perfweave validate-clocks` measures the host clock    *)
(* against itself and against a skewed source, fits an affine mapping with *)
(* a Theil-Sen estimator and judges the residual; a fit travels to the     *)
(* collector as unsigned words and is applied there to the timestamps of   *)
(* its node.                                                               *)
(*                                                                         *)
(* An f64 is a whole number of units of 1 / Fine, rounded to Mant          *)
(* significant units: Fine stands for 2^1074, Mant for 2^53, Grains for    *)
(* the spacings of f64 values, Den for 2^30, Word for 2^64 and KeepNum /   *)
(* KeepDen for 9/10, scaled so that few samples show the boundary cases.   *)
(* At today's nanosecond counts the spacing is 256 ns.  The host clock is  *)
(* not stepped back during a measurement.                                  *)
(*                                                                         *)
(* No code calls OffsetHandle::set yet; Ship is what a build that does     *)
(* would send, and what the collector accepts.                             *)
(***************************************************************************)
EXTENDS Integers, Sequences, FiniteSets, OrderStatistics

CONSTANTS Skews,       \* what each source lags behind the host, one per round
          Delay,       \* how long a read of the source may take, before and after
          Gap,         \* between two samples
          N,           \* samples of a measurement
          KeepNum, KeepDen,  \* share of the samples kept, by latency
          MaxResidual, \* budget of validate-clocks
          Mant, Fine, Grains,  \* f64
          Den,         \* denominator of a fitted slope
          Word,        \* 2^64
          StartTime

ASSUME ClockAssumption ==
    /\ N \in Nat \ {0} /\ Den \in Nat \ {0} /\ Word \in Nat \ {0} /\ Gap \in Nat \ {0}
    /\ KeepNum \in 0..KeepDen - 1
    /\ Delay \subseteq Nat /\ StartTime \in Nat /\ Skews \in Seq(Nat) \ {<<>>}
    /\ Den < Word

\* Every spacing but the finest is twice another.
ASSUME F64Assumption ==
    /\ Mant \in Nat \ 0..3 /\ Fine \in Nat \ {0}
    /\ Grains \subseteq Nat \ {0} /\ IsFiniteSet(Grains) /\ 1 \in Grains
    /\ \A u \in Grains : u = 1 \/ \E v \in Grains : u = 2 * v

VARIABLES host,     \* CLOCK_REALTIME
          round,    \* which source is measured
          samples,  \* reads so far: [src, host, lat]
          fit,      \* the ClockOffset measured last, or NoFit
          verdict,  \* "running", "ok" or the reason it bails
          table,    \* the collector's SkewTable entry, or NoFit
          sent      \* history: the fit the entry was made from, or NoFit

ClockVars == <<host, round, samples, fit, verdict, table, sent>>

NoFit == [offset |-> 0, num |-> 1, den |-> 0, residual |-> 0]

ClockInit == /\ host = StartTime /\ round = 1 /\ samples = <<>>
             /\ fit = NoFit /\ verdict = "running" /\ table = NoFit /\ sent = NoFit

-----------------------------------------------------------------------------
(* f64                                                                     *)

\* n / d to the nearest whole number, halves to the even one.
RoundHalfEven(n, d) ==
    LET q == n \div d
        r == n % d
    IN  IF 2 * r < d \/ (2 * r = d /\ q % 2 = 0) THEN q ELSE q + 1

\* The spacing of the f64 values around n / d: the finest that leaves Mant
\* units below them.
Unit(n, d) ==
    LET wide == {u \in Grains : Abs(n) < u * Mant * d \/ \A v \in Grains : v <= u}
    IN  CHOOSE u \in wide : \A v \in wide : u <= v

\* n / d as an f64; `as f64` of a u64; +; *.
F64(n, d)  == Unit(n, d) * RoundHalfEven(n, d * Unit(n, d))
as_f64(n)  == F64(n * Fine, 1)
Add(x, y)  == F64(x + y, 1)
Mul(x, y)  == F64(x * y, Fine)

\* f64::round, to the nearest with halves away from zero, and ceil.
Round(x) == IF x >= 0 THEN (2 * x + Fine) \div (2 * Fine)
                      ELSE -((-2 * x + Fine) \div (2 * Fine))
Ceil(x)  == -((-x) \div Fine)

-----------------------------------------------------------------------------
(* common/clock.rs                                                         *)

\* Mutated form of sorted_middle: sorted[0].
sorted_least(s) == s[CHOOSE m \in DOMAIN s : \A i \in DOMAIN s : s[m] <= s[i]]

\* sorted[len / 2].
sorted_middle(s) == Middle(s, LAMBDA x, y : x < y)

\* The slope of every two samples whose source times differ.  The deltas are
\* below 2^53 and exact, the quotient is rounded.
Slopes(pairs) ==
    [p \in {q \in (DOMAIN pairs) \X (DOMAIN pairs) :
                q[1] < q[2] /\ pairs[q[1]].src # pairs[q[2]].src} |->
        LET ds == pairs[p[2]].src - pairs[p[1]].src
            dh == pairs[p[2]].host - pairs[p[1]].host
        IN  IF ds > 0 THEN F64(dh * Fine, ds) ELSE F64(-dh * Fine, -ds)]

\* The median slope, the median offset under it, the largest residual, all in
\* f64; slope and offset are rounded after the residual is taken.
fit_theil_sen(pairs) ==
    IF Cardinality(DOMAIN pairs) < 2 \/ DOMAIN Slopes(pairs) = {} THEN NoFit
    ELSE LET slope   == sorted_middle(Slopes(pairs))
             along   == [i \in DOMAIN pairs |-> Mul(slope, as_f64(pairs[i].src))]
             offset  == sorted_middle([i \in DOMAIN pairs |->
                            Add(as_f64(pairs[i].host), -along[i])])
             res     == {Abs(Add(as_f64(pairs[i].host), -Add(offset, along[i]))) :
                            i \in DOMAIN pairs}
             worst   == CHOOSE r \in res : \A q \in res : q <= r
         IN  [offset |-> Round(offset), num |-> Round(slope * Den),
              den |-> Den, residual |-> Ceil(worst)]

\* Mutated form of ToWord: a negative number is cut off.
ToWordCut(n) == IF n < 0 THEN 0 ELSE n % Word

\* i128 as u64.
ToWord(n) == n % Word

\* ClockOffset::map, before and after it is cut off at 0 and cast.
Raw(c, src) == c.offset + (c.num * src) \div c.den
Map(c, src) == ToWord(IF Raw(c, src) < 0 THEN 0 ELSE Raw(c, src))

-----------------------------------------------------------------------------
(* agent/clock_sync.rs and cli/validate_clocks.rs                          *)

Source(t) == IF t < Skews[round] THEN 0 ELSE t - Skews[round]

\* One turn of measure's loop: host, source, host; the midpoint is paired.
Sample(d1, d2) ==
    /\ verdict = "running" /\ Len(samples) < N
    /\ samples' = Append(samples, [src |-> Source(host + d1), lat |-> d1 + d2,
                                   host |-> host + (d1 + d2) \div 2])
    /\ host' = host + d1 + d2 + Gap
    /\ UNCHANGED <<round, fit, verdict, table, sent>>

\* The samples whose latency is at most that of sorted_lat[len * 9 / 10].
Filtered ==
    LET cut    == (Len(samples) * KeepNum) \div KeepDen
        Below(l) == Cardinality({i \in DOMAIN samples : samples[i].lat < l})
    IN  [i \in {j \in DOMAIN samples : Below(samples[j].lat) <= cut} |-> samples[i]]

\* measure() returns its fit even when the residual exceeds the limit, and
\* validate-clocks bails then; otherwise it turns to the next source.
Measure ==
    /\ verdict = "running" /\ Len(samples) = N /\ fit = NoFit
    /\ fit' = fit_theil_sen(Filtered)
    /\ verdict' = CASE fit' = NoFit                -> "no fit"
                    [] fit'.residual > MaxResidual -> "residual"
                    [] round = Len(Skews)          -> "ok"
                    [] OTHER                       -> "running"
    /\ UNCHANGED <<host, round, samples, table, sent>>

\* The collector hears nothing of it: what it has stays.
NextSource ==
    /\ verdict = "running" /\ fit # NoFit
    /\ round' = round + 1 /\ samples' = <<>> /\ fit' = NoFit
    /\ UNCHANGED <<host, verdict, table, sent>>

-----------------------------------------------------------------------------
(* latest_proto, and server/ingest/skew.rs                                 *)

\* An identity fit is not sent.
latest_proto == IF fit.offset = 0 /\ fit.num = fit.den /\ fit.residual = 0 THEN NoFit
                ELSE [fit EXCEPT !.offset = ToWord(@), !.num = ToWord(@), !.den = ToWord(@)]

\* A batch carries the fit, and upsert replaces the entry; no entry is ever
\* removed.
Ship == /\ fit # NoFit /\ latest_proto # NoFit
        /\ table' = [latest_proto EXCEPT !.den = IF @ < 1 THEN 1 ELSE @]
        /\ sent' = fit
        /\ UNCHANGED <<host, round, samples, fit, verdict>>

\* SkewTable::map: identity without an entry, else as the agent.
ServerMap(src) == IF table = NoFit THEN src ELSE Map(table, src)

ClockNext == (\E d1, d2 \in Delay : Sample(d1, d2)) \/ Measure \/ NextSource \/ Ship

ClockSpec == ClockInit /\ [][ClockNext]_ClockVars

-----------------------------------------------------------------------------
(* Properties.                                                             *)

More(part, whole) == 2 * Cardinality(part) > Cardinality(whole)

\* What the source of a sample lags behind.
Lag(p) == p.host - p.src

\* f64's spacing around t nanoseconds.
Grain(t) == Unit(t * Fine, 1)

\* A minority of preempted or misread samples does not move the fit of
\* fit_theil_sen: if most kept samples agree on the lag of the source and most
\* of their slopes are 1, the slope is 1 to the bit and the offset is that
\* lag, up to the rounding of the times to f64: twice f64's spacing at twice
\* the time, and the half that rounding to a nanosecond adds.  Nothing is
\* claimed of residual_max_ns, which is taken before slope and offset are
\* rounded.
Recovers ==
    fit # NoFit =>
        LET slopes == Slopes(Filtered)
        IN  \A k \in DOMAIN Filtered :
                /\ More({i \in DOMAIN Filtered : Lag(Filtered[i]) = Lag(Filtered[k])},
                        DOMAIN Filtered)
                /\ More({p \in DOMAIN slopes : slopes[p] = Fine}, DOMAIN slopes)
                => /\ fit.num = fit.den
                   /\ 2 * Abs(fit.offset - Lag(Filtered[k])) * Fine <= 4 * Grain(2 * host) + Fine

\* The collector maps every word exactly as the agent did with the fit it sent
\* last, also when the offset is negative and travels as a huge unsigned word,
\* as long as the mapped time itself is not before the epoch and the slope is
\* below half a word, so that its product with a word fits the 128 bits of the
\* code; and it maps as the agent while only identity fits were made.  After a
\* fit was sent an identity fit is not: the collector keeps the old one, and
\* nothing is claimed of the agent's mapping since.
MapAgrees ==
    LET same(c) == \A src \in 0..Word - 1 : Raw(c, src) >= 0 => ServerMap(src) = Map(c, src)
    IN  /\ table # NoFit /\ 2 * sent.num < Word => same(sent)
        /\ table = NoFit /\ fit # NoFit /\ latest_proto = NoFit => same(fit)
=============================================================================
