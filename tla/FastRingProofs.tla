-------------------------- MODULE FastRingProofs --------------------------
(***************************************************************************)
(* FastRing for every capacity, every set of frames and every timestamp:   *)
(* both rings of a series are what they should be, and so is whatever      *)
(* snapshot readers load.                                                  *)
(***************************************************************************)
EXTENDS FastRing, FiniteSetTheorems, TLAPS

(* The slot that was written d pushes ago, without the modulus. *)
Back(head, d, cap) == IF d <= head THEN head - d ELSE head + cap - d

(* Ring r of capacity cap has been pushed the sequence h. *)
RingHolds(r, cap, h) ==
  /\ r.len = (IF Len(h) < cap THEN Len(h) ELSE cap)
  /\ \A d \in 1..r.len : r.buf[Back(r.head, d, cap)] = h[Len(h) - d + 1]

(* kept is what the slow ring has ever been pushed when its series has      *)
(* been pushed h and last is the time of the last of them.                  *)
KeptOf(kept, h, last) ==
  /\ \A j \in 1..Len(kept) : \E i \in 1..Len(h) : kept[j] = h[i]
  /\ \A i, j \in 1..Len(kept) : i < j => kept[i].ts + Gap <= kept[j].ts
  /\ \A i \in 1..Len(h) :
       \/ \E j \in 1..Len(kept) : kept[j] = h[i]
       \/ h[i].ts < Gap
       \/ \E l \in 1..i - 1 : \E j \in 1..Len(kept) :
            kept[j] = h[l] /\ h[i].ts < h[l].ts + Gap
  /\ last = IF Len(kept) = 0 THEN 0 ELSE kept[Len(kept)].ts

SeriesInv(q, h) ==
  /\ q \in SeriesType
  /\ RingHolds(q.fast, FastCap, h)
  /\ \E kept \in Seq(Sample) :
       RingHolds(q.slow, SlowCap, kept) /\ KeptOf(kept, h, q.last_slow)

CutInv(snap) == \A k \in Key : snap.cut[k] \in 0..Len(hist[k])

(* The inductive invariant. *)
IInv ==
  /\ TypeOK
  /\ DOMAIN writer = {k \in Key : Len(hist[k]) > 0}
  /\ \A k \in DOMAIN writer : SeriesInv(writer[k], hist[k])
  /\ CutInv(snapshot) /\ CutInv(built)
  /\ Faithful(snapshot) /\ Faithful(built)

----------------------------------------------------------------------------
(* The head of a ring moves without the modulus. *)
LEMMA HeadMoves ==
  ASSUME NEW cap \in Nat \ {0}, NEW head \in 0..cap - 1
  PROVE  (head + 1) % cap = IF head + 1 = cap THEN 0 ELSE head + 1
<1>1. CASE head + 1 = cap
  BY <1>1
<1>2. CASE head + 1 # cap
  <2>1. head + 1 \in 0..cap - 1
    BY <1>2
  <2>2. \A x \in 0..cap - 1 : x % cap = x
    OBVIOUS
  <2> QED BY <2>1, <2>2, <1>2
<1> QED BY <1>1, <1>2

(* The slot read_ring reads i-th is the one written len - i + 1 pushes ago. *)
LEMMA ReadIndex ==
  ASSUME NEW cap \in Nat \ {0}, NEW head \in 0..cap - 1, NEW len \in 0..cap,
         NEW i \in 1..len
  PROVE  (((head + cap - len) % cap) + i - 1) % cap = Back(head, len - i + 1, cap)
<1> DEFINE start == (head + cap - len) % cap
<1>1. /\ \A x \in 0..cap - 1 : x % cap = x
      /\ \A x \in cap..2 * cap - 1 : x % cap = x - cap
  OBVIOUS
<1>2. start = IF head < len THEN head + cap - len ELSE head - len
  <2>1. CASE head < len
    <3>1. head + cap - len \in 0..cap - 1
      BY <2>1
    <3> QED BY <3>1, <2>1, <1>1
  <2>2. CASE ~(head < len)
    <3>1. head + cap - len \in cap..2 * cap - 1
      BY <2>2
    <3>2. start = head + cap - len - cap
      BY <3>1, <1>1
    <3> QED BY <3>2, <2>2
  <2> QED BY <2>1, <2>2
<1> HIDE DEF start
<1>3. CASE start + i - 1 < cap
  <2>1. start + i - 1 \in 0..cap - 1
    BY <1>2, <1>3
  <2>2. (start + i - 1) % cap = start + i - 1
    BY <2>1, <1>1
  <2> QED BY <2>2, <1>2, <1>3 DEF Back, start
<1>4. CASE ~(start + i - 1 < cap)
  <2>1. start + i - 1 \in cap..2 * cap - 1
    BY <1>2, <1>4
  <2> DEFINE x == start + i - 1
  <2>2. x % cap = x - cap
    <3> HIDE DEF x
    <3> QED BY <2>1, <1>1 DEF x
  <2> QED BY <2>2, <1>2, <1>4 DEF Back, start
<1> QED BY <1>3, <1>4

(* When the head moves on, a slot is one push further back. *)
LEMMA BackMoves ==
  ASSUME NEW cap \in Nat \ {0}, NEW head \in 0..cap - 1, NEW d \in 2..cap
  PROVE  /\ Back(IF head + 1 = cap THEN 0 ELSE head + 1, d, cap) = Back(head, d - 1, cap)
         /\ Back(head, d - 1, cap) \in 0..cap - 1
         /\ Back(head, d - 1, cap) # head
<1>1. CASE d - 1 <= head
  BY <1>1 DEF Back
<1>2. CASE ~(d - 1 <= head)
  <2>1. head + 1 # cap /\ ~(d <= head + 1)
    BY <1>2
  <2>2. Back(head, d - 1, cap) = head + cap - (d - 1)
    BY <1>2 DEF Back
  <2>3. Back(head + 1, d, cap) = head + 1 + cap - d
    BY <2>1 DEF Back
  <2>4. head + 1 + cap - d = head + cap - (d - 1)
    OBVIOUS
  <2>5. head + cap - (d - 1) \in 0..cap - 1 /\ head + cap - (d - 1) # head
    BY <1>2
  <2> QED BY <2>1, <2>2, <2>3, <2>4, <2>5
<1> QED BY <1>1, <1>2

(* A push into a ring (buffer, head and length together) appends to what    *)
(* the ring has been pushed.                                                *)
LEMMA RingPushHolds ==
  ASSUME NEW cap \in Nat \ {0}, NEW r \in RingType(cap), NEW s \in Sample,
         NEW h \in Seq(Sample), RingHolds(r, cap, h)
  PROVE  /\ RingPush(r, cap, s) \in RingType(cap)
         /\ RingHolds(RingPush(r, cap, s), cap, Append(h, s))
<1> DEFINE r1 == RingPush(r, cap, s)
           h1 == Append(h, s)
<1>1. /\ r.head \in 0..cap - 1 /\ r.len \in 0..cap
      /\ r.buf \in [0..cap - 1 -> Sample]
      /\ r.len = (IF Len(h) < cap THEN Len(h) ELSE cap)
  BY DEF RingType, RingHolds
<1>2. r1.head = IF r.head + 1 = cap THEN 0 ELSE r.head + 1
  BY <1>1, HeadMoves DEF RingPush
<1>3. /\ r1.len = (IF r.len < cap THEN r.len + 1 ELSE r.len)
      /\ r1.buf = [r.buf EXCEPT ![r.head] = s]
  BY DEF RingPush
<1>4. r1 \in RingType(cap)
  <2>1. r1.head \in 0..cap - 1
    BY <1>1, <1>2
  <2>2. r1.len \in 0..cap
    BY <1>1, <1>3
  <2>3. r1.buf \in [0..cap - 1 -> Sample]
    BY <1>1, <1>3
  <2>4. r1 = [buf |-> r1.buf, head |-> r1.head, len |-> r1.len]
    BY DEF RingPush
  <2> QED BY <2>1, <2>2, <2>3, <2>4 DEF RingType
<1>5. /\ Len(h) \in Nat /\ Len(h1) = Len(h) + 1
      /\ h1[Len(h) + 1] = s
      /\ \A i \in 1..Len(h) : h1[i] = h[i]
  OBVIOUS
<1>6. r1.len = (IF Len(h1) < cap THEN Len(h1) ELSE cap)
  BY <1>1, <1>3, <1>5
<1>7. ASSUME NEW d \in 1..r1.len
      PROVE  r1.buf[Back(r1.head, d, cap)] = h1[Len(h1) - d + 1]
  <2>1. CASE d = 1
    <3>1. Back(r1.head, d, cap) = r.head
      BY <1>1, <1>2, <2>1 DEF Back
    <3>2. r1.buf[r.head] = s
      BY <1>1, <1>3
    <3> QED BY <3>1, <3>2, <1>5, <2>1
  <2>2. CASE d > 1
    <3>1. /\ d - 1 \in 1..r.len /\ d \in Nat /\ d <= cap
          /\ Len(h1) - d + 1 = Len(h) - (d - 1) + 1
          /\ Len(h) - (d - 1) + 1 \in 1..Len(h)
      BY <1>1, <1>3, <1>5, <2>2
    <3>2. /\ Back(r1.head, d, cap) = Back(r.head, d - 1, cap)
          /\ Back(r.head, d - 1, cap) \in 0..cap - 1
          /\ Back(r.head, d - 1, cap) # r.head
      <4>1. d \in 2..cap
        BY <3>1, <2>2
      <4>2. /\ Back(IF r.head + 1 = cap THEN 0 ELSE r.head + 1, d, cap)
                = Back(r.head, d - 1, cap)
            /\ Back(r.head, d - 1, cap) \in 0..cap - 1
            /\ Back(r.head, d - 1, cap) # r.head
        BY <1>1, <4>1, BackMoves
      <4> QED BY <4>2, <1>2
    <3>3. r1.buf[Back(r.head, d - 1, cap)] = r.buf[Back(r.head, d - 1, cap)]
      BY <1>1, <1>3, <3>2
    <3>4. r.buf[Back(r.head, d - 1, cap)] = h[Len(h) - (d - 1) + 1]
      BY <3>1 DEF RingHolds
    <3> QED BY <3>1, <3>2, <3>3, <3>4, <1>5
  <2> QED BY <2>1, <2>2, <1>1, <1>3
<1> QED BY <1>4, <1>6, <1>7 DEF RingHolds

(* read_ring returns the newest pushes, at most the capacity of them, the   *)
(* oldest first, wherever the head is.                                      *)
LEMMA ReadRing ==
  ASSUME NEW cap \in Nat \ {0}, NEW r \in RingType(cap),
         NEW h \in Seq(Sample), RingHolds(r, cap, h)
  PROVE  read_ring(r, cap) = Newest(h, cap)
<1>1. /\ r.head \in 0..cap - 1 /\ r.len \in 0..cap
      /\ r.len = (IF Len(h) < cap THEN Len(h) ELSE cap)
      /\ Len(h) \in Nat
  BY DEF RingType, RingHolds
<1>2. ASSUME NEW i \in 1..r.len
      PROVE  r.buf[(((r.head + cap - r.len) % cap) + i - 1) % cap] = h[Len(h) - r.len + i]
  <2>1. /\ r.len - i + 1 \in 1..r.len
        /\ Len(h) - (r.len - i + 1) + 1 = Len(h) - r.len + i
    BY <1>1
  <2>2. (((r.head + cap - r.len) % cap) + i - 1) % cap = Back(r.head, r.len - i + 1, cap)
    BY <1>1, ReadIndex
  <2>3. r.buf[Back(r.head, r.len - i + 1, cap)] = h[Len(h) - (r.len - i + 1) + 1]
    BY <2>1 DEF RingHolds
  <2> QED BY <2>1, <2>2, <2>3
<1>3. read_ring(r, cap) = [i \in 1..r.len |-> h[Len(h) - r.len + i]]
  BY <1>2 DEF read_ring
<1>4. CASE Len(h) <= cap
  <2>1. r.len = Len(h)
    BY <1>1, <1>4
  <2>2. \A i \in 1..r.len : h[Len(h) - r.len + i] = h[i]
    BY <2>1, <1>1
  <2>3. h = [i \in 1..Len(h) |-> h[i]]
    OBVIOUS
  <2>4. read_ring(r, cap) = [i \in 1..Len(h) |-> h[i]]
    BY <2>1, <2>2, <1>3
  <2> QED BY <2>3, <2>4, <1>4 DEF Newest
<1>5. CASE ~(Len(h) <= cap)
  <2>1. r.len = cap
    BY <1>1, <1>5
  <2> QED BY <2>1, <1>3, <1>5 DEF Newest
<1> QED BY <1>4, <1>5

----------------------------------------------------------------------------
(* A new series has been pushed nothing. *)
LEMMA NewSeriesInv == SeriesInv(NewSeries, << >>)
<1>1. Zero \in Sample
  BY DEF Zero, Sample
<1>2. \A cap \in Nat \ {0} : EmptyRing(cap) \in RingType(cap) /\ RingHolds(EmptyRing(cap), cap, << >>)
  BY <1>1 DEF EmptyRing, RingType, RingHolds
<1>3. NewSeries \in SeriesType
  BY <1>2, FastRingAssumption DEF NewSeries, SeriesType
<1>4. << >> \in Seq(Sample) /\ KeptOf(<< >>, << >>, 0)
  BY DEF KeptOf
<1>5. RingHolds(NewSeries.slow, SlowCap, << >>) /\ RingHolds(NewSeries.fast, FastCap, << >>)
  BY <1>2, FastRingAssumption DEF NewSeries
<1>6. NewSeries.last_slow = 0
  BY DEF NewSeries
<1> QED BY <1>3, <1>4, <1>5, <1>6 DEF SeriesInv

(* Keeping a sample that comes Gap after the last one kept. *)
LEMMA KeepsOn ==
  ASSUME NEW h \in Seq(Sample), NEW kept \in Seq(Sample), NEW last \in Nat,
         KeptOf(kept, h, last), NEW s \in Sample, s.ts >= last + Gap
  PROVE  KeptOf(Append(kept, s), Append(h, s), s.ts)
<1> DEFINE k1 == Append(kept, s)
           h1 == Append(h, s)
<1>1. /\ Len(kept) \in Nat /\ Len(k1) = Len(kept) + 1 /\ k1[Len(kept) + 1] = s
      /\ \A j \in 1..Len(kept) : k1[j] = kept[j]
      /\ Len(h) \in Nat /\ Len(h1) = Len(h) + 1 /\ h1[Len(h) + 1] = s
      /\ \A i \in 1..Len(h) : h1[i] = h[i]
      /\ \A j \in 1..Len(kept) : kept[j] \in Sample
  OBVIOUS
<1> HIDE DEF k1, h1
<1>2. \A j \in 1..Len(k1) : \E i \in 1..Len(h1) : k1[j] = h1[i]
  <2> TAKE j \in 1..Len(k1)
  <2>1. CASE j \in 1..Len(kept)
    <3>1. PICK i \in 1..Len(h) : kept[j] = h[i]
      BY <2>1 DEF KeptOf
    <3> QED BY <3>1, <2>1, <1>1
  <2>2. CASE j = Len(kept) + 1
    BY <2>2, <1>1
  <2> QED BY <2>1, <2>2, <1>1
<1>3. \A i, j \in 1..Len(k1) : i < j => k1[i].ts + Gap <= k1[j].ts
  <2> SUFFICES ASSUME NEW i \in 1..Len(k1), NEW j \in 1..Len(k1), i < j
               PROVE  k1[i].ts + Gap <= k1[j].ts
    OBVIOUS
  <2>1. CASE j \in 1..Len(kept)
    <3>1. i \in 1..Len(kept)
      BY <2>1, <1>1
    <3>2. kept[i].ts + Gap <= kept[j].ts
      BY <3>1, <2>1 DEF KeptOf
    <3> QED BY <3>1, <3>2, <2>1, <1>1
  <2>2. CASE j = Len(kept) + 1
    <3>1. i \in 1..Len(kept) /\ Len(kept) \in 1..Len(kept) /\ Len(kept) # 0
      BY <2>2, <1>1
    <3>2. last = kept[Len(kept)].ts
      BY <3>1 DEF KeptOf
    <3>3. kept[i].ts <= last
      <4>1. CASE i = Len(kept)
        BY <4>1, <3>2, <3>1, <1>1 DEF Sample
      <4>2. CASE i < Len(kept)
        <5>1. kept[i].ts + Gap <= last
          BY <4>2, <3>1, <3>2 DEF KeptOf
        <5>2. kept[i].ts \in Nat
          BY <3>1, <1>1 DEF Sample
        <5> QED BY <5>1, <5>2, FastRingAssumption
      <4> QED BY <4>1, <4>2, <3>1
    <3>4. kept[i].ts \in Nat /\ s.ts \in Nat
      BY <3>1, <1>1 DEF Sample
    <3>5. kept[i].ts + Gap <= s.ts
      BY <3>3, <3>4, FastRingAssumption
    <3> QED BY <3>5, <3>1, <2>2, <1>1
  <2> QED BY <2>1, <2>2, <1>1
<1>4. \A i \in 1..Len(h1) :
        \/ \E j \in 1..Len(k1) : k1[j] = h1[i]
        \/ h1[i].ts < Gap
        \/ \E l \in 1..i - 1 : \E j \in 1..Len(k1) :
             k1[j] = h1[l] /\ h1[i].ts < h1[l].ts + Gap
  <2> TAKE i \in 1..Len(h1)
  <2>1. CASE i = Len(h) + 1
    BY <2>1, <1>1
  <2>2. CASE i \in 1..Len(h)
    <3>1. \A l \in 1..i - 1 : l \in 1..Len(h) /\ h1[l] = h[l]
      BY <2>2, <1>1
    <3>2. h1[i] = h[i] /\ \A j \in 1..Len(kept) : j \in 1..Len(k1) /\ k1[j] = kept[j]
      BY <2>2, <1>1
    <3>3. \/ \E j \in 1..Len(kept) : kept[j] = h[i]
          \/ h[i].ts < Gap
          \/ \E l \in 1..i - 1 : \E j \in 1..Len(kept) :
               kept[j] = h[l] /\ h[i].ts < h[l].ts + Gap
      BY <2>2 DEF KeptOf
    <3> QED BY <3>1, <3>2, <3>3
  <2> QED BY <2>1, <2>2, <1>1
<1>5. s.ts = IF Len(k1) = 0 THEN 0 ELSE k1[Len(k1)].ts
  BY <1>1
<1> QED BY <1>2, <1>3, <1>4, <1>5 DEF KeptOf, k1, h1

(* Passing over a sample that comes too early. *)
LEMMA PassesOver ==
  ASSUME NEW h \in Seq(Sample), NEW kept \in Seq(Sample), NEW last \in Nat,
         KeptOf(kept, h, last), NEW s \in Sample, ~(s.ts >= last + Gap)
  PROVE  KeptOf(kept, Append(h, s), last)
<1> DEFINE h1 == Append(h, s)
<1>1. /\ Len(kept) \in Nat
      /\ Len(h) \in Nat /\ Len(h1) = Len(h) + 1 /\ h1[Len(h) + 1] = s
      /\ \A i \in 1..Len(h) : h1[i] = h[i]
      /\ s.ts \in Nat
  BY DEF Sample
<1> HIDE DEF h1
<1>2. \A j \in 1..Len(kept) : \E i \in 1..Len(h1) : kept[j] = h1[i]
  <2> TAKE j \in 1..Len(kept)
  <2>1. PICK i \in 1..Len(h) : kept[j] = h[i]
    BY DEF KeptOf
  <2> QED BY <2>1, <1>1
<1>3. \A i \in 1..Len(h1) :
        \/ \E j \in 1..Len(kept) : kept[j] = h1[i]
        \/ h1[i].ts < Gap
        \/ \E l \in 1..i - 1 : \E j \in 1..Len(kept) :
             kept[j] = h1[l] /\ h1[i].ts < h1[l].ts + Gap
  <2> TAKE i \in 1..Len(h1)
  <2>1. CASE i = Len(h) + 1
    <3>1. s.ts < last + Gap
      BY <1>1, FastRingAssumption
    <3>2. CASE Len(kept) = 0
      <4>1. last = 0
        BY <3>2 DEF KeptOf
      <4> QED BY <4>1, <3>1, <2>1, <1>1, FastRingAssumption
    <3>3. CASE Len(kept) # 0
      <4>1. Len(kept) \in 1..Len(kept) /\ last = kept[Len(kept)].ts
        BY <3>3, <1>1 DEF KeptOf
      <4>2. PICK l \in 1..Len(h) : kept[Len(kept)] = h[l]
        BY <4>1 DEF KeptOf
      <4>3. l \in 1..i - 1 /\ kept[Len(kept)] = h1[l] /\ h1[i].ts < h1[l].ts + Gap
        BY <4>1, <4>2, <3>1, <2>1, <1>1
      <4> QED BY <4>1, <4>3
    <3> QED BY <3>2, <3>3
  <2>2. CASE i \in 1..Len(h)
    <3>1. h1[i] = h[i] /\ \A l \in 1..i - 1 : h1[l] = h[l]
      BY <2>2, <1>1
    <3>2. \/ \E j \in 1..Len(kept) : kept[j] = h[i]
          \/ h[i].ts < Gap
          \/ \E l \in 1..i - 1 : \E j \in 1..Len(kept) :
               kept[j] = h[l] /\ h[i].ts < h[l].ts + Gap
      BY <2>2 DEF KeptOf
    <3> QED BY <3>1, <3>2
  <2> QED BY <2>1, <2>2, <1>1
<1> QED BY <1>2, <1>3 DEF KeptOf, h1

(* SeriesRing::push keeps both rings in step with the pushes. *)
LEMMA SeriesPushInv ==
  ASSUME NEW q, NEW h \in Seq(Sample), NEW s \in Sample, SeriesInv(q, h)
  PROVE  SeriesInv(SeriesPush(q, s), Append(h, s))
<1> DEFINE q1 == SeriesPush(q, s)
           h1 == Append(h, s)
<1>1. PICK kept \in Seq(Sample) :
        RingHolds(q.slow, SlowCap, kept) /\ KeptOf(kept, h, q.last_slow)
  BY DEF SeriesInv
<1>2. /\ q.slow \in RingType(SlowCap) /\ q.fast \in RingType(FastCap)
      /\ q.last_slow \in Nat
      /\ q = [slow |-> q.slow, fast |-> q.fast, last_slow |-> q.last_slow]
      /\ FastCap \in Nat \ {0} /\ SlowCap \in Nat \ {0}
      /\ s.ts \in Nat
  BY FastRingAssumption DEF SeriesInv, SeriesType, Sample
<1>3. /\ RingPush(q.fast, FastCap, s) \in RingType(FastCap)
      /\ RingHolds(RingPush(q.fast, FastCap, s), FastCap, h1)
  BY <1>2, RingPushHolds DEF SeriesInv
<1>4. CASE s.ts >= q.last_slow + Gap
  <2>1. q1 = [slow      |-> RingPush(q.slow, SlowCap, s),
              fast      |-> RingPush(q.fast, FastCap, s),
              last_slow |-> s.ts]
    BY <1>4 DEF SeriesPush
  <2>2. /\ RingPush(q.slow, SlowCap, s) \in RingType(SlowCap)
        /\ RingHolds(RingPush(q.slow, SlowCap, s), SlowCap, Append(kept, s))
    BY <1>1, <1>2, RingPushHolds
  <2>3. KeptOf(Append(kept, s), h1, s.ts)
    BY <1>1, <1>2, <1>4, KeepsOn
  <2>4. Append(kept, s) \in Seq(Sample)
    OBVIOUS
  <2>5. q1 \in SeriesType
    BY <2>1, <2>2, <1>2, <1>3 DEF SeriesType
  <2>6. q1.slow = RingPush(q.slow, SlowCap, s) /\ q1.fast = RingPush(q.fast, FastCap, s)
        /\ q1.last_slow = s.ts
    BY <2>1
  <2> HIDE DEF q1, h1
  <2> QED BY <2>2, <2>3, <2>4, <2>5, <2>6, <1>3 DEF SeriesInv, q1, h1
<1>5. CASE ~(s.ts >= q.last_slow + Gap)
  <2>1. q1 = [slow      |-> q.slow,
              fast      |-> RingPush(q.fast, FastCap, s),
              last_slow |-> q.last_slow]
    BY <1>2, <1>5 DEF SeriesPush
  <2>2. KeptOf(kept, h1, q.last_slow)
    BY <1>1, <1>2, <1>5, PassesOver
  <2>3. q1 \in SeriesType
    BY <2>1, <1>2, <1>3 DEF SeriesType
  <2>4. q1.slow = q.slow /\ q1.fast = RingPush(q.fast, FastCap, s) /\ q1.last_slow = q.last_slow
    BY <2>1
  <2> HIDE DEF q1, h1
  <2> QED BY <2>2, <2>3, <2>4, <1>1, <1>3 DEF SeriesInv, q1, h1
<1> QED BY <1>4, <1>5

(* What the slow ring holds of the kept samples decimates the pushes. *)
LEMMA KeptDecimates ==
  ASSUME NEW h \in Seq(Sample), NEW kept \in Seq(Sample), NEW last,
         KeptOf(kept, h, last)
  PROVE  Decimates(Newest(kept, SlowCap), h)
<1> DEFINE slow == Newest(kept, SlowCap)
           n    == IF Len(kept) <= SlowCap THEN 0 ELSE Len(kept) - SlowCap
<1>1. SlowCap \in Nat \ {0} /\ Gap \in Nat \ {0} /\ Len(kept) \in Nat
  BY FastRingAssumption
<1>2. /\ Len(slow) = Len(kept) - n /\ Len(slow) \in Nat
      /\ \A j \in 1..Len(slow) : slow[j] = kept[n + j]
  <2>1. CASE Len(kept) <= SlowCap
    BY <2>1, <1>1 DEF Newest
  <2>2. CASE ~(Len(kept) <= SlowCap)
    <3>1. slow = [i \in 1..SlowCap |-> kept[Len(kept) - SlowCap + i]]
      BY <2>2 DEF Newest
    <3>2. Len(slow) = SlowCap
      BY <3>1, <1>1
    <3> QED BY <3>1, <3>2, <2>2, <1>1
  <2> QED BY <2>1, <2>2
<1>3. /\ n \in Nat /\ n <= Len(kept)
      /\ n > 0 => Len(slow) = SlowCap /\ 1 \in 1..Len(slow)
  BY <1>1, <1>2
<1> HIDE DEF slow, n
<1>4. \A j \in 1..Len(slow) : n + j \in 1..Len(kept)
  BY <1>2, <1>3, <1>1
<1>5. \A j \in 1..Len(kept) : j > n => j - n \in 1..Len(slow) /\ slow[j - n] = kept[j]
  BY <1>2, <1>3, <1>1
<1>6. \A j \in 1..Len(kept) : kept[j].ts \in Nat
  <2>1. \A j \in 1..Len(kept) : kept[j] \in Sample
    OBVIOUS
  <2> QED BY <2>1 DEF Sample
<1>7. \A j \in 1..Len(kept) : j <= n => kept[j].ts + Gap <= slow[1].ts
  <2> SUFFICES ASSUME NEW j \in 1..Len(kept), j <= n
               PROVE  kept[j].ts + Gap <= slow[1].ts
    OBVIOUS
  <2>1. 1 \in 1..Len(slow) /\ slow[1] = kept[n + 1]
    BY <1>2, <1>3
  <2>2. n + 1 \in 1..Len(kept) /\ j < n + 1
    BY <2>1, <1>3, <1>4
  <2> QED BY <2>1, <2>2 DEF KeptOf
<1>8. \A j \in 1..Len(slow) : \E i \in 1..Len(h) : slow[j] = h[i]
  <2> TAKE j \in 1..Len(slow)
  <2>1. PICK i \in 1..Len(h) : kept[n + j] = h[i]
    BY <1>4 DEF KeptOf
  <2> QED BY <2>1, <1>2
<1>9. \A j \in 1..Len(slow) - 1 : slow[j].ts + Gap <= slow[j + 1].ts
  <2> TAKE j \in 1..Len(slow) - 1
  <2>1. j \in 1..Len(slow) /\ j + 1 \in 1..Len(slow) /\ n + j < n + (j + 1)
    BY <1>2, <1>3
  <2>2. kept[n + j].ts + Gap <= kept[n + (j + 1)].ts
    BY <2>1, <1>4 DEF KeptOf
  <2> QED BY <2>1, <2>2, <1>2
<1>10. ASSUME NEW i \in 1..Len(h)
       PROVE  \/ \E j \in 1..Len(slow) : slow[j] = h[i]
              \/ h[i].ts < Gap
              \/ \E l \in 1..i - 1 : /\ \E j \in 1..Len(slow) : slow[j] = h[l]
                                     /\ h[i].ts < h[l].ts + Gap
              \/ Len(slow) = SlowCap /\ h[i].ts < slow[1].ts
  <2>1. h[i].ts \in Nat
    <3>1. h[i] \in Sample
      OBVIOUS
    <3> QED BY <3>1 DEF Sample
  <2>2. CASE \E j \in 1..Len(kept) : kept[j] = h[i]
    <3>1. PICK j \in 1..Len(kept) : kept[j] = h[i]
      BY <2>2
    <3>2. CASE j > n
      BY <3>1, <3>2, <1>5
    <3>3. CASE j <= n
      <4>1. h[i].ts + Gap <= slow[1].ts /\ Len(slow) = SlowCap
        BY <3>1, <3>3, <1>3, <1>7
      <4>2. n + 1 \in 1..Len(kept) /\ slow[1] = kept[n + 1]
        BY <3>3, <1>2, <1>3, <1>4
      <4>3. slow[1].ts \in Nat
        BY <4>2, <1>6
      <4> QED BY <4>1, <4>3, <2>1, <1>1
    <3> QED BY <3>2, <3>3, <1>3
  <2>3. CASE \E l \in 1..i - 1 : \E j \in 1..Len(kept) :
               kept[j] = h[l] /\ h[i].ts < h[l].ts + Gap
    <3>1. PICK l \in 1..i - 1, j \in 1..Len(kept) :
             kept[j] = h[l] /\ h[i].ts < h[l].ts + Gap
      BY <2>3
    <3>2. CASE j > n
      BY <3>1, <3>2, <1>5
    <3>3. CASE j <= n
      <4>1. h[l].ts + Gap <= slow[1].ts /\ Len(slow) = SlowCap
        BY <3>1, <3>3, <1>3, <1>7
      <4>2. n + 1 \in 1..Len(kept) /\ slow[1] = kept[n + 1]
        BY <3>3, <1>2, <1>3, <1>4
      <4>3. slow[1].ts \in Nat /\ h[l].ts \in Nat
        BY <4>2, <3>1, <1>6
      <4>4. h[i].ts < slow[1].ts
        BY <4>1, <4>3, <3>1, <2>1, <1>1
      <4> QED BY <4>1, <4>4
    <3> QED BY <3>2, <3>3, <1>3
  <2> QED BY <2>2, <2>3 DEF KeptOf
<1> QED BY <1>8, <1>9, <1>10 DEF Decimates, slow

(* What publish copies of a series is right for the pushes so far. *)
LEMMA SeriesView ==
  ASSUME NEW q, NEW h \in Seq(Sample), SeriesInv(q, h)
  PROVE  /\ read_ring(q.fast, FastCap) = Newest(h, FastCap)
         /\ Decimates(read_ring(q.slow, SlowCap), h)
<1>1. PICK kept \in Seq(Sample) :
        RingHolds(q.slow, SlowCap, kept) /\ KeptOf(kept, h, q.last_slow)
  BY DEF SeriesInv
<1>2. /\ q.slow \in RingType(SlowCap) /\ q.fast \in RingType(FastCap)
      /\ RingHolds(q.fast, FastCap, h)
      /\ FastCap \in Nat \ {0} /\ SlowCap \in Nat \ {0}
  BY FastRingAssumption DEF SeriesInv, SeriesType
<1>3. read_ring(q.slow, SlowCap) = Newest(kept, SlowCap)
  BY <1>1, <1>2, ReadRing
<1>4. read_ring(q.fast, FastCap) = Newest(h, FastCap)
  BY <1>2, ReadRing
<1>5. Decimates(Newest(kept, SlowCap), h)
  BY <1>1, KeptDecimates
<1> QED BY <1>3, <1>4, <1>5

----------------------------------------------------------------------------
(* A snapshot stays right while its series are pushed to. *)
LEMMA FaithfulStays ==
  ASSUME NEW snap, CutInv(snap), Faithful(snap), TypeOK, TypeOK',
         \A k \in Key : /\ Len(hist[k]) <= Len(hist'[k])
                        /\ \A i \in 1..Len(hist[k]) : hist'[k][i] = hist[k][i]
  PROVE  /\ \A k \in Key : snap.cut[k] \in 0..Len(hist'[k])
         /\ \A k \in DOMAIN snap.series :
              LET h == Prefix(hist'[k], snap.cut[k])
              IN  /\ snap.series[k].fast = Newest(h, FastCap)
                  /\ Decimates(snap.series[k].slow, h)
<1>1. \A k \in Key : hist[k] \in Seq(Sample) /\ hist'[k] \in Seq(Sample)
  BY DEF TypeOK
<1>2. \A k \in Key : snap.cut[k] \in 0..Len(hist'[k])
  BY <1>1 DEF CutInv
<1>3. \A k \in Key : Prefix(hist'[k], snap.cut[k]) = Prefix(hist[k], snap.cut[k])
  <2> TAKE k \in Key
  <2>1. \A i \in 1..snap.cut[k] : hist'[k][i] = hist[k][i]
    BY <1>1 DEF CutInv
  <2> QED BY <2>1 DEF Prefix
<1> QED BY <1>2, <1>3 DEF Faithful

(* The initial states satisfy the invariant. *)
LEMMA InitIInv == Init => IInv
<1> SUFFICES ASSUME Init PROVE IInv
  OBVIOUS
<1> USE DEF Init
<1>1. Zero \in Sample
  BY DEF Zero, Sample
<1>2. TypeOK
  <2>1. task \in [Stream -> [ts : Nat, frame : Frame \cup {NoFrame}, next : Nat \ {0}]]
    OBVIOUS
  <2>2. DOMAIN writer \subseteq Key /\ \A k \in DOMAIN writer : writer[k] \in SeriesType
    OBVIOUS
  <2>3. hist \in [Key -> Seq(Sample)]
    OBVIOUS
  <2>4. publisher \in {"idle", "built", "stopped"} /\ shutdown \in BOOLEAN /\ begun \subseteq Frame
    OBVIOUS
  <2> HIDE DEF Init
  <2> QED BY <2>1, <2>2, <2>3, <2>4 DEF TypeOK
<1>3. DOMAIN writer = {k \in Key : Len(hist[k]) > 0}
  BY Zenon, SMT
<1>4. \A k \in DOMAIN writer : SeriesInv(writer[k], hist[k])
  OBVIOUS
<1>5. CutInv(NoSnapshot) /\ Faithful(NoSnapshot)
  BY DEF CutInv, NoSnapshot, Faithful
<1> QED BY <1>2, <1>3, <1>4, <1>5 DEF IInv

(* A push (under the writer mutex) preserves the invariant. *)
LEMMA PushIInv ==
  ASSUME IInv, NEW s \in Stream, Push(s)
  PROVE  IInv'
<1> DEFINE key    == PointsOf[task[s].frame][task[s].next]
           sample == [ts |-> task[s].ts, frame |-> task[s].frame, point |-> task[s].next]
           ring   == IF key \in DOMAIN writer THEN writer[key] ELSE NewSeries
<1>1. /\ key \in Key /\ sample \in Sample
      /\ task \in [Stream -> [ts : Nat, frame : Frame \cup {NoFrame}, next : Nat \ {0}]]
      /\ hist \in [Key -> Seq(Sample)] /\ hist[key] \in Seq(Sample)
  <2>1. /\ task \in [Stream -> [ts : Nat, frame : Frame \cup {NoFrame}, next : Nat \ {0}]]
        /\ hist \in [Key -> Seq(Sample)]
    BY DEF IInv, TypeOK
  <2>2. Busy(s)
    BY DEF Push
  <2>3. sample \in Sample
    BY <2>1 DEF Sample
  <2>4. PointsOf[task[s].frame] \in Seq(Key) /\ task[s].next \in 1..Len(PointsOf[task[s].frame])
    BY <2>1, <2>2, FastRingAssumption DEF Busy
  <2>5. key \in Key
    BY <2>4
  <2> HIDE DEF key, sample
  <2> QED BY <2>1, <2>3, <2>5
<1>2. /\ writer' = [k \in DOMAIN writer \cup {key} |->
                      IF k = key THEN SeriesPush(ring, sample) ELSE writer[k]]
      /\ hist' = [hist EXCEPT ![key] = Append(@, sample)]
      /\ task' = [task EXCEPT ![s].next = @ + 1]
      /\ UNCHANGED <<begun, publisher, built, snapshot, shutdown>>
  BY DEF Push
<1>3. SeriesInv(ring, hist[key])
  <2>1. CASE key \in DOMAIN writer
    BY <2>1 DEF IInv
  <2>2. CASE key \notin DOMAIN writer
    <3>1. hist[key] = << >>
      BY <2>2, <1>1 DEF IInv
    <3> QED BY <3>1, <2>2, NewSeriesInv
  <2> QED BY <2>1, <2>2
<1> HIDE DEF ring, key, sample
<1>4. SeriesInv(SeriesPush(ring, sample), Append(hist[key], sample))
  BY <1>1, <1>3, SeriesPushInv
<1>5. /\ hist' \in [Key -> Seq(Sample)]
      /\ hist'[key] = Append(hist[key], sample)
      /\ \A k \in Key : k # key => hist'[k] = hist[k]
  BY <1>1, <1>2
<1>6. DOMAIN writer' = DOMAIN writer \cup {key}
  BY <1>2
<1>7. \A k \in DOMAIN writer' : SeriesInv(writer'[k], hist'[k])
  BY <1>1, <1>2, <1>4, <1>5 DEF IInv
<1>8. DOMAIN writer' = {k \in Key : Len(hist'[k]) > 0}
  <2>1. Len(hist'[key]) > 0
    BY <1>1, <1>5
  <2> QED BY <2>1, <1>1, <1>5, <1>6 DEF IInv
<1>9. TypeOK'
  <2>1. \A k \in DOMAIN writer' : writer'[k] \in SeriesType
    BY <1>7 DEF SeriesInv
  <2>2. task' \in [Stream -> [ts : Nat, frame : Frame \cup {NoFrame}, next : Nat \ {0}]]
    <3> DEFINE T == [ts : Nat, frame : Frame \cup {NoFrame}, next : Nat \ {0}]
               t == [task[s] EXCEPT !.next = @ + 1]
    <3>1. task[s] \in T
      BY <1>1
    <3>2. t \in T
      BY <3>1
    <3>3. task' = [task EXCEPT ![s] = t]
      BY <1>2
    <3> HIDE DEF T, t
    <3>4. task \in [Stream -> T]
      BY <1>1 DEF T
    <3>5. task' \in [Stream -> T]
      BY <3>2, <3>3, <3>4
    <3> QED BY <3>5 DEF T
  <2>3. DOMAIN writer' \subseteq Key
    BY <1>8
  <2> QED BY <2>1, <2>2, <2>3, <1>2, <1>5 DEF IInv, TypeOK
<1>10. \A k \in Key : /\ Len(hist[k]) <= Len(hist'[k])
                      /\ \A i \in 1..Len(hist[k]) : hist'[k][i] = hist[k][i]
  <2> TAKE k \in Key
  <2>1. hist[k] \in Seq(Sample)
    BY <1>1
  <2>2. CASE k = key
    BY <2>1, <2>2, <1>1, <1>5
  <2>3. CASE k # key
    BY <2>1, <2>3, <1>5
  <2> QED BY <2>2, <2>3
<1>11. CutInv(snapshot)' /\ Faithful(snapshot)'
  <2>1. /\ \A k \in Key : snapshot.cut[k] \in 0..Len(hist'[k])
        /\ \A k \in DOMAIN snapshot.series :
             LET h == Prefix(hist'[k], snapshot.cut[k])
             IN  /\ snapshot.series[k].fast = Newest(h, FastCap)
                 /\ Decimates(snapshot.series[k].slow, h)
    BY <1>9, <1>10, FaithfulStays DEF IInv
  <2>2. DOMAIN snapshot.series = {k \in Key : snapshot.cut[k] > 0} /\ snapshot' = snapshot
    BY <1>2 DEF IInv, Faithful
  <2> QED BY <2>1, <2>2 DEF CutInv, Faithful
<1>12. CutInv(built)' /\ Faithful(built)'
  <2>1. /\ \A k \in Key : built.cut[k] \in 0..Len(hist'[k])
        /\ \A k \in DOMAIN built.series :
             LET h == Prefix(hist'[k], built.cut[k])
             IN  /\ built.series[k].fast = Newest(h, FastCap)
                 /\ Decimates(built.series[k].slow, h)
    BY <1>9, <1>10, FaithfulStays DEF IInv
  <2>2. DOMAIN built.series = {k \in Key : built.cut[k] > 0} /\ built' = built
    BY <1>2 DEF IInv, Faithful
  <2> QED BY <2>1, <2>2 DEF CutInv, Faithful
<1> QED BY <1>7, <1>8, <1>9, <1>11, <1>12 DEF IInv

(* The copy made under the mutex is right at its cut. *)
LEMMA BuildIInv == IInv /\ Build => IInv'
<1> SUFFICES ASSUME IInv, Build PROVE IInv'
  OBVIOUS
<1>1. UNCHANGED <<writer, task, begun, snapshot, shutdown, hist>> /\ publisher' = "built"
  BY DEF Build
<1>2. \A k \in Key : hist[k] \in Seq(Sample) /\ Len(hist[k]) \in Nat
  BY DEF IInv, TypeOK
<1>3. /\ built'.series = [k \in DOMAIN writer |-> SeriesSnapshot(writer[k])]
      /\ built'.cut = [k \in Key |-> Len(hist[k])]
  BY DEF Build
<1>4. CutInv(built)'
  BY <1>1, <1>2, <1>3 DEF CutInv
<1>5. ASSUME NEW k \in DOMAIN writer
      PROVE  LET h == Prefix(hist[k], built'.cut[k])
             IN  /\ built'.series[k].fast = Newest(h, FastCap)
                 /\ Decimates(built'.series[k].slow, h)
  <2>1. k \in Key
    BY DEF IInv, TypeOK
  <2>2. Prefix(hist[k], built'.cut[k]) = hist[k]
    <3>1. hist[k] = [i \in 1..Len(hist[k]) |-> hist[k][i]]
      BY <2>1, <1>2
    <3> QED BY <3>1, <2>1, <1>3 DEF Prefix
  <2>3. /\ read_ring(writer[k].fast, FastCap) = Newest(hist[k], FastCap)
        /\ Decimates(read_ring(writer[k].slow, SlowCap), hist[k])
    BY <2>1, <1>2, SeriesView DEF IInv
  <2>4. /\ built'.series[k].fast = read_ring(writer[k].fast, FastCap)
        /\ built'.series[k].slow = read_ring(writer[k].slow, SlowCap)
    BY <1>3 DEF SeriesSnapshot
  <2> QED BY <2>2, <2>3, <2>4
<1>6. DOMAIN built'.series = {k \in Key : built'.cut[k] > 0}
  BY <1>3 DEF IInv
<1>7. Faithful(built)'
  BY <1>1, <1>3, <1>5, <1>6 DEF Faithful
<1>8. TypeOK' /\ CutInv(snapshot)' /\ Faithful(snapshot)'
  BY <1>1 DEF IInv, TypeOK, CutInv, Faithful
<1> QED BY <1>1, <1>4, <1>7, <1>8 DEF IInv

(* Every step preserves the invariant. *)
LEMMA NextIInv == IInv /\ [Next]_vars => IInv'
<1> SUFFICES ASSUME IInv, [Next]_vars PROVE IInv'
  OBVIOUS
<1>1. CASE \E f \in Frame, t \in Time : Begin(f, t)
  <2>1. PICK f \in Frame, t \in Time : Begin(f, t)
    BY <1>1
  <2>2. UNCHANGED <<writer, publisher, built, snapshot, shutdown, hist>>
    BY <2>1 DEF Begin
  <2>3. t \in Nat /\ StreamOf[f] \in Stream
    BY FastRingAssumption
  <2>4. /\ task' \in [Stream -> [ts : Nat, frame : Frame \cup {NoFrame}, next : Nat \ {0}]]
        /\ begun' \subseteq Frame
    BY <2>1, <2>3 DEF Begin, IInv, TypeOK
  <2>5. TypeOK'
    BY <2>2, <2>4 DEF IInv, TypeOK
  <2> QED BY <2>2, <2>5 DEF IInv, CutInv, Faithful
<1>2. CASE \E s \in Stream : Push(s)
  BY <1>2, PushIInv
<1>3. CASE Build
  BY <1>3, BuildIInv
<1>4. CASE Store
  <2>1. /\ UNCHANGED <<writer, task, begun, shutdown, hist>>
        /\ snapshot' = built /\ built' = NoSnapshot /\ publisher' = "idle"
    BY <1>4 DEF Store
  <2>2. TypeOK'
    BY <2>1 DEF IInv, TypeOK
  <2>3. CutInv(snapshot)' /\ Faithful(snapshot)'
    BY <2>1 DEF IInv, CutInv, Faithful
  <2>4. \A k \in Key : Len(hist[k]) \in Nat
    BY DEF IInv, TypeOK
  <2>5. CutInv(built)' /\ Faithful(built)'
    BY <2>1, <2>4 DEF CutInv, Faithful, NoSnapshot
  <2> QED BY <2>1, <2>2, <2>3, <2>5 DEF IInv
<1>5. CASE Shutdown \/ Stop \/ Ended \/ UNCHANGED vars
  <2>1. UNCHANGED <<writer, task, begun, built, snapshot, hist>>
    BY <1>5 DEF Shutdown, Stop, Ended, vars
  <2>2. publisher' \in {"idle", "built", "stopped"} /\ shutdown' \in BOOLEAN
    BY <1>5 DEF Shutdown, Stop, Ended, vars, IInv, TypeOK
  <2>3. TypeOK'
    BY <2>1, <2>2 DEF IInv, TypeOK
  <2> QED BY <2>1, <2>3 DEF IInv, CutInv, Faithful
<1> QED BY <1>1, <1>2, <1>3, <1>4, <1>5 DEF Next

(* The inductive invariant holds in every reachable state. *)
THEOREM FastRingInvariant == Spec => []IInv
BY InitIInv, NextIInv, PTL DEF Spec

(* The rings, the ingest tasks and the publisher keep to their types: no    *)
(* head or length leaves its buffer.                                        *)
THEOREM FastRingTypeOK == Spec => []TypeOK
<1>1. IInv => TypeOK
  BY DEF IInv
<1> QED BY <1>1, FastRingInvariant, PTL

(* For every capacity, the fast ring is the newest pushes in order. *)
THEOREM FastRingFastIsTail == Spec => []FastIsTail
<1>1. IInv => FastIsTail
  <2> SUFFICES ASSUME IInv, NEW k \in DOMAIN writer
               PROVE  read_ring(writer[k].fast, FastCap) = Newest(hist[k], FastCap)
    BY DEF FastIsTail
  <2>1. hist[k] \in Seq(Sample) /\ SeriesInv(writer[k], hist[k])
    BY DEF IInv, TypeOK
  <2> QED BY <2>1, SeriesView
<1> QED BY <1>1, FastRingInvariant, PTL

(* For every capacity, gap and order of timestamps, the slow ring is a      *)
(* decimated tail of the pushes.                                            *)
THEOREM FastRingSlowDecimates == Spec => []SlowDecimates
<1>1. IInv => SlowDecimates
  <2> SUFFICES ASSUME IInv, NEW k \in DOMAIN writer
               PROVE  Decimates(read_ring(writer[k].slow, SlowCap), hist[k])
    BY DEF SlowDecimates
  <2>1. hist[k] \in Seq(Sample) /\ SeriesInv(writer[k], hist[k])
    BY DEF IInv, TypeOK
  <2> QED BY <2>1, SeriesView
<1> QED BY <1>1, FastRingInvariant, PTL

(* Whatever pushes race the publisher, the snapshot readers load is a past  *)
(* state of the rings.                                                      *)
THEOREM FastRingSnapshotFaithful == Spec => []SnapshotFaithful
<1>1. IInv => SnapshotFaithful
  BY DEF IInv, SnapshotFaithful
<1> QED BY <1>1, FastRingInvariant, PTL


----------------------------------------------------------------------------
(* The order of the points of a frame. *)

(* How many points of frame f have been pushed. *)
Pos(f) ==
  IF f \notin begun THEN 0
  ELSE IF task[StreamOf[f]].frame = f THEN task[StreamOf[f]].next - 1
  ELSE Len(PointsOf[f])

Own == \A s \in Stream : task[s].frame # NoFrame =>
         /\ task[s].frame \in begun /\ StreamOf[task[s].frame] = s
         /\ task[s].next <= Len(PointsOf[task[s].frame]) + 1

IsPoint(x, f, i) == x.frame = f /\ x.point = i

(* The pushes of a series are points of frames that list it there, none of  *)
(* them ahead of its frame's task.                                          *)
NoneAhead ==
  \A k \in Key : \A j \in 1..Len(hist[k]) :
    \E f \in Frame : \E i \in 1..Pos(f) : IsPoint(hist[k][j], f, i) /\ PointsOf[f][i] = k

(* Every point behind its frame's task has been pushed. *)
NoneMissing ==
  \A f \in Frame : \A i \in 1..Pos(f) :
    \E j \in 1..Len(hist[PointsOf[f][i]]) : IsPoint(hist[PointsOf[f][i]][j], f, i)

(* The points of f among the first cut[k] pushes of each series k. *)
ShownBy(cut, h, f) ==
  {i \in 1..Len(PointsOf[f]) :
     \E j \in 1..cut[PointsOf[f][i]] : IsPoint(h[PointsOf[f][i]][j], f, i)}

TornBy(cut, h, f) == ShownBy(cut, h, f) # {} /\ ShownBy(cut, h, f) # 1..Len(PointsOf[f])

CutsInOrder(cut, h) ==
  /\ \A f \in Frame : \E n \in 0..Len(PointsOf[f]) : ShownBy(cut, h, f) = 1..n
  /\ \A f, g \in Frame :
       TornBy(cut, h, f) /\ TornBy(cut, h, g) /\ StreamOf[f] = StreamOf[g] => f = g

(* Inductive together with IInv. *)
Order ==
  /\ Own /\ NoneAhead /\ NoneMissing
  /\ CutsInOrder(snapshot.cut, hist) /\ CutsInOrder(built.cut, hist)

(* Every point of a frame belongs to a series. *)
LEMMA PointIsKey ==
  ASSUME NEW f \in Frame
  PROVE  /\ Len(PointsOf[f]) \in Nat /\ StreamOf[f] \in Stream /\ f # NoFrame
         /\ \A i \in 1..Len(PointsOf[f]) : PointsOf[f][i] \in Key
<1>1. PointsOf[f] \in Seq(Key)
  BY FastRingAssumption
<1> QED BY <1>1, FastRingAssumption

(* What precedes a cut does not change with the pushes after it. *)
LEMMA CutsStay ==
  ASSUME NEW cut, NEW h, NEW h2, CutsInOrder(cut, h),
         \A k \in Key : \A j \in 1..cut[k] : h2[k][j] = h[k][j]
  PROVE  CutsInOrder(cut, h2)
<1>1. ASSUME NEW f \in Frame PROVE ShownBy(cut, h2, f) = ShownBy(cut, h, f)
  <2>1. ASSUME NEW i \in 1..Len(PointsOf[f])
        PROVE  \A j \in 1..cut[PointsOf[f][i]] : h2[PointsOf[f][i]][j] = h[PointsOf[f][i]][j]
    BY PointIsKey
  <2> QED BY <2>1 DEF ShownBy
<1>2. \A f \in Frame : TornBy(cut, h2, f) <=> TornBy(cut, h, f)
  BY <1>1 DEF TornBy
<1> QED BY <1>1, <1>2 DEF CutsInOrder

(* Nothing is shown before the first copy. *)
LEMMA EmptyInOrder == ASSUME NEW h PROVE CutsInOrder(NoSnapshot.cut, h)
<1>1. ASSUME NEW f \in Frame PROVE ShownBy(NoSnapshot.cut, h, f) = {}
  BY PointIsKey DEF ShownBy, NoSnapshot
<1>2. \A f \in Frame : 0 \in 0..Len(PointsOf[f]) /\ {} = 1..0
  BY PointIsKey
<1> QED BY <1>1, <1>2 DEF CutsInOrder, TornBy

LEMMA InitOrder == Init => Order
<1> SUFFICES ASSUME Init PROVE Order
  OBVIOUS
<1>1. Own
  BY DEF Init, Own
<1>2. \A f \in Frame : Pos(f) = 0
  BY DEF Init, Pos
<1>3. NoneAhead /\ NoneMissing
  BY <1>2 DEF Init, NoneAhead, NoneMissing
<1>4. CutsInOrder(snapshot.cut, hist) /\ CutsInOrder(built.cut, hist)
  BY EmptyInOrder DEF Init
<1> QED BY <1>1, <1>3, <1>4 DEF Order

(* How far a frame's task may be. *)
LEMMA PosFacts ==
  ASSUME IInv, Own, NEW f \in Frame
  PROVE  /\ Pos(f) \in 0..Len(PointsOf[f])
         /\ Pos(f) # 0 /\ Pos(f) # Len(PointsOf[f]) => task[StreamOf[f]].frame = f
<1>1. task[StreamOf[f]].next \in Nat \ {0} /\ Len(PointsOf[f]) \in Nat /\ StreamOf[f] \in Stream /\ f # NoFrame
  BY PointIsKey DEF IInv, TypeOK
<1>2. task[StreamOf[f]].frame = f => task[StreamOf[f]].next <= Len(PointsOf[f]) + 1
  BY <1>1 DEF Own
<1> QED BY <1>1, <1>2 DEF Pos

(* A task takes a frame up: nothing is pushed, of this frame or another. *)
LEMMA BeginOrder ==
  ASSUME IInv, Order, NEW f \in Frame, NEW t \in Time, Begin(f, t)
  PROVE  Order'
<1>1. /\ f \notin begun /\ ~Busy(StreamOf[f]) /\ begun' = begun \cup {f}
      /\ task' = [task EXCEPT ![StreamOf[f]] = [ts |-> t, frame |-> f, next |-> 1]]
      /\ UNCHANGED <<snapshot, built, hist>>
  BY DEF Begin
<1>2. /\ task \in [Stream -> [ts : Nat, frame : Frame \cup {NoFrame}, next : Nat \ {0}]]
      /\ StreamOf[f] \in Stream /\ Own
  BY PointIsKey DEF IInv, TypeOK, Order
<1>3. /\ task'[StreamOf[f]].frame = f /\ task'[StreamOf[f]].next = 1
      /\ \A s \in Stream : s # StreamOf[f] => task'[s] = task[s]
  BY <1>1, <1>2
<1>4. Own'
  <2>1. ASSUME NEW s \in Stream, task'[s].frame # NoFrame
        PROVE  /\ task'[s].frame \in begun' /\ StreamOf[task'[s].frame] = s
               /\ task'[s].next <= Len(PointsOf[task'[s].frame]) + 1
    <3>1. CASE s = StreamOf[f]
      <4>1. Len(PointsOf[f]) \in Nat
        BY PointIsKey
      <4> QED BY <1>1, <1>3, <3>1, <4>1
    <3>2. CASE s # StreamOf[f]
      BY <1>1, <1>2, <1>3, <2>1, <3>2 DEF Own
    <3> QED BY <3>1, <3>2
  <2> QED BY <2>1 DEF Own
<1>5. ASSUME NEW g \in Frame PROVE Pos(g)' = Pos(g)
  <2>1. CASE g = f
    BY <1>1, <1>3, <2>1 DEF Pos
  <2>2. CASE g # f /\ StreamOf[g] # StreamOf[f]
    BY <1>1, <1>3, <2>2, PointIsKey DEF Pos
  <2>3. CASE g # f /\ StreamOf[g] = StreamOf[f]
    <3>1. Pos(g)' = IF g \notin begun THEN 0 ELSE Len(PointsOf[g])
      BY <1>1, <1>3, <2>3 DEF Pos
    <3>2. task[StreamOf[g]].frame = g => task[StreamOf[g]].next - 1 = Len(PointsOf[g])
      <4> SUFFICES ASSUME task[StreamOf[g]].frame = g
                   PROVE  task[StreamOf[g]].next - 1 = Len(PointsOf[g])
        OBVIOUS
      <4>1. g # NoFrame /\ Len(PointsOf[g]) \in Nat /\ task[StreamOf[g]].next \in Nat
        BY <1>2, <2>3, PointIsKey
      <4>2. ~(task[StreamOf[g]].next <= Len(PointsOf[g]))
        BY <1>1, <2>3, <4>1 DEF Busy
      <4>3. task[StreamOf[g]].next <= Len(PointsOf[g]) + 1
        BY <1>2, <2>3, <4>1 DEF Own
      <4> QED BY <4>1, <4>2, <4>3
    <3> QED BY <3>1, <3>2 DEF Pos
  <2> QED BY <2>1, <2>2, <2>3
<1>6. NoneAhead' /\ NoneMissing'
  BY <1>1, <1>5 DEF Order, NoneAhead, NoneMissing
<1> QED BY <1>1, <1>4, <1>6 DEF Order

(* A task pushes the next point of its frame. *)
LEMMA PushOrder ==
  ASSUME IInv, Order, NEW s \in Stream, Push(s)
  PROVE  Order'
<1>1. /\ task \in [Stream -> [ts : Nat, frame : Frame \cup {NoFrame}, next : Nat \ {0}]]
      /\ hist \in [Key -> Seq(Sample)] /\ Own
  BY DEF IInv, TypeOK, Order
<1>2. PICK f \in Frame : f = task[s].frame /\ f \in begun /\ StreamOf[f] = s
  <2>1. task[s].frame # NoFrame
    BY DEF Push, Busy
  <2> QED BY <1>1, <2>1 DEF Own
<1>2a. PICK n \in 1..Len(PointsOf[f]) : n = task[s].next
  <2>1. task[s].next \in Nat \ {0} /\ task[s].next <= Len(PointsOf[f]) /\ Len(PointsOf[f]) \in Nat
    BY <1>1, <1>2, PointIsKey DEF Push, Busy
  <2> QED BY <2>1
<1> DEFINE key == PointsOf[f][n]
           sample == [ts |-> task[s].ts, frame |-> f, point |-> n]
<1>2b. key \in Key /\ n \in Nat /\ sample \in Sample
  BY <1>2a, <1>1, <1>2, PointIsKey DEF Sample
<1>3. /\ hist' = [hist EXCEPT ![key] = Append(@, sample)]
      /\ task' = [task EXCEPT ![s].next = n + 1]
      /\ UNCHANGED <<begun, snapshot, built>>
  BY <1>2a, <1>2 DEF Push
<1>4. /\ task'[s].frame = f /\ task'[s].next = n + 1
      /\ \A r \in Stream : r # s => task'[r] = task[r]
  BY <1>2a, <1>1, <1>2, <1>3
<1>5. IsPoint(sample, f, n)
  BY DEF IsPoint
<1> DEFINE h == hist[key]
<1>6. /\ h \in Seq(Sample) /\ Len(h) \in Nat /\ hist'[key] = Append(h, sample)
      /\ \A k \in Key : k # key => hist'[k] = hist[k]
  BY <1>1, <1>2b, <1>3
<1>7. /\ Len(hist'[key]) = Len(h) + 1 /\ hist'[key][Len(h) + 1] = sample
      /\ \A j \in 1..Len(h) : hist'[key][j] = h[j]
  BY <1>6, <1>2b
<1> HIDE DEF key, sample, h
<1>8. Own'
  <2>1. ASSUME NEW r \in Stream, task'[r].frame # NoFrame
        PROVE  /\ task'[r].frame \in begun' /\ StreamOf[task'[r].frame] = r
               /\ task'[r].next <= Len(PointsOf[task'[r].frame]) + 1
    <3>1. CASE r = s
      <4>1. Len(PointsOf[f]) \in Nat
        BY <1>2, PointIsKey
      <4>2. n + 1 <= Len(PointsOf[f]) + 1
        BY <1>2a, <4>1
      <4> QED BY <1>2, <1>3, <1>4, <3>1, <4>2
    <3>2. CASE r # s
      BY <1>1, <1>3, <1>4, <2>1, <3>2 DEF Own
    <3> QED BY <3>1, <3>2
  <2> QED BY <2>1 DEF Own
<1>9. Pos(f) = n - 1 /\ \A g \in Frame : Pos(g)' = IF g = f THEN n ELSE Pos(g)
  <2>1. Pos(f) = n - 1
    BY <1>2a, <1>2 DEF Pos
  <2>2. ASSUME NEW g \in Frame PROVE Pos(g)' = IF g = f THEN n ELSE Pos(g)
    <3>1. CASE g = f
      <4>1. n + 1 - 1 = n
        BY <1>2b
      <4> QED BY <1>2, <1>3, <1>4, <3>1, <4>1 DEF Pos
    <3>2. CASE g # f /\ StreamOf[g] = s
      BY <1>2, <1>3, <1>4, <3>2 DEF Pos
    <3>3. CASE g # f /\ StreamOf[g] # s
      BY <1>3, <1>4, <3>3, PointIsKey DEF Pos
    <3> QED BY <3>1, <3>2, <3>3
  <2> QED BY <2>1, <2>2
<1>10. \A g \in Frame : \A i \in 1..Pos(g) : i \in 1..Pos(g)'
  BY <1>2a, <1>9
<1>11. NoneAhead'
  <2>1. ASSUME NEW k \in Key, NEW j \in 1..Len(hist'[k])
        PROVE  \E g \in Frame : \E i \in 1..Pos(g)' : IsPoint(hist'[k][j], g, i) /\ PointsOf[g][i] = k
    <3>1. CASE k = key /\ j = Len(h) + 1
      <4>1. n \in 1..Pos(f)'
        BY <1>2a, <1>9
      <4> QED BY <1>5, <1>7, <3>1, <4>1 DEF key
    <3>2. CASE ~(k = key /\ j = Len(h) + 1)
      <4>1. j \in 1..Len(hist[k]) /\ hist'[k][j] = hist[k][j]
        BY <1>6, <1>7, <3>2 DEF h
      <4>2. PICK g \in Frame : \E i \in 1..Pos(g) : IsPoint(hist[k][j], g, i) /\ PointsOf[g][i] = k
        BY <4>1 DEF Order, NoneAhead
      <4>3. PICK i \in 1..Pos(g) : IsPoint(hist[k][j], g, i) /\ PointsOf[g][i] = k
        BY <4>2
      <4> QED BY <1>10, <4>1, <4>3
    <3> QED BY <3>1, <3>2
  <2> QED BY <2>1 DEF NoneAhead, IsPoint
<1>12. NoneMissing'
  <2>1. ASSUME NEW g \in Frame, NEW i \in 1..Pos(g)'
        PROVE  \E j \in 1..Len(hist'[PointsOf[g][i]]) : IsPoint(hist'[PointsOf[g][i]][j], g, i)
    <3>1. CASE g = f /\ i = n
      <4>1. Len(h) + 1 \in 1..Len(hist'[key])
        BY <1>6, <1>7
      <4> QED BY <1>5, <1>7, <3>1, <4>1 DEF key
    <3>2. CASE ~(g = f /\ i = n)
      <4>1. i \in 1..Pos(g)
        BY <1>2a, <1>9, <3>2
      <4>2. Pos(g) \in 0..Len(PointsOf[g]) /\ Len(PointsOf[g]) \in Nat
        BY <1>1, PosFacts, PointIsKey
      <4>3. PointsOf[g][i] \in Key
        BY <4>1, <4>2, PointIsKey
      <4>4. PICK j \in 1..Len(hist[PointsOf[g][i]]) : IsPoint(hist[PointsOf[g][i]][j], g, i)
        BY <4>1 DEF Order, NoneMissing
      <4>5. j \in 1..Len(hist'[PointsOf[g][i]]) /\ hist'[PointsOf[g][i]][j] = hist[PointsOf[g][i]][j]
        <5>1. CASE PointsOf[g][i] = key
          <6>1. j \in 1..Len(h) /\ j \in 1..Len(hist'[key])
            BY <1>6, <1>7, <5>1 DEF h
          <6> QED BY <1>7, <5>1, <6>1 DEF h
        <5>2. CASE PointsOf[g][i] # key
          BY <1>6, <4>3, <5>2
        <5> QED BY <5>1, <5>2
      <4> QED BY <4>4, <4>5
    <3> QED BY <3>1, <3>2
  <2> QED BY <2>1 DEF NoneMissing, IsPoint
<1>13. ASSUME NEW cut, \A k \in Key : cut[k] \in 0..Len(hist[k]), CutsInOrder(cut, hist)
       PROVE  CutsInOrder(cut, hist')
  <2>1. ASSUME NEW k \in Key, NEW j \in 1..cut[k] PROVE hist'[k][j] = hist[k][j]
    <3>1. Len(hist[k]) \in Nat /\ cut[k] \in 0..Len(hist[k])
      BY <1>1, <1>13
    <3>2. j \in 1..Len(hist[k])
      BY <3>1
    <3> QED BY <1>6, <1>7, <3>2 DEF h
  <2> QED BY <1>13, <2>1, CutsStay
<1>14. CutsInOrder(snapshot.cut, hist') /\ CutsInOrder(built.cut, hist')
  BY <1>13 DEF IInv, CutInv, Order
<1> QED BY <1>3, <1>8, <1>11, <1>12, <1>14 DEF Order

(* A copy made under the mutex shows of each frame what has been pushed. *)
LEMMA BuildOrder == ASSUME IInv, Order, Build PROVE Order'
<1>1. /\ built'.cut = [k \in Key |-> Len(hist[k])]
      /\ UNCHANGED <<writer, task, begun, snapshot, shutdown, hist>>
  BY DEF Build
<1>2. ASSUME NEW cut, cut = [k \in Key |-> Len(hist[k])] PROVE CutsInOrder(cut, hist)
  <2>1. ASSUME NEW f \in Frame
        PROVE  Pos(f) \in 0..Len(PointsOf[f]) /\ ShownBy(cut, hist, f) = 1..Pos(f)
    <3>1. Pos(f) \in 0..Len(PointsOf[f]) /\ Len(PointsOf[f]) \in Nat
      BY PosFacts, PointIsKey DEF Order
    <3>2. ASSUME NEW i \in 1..Pos(f) PROVE i \in ShownBy(cut, hist, f)
      <4>1. i \in 1..Len(PointsOf[f])
        BY <3>1
      <4>2. cut[PointsOf[f][i]] = Len(hist[PointsOf[f][i]])
        BY <1>2, <4>1, PointIsKey
      <4> QED BY <4>1, <4>2 DEF Order, NoneMissing, ShownBy
    <3>3. ASSUME NEW i \in ShownBy(cut, hist, f) PROVE i \in 1..Pos(f)
      <4>1. PICK k \in Key : k = PointsOf[f][i]
        BY PointIsKey DEF ShownBy
      <4>2. PICK j \in 1..Len(hist[k]) : IsPoint(hist[k][j], f, i)
        BY <1>2, <4>1 DEF ShownBy
      <4>3. PICK g \in Frame : \E l \in 1..Pos(g) : IsPoint(hist[k][j], g, l)
        BY <4>2 DEF Order, NoneAhead
      <4>4. PICK l \in 1..Pos(g) : IsPoint(hist[k][j], g, l)
        BY <4>3
      <4> QED BY <4>2, <4>4 DEF IsPoint
    <3> QED BY <3>1, <3>2, <3>3
  <2>2. ASSUME NEW f \in Frame, TornBy(cut, hist, f) PROVE task[StreamOf[f]].frame = f
    <3>1. Pos(f) # 0 /\ Pos(f) # Len(PointsOf[f])
      BY <2>1, <2>2 DEF TornBy
    <3> QED BY <3>1, PosFacts DEF Order
  <2>3. \A f \in Frame : \E m \in 0..Len(PointsOf[f]) : ShownBy(cut, hist, f) = 1..m
    BY <2>1
  <2>4. \A f, g \in Frame :
          TornBy(cut, hist, f) /\ TornBy(cut, hist, g) /\ StreamOf[f] = StreamOf[g] => f = g
    BY <2>2
  <2> QED BY <2>3, <2>4 DEF CutsInOrder
<1>3. CutsInOrder(built'.cut, hist)
  BY <1>1, <1>2
<1>4. (Own /\ NoneAhead /\ NoneMissing)'
  BY <1>1 DEF Order, Own, NoneAhead, NoneMissing, Pos, IsPoint
<1> QED BY <1>1, <1>3, <1>4 DEF Order

LEMMA NextOrder == IInv /\ Order /\ [Next]_vars => Order'
<1> SUFFICES ASSUME IInv, Order, [Next]_vars PROVE Order'
  OBVIOUS
<1>1. ASSUME UNCHANGED <<task, begun, hist>> PROVE (Own /\ NoneAhead /\ NoneMissing)'
  BY <1>1 DEF Order, Own, NoneAhead, NoneMissing, Pos, IsPoint
<1>2. CASE \E f \in Frame, t \in Time : Begin(f, t)
  BY <1>2, BeginOrder
<1>3. CASE \E s \in Stream : Push(s)
  BY <1>3, PushOrder
<1>4. CASE Build
  BY <1>4, BuildOrder
<1>5. CASE Store
  <2>1. snapshot' = built /\ built' = NoSnapshot /\ UNCHANGED <<task, begun, hist>>
    BY <1>5 DEF Store
  <2>2. CutsInOrder(built.cut, hist) /\ CutsInOrder(NoSnapshot.cut, hist)
    BY EmptyInOrder DEF Order
  <2> QED BY <1>1, <2>1, <2>2 DEF Order
<1>6. CASE Shutdown \/ Stop \/ Ended \/ UNCHANGED vars
  <2>1. UNCHANGED <<task, begun, hist, snapshot, built>>
    BY <1>6 DEF Shutdown, Stop, Ended, vars
  <2> QED BY <1>1, <2>1 DEF Order
<1> QED BY <1>2, <1>3, <1>4, <1>5, <1>6 DEF Next

(* The pushes are in every reachable state those of the points that the     *)
(* ingest tasks have passed, and both copies cut them in order.             *)
THEOREM FastRingOrder == Spec => [](IInv /\ Order)
<1>1. Init => IInv /\ Order
  BY InitIInv, InitOrder
<1>2. IInv /\ Order /\ [Next]_vars => IInv' /\ Order'
  BY NextIInv, NextOrder
<1> QED BY <1>1, <1>2, PTL DEF Spec

(* Whatever the streams, frames and series, also when a frame lists a series *)
(* twice: a snapshot shows a beginning of each frame, and cuts through one   *)
(* frame of a stream at most.                                                *)
THEOREM FastRingFramesInOrder == Spec => []FramesInOrder
<1>1. IInv /\ Order => FramesInOrder
  <2> SUFFICES ASSUME IInv, Order PROVE FramesInOrder
    OBVIOUS
  <2>1. ASSUME NEW f \in Frame PROVE Shown(f) = ShownBy(snapshot.cut, hist, f)
    BY DEF Shown, ShownIn, ShownBy, IsPoint
  <2>2. ASSUME NEW f \in Frame PROVE Shown(f) = 1..Cardinality(Shown(f))
    <3>1. PICK n \in 0..Len(PointsOf[f]) : Shown(f) = 1..n
      BY <2>1 DEF Order, CutsInOrder
    <3>2. n \in Nat /\ 1 \in Int /\ n \in Int
      BY PointIsKey
    <3>3. Cardinality(1..n) = n
      <4>1. Cardinality(1..n) = IF 1 > n THEN 0 ELSE n - 1 + 1
        BY <3>2, FS_Interval
      <4> QED BY <3>2, <4>1
    <3> QED BY <3>1, <3>3
  <2>3. \A f \in Frame : Torn(f) => TornBy(snapshot.cut, hist, f)
    BY <2>1 DEF Torn, TornBy
  <2> QED BY <2>2, <2>3 DEF Order, CutsInOrder, FramesInOrder
<1> QED BY <1>1, FastRingOrder, PTL
============================================================================
