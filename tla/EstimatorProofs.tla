--------------------------- MODULE EstimatorProofs ---------------------------
(* Proofs about what the collector estimates from samples: SpikeDetector for  *)
(* every set of series, values and times, every capacity and threshold, and   *)
(* Clock for every list of sources, delays, sample counts and word widths.    *)
EXTENDS SpikeDetector, Clock, FiniteSetTheorems, SequenceTheorems, TLAPS

----------------------------------------------------------------------------
(* Finite families in a strict order: the element in the middle.              *)

(* The least element of a set of naturals, and induction from it. *)
LEMMA LeastElement ==
  ASSUME NEW T \in SUBSET Nat, T # {}
  PROVE  \E n \in T : \A m \in T : n <= m
<1>1. PICK n \in T : \A m \in T : ~ (<<m, n>> \in OpToRel(<, Nat))
  <2>1. \E x \in T : \A y \in T : ~ (<<y, x>> \in OpToRel(<, Nat))
    BY WFMin, NatLessThanWellFounded
  <2>2. QED BY <2>1
<1>2. ASSUME NEW m \in T PROVE n <= m
  <2>1. <<m, n>> \notin {ss \in Nat \X Nat : ss[1] < ss[2]}
    BY <1>1 DEF OpToRel
  <2>2. <<m, n>> \in Nat \X Nat /\ n \in Nat /\ m \in Nat
    OBVIOUS
  <2>3. QED BY <2>1, <2>2
<1>3. QED BY <1>2

LEMMA Induction ==
  ASSUME NEW T, 0 \in T, \A n \in Nat : n \in T => n + 1 \in T
  PROVE  \A n \in Nat : n \in T
<1> SUFFICES ASSUME Nat \ T # {} PROVE FALSE
  OBVIOUS
<1>1. PICK n \in Nat \ T : \A m \in Nat \ T : n <= m
  BY LeastElement
<1>2. n # 0 /\ n - 1 \in Nat /\ n - 1 + 1 = n
  BY <1>1
<1>3. QED BY <1>1, <1>2

(* A function into the naturals is least, and a bounded one greatest, somewhere. *)
LEMMA LeastValue ==
  ASSUME NEW I, I # {}, NEW f, \A i \in I : f[i] \in Nat
  PROVE  \E m \in I : \A i \in I : f[m] <= f[i]
<1> DEFINE T == {f[i] : i \in I}
<1>1. T \in SUBSET Nat /\ T # {}
  OBVIOUS
<1> HIDE DEF T
<1>2. PICK n \in T : \A m \in T : n <= m
  BY <1>1, LeastElement
<1>3. QED BY <1>2 DEF T

LEMMA GreatestValue ==
  ASSUME NEW I, I # {}, NEW f, NEW b \in Nat, \A i \in I : f[i] \in Nat /\ f[i] <= b
  PROVE  \E m \in I : \A i \in I : f[i] <= f[m]
<1> DEFINE g == [i \in I |-> b - f[i]]
<1>1. \A i \in I : g[i] \in Nat /\ g[i] = b - f[i]
  OBVIOUS
<1> HIDE DEF g
<1>2. PICK m \in I : \A i \in I : g[m] <= g[i]
  BY <1>1, LeastValue
<1>3. ASSUME NEW i \in I PROVE f[i] <= f[m]
  <2>1. g[m] <= g[i] /\ g[m] = b - f[m] /\ g[i] = b - f[i] /\ f[i] \in Nat /\ f[m] \in Nat
    BY <1>1, <1>2
  <2>2. QED BY <2>1
<1>4. QED BY <1>3

(* Of finitely many elements in a strict order R there is, for every k below  *)
(* their number, one that at most k are before and more than k not after.     *)
Before(I, R, m) == {i \in I : <<i, m>> \in R}
NotAfter(I, R, m) == {i \in I : <<m, i>> \notin R}

LEMMA MiddleExists ==
  ASSUME NEW I, IsFiniteSet(I), NEW R, NEW k \in Nat, k < Cardinality(I),
         \A i \in I : <<i, i>> \notin R,
         \A i, j, l \in I : <<i, j>> \in R /\ <<j, l>> \in R => <<i, l>> \in R
  PROVE  \E m \in I : Cardinality(Before(I, R, m)) <= k /\ Cardinality(NotAfter(I, R, m)) > k
<1> DEFINE c == Cardinality(I)
           low == [m \in I |-> Cardinality(Before(I, R, m))]
           high == [m \in I |-> Cardinality(NotAfter(I, R, m))]
<1>1. c \in Nat /\ I # {}
  BY FS_CardinalityType, FS_EmptySet
<1>2. ASSUME NEW m \in I
      PROVE  /\ Before(I, R, m) \in SUBSET I /\ NotAfter(I, R, m) \in SUBSET I
             /\ IsFiniteSet(Before(I, R, m)) /\ IsFiniteSet(NotAfter(I, R, m))
             /\ low[m] \in Nat /\ high[m] \in Nat /\ high[m] <= c
             /\ low[m] = Cardinality(Before(I, R, m)) /\ high[m] = Cardinality(NotAfter(I, R, m))
  <2>1. Before(I, R, m) \in SUBSET I /\ NotAfter(I, R, m) \in SUBSET I
    BY DEF Before, NotAfter
  <2>2. /\ IsFiniteSet(Before(I, R, m)) /\ IsFiniteSet(NotAfter(I, R, m))
        /\ Cardinality(NotAfter(I, R, m)) <= c
    BY <2>1, FS_Subset
  <2>3. Cardinality(Before(I, R, m)) \in Nat /\ Cardinality(NotAfter(I, R, m)) \in Nat
    BY <2>2, FS_CardinalityType
  <2>4. QED BY <2>1, <2>2, <2>3
<1> HIDE DEF low, high, c
<1>3. ASSUME NEW i \in I, NEW j \in I, <<i, j>> \in R
      PROVE  low[i] < low[j] /\ high[i] < high[j]
  <2>1. Before(I, R, i) \subseteq Before(I, R, j) /\ i \in Before(I, R, j) /\ i \notin Before(I, R, i)
    BY <1>3 DEF Before
  <2>2. NotAfter(I, R, i) \subseteq NotAfter(I, R, j) /\ j \in NotAfter(I, R, j) /\ j \notin NotAfter(I, R, i)
    BY <1>3 DEF NotAfter
  <2>3. low[i] <= low[j] /\ low[i] # low[j]
    BY <1>2, <2>1, FS_Subset
  <2>4. high[i] <= high[j] /\ high[i] # high[j]
    BY <1>2, <2>2, FS_Subset
  <2>5. QED BY <1>2, <2>3, <2>4
<1> DEFINE T == {m \in I : high[m] > k}
<1>4. T # {}
  <2>1. PICK m \in I : \A i \in I : high[i] <= high[m]
    BY <1>1, <1>2, GreatestValue
  <2>2. ASSUME NEW i \in I PROVE i \in NotAfter(I, R, m)
    <3>1. <<m, i>> \notin R
      BY <1>2, <1>3, <2>1
    <3>2. QED BY <3>1 DEF NotAfter
  <2>3. NotAfter(I, R, m) = I
    BY <1>2, <2>2
  <2>4. high[m] > k
    BY <1>1, <1>2, <2>3 DEF c
  <2>5. QED BY <2>4
<1>5. PICK m \in T : \A i \in T : low[m] <= low[i]
  <2>1. \A i \in T : low[i] \in Nat
    BY <1>2
  <2> HIDE DEF T
  <2>2. QED BY <1>4, <2>1, LeastValue
<1>6. ASSUME low[m] > k PROVE FALSE
  <2> DEFINE B == Before(I, R, m)
  <2>1. m \in I /\ B \in SUBSET I
    BY <1>2
  <2>2. B # {}
    BY <1>2, <1>6, <2>1, FS_EmptySet
  <2>3. PICK j \in B : \A i \in B : high[i] <= high[j]
    <3>1. \A i \in B : high[i] \in Nat /\ high[i] <= c
      BY <1>2, <2>1
    <3> HIDE DEF B
    <3>2. QED BY <1>1, <2>2, <3>1, GreatestValue
  <2>4. j \in I /\ <<j, m>> \in R
    BY DEF Before
  <2>5. B \subseteq NotAfter(I, R, j)
    <3>1. ASSUME NEW i \in B PROVE <<j, i>> \notin R
      BY <1>2, <1>3, <2>1, <2>3, <2>4
    <3>2. QED BY <2>1, <3>1 DEF NotAfter
  <2>6. low[m] <= high[j]
    BY <1>2, <2>1, <2>4, <2>5, FS_Subset
  <2>7. high[j] > k
    BY <1>2, <1>6, <2>1, <2>4, <2>6
  <2>8. low[j] < low[m] /\ low[m] <= low[j]
    BY <1>3, <1>5, <2>1, <2>4, <2>7
  <2>9. QED BY <1>2, <2>1, <2>4, <2>8
<1>7. low[m] <= k /\ high[m] > k
  BY <1>2, <1>5, <1>6
<1>8. QED BY <1>2, <1>7

(* The median of a sequence of numbers. *)
LEMMA MedianFacts ==
  ASSUME NEW q \in Seq(Int), q # <<>>
  PROVE  /\ \E i \in 1..Len(q) : Median(q) = q[i]
         /\ Cardinality({i \in 1..Len(q) : q[i] < Median(q)}) <= Len(q) \div 2
         /\ Cardinality({i \in 1..Len(q) : q[i] <= Median(q)}) > Len(q) \div 2
<1> DEFINE n == Len(q)
           I == 1..n
           R == {p \in I \X I : q[p[1]] < q[p[2]]}
           Good(m) == /\ Cardinality({i \in I : q[i] < q[m]}) <= n \div 2
                      /\ Cardinality({i \in I : ~(q[m] < q[i])}) > n \div 2
<1>1. n \in Nat \ {0} /\ DOMAIN q = I /\ \A i \in I : q[i] \in Int
  OBVIOUS
<1>2. n \div 2 \in Nat /\ n \div 2 < n
  BY <1>1
<1> HIDE DEF n
<1>3. IsFiniteSet(I) /\ Cardinality(I) = n
  BY <1>1, FS_Interval
<1>4. /\ \A i \in I : <<i, i>> \notin R
      /\ \A i, j, l \in I : <<i, j>> \in R /\ <<j, l>> \in R => <<i, l>> \in R
  BY <1>1
<1>5. \E m \in I : Good(m)
  <2>1. PICK m \in I : /\ Cardinality(Before(I, R, m)) <= n \div 2
                       /\ Cardinality(NotAfter(I, R, m)) > n \div 2
    <3> HIDE DEF I, R
    <3>1. QED BY <1>2, <1>3, <1>4, MiddleExists
  <2>2. Before(I, R, m) = {i \in I : q[i] < q[m]}
    BY DEF Before
  <2>3. NotAfter(I, R, m) = {i \in I : ~(q[m] < q[i])}
    BY DEF NotAfter
  <2>4. QED BY <2>1, <2>2, <2>3
<1> DEFINE m == CHOOSE j \in I : Good(j)
<1>6. m \in I /\ Good(m)
  BY <1>5
<1>7. Median(q) = q[m]
  <2>1. Cardinality(DOMAIN q) = n
    BY <1>1, <1>3
  <2>2. Median(q) = q[CHOOSE j \in I : Good(j)]
    BY <1>1, <2>1 DEF Median, Middle
  <2>3. QED BY <2>2
<1> HIDE DEF m
<1>8. {i \in I : ~(q[m] < q[i])} = {i \in I : q[i] <= q[m]}
  BY <1>1, <1>6
<1>9. QED BY <1>6, <1>7, <1>8 DEF n

(* A value that pass 2 lets through is a spike of its tail in the plain sense *)
(* of SpikesStandOut, whatever the tail.                                      *)
LEMMA StandsOutFacts ==
  ASSUME NEW x \in Nat, NEW q \in Seq(Value), StandsOut(x, q)
  PROVE  \E m \in Value :
           /\ 2 * Among(q, LAMBDA v : v <= m) >= Len(q)
           /\ 2 * Among(q, LAMBDA v : v >= m) >= Len(q)
           /\ 2 * Among(q, LAMBDA v : Abs(v - m) < Abs(x - m)) > Len(q)
<1> DEFINE n == Len(q)
           I == 1..n
           k == n \div 2
           m == Median(q)
           dev == Deviations(q)
           mad == Median(dev)
           low == {i \in I : q[i] < m}
           notlow == {i \in I : q[i] >= m}
           near == {i \in I : dev[i] <= mad}
           nearer == {i \in I : Abs(q[i] - m) < Abs(x - m)}
<1>1. q # <<>> /\ mad > 0 /\ 10000 * Abs(x - m) >= 51891 * mad
  BY DEF StandsOut, MadFactor
<1>2. q \in Seq(Int) /\ n \in Nat \ {0} /\ \A i \in I : q[i] \in Value /\ q[i] \in Nat
  <2>1. n \in Nat \ {0} /\ \A i \in I : q[i] \in Value /\ q[i] \in Nat
    <3>1. n \in Nat /\ n # 0 /\ \A i \in I : q[i] \in Value
      BY <1>1
    <3>2. Value \subseteq Nat
      BY SpikeDetectorAssumption
    <3>3. QED BY <3>1, <3>2
  <2>2. q \in Seq(Int)
    <3>1. q \in [1..Len(q) -> Int]
      BY <2>1
    <3>2. QED BY <2>1, <3>1
  <2>3. QED BY <2>1, <2>2
<1>3. /\ m \in Value /\ m \in Nat
      /\ Cardinality(low) <= k
      /\ Cardinality({i \in I : q[i] <= m}) > k
  <2>1. /\ \E i \in 1..Len(q) : Median(q) = q[i]
        /\ Cardinality({i \in 1..Len(q) : q[i] < Median(q)}) <= Len(q) \div 2
        /\ Cardinality({i \in 1..Len(q) : q[i] <= Median(q)}) > Len(q) \div 2
    <3>1. q \in Seq(Int) /\ q # <<>>
      BY <1>1, <1>2
    <3> HIDE DEF n, I, m, dev, mad, low
    <3>2. QED BY <3>1, MedianFacts
  <2>2. QED BY <1>2, <2>1
<1> HIDE DEF m
<1>4. /\ dev \in Seq(Int) /\ Len(dev) = n /\ dev # <<>>
      /\ \A i \in I : dev[i] = Abs(q[i] - m)
  <2>1. dev = [i \in I |-> Abs(q[i] - m)]
    BY DEF Deviations, m
  <2>2. \A i \in I : Abs(q[i] - m) \in Int
    BY <1>2, <1>3 DEF Abs
  <2> HIDE DEF dev, I
  <2>3. dev \in [I -> Int] /\ \A i \in I : dev[i] = Abs(q[i] - m)
    BY <2>1, <2>2
  <2>4. n \in Nat \ {0}
    BY <1>2
  <2> HIDE DEF n
  <2>5. dev \in [1..n -> Int]
    BY <2>3 DEF I
  <2>6. dev \in Seq(Int) /\ Len(dev) = n
    BY <2>4, <2>5
  <2>7. dev # <<>>
    BY <2>4, <2>6
  <2>8. QED BY <2>3, <2>6, <2>7
<1> HIDE DEF dev
<1>5. Cardinality(near) > k /\ mad \in Int
  <2>1. /\ \E i \in 1..Len(dev) : Median(dev) = dev[i]
        /\ Cardinality({i \in 1..Len(dev) : dev[i] <= Median(dev)}) > Len(dev) \div 2
    BY <1>4, MedianFacts
  <2>2. mad \in Int
    BY <1>4, <2>1
  <2>3. QED BY <1>4, <2>1, <2>2
<1> HIDE DEF mad
<1>6. IsFiniteSet(I) /\ Cardinality(I) = n
  BY <1>2, FS_Interval
<1>7. n - Cardinality(low) = Cardinality(notlow) /\ Cardinality(low) \in Nat
  <2>1. I \ low = notlow /\ I \cap low = low /\ low \in SUBSET I
    BY <1>2, <1>3
  <2> HIDE DEF I, low, notlow
  <2>2. Cardinality(I \ low) = Cardinality(I) - Cardinality(I \cap low)
    BY <1>6, FS_Difference
  <2>3. IsFiniteSet(low)
    BY <1>6, <2>1, FS_Subset
  <2>4. QED BY <1>6, <2>1, <2>2, <2>3, FS_CardinalityType
<1>8. Cardinality(nearer) > k
  <2>1. near \subseteq nearer /\ nearer \in SUBSET I
    <3>1. Abs(x - m) > mad
      <4>1. Abs(x - m) \in Nat
        BY <1>3 DEF Abs
      <4>2. QED BY <1>1, <1>5, <4>1
    <3>2. ASSUME NEW i \in I, dev[i] <= mad PROVE Abs(q[i] - m) < Abs(x - m)
      <4>1. Abs(q[i] - m) = dev[i] /\ Abs(q[i] - m) \in Int /\ Abs(x - m) \in Int
        BY <1>2, <1>3, <1>4 DEF Abs
      <4>2. QED BY <1>5, <3>1, <3>2, <4>1
    <3>3. QED BY <3>2
  <2> HIDE DEF I, near, nearer
  <2>2. IsFiniteSet(nearer)
    BY <1>6, <2>1, FS_Subset
  <2>3. Cardinality(near) <= Cardinality(nearer) /\ Cardinality(nearer) \in Nat /\ Cardinality(near) \in Nat
    <3>1. Cardinality(near) <= Cardinality(nearer) /\ IsFiniteSet(near)
      BY <2>1, <2>2, FS_Subset
    <3>2. QED BY <2>2, <3>1, FS_CardinalityType
  <2>4. k \in Nat
    BY <1>2
  <2>5. QED BY <1>5, <2>3, <2>4
<1>9. Cardinality({i \in I : q[i] <= m}) \in Nat /\ Cardinality(nearer) \in Nat
  <2>1. {i \in I : q[i] <= m} \in SUBSET I /\ nearer \in SUBSET I
    OBVIOUS
  <2> HIDE DEF I, nearer
  <2>2. IsFiniteSet({i \in I : q[i] <= m}) /\ IsFiniteSet(nearer)
    BY <1>6, <2>1, FS_Subset
  <2>3. QED BY <2>2, FS_CardinalityType
<1>10. /\ 2 * Cardinality({i \in I : q[i] <= m}) >= n
       /\ 2 * Cardinality(notlow) >= n
       /\ 2 * Cardinality(nearer) > n
  <2> DEFINE a == Cardinality({i \in I : q[i] <= m})
             b == Cardinality(notlow)
             c == Cardinality(nearer)
             d == Cardinality(low)
  <2>1. a \in Nat /\ c \in Nat /\ d \in Nat /\ b = n - d /\ a > k /\ c > k /\ d <= k /\ n \in Nat
    BY <1>2, <1>3, <1>7, <1>8, <1>9
  <2> HIDE DEF a, b, c, d, n
  <2>2. 2 * a >= n /\ 2 * b >= n /\ 2 * c > n
    BY <2>1
  <2>3. QED BY <2>2 DEF a, b, c
<1>11. /\ 2 * Among(q, LAMBDA v : v <= m) >= Len(q)
       /\ 2 * Among(q, LAMBDA v : v >= m) >= Len(q)
       /\ 2 * Among(q, LAMBDA v : Abs(v - m) < Abs(x - m)) > Len(q)
  BY <1>10 DEF Among
<1>12. QED BY <1>3, <1>11

----------------------------------------------------------------------------
(* Sums over sequences, and Welford's update in exact fractions.              *)

(* h is the function behind SumOf. *)
RunningSum(q, h) ==
  h = [i \in 0..Len(q) |-> IF i = 0 THEN 0 ELSE h[i - 1] + q[i]]

LEMMA SumExists ==
  ASSUME NEW q, Len(q) \in Nat
  PROVE  \E h : RunningSum(q, h)
<1> DEFINE Good(n, h) == h = [i \in 0..n |-> IF i = 0 THEN 0 ELSE h[i - 1] + q[i]]
           T == {n \in Nat : \E h : Good(n, h)}
<1>1. 0 \in T
  <2> DEFINE h == [i \in 0..0 |-> 0]
  <2>1. \A i \in 0..0 : i = 0
    OBVIOUS
  <2>2. Good(0, h)
    BY <2>1
  <2>3. QED BY <2>2
<1>2. ASSUME NEW n \in Nat, n \in T PROVE n + 1 \in T
  <2>1. PICK g : Good(n, g)
    BY <1>2
  <2> DEFINE h == [i \in 0..n + 1 |-> IF i = 0 THEN 0 ELSE g[i - 1] + q[i]]
             k == [i \in 0..n + 1 |-> IF i = 0 THEN 0 ELSE h[i - 1] + q[i]]
  <2>2. ASSUME NEW i \in 0..n + 1 PROVE h[i] = k[i]
    <3>1. CASE i = 0
      BY <3>1
    <3>2. CASE i # 0
      <4>1. i - 1 \in 0..n /\ i - 1 \in 0..n + 1
        BY <3>2
      <4>2. g[i - 1] = IF i - 1 = 0 THEN 0 ELSE g[i - 1 - 1] + q[i - 1]
        BY <2>1, <4>1
      <4>3. h[i - 1] = IF i - 1 = 0 THEN 0 ELSE g[i - 1 - 1] + q[i - 1]
        BY <4>1
      <4>4. QED BY <3>2, <4>2, <4>3
    <3>3. QED BY <3>1, <3>2
  <2>3. h = k
    BY <2>2
  <2>4. Good(n + 1, h)
    BY <2>3
  <2> HIDE DEF h, Good
  <2>5. \E f : Good(n + 1, f)
    BY <2>4
  <2>6. QED BY <2>5
<1> HIDE DEF T
<1>3. Len(q) \in T
  BY <1>1, <1>2, Induction
<1>4. QED BY <1>3 DEF T, RunningSum

LEMMA SumIsRunning ==
  ASSUME NEW q, Len(q) \in Nat
  PROVE  \E h : RunningSum(q, h) /\ SumOf(q) = h[Len(q)]
<1> DEFINE h == CHOOSE h : h = [i \in 0..Len(q) |-> IF i = 0 THEN 0 ELSE h[i - 1] + q[i]]
<1>1. SumOf(q) = h[Len(q)]
  BY DEF SumOf
<1>2. h = CHOOSE g : RunningSum(q, g)
  BY DEF RunningSum
<1> HIDE DEF h
<1>3. RunningSum(q, h)
  BY <1>2, SumExists
<1>4. QED BY <1>1, <1>3

(* What it satisfies over a sequence of numbers. *)
LEMMA RunningFacts ==
  ASSUME NEW q, Len(q) \in Nat, \A i \in 1..Len(q) : q[i] \in Int, NEW h, RunningSum(q, h)
  PROVE  /\ h[0] = 0
         /\ \A i \in 0..Len(q) : h[i] \in Int
         /\ \A i \in 1..Len(q) : h[i] = h[i - 1] + q[i]
<1>1. h[0] = 0
  BY DEF RunningSum
<1>2. \A i \in 1..Len(q) : h[i] = h[i - 1] + q[i]
  BY DEF RunningSum
<1> DEFINE T == {n \in Nat : n <= Len(q) => h[n] \in Int}
<1>3. 0 \in T
  BY <1>1
<1>4. ASSUME NEW n \in Nat, n \in T PROVE n + 1 \in T
  <2>1. CASE n + 1 <= Len(q)
    <3>1. n + 1 \in 1..Len(q) /\ h[n] \in Int /\ n + 1 - 1 = n
      BY <1>4, <2>1
    <3>2. h[n + 1] = h[n] + q[n + 1] /\ q[n + 1] \in Int
      BY <1>2, <3>1
    <3>3. QED BY <3>1, <3>2
  <2>2. QED BY <2>1
<1> HIDE DEF T
<1>5. \A n \in Nat : n \in T
  BY <1>3, <1>4, Induction
<1>6. \A i \in 0..Len(q) : h[i] \in Int
  BY <1>5 DEF T
<1>7. QED BY <1>1, <1>2, <1>6

(* The sum of a sequence and one more element. *)
LEMMA SumOfAppend ==
  ASSUME NEW q \in Seq(Int), NEW x \in Int
  PROVE  /\ SumOf(q) \in Int
         /\ q = <<>> => SumOf(q) = 0
         /\ SumOf(Append(q, x)) = SumOf(q) + x
<1> DEFINE n == Len(q)
           r == Append(q, x)
<1>1. n \in Nat /\ Len(r) = n + 1 /\ r[n + 1] = x /\ \A i \in 1..n : r[i] = q[i] /\ q[i] \in Int
  OBVIOUS
<1>2. PICK h : RunningSum(q, h) /\ SumOf(q) = h[n]
  BY <1>1, SumIsRunning
<1> HIDE DEF r
<1>3. PICK g : RunningSum(r, g) /\ SumOf(r) = g[n + 1]
  BY <1>1, SumIsRunning
<1>4. /\ h[0] = 0 /\ h[n] \in Int
      /\ \A i \in 1..n : h[i] = h[i - 1] + q[i]
  BY <1>1, <1>2, RunningFacts
<1>5. /\ g[0] = 0
      /\ \A i \in 1..n + 1 : g[i] = g[i - 1] + r[i]
  <2>1. /\ Len(r) \in Nat /\ Len(r) = n + 1 /\ RunningSum(r, g)
        /\ \A i \in 1..Len(r) : r[i] \in Int
    BY <1>1, <1>3
  <2> HIDE DEF n
  <2>2. g[0] = 0 /\ \A i \in 1..Len(r) : g[i] = g[i - 1] + r[i]
    BY <2>1, RunningFacts
  <2>3. QED BY <2>1, <2>2
<1> DEFINE T == {m \in Nat : m <= n => g[m] = h[m]}
<1>6. 0 \in T
  BY <1>4, <1>5
<1>7. ASSUME NEW m \in Nat, m \in T PROVE m + 1 \in T
  <2>1. CASE m + 1 <= n
    <3>1. m + 1 \in 1..n /\ m + 1 \in 1..n + 1 /\ g[m] = h[m] /\ m + 1 - 1 = m
      BY <1>1, <1>7, <2>1
    <3>2. g[m + 1] = g[m] + r[m + 1] /\ h[m + 1] = h[m] + q[m + 1] /\ r[m + 1] = q[m + 1]
      BY <1>1, <1>4, <1>5, <3>1
    <3>3. QED BY <3>1, <3>2
  <2>2. QED BY <2>1
<1> HIDE DEF T
<1>8. \A m \in Nat : m \in T
  BY <1>6, <1>7, Induction
<1>9. g[n] = h[n]
  BY <1>1, <1>8 DEF T
<1>10. g[n + 1] = g[n] + x
  <2>1. n + 1 \in 1..n + 1 /\ n + 1 - 1 = n
    BY <1>1
  <2>2. QED BY <1>1, <1>5, <2>1
<1>11. q = <<>> => n = 0
  OBVIOUS
<1>12. QED BY <1>2, <1>3, <1>4, <1>9, <1>10, <1>11 DEF r

(* The sum of squared deviations from d / c, from those of values and squares. *)
LEMMA SumOfSquares ==
  ASSUME NEW q \in Seq(Int), NEW c \in Int, NEW d \in Int
  PROVE  SumOf([i \in 1..Len(q) |-> (c * q[i] - d) * (c * q[i] - d)])
           = c * c * SumOf([i \in 1..Len(q) |-> q[i] * q[i]]) - 2 * c * d * SumOf(q) + Len(q) * d * d
<1> DEFINE n == Len(q)
           s == [i \in 1..n |-> q[i] * q[i]]
           t == [i \in 1..n |-> (c * q[i] - d) * (c * q[i] - d)]
<1>1. /\ n \in Nat /\ Len(s) = n /\ Len(t) = n
      /\ \A i \in 1..n : /\ q[i] \in Int /\ s[i] = q[i] * q[i]
                         /\ t[i] = (c * q[i] - d) * (c * q[i] - d)
                         /\ s[i] \in Int /\ t[i] \in Int
  OBVIOUS
<1> HIDE DEF n, s, t
<1>2. PICK f : RunningSum(q, f) /\ SumOf(q) = f[n]
  BY <1>1, SumIsRunning DEF n
<1>3. PICK g : RunningSum(s, g) /\ SumOf(s) = g[n]
  BY <1>1, SumIsRunning
<1>4. PICK h : RunningSum(t, h) /\ SumOf(t) = h[n]
  BY <1>1, SumIsRunning
<1>5. f[0] = 0 /\ (\A i \in 0..n : f[i] \in Int) /\ \A i \in 1..n : f[i] = f[i - 1] + q[i]
  BY <1>1, <1>2, RunningFacts DEF n
<1>6. g[0] = 0 /\ (\A i \in 0..n : g[i] \in Int) /\ \A i \in 1..n : g[i] = g[i - 1] + s[i]
  <2>1. Len(s) \in Nat /\ RunningSum(s, g) /\ \A i \in 1..Len(s) : s[i] \in Int
    BY <1>1, <1>3
  <2>2. /\ g[0] = 0 /\ \A i \in 0..Len(s) : g[i] \in Int
        /\ \A i \in 1..Len(s) : g[i] = g[i - 1] + s[i]
    BY <2>1, RunningFacts
  <2>3. QED BY <1>1, <2>2
<1>7. h[0] = 0 /\ (\A i \in 0..n : h[i] \in Int) /\ \A i \in 1..n : h[i] = h[i - 1] + t[i]
  <2>1. Len(t) \in Nat /\ RunningSum(t, h) /\ \A i \in 1..Len(t) : t[i] \in Int
    BY <1>1, <1>4
  <2>2. /\ h[0] = 0 /\ \A i \in 0..Len(t) : h[i] \in Int
        /\ \A i \in 1..Len(t) : h[i] = h[i - 1] + t[i]
    BY <2>1, RunningFacts
  <2>3. QED BY <1>1, <2>2
<1> DEFINE T == {m \in Nat : m <= n => h[m] = c * c * g[m] - 2 * c * d * f[m] + m * d * d}
<1>8. 0 \in T
  BY <1>5, <1>6, <1>7
<1>9. ASSUME NEW m \in Nat, m \in T PROVE m + 1 \in T
  <2>1. CASE m + 1 <= n
    <3>1. m + 1 \in 1..n /\ m \in 0..n /\ m + 1 - 1 = m
      BY <1>1, <2>1
    <3> DEFINE x == q[m + 1]
    <3>7. /\ x \in Int /\ s[m + 1] = x * x /\ t[m + 1] = (c * x - d) * (c * x - d)
      BY <1>1, <3>1
    <3>8. f[m] \in Int /\ g[m] \in Int /\ h[m] \in Int
      BY <1>5, <1>6, <1>7, <3>1
    <3>9. f[m + 1] = f[m] + x
      BY <1>5, <3>1
    <3>10. g[m + 1] = g[m] + s[m + 1]
      BY <1>6, <3>1
    <3>11. h[m + 1] = h[m] + t[m + 1]
      BY <1>7, <3>1
    <3>2. /\ f[m + 1] = f[m] + x /\ g[m + 1] = g[m] + x * x
          /\ h[m + 1] = h[m] + (c * x - d) * (c * x - d)
          /\ x \in Int /\ f[m] \in Int /\ g[m] \in Int /\ h[m] \in Int
      BY <3>7, <3>8, <3>9, <3>10, <3>11
    <3>3. h[m] = c * c * g[m] - 2 * c * d * f[m] + m * d * d
      BY <1>9, <2>1, <1>1
    <3> HIDE DEF x
    <3>4. \A a, b, e \in Int :
            e = c * c * b - 2 * c * d * a + m * d * d
              => e + (c * x - d) * (c * x - d)
                   = c * c * (b + x * x) - 2 * c * d * (a + x) + (m + 1) * d * d
      BY <3>2
    <3>12. h[m] + (c * x - d) * (c * x - d)
             = c * c * (g[m] + x * x) - 2 * c * d * (f[m] + x) + (m + 1) * d * d
      <4> DEFINE Step(a, b, e) == e = c * c * b - 2 * c * d * a + m * d * d
              => e + (c * x - d) * (c * x - d)
                   = c * c * (b + x * x) - 2 * c * d * (a + x) + (m + 1) * d * d
      <4>1. \A a, b, e \in Int : Step(a, b, e)
        BY <3>4
      <4> HIDE DEF Step
      <4>2. Step(f[m], g[m], h[m])
        BY <3>2, <4>1
      <4>3. QED BY <3>3, <4>2 DEF Step
    <3>5. h[m + 1] = c * c * g[m + 1] - 2 * c * d * f[m + 1] + (m + 1) * d * d
      <4>1. h[m + 1] = h[m] + (c * x - d) * (c * x - d)
        BY <3>2
      <4>2. f[m + 1] = f[m] + x
        BY <3>2
      <4>3. g[m + 1] = g[m] + x * x
        BY <3>2
      <4> HIDE DEF T
      <4>4. QED BY ONLY <3>12, <4>1, <4>2, <4>3, Zenon
    <3>6. QED BY <3>5
  <2>2. QED BY <2>1
<1> HIDE DEF T
<1>10. \A m \in Nat : m \in T
  BY <1>8, <1>9, Induction
<1>11. h[n] = c * c * g[n] - 2 * c * d * f[n] + n * d * d
  BY <1>1, <1>10 DEF T
<1>12. QED BY <1>2, <1>3, <1>4, <1>11 DEF n, s, t

LEMMA Cancel ==
  ASSUME NEW a \in Int, NEW b \in Int, NEW c \in Int, c # 0, a * c = b * c
  PROVE  a = b
<1>1. (a - b) * c = 0
  OBVIOUS
<1>2. a - b \in Int /\ \A z \in Int : z * c = 0 => z = 0
  OBVIOUS
<1>3. QED BY <1>1, <1>2

LEMMA Positive ==
  ASSUME NEW a \in Nat \ {0}, NEW b \in Nat \ {0}
  PROVE  a * b \in Nat \ {0}
OBVIOUS

(* Fractions that are equal to p / q; f need not be in lowest terms. *)
Val(f, p, q) ==
  f.num \in Int /\ f.den \in Nat \ {0} /\ p \in Int /\ q \in Nat \ {0} /\ f.num * q = p * f.den

LEMMA Divides ==
  ASSUME NEW a \in Int, NEW d \in Nat \ {0}, a % d = 0
  PROVE  a \div d \in Int /\ (a \div d) * d = a
OBVIOUS

LEMMA FracFacts ==
  ASSUME NEW a \in Int, NEW b \in Nat \ {0}
  PROVE  Val(Frac(a, b), a, b)
<1> DEFINE D == {d \in 1..b : a % d = 0 /\ b % d = 0}
           g == gcd(a, b)
<1>1. 1 \in D
  OBVIOUS
<1>2. \E d \in D : \A e \in D : d >= e
  <2> DEFINE id == [d \in D |-> d]
  <2>1. \A d \in D : id[d] = d /\ d \in Nat /\ d <= b
    OBVIOUS
  <2> HIDE DEF D, id
  <2>4. /\ D # {} /\ b \in Nat
        /\ \A d \in D : id[d] \in Nat /\ id[d] <= b
    BY <1>1, <2>1
  <2>2. PICK m \in D : \A d \in D : id[d] <= id[m]
    BY <2>4, GreatestValue
  <2>3. QED BY <2>1, <2>2
<1>3. g = CHOOSE d \in D : \A e \in D : d >= e
  BY DEF gcd, Max
<1> HIDE DEF g
<1>4. g \in D
  <2> HIDE DEF D
  <2>1. QED BY <1>2, <1>3
<1>5. g \in Nat \ {0} /\ a % g = 0 /\ b % g = 0
  BY <1>4
<1> DEFINE n == a \div g
           e == b \div g
<1>6. n \in Int /\ n * g = a
  BY <1>5, Divides
<1>7. e \in Int /\ e * g = b
  BY <1>5, Divides
<1>8. e \in Nat \ {0}
  BY <1>5, <1>7
<1>9. Frac(a, b).num = n /\ Frac(a, b).den = e
  BY DEF Frac, g
<1> HIDE DEF n, e
<1>10. n * b = a * e
  <2>1. n * b = n * (e * g) /\ a * e = (n * g) * e
    BY <1>6, <1>7
  <2>2. n * (e * g) = (n * g) * e
    BY <1>5, <1>6, <1>7
  <2>3. QED BY <2>1, <2>2
<1>11. QED BY <1>6, <1>8, <1>9, <1>10 DEF Val

(* n / d = p / q, and that it is transitive. *)
Equal(n, d, p, q) == n * q = p * d

LEMMA EqualTrans ==
  ASSUME NEW n \in Int, NEW d \in Int, NEW A \in Int, NEW B \in Int, NEW p \in Int, NEW q \in Int,
         B # 0, Equal(n, d, A, B), Equal(A, B, p, q)
  PROVE  Equal(n, d, p, q)
<1>1. (n * q) * B = (n * B) * q /\ (A * d) * q = (A * q) * d /\ (p * B) * d = (p * d) * B
  OBVIOUS
<1>2. (n * q) * B = (p * d) * B
  BY <1>1 DEF Equal
<1>3. n * q \in Int /\ p * d \in Int
  OBVIOUS
<1>4. QED BY <1>2, <1>3, Cancel DEF Equal

LEMMA ValScale ==
  ASSUME NEW f, NEW A, NEW B, Val(f, A, B), NEW p \in Int, NEW q \in Nat \ {0}, A * q = p * B
  PROVE  Val(f, p, q)
<1>1. /\ f.num \in Int /\ f.den \in Nat \ {0} /\ A \in Int /\ B \in Nat \ {0} /\ B # 0
      /\ Equal(f.num, f.den, A, B) /\ Equal(A, B, p, q)
  BY DEF Val, Equal
<1>2. Equal(f.num, f.den, p, q)
  BY <1>1, EqualTrans
<1>3. QED BY <1>1, <1>2 DEF Val, Equal

LEMMA ValWhole == ASSUME NEW x \in Int PROVE Val(Whole(x), x, 1)
BY DEF Val, Whole

LEMMA ValPlus ==
  ASSUME NEW f, NEW g, NEW p, NEW q, NEW r, NEW s, Val(f, p, q), Val(g, r, s)
  PROVE  Val(Plus(f, g), p * s + r * q, q * s)
<1> DEFINE a == f.num  b == f.den  c == g.num  d == g.den
<1>1. /\ a \in Int /\ b \in Nat \ {0} /\ p \in Int /\ q \in Nat \ {0} /\ a * q = p * b
      /\ c \in Int /\ d \in Nat \ {0} /\ r \in Int /\ s \in Nat \ {0} /\ c * s = r * d
  BY DEF Val
<1>2. Plus(f, g) = Frac(a * d + c * b, b * d)
  BY DEF Plus
<1> HIDE DEF a, b, c, d
<1>3. /\ a * d + c * b \in Int /\ b * d \in Nat \ {0}
      /\ p * s + r * q \in Int /\ q * s \in Nat \ {0}
  BY <1>1, Positive
<1>4. Val(Plus(f, g), a * d + c * b, b * d)
  BY <1>2, <1>3, FracFacts
<1>5. (a * d + c * b) * (q * s) = (p * s + r * q) * (b * d)
  <2>1. (a * d + c * b) * (q * s) = (a * q) * (d * s) + (c * s) * (b * q)
    BY <1>1
  <2>2. (p * s + r * q) * (b * d) = (p * b) * (d * s) + (r * d) * (b * q)
    BY <1>1
  <2>3. QED BY <1>1, <2>1, <2>2
<1>6. QED BY <1>3, <1>4, <1>5, ValScale

LEMMA ValMinus ==
  ASSUME NEW f, NEW g, NEW p, NEW q, NEW r, NEW s, Val(f, p, q), Val(g, r, s)
  PROVE  Val(Minus(f, g), p * s - r * q, q * s)
<1> DEFINE a == f.num  b == f.den  c == g.num  d == g.den
<1>1. /\ a \in Int /\ b \in Nat \ {0} /\ p \in Int /\ q \in Nat \ {0} /\ a * q = p * b
      /\ c \in Int /\ d \in Nat \ {0} /\ r \in Int /\ s \in Nat \ {0} /\ c * s = r * d
  BY DEF Val
<1>2. Minus(f, g) = Frac(a * d - c * b, b * d)
  BY DEF Minus
<1> HIDE DEF a, b, c, d
<1>3. /\ a * d - c * b \in Int /\ b * d \in Nat \ {0}
      /\ p * s - r * q \in Int /\ q * s \in Nat \ {0}
  BY <1>1, Positive
<1>4. Val(Minus(f, g), a * d - c * b, b * d)
  BY <1>2, <1>3, FracFacts
<1>5. (a * d - c * b) * (q * s) = (p * s - r * q) * (b * d)
  <2>1. (a * d - c * b) * (q * s) = (a * q) * (d * s) - (c * s) * (b * q)
    BY <1>1
  <2>2. (p * s - r * q) * (b * d) = (p * b) * (d * s) - (r * d) * (b * q)
    BY <1>1
  <2>3. QED BY <1>1, <2>1, <2>2
<1>6. QED BY <1>3, <1>4, <1>5, ValScale

LEMMA ValTimes ==
  ASSUME NEW f, NEW g, NEW p, NEW q, NEW r, NEW s, Val(f, p, q), Val(g, r, s)
  PROVE  Val(Times(f, g), p * r, q * s)
<1> DEFINE a == f.num  b == f.den  c == g.num  d == g.den
<1>1. /\ a \in Int /\ b \in Nat \ {0} /\ p \in Int /\ q \in Nat \ {0} /\ a * q = p * b
      /\ c \in Int /\ d \in Nat \ {0} /\ r \in Int /\ s \in Nat \ {0} /\ c * s = r * d
  BY DEF Val
<1>2. Times(f, g) = Frac(a * c, b * d)
  BY DEF Times
<1> HIDE DEF a, b, c, d
<1>3. /\ a * c \in Int /\ b * d \in Nat \ {0} /\ p * r \in Int /\ q * s \in Nat \ {0}
  BY <1>1, Positive
<1>4. Val(Times(f, g), a * c, b * d)
  BY <1>2, <1>3, FracFacts
<1>5. (a * c) * (q * s) = (p * r) * (b * d)
  <2>1. (a * c) * (q * s) = (a * q) * (c * s) /\ (p * r) * (b * d) = (p * b) * (r * d)
    BY <1>1
  <2>2. QED BY <1>1, <2>1
<1>6. QED BY <1>3, <1>4, <1>5, ValScale

LEMMA ValSame ==
  ASSUME NEW f, NEW g, NEW p, NEW q, NEW s, NEW t, Val(f, p, q), Val(g, s, t), p * t = s * q
  PROVE  Same(f, g)
<1>0. s \in Int /\ t \in Nat \ {0}
  BY DEF Val
<1>1. Val(f, s, t)
  BY <1>0, ValScale
<1>2. /\ f.num \in Int /\ f.den \in Nat \ {0} /\ s \in Int /\ t \in Nat \ {0} /\ t # 0
      /\ g.num \in Int /\ g.den \in Nat \ {0}
      /\ Equal(f.num, f.den, s, t) /\ Equal(s, t, g.num, g.den)
  BY <1>1 DEF Val, Equal
<1>3. Equal(f.num, f.den, g.num, g.den)
  BY <1>2, EqualTrans
<1>4. QED BY <1>2, <1>3 DEF Same, Equal

(* w has seen n values with sum S and a mean of p / q. *)
Averages(w, n, S, p, q) == w.n = n /\ Val(w.mean, p, q) /\ Equal(p, q, S, n)

LEMMA UpdateMean ==
  ASSUME NEW w, NEW n \in Nat, NEW S \in Int, NEW p \in Int, NEW q \in Nat \ {0}, NEW x \in Int,
         Averages(w, n, S, p, q)
  PROVE  /\ Update(w, x).n = n + 1
         /\ Val(Minus(Whole(x), w.mean), x * q - p, q)
         /\ Val(Update(w, x).mean, S + x, n + 1)
<1>0. w.n = n /\ Val(w.mean, p, q) /\ p * n = S * q
  BY DEF Averages, Equal
<1> DEFINE delta == Minus(Whole(x), w.mean)
<1>1. Val(delta, x * q - p, q)
  <2>1. Val(delta, x * q - p * 1, 1 * q)
    BY <1>0, ValWhole, ValMinus
  <2>2. x * q - p * 1 = x * q - p /\ 1 * q = q
    OBVIOUS
  <2>3. QED BY <2>1, <2>2
<1> HIDE DEF delta
<1>2. Val(Frac(1, n + 1), 1, n + 1)
  BY FracFacts
<1>3. Val(Times(delta, Frac(1, n + 1)), (x * q - p) * 1, q * (n + 1))
  BY <1>1, <1>2, ValTimes
<1> DEFINE mean == Plus(w.mean, Times(delta, Frac(1, n + 1)))
<1>4. Val(mean, p * (q * (n + 1)) + ((x * q - p) * 1) * q, q * (q * (n + 1)))
  BY <1>0, <1>3, ValPlus
<1> HIDE DEF mean
<1>5. (p * (q * (n + 1)) + ((x * q - p) * 1) * q) * (n + 1) = (S + x) * (q * (q * (n + 1)))
  <2>1. (p * (q * (n + 1)) + ((x * q - p) * 1) * q) * (n + 1) = (p * n + x * q) * (q * (n + 1))
    OBVIOUS
  <2>2. (S + x) * (q * (q * (n + 1))) = (S * q + x * q) * (q * (n + 1))
    OBVIOUS
  <2>3. QED BY <1>0, <2>1, <2>2
<1>6. Val(mean, S + x, n + 1)
  <2>1. S + x \in Int /\ n + 1 \in Nat \ {0}
    OBVIOUS
  <2>2. QED BY <1>4, <1>5, <2>1, ValScale
<1>7. Update(w, x).n = n + 1 /\ Update(w, x).mean = mean
  BY <1>0 DEF Update, mean, delta
<1>8. QED BY <1>1, <1>6, <1>7 DEF delta

(* w has seen n values with sum S and sum of squares Q. *)
Carries(w, n, S, Q) ==
  /\ n \in Nat \ {0} /\ S \in Int /\ Q \in Int
  /\ w.n = n /\ Val(w.mean, S, n) /\ Val(w.m2, n * Q - S * S, n)

LEMMA UpdateSquares ==
  ASSUME NEW w, NEW n, NEW S, NEW Q, NEW x \in Int, Carries(w, n, S, Q)
  PROVE  Carries(Update(w, x), n + 1, S + x, Q + x * x)
<1>0. /\ n \in Nat \ {0} /\ n \in Nat /\ S \in Int /\ Q \in Int
      /\ Val(w.m2, n * Q - S * S, n) /\ Averages(w, n, S, S, n)
  BY DEF Carries, Averages, Equal
<1> DEFINE delta == Minus(Whole(x), w.mean)
           mean  == Update(w, x).mean
           delta2 == Minus(Whole(x), mean)
           y == x * n - S
           M == n * Q - S * S
           N1 == (n + 1) * (Q + x * x) - (S + x) * (S + x)
<1>2. Val(delta, y, n) /\ Update(w, x).n = n + 1 /\ Val(mean, S + x, n + 1)
  BY <1>0, UpdateMean
<1>3. Update(w, x).m2 = Plus(w.m2, Times(delta, delta2))
  BY DEF Update
<1> HIDE DEF delta, mean
<1>4. Val(delta2, y, n + 1)
  <2>1. Val(delta2, x * (n + 1) - (S + x) * 1, 1 * (n + 1))
    BY <1>2, ValWhole, ValMinus
  <2>2. x * (n + 1) - (S + x) * 1 = y /\ 1 * (n + 1) = n + 1
    BY <1>0
  <2>3. QED BY <2>1, <2>2
<1> HIDE DEF delta2
<1>5. y \in Int /\ M \in Int /\ N1 \in Int /\ n + 1 \in Nat \ {0}
  BY <1>0
<1>6. M * (n + 1) + y * y = n * N1
  BY <1>0
<1>7. Val(w.m2, M, n)
  BY <1>0
<1> HIDE DEF y, M, N1
<1>8. Val(Times(delta, delta2), y * y, n * (n + 1))
  BY <1>2, <1>4, ValTimes
<1>9. Val(Update(w, x).m2, M * (n * (n + 1)) + (y * y) * n, n * (n * (n + 1)))
  BY <1>3, <1>7, <1>8, ValPlus
<1>10. (M * (n * (n + 1)) + (y * y) * n) * (n + 1) = N1 * (n * (n * (n + 1)))
  <2>1. (M * (n * (n + 1)) + (y * y) * n) * (n + 1) = (M * (n + 1) + y * y) * (n * (n + 1))
    BY <1>0, <1>5
  <2>2. N1 * (n * (n * (n + 1))) = (n * N1) * (n * (n + 1))
    BY <1>0, <1>5
  <2>3. QED BY <1>6, <2>1, <2>2
<1>11. Val(Update(w, x).m2, N1, n + 1)
  BY <1>5, <1>9, <1>10, ValScale
<1>12. Val(Update(w, x).mean, S + x, n + 1) /\ S + x \in Int /\ Q + x * x \in Int
  BY <1>0, <1>2 DEF mean
<1>13. Val(Update(w, x).m2, (n + 1) * (Q + x * x) - (S + x) * (S + x), n + 1)
  BY <1>11 DEF N1
<1>14. QED BY <1>2, <1>5, <1>12, <1>13 DEF Carries

(* The first value of a series. *)
LEMMA UpdateFirst ==
  ASSUME NEW x \in Int
  PROVE  /\ Update(NoWelford, x).n = 1
         /\ Val(Update(NoWelford, x).mean, x, 1)
         /\ Val(Update(NoWelford, x).m2, 0, 1)
<1> DEFINE w == NoWelford
<1>1. w.n = 0 /\ w.mean = Whole(0) /\ w.m2 = Whole(0)
  BY DEF NoWelford
<1> HIDE DEF w
<1>2. Val(w.mean, 0, 1) /\ Val(w.m2, 0, 1) /\ Averages(w, 0, 0, 0, 1)
  BY <1>1, ValWhole DEF Averages, Equal
<1>3. Update(w, x).n = 0 + 1 /\ Val(Minus(Whole(x), w.mean), x * 1 - 0, 1) /\ Val(Update(w, x).mean, 0 + x, 0 + 1)
  BY <1>1, <1>2, UpdateMean
<1>4. x * 1 - 0 = x /\ 0 + x = x /\ 0 + 1 = 1
  OBVIOUS
<1>5. Update(w, x).n = 1 /\ Val(Minus(Whole(x), w.mean), x, 1) /\ Val(Update(w, x).mean, x, 1)
  BY <1>3, <1>4
<1> DEFINE delta == Minus(Whole(x), w.mean)
           mean  == Update(w, x).mean
           delta2 == Minus(Whole(x), mean)
<1>6. Update(w, x).m2 = Plus(w.m2, Times(delta, delta2))
  BY DEF Update
<1> HIDE DEF delta, mean
<1>7. Val(delta, x, 1) /\ Val(mean, x, 1)
  BY <1>5 DEF delta, mean
<1>8. Val(delta2, x * 1 - x * 1, 1 * 1)
  BY <1>7, ValWhole, ValMinus
<1>9. Val(delta2, 0, 1)
  <2>1. x * 1 - x * 1 = 0 /\ 1 * 1 = 1
    OBVIOUS
  <2>2. QED BY <1>8, <2>1
<1> HIDE DEF delta2
<1>10. Val(Times(delta, delta2), x * 0, 1 * 1)
  BY <1>7, <1>9, ValTimes
<1>11. Val(Times(delta, delta2), 0, 1)
  <2>1. x * 0 = 0 /\ 1 * 1 = 1
    OBVIOUS
  <2>2. QED BY <1>10, <2>1
<1>12. Val(Update(w, x).m2, 0 * 1 + 0 * 1, 1 * 1)
  BY <1>2, <1>6, <1>11, ValPlus
<1>13. QED BY <1>5, <1>12 DEF w, mean

(* The running statistics of the values judged. *)
Squared(q) == [i \in 1..Len(q) |-> q[i] * q[i]]

Sums(w, q) == Carries(w, Len(q), SumOf(q), SumOf(Squared(q)))

LEMMA SquaredAppend ==
  ASSUME NEW q \in Seq(Int), NEW x \in Int
  PROVE  Squared(q) \in Seq(Int) /\ Squared(Append(q, x)) = Append(Squared(q), x * x)
<1> DEFINE a == Squared(Append(q, x))
           b == Append(Squared(q), x * x)
           n == Len(q)
<1>1. n \in Nat /\ Squared(q) \in Seq(Int) /\ Len(Squared(q)) = n /\ \A i \in 1..n : Squared(q)[i] = q[i] * q[i]
  BY DEF Squared
<1>2. Len(Append(q, x)) = n + 1 /\ Append(q, x)[n + 1] = x /\ \A i \in 1..n : Append(q, x)[i] = q[i] /\ q[i] \in Int
  OBVIOUS
<1>3. a \in Seq(Int) /\ Len(a) = n + 1 /\ a[n + 1] = x * x /\ \A i \in 1..n : a[i] = q[i] * q[i]
  <2>1. a = [i \in 1..n + 1 |-> Append(q, x)[i] * Append(q, x)[i]]
    BY <1>2 DEF Squared
  <2>2. \A i \in 1..n + 1 : i \in 1..n \/ i = n + 1
    BY <1>1
  <2>3. \A i \in 1..n + 1 : Append(q, x)[i] \in Int
    BY <1>2, <2>2
  <2>4. \A i \in 1..n + 1 : Append(q, x)[i] * Append(q, x)[i] \in Int
    BY <2>3
  <2> HIDE DEF a, n
  <2>5. QED BY <1>1, <1>2, <2>1, <2>4
<1>4. b \in Seq(Int) /\ Len(b) = n + 1 /\ b[n + 1] = x * x /\ \A i \in 1..n : b[i] = q[i] * q[i]
  BY <1>1
<1> HIDE DEF a, b, n
<1>5. \A i \in 1..n + 1 : a[i] = b[i]
  <2>1. \A i \in 1..n + 1 : i \in 1..n \/ i = n + 1
    BY <1>1
  <2>2. QED BY <1>3, <1>4, <2>1
<1>6. a = b
  BY <1>1, <1>3, <1>4, <1>5, SeqEqual
<1>7. QED BY <1>1, <1>6 DEF a, b

LEMMA SumsFirst ==
  ASSUME NEW x \in Int
  PROVE  Sums(Update(NoWelford, x), Append(<<>>, x))
<1> DEFINE e == <<>>
           q == Append(e, x)
           s == Squared(e)
<1>1. e \in Seq(Int) /\ e = <<>> /\ Len(q) = 1
  OBVIOUS
<1>2. s \in Seq(Int) /\ s = <<>>
  BY DEF Squared
<1> HIDE DEF e
<1>3. SumOf(q) = SumOf(e) + x /\ SumOf(e) = 0
  BY <1>1, SumOfAppend
<1>4. Squared(q) = Append(s, x * x)
  BY <1>1, SquaredAppend
<1> HIDE DEF q, s
<1>5. SumOf(Append(s, x * x)) = SumOf(s) + x * x /\ SumOf(s) = 0
  <2>1. x * x \in Int
    OBVIOUS
  <2>2. QED BY <1>2, <2>1, SumOfAppend
<1>6. SumOf(q) = x /\ SumOf(Squared(q)) = x * x
  BY <1>3, <1>4, <1>5
<1>7. 1 * (x * x) - x * x = 0
  OBVIOUS
<1>8. QED BY <1>1, <1>6, <1>7, UpdateFirst DEF Sums, Carries, q, e

LEMMA SumsNext ==
  ASSUME NEW q \in Seq(Int), NEW x \in Int, NEW w, Sums(w, q)
  PROVE  Sums(Update(w, x), Append(q, x))
<1> DEFINE n == Len(q)
           S == SumOf(q)
           Q == SumOf(Squared(q))
           r == Append(q, x)
<1>1. SumOf(r) = S + x /\ SumOf(Squared(r)) = Q + x * x /\ Len(r) = n + 1
  <2>1. Squared(q) \in Seq(Int) /\ x * x \in Int /\ Squared(r) = Append(Squared(q), x * x)
    BY SquaredAppend
  <2>2. SumOf(Append(Squared(q), x * x)) = Q + x * x
    BY <2>1, SumOfAppend
  <2>3. SumOf(r) = S + x
    BY SumOfAppend
  <2>4. QED BY <2>1, <2>2, <2>3
<1>2. Carries(w, n, S, Q)
  BY DEF Sums
<1> HIDE DEF n, S, Q, r
<1>3. Carries(Update(w, x), n + 1, S + x, Q + x * x)
  BY <1>2, UpdateSquares
<1>4. QED BY <1>1, <1>3 DEF Sums, r

(* What they say of mean and squared deviations. *)
LEMMA SumsExact ==
  ASSUME NEW q \in Seq(Int), NEW w, Sums(w, q)
  PROVE  w.n = Len(q) /\ Same(w.mean, MeanOf(q)) /\ Same(w.m2, SquaresOf(q))
<1> DEFINE n == Len(q)
           S == SumOf(q)
           Q == SumOf(Squared(q))
           T == SumOf([i \in 1..n |-> (n * q[i] - S) * (n * q[i] - S)])
<1>1. n \in Nat \ {0} /\ n \in Int /\ w.n = n /\ Val(w.mean, S, n) /\ Val(w.m2, n * Q - S * S, n)
  BY DEF Sums, Carries
<1>2. S \in Int /\ Q \in Int
  BY DEF Sums, Carries
<1>3. T = n * n * Q - 2 * n * S * S + n * S * S
  BY <1>1, <1>2, SumOfSquares DEF Squared
<1>4. MeanOf(q) = Frac(S, n) /\ SquaresOf(q) = Frac(T, n * n)
  BY DEF MeanOf, SquaresOf
<1> HIDE DEF n, S, Q, T
<1>5. T \in Int /\ n * n \in Nat \ {0}
  BY <1>1, <1>2, <1>3, Positive
<1>6. Val(MeanOf(q), S, n) /\ Val(SquaresOf(q), T, n * n)
  BY <1>1, <1>2, <1>4, <1>5, FracFacts
<1>7. Same(w.mean, MeanOf(q))
  BY <1>1, <1>6, ValSame
<1>8. (n * Q - S * S) * (n * n) = T * n
  BY <1>1, <1>2, <1>3
<1>9. Same(w.m2, SquaresOf(q))
  BY <1>1, <1>6, <1>8, ValSame
<1>10. QED BY <1>1, <1>7, <1>9 DEF n

----------------------------------------------------------------------------
(* The invariant of the spike detector.                                       *)

(* A series in the snapshot, and the copy of it that a tick judges. *)
Entry == [value : Value, ts : Time, slow : Seq(Value), last_slow : Nat]
Copy  == [key : Series, value : Value, ts : Time, slow : Seq(Value)]

Types ==
  /\ \A k \in DOMAIN snap : k \in Series /\ snap[k] \in Entry
  /\ pc \in {"select", "loop", "push", "stopped"}
  /\ \A s \in work : s \in Copy
  /\ \A k \in DOMAIN last_fired : last_fired[k] \in Time
  /\ fired \in Seq(Copy) /\ offered \in Nat

(* last_fired is not behind any spike of its series. *)
FiredLast ==
  \A i \in 1..Len(fired) :
    fired[i].key \in DOMAIN last_fired /\ fired[i].ts <= last_fired[fired[i].key]

(* The spike being reported is the last one found. *)
InHand == pc = "push" => Len(fired) > 0 /\ at = fired[Len(fired)]

(* What was reported stood out of the slow tail it was judged by. *)
FiredStandOut == \A i \in 1..Len(fired) : StandsOut(fired[i].value, fired[i].slow)

(* A series' statistics carry the sums of all the values judged of it. *)
WelfordSums ==
  /\ judged \in [Series -> Seq(Value)] /\ DOMAIN welford \subseteq Series
  /\ \A k \in Series : IF k \in DOMAIN welford THEN Sums(welford[k], judged[k]) ELSE judged[k] = <<>>

IInv == Types /\ FiredLast /\ SpikesSpaced /\ InHand /\ ReportedInOrder /\ FiredStandOut /\ WelfordSums

----------------------------------------------------------------------------
LEMMA InitIInv == Init => IInv
<1> SUFFICES ASSUME Init PROVE IInv
  OBVIOUS
<1>1. fired = <<>> /\ offered = 0 /\ announced = <<>> /\ pc = "select" /\ snap = <<>> /\ work = {}
      /\ last_fired = <<>> /\ welford = <<>> /\ judged = [k \in Series |-> <<>>]
  BY DEF Init
<1>2. <<>> \in Seq(Copy) /\ Len(<<>>) = 0 /\ DOMAIN <<>> = {}
  OBVIOUS
<1>3. Types /\ FiredLast /\ InHand
  BY <1>1, <1>2 DEF Types, FiredLast, InHand
<1>4. SpikesSpaced
  BY <1>1, <1>2 DEF SpikesSpaced
<1>5. SubSeq(<<>>, 1, 0) = <<>>
  OBVIOUS
<1>6. ReportedInOrder
  BY <1>1, <1>2, <1>5 DEF ReportedInOrder
<1>7. FiredStandOut
  BY <1>1, <1>2 DEF FiredStandOut
<1>8. WelfordSums
  <2>1. \A k \in Series : judged[k] = <<>> /\ judged[k] \in Seq(Value)
    BY <1>1
  <2>2. judged \in [Series -> Seq(Value)]
    BY <1>1, <2>1
  <2>3. QED BY <1>1, <1>2, <2>1, <2>2 DEF WelfordSums
<1>9. QED BY <1>3, <1>4, <1>6, <1>7, <1>8 DEF IInv

(* Steps that find and report no spike. *)
LEMMA QuietStep ==
  ASSUME IInv, Types', WelfordSums', UNCHANGED <<last_fired, fired, offered, announced>>,
         pc # "push", pc' # "push"
  PROVE  IInv'
<1>1. FiredLast' /\ SpikesSpaced'
  BY DEF IInv, FiredLast, SpikesSpaced
<1>2. InHand' /\ ReportedInOrder'
  BY DEF IInv, InHand, ReportedInOrder
<1>3. FiredStandOut'
  BY DEF IInv, FiredStandOut
<1>4. QED BY <1>1, <1>2, <1>3 DEF IInv

(* A sample is published, whatever the detector is doing. *)
LEMMA PublishStep == ASSUME IInv, Publish PROVE IInv'
<1>1. UNCHANGED <<pc, work, at, welford, last_fired, judged, fired, offered, announced>>
  BY DEF Publish
<1>2. PICK k \in Series, x \in Value, t \in Time :
        LET old  == IF k \in DOMAIN snap THEN snap[k] ELSE NewSeries
            kept == IF Len(old.slow) < SlowCap THEN old.slow ELSE Tail(old.slow)
        IN  snap' = Extended(snap, k,
                      IF t >= old.last_slow + SlowGap
                      THEN [value |-> x, ts |-> t, slow |-> Append(kept, x), last_slow |-> t]
                      ELSE [old EXCEPT !.value = x, !.ts = t])
  BY DEF Publish
<1> DEFINE old  == IF k \in DOMAIN snap THEN snap[k] ELSE NewSeries
           kept == IF Len(old.slow) < SlowCap THEN old.slow ELSE Tail(old.slow)
           new  == IF t >= old.last_slow + SlowGap
                   THEN [value |-> x, ts |-> t, slow |-> Append(kept, x), last_slow |-> t]
                   ELSE [old EXCEPT !.value = x, !.ts = t]
<1>3. snap' = Extended(snap, k, new)
  BY <1>2
<1>4. /\ old \in [value : Nat, ts : Nat, slow : Seq(Value), last_slow : Nat]
  <2>1. NewSeries \in [value : Nat, ts : Nat, slow : Seq(Value), last_slow : Nat]
    BY DEF NewSeries
  <2>2. \A e \in Entry : e \in [value : Nat, ts : Nat, slow : Seq(Value), last_slow : Nat]
    BY SpikeDetectorAssumption DEF Entry
  <2>3. QED BY <2>1, <2>2 DEF IInv, Types
<1> HIDE DEF old
<1>5. kept \in Seq(Value)
  <2>1. old.slow \in Seq(Value) /\ SlowCap \in Nat \ {0}
    BY <1>4, SpikeDetectorAssumption
  <2>2. CASE Len(old.slow) < SlowCap
    BY <2>1, <2>2
  <2>3. CASE ~(Len(old.slow) < SlowCap)
    <3>1. old.slow # <<>>
      BY <2>1, <2>3
    <3>2. QED BY <2>1, <2>3, <3>1
  <2>4. QED BY <2>2, <2>3
<1> HIDE DEF kept
<1>6. new \in Entry
  <2>1. Append(kept, x) \in Seq(Value) /\ t \in Nat
    BY <1>5, SpikeDetectorAssumption
  <2>2. [value |-> x, ts |-> t, slow |-> Append(kept, x), last_slow |-> t] \in Entry
    BY <2>1 DEF Entry
  <2>3. [old EXCEPT !.value = x, !.ts = t] \in Entry
    BY <1>4 DEF Entry
  <2>4. QED BY <2>2, <2>3
<1> HIDE DEF new
<1>7. \A j \in DOMAIN snap' : j \in Series /\ snap'[j] \in Entry
  <2>1. ASSUME NEW j \in DOMAIN snap' PROVE j \in Series /\ snap'[j] \in Entry
    <3>1. j \in DOMAIN snap \cup {k} /\ snap'[j] = IF j = k THEN new ELSE snap[j]
      BY <1>3 DEF Extended
    <3>2. QED BY <1>6, <3>1 DEF IInv, Types
  <2>2. QED BY <2>1
<1>8. Types'
  BY <1>1, <1>7 DEF IInv, Types, Entry, Copy
<1>9. FiredLast' /\ SpikesSpaced' /\ InHand' /\ ReportedInOrder'
  BY <1>1 DEF IInv, FiredLast, SpikesSpaced, InHand, ReportedInOrder
<1>10. FiredStandOut' /\ WelfordSums'
  BY <1>1 DEF IInv, FiredStandOut, WelfordSums
<1>11. QED BY <1>8, <1>9, <1>10 DEF IInv

(* A tick copies entries of the snapshot. *)
LEMMA TickStep == ASSUME IInv, TickOnce PROVE IInv'
<1>1. /\ pc = "select" /\ pc' = "loop" /\ UNCHANGED <<snap, at, welford, last_fired, judged, fired, offered, announced>>
      /\ work' = {[key |-> k, value |-> snap[k].value, ts |-> snap[k].ts, slow |-> snap[k].slow] :
                    k \in DOMAIN snap}
  BY DEF TickOnce
<1>2. ASSUME NEW s \in work' PROVE s \in Copy
  <2>1. PICK k \in DOMAIN snap :
          s = [key |-> k, value |-> snap[k].value, ts |-> snap[k].ts, slow |-> snap[k].slow]
    BY <1>1
  <2>2. k \in Series /\ snap[k] \in Entry
    BY DEF IInv, Types
  <2>3. QED BY <2>1, <2>2 DEF Entry, Copy
<1>3. Types'
  BY <1>1, <1>2 DEF IInv, Types, Entry, Copy
<1>4. WelfordSums'
  BY <1>1 DEF IInv, WelfordSums
<1>5. QED BY <1>1, <1>3, <1>4, QuietStep

(* A judgement finds no spike, or one that is SpikeGap after the last of its  *)
(* series.                                                                    *)
LEMMA ValueSeq == ASSUME NEW q \in Seq(Value) PROVE q \in Seq(Int)
<1>1. Value \subseteq Int
  BY SpikeDetectorAssumption
<1>2. Len(q) \in Nat /\ \A i \in 1..Len(q) : q[i] \in Int
  <2>1. Len(q) \in Nat /\ \A i \in 1..Len(q) : q[i] \in Value
    OBVIOUS
  <2>2. QED BY <1>1, <2>1
<1>3. q \in [1..Len(q) -> Int]
  BY <1>2
<1>4. QED BY <1>2, <1>3

LEMMA JudgeWelford == ASSUME IInv, NEW s \in work, Judge(s) PROVE WelfordSums'
<1> DEFINE k == s.key
           x == s.value
           old == IF k \in DOMAIN welford THEN welford[k] ELSE NoWelford
<1>1. k \in Series /\ x \in Value /\ Value \subseteq Int
  BY SpikeDetectorAssumption DEF IInv, Types, Copy
<1>2. judged' = [judged EXCEPT ![k] = Append(@, x)] /\ welford' = Extended(welford, k, Update(old, x))
  BY DEF Judge
<1>3. /\ judged \in [Series -> Seq(Value)] /\ DOMAIN welford \subseteq Series
      /\ \A i \in Series : IF i \in DOMAIN welford THEN Sums(welford[i], judged[i]) ELSE judged[i] = <<>>
  BY DEF IInv, WelfordSums
<1>4. judged[k] \in Seq(Value) /\ judged[k] \in Seq(Int) /\ x \in Int
  <2>1. judged[k] \in Seq(Value) /\ x \in Int
    BY <1>1, <1>3
  <2>2. QED BY <2>1, ValueSeq
<1>5. Sums(Update(old, x), Append(judged[k], x))
  <2>1. CASE k \in DOMAIN welford
    BY <1>1, <1>3, <1>4, <2>1, SumsNext
  <2>2. CASE k \notin DOMAIN welford
    BY <1>1, <1>3, <1>4, <2>2, SumsFirst
  <2>3. QED BY <2>1, <2>2
<1> HIDE DEF old
<1>6. DOMAIN welford' = DOMAIN welford \cup {k} /\ welford'[k] = Update(old, x)
      /\ \A i \in DOMAIN welford : i # k => welford'[i] = welford[i]
  BY <1>2 DEF Extended
<1>7. judged' \in [Series -> Seq(Value)]
  <2>1. Append(judged[k], x) \in Seq(Value)
    BY <1>1, <1>4
  <2>2. QED BY <1>2, <1>3, <2>1
<1>8. judged'[k] = Append(judged[k], x) /\ \A i \in Series : i # k => judged'[i] = judged[i]
  BY <1>1, <1>2, <1>3
<1> HIDE DEF k, x
<1>9. ASSUME NEW i \in Series
      PROVE  IF i \in DOMAIN welford' THEN Sums(welford'[i], judged'[i]) ELSE judged'[i] = <<>>
  <2>1. CASE i = k
    BY <1>5, <1>6, <1>8, <2>1
  <2>2. CASE i # k
    BY <1>3, <1>6, <1>8, <2>2
  <2>3. QED BY <2>1, <2>2
<1>10. QED BY <1>1, <1>3, <1>6, <1>7, <1>9 DEF WelfordSums

LEMMA JudgeStep == ASSUME IInv, NEW s \in work, Judge(s) PROVE IInv'
<1>0. WelfordSums'
  BY JudgeWelford
<1>1. /\ pc = "loop" /\ work' = work \ {s} /\ UNCHANGED <<snap, offered, announced>>
  BY DEF Judge
<1>2. s \in Copy /\ fired \in Seq(Copy) /\ Len(fired) \in Nat
  BY DEF IInv, Types
<1>3. \/ UNCHANGED <<last_fired, at, fired, pc>>
      \/ /\ ~Recent(s) /\ StandsOut(s.value, s.slow) /\ last_fired' = Extended(last_fired, s.key, s.ts)
         /\ at' = s /\ fired' = Append(fired, s) /\ pc' = "push"
  BY DEF Judge
<1>4. CASE UNCHANGED <<last_fired, at, fired, pc>>
  <2>1. Types'
    BY <1>1, <1>4 DEF IInv, Types, Entry, Copy
  <2>2. QED BY <1>0, <1>1, <1>4, <2>1, QuietStep
<1>5. CASE /\ ~Recent(s) /\ StandsOut(s.value, s.slow) /\ last_fired' = Extended(last_fired, s.key, s.ts)
           /\ at' = s /\ fired' = Append(fired, s) /\ pc' = "push"
  <2> DEFINE n == Len(fired)
  <2>1. /\ fired' \in Seq(Copy) /\ Len(fired') = n + 1 /\ fired'[n + 1] = s /\ n \in Nat
        /\ \A i \in 1..n : fired'[i] = fired[i]
    BY <1>2, <1>5
  <2>2. s.key \in Series /\ s.ts \in Time /\ s.ts \in Nat
    BY <1>2, SpikeDetectorAssumption DEF Copy
  <2>3. ASSUME NEW i \in 1..n PROVE fired[i] \in Copy /\ fired[i].ts \in Nat
    <3>1. fired[i] \in Copy
      BY <1>2
    <3>2. QED BY <3>1, SpikeDetectorAssumption DEF Copy
  <2>4. /\ DOMAIN last_fired' = DOMAIN last_fired \cup {s.key} /\ last_fired'[s.key] = s.ts
        /\ \A k \in DOMAIN last_fired : k # s.key => last_fired'[k] = last_fired[k]
    BY <1>5 DEF Extended
  <2>5. \A k \in DOMAIN last_fired : last_fired[k] \in Time /\ last_fired[k] \in Nat
    BY SpikeDetectorAssumption DEF IInv, Types
  <2>6. Types'
    <3>1. \A k \in DOMAIN last_fired' : last_fired'[k] \in Time
      BY <2>2, <2>4, <2>5
    <3>2. QED BY <1>1, <1>5, <2>1, <3>1 DEF IInv, Types, Entry, Copy
  <2>7. SpikeGap \in Nat
    BY SpikeDetectorAssumption
  <2>8. ASSUME NEW i \in 1..n, fired[i].key = s.key
        PROVE  fired[i].ts + SpikeGap <= s.ts
    <3>1. s.key \in DOMAIN last_fired /\ fired[i].ts <= last_fired[s.key]
      BY <2>8 DEF IInv, FiredLast
    <3>2. ~(s.ts < last_fired[s.key] + SpikeGap)
      BY <1>5, <3>1 DEF Recent
    <3>3. QED BY <2>2, <2>3, <2>5, <2>7, <3>1, <3>2
  <2> HIDE DEF n
  <2>9. ASSUME NEW i \in 1..n + 1
        PROVE  fired'[i].key \in DOMAIN last_fired' /\ fired'[i].ts <= last_fired'[fired'[i].key]
    <3>1. CASE i = n + 1
      BY <2>1, <2>2, <2>4, <3>1
    <3>2. CASE i \in 1..n /\ fired[i].key = s.key
      <4>1. fired[i].ts <= s.ts
        BY <2>2, <2>3, <2>7, <2>8, <3>2
      <4>2. QED BY <2>1, <2>4, <3>2, <4>1
    <3>3. CASE i \in 1..n /\ fired[i].key # s.key
      <4>1. fired[i].key \in DOMAIN last_fired /\ fired[i].ts <= last_fired[fired[i].key]
        BY <3>3 DEF IInv, FiredLast, n
      <4>2. QED BY <2>1, <2>4, <3>3, <4>1
    <3>4. i \in 1..n \/ i = n + 1
      BY <2>1
    <3>5. QED BY <3>1, <3>2, <3>3, <3>4
  <2>10. FiredLast'
    BY <2>1, <2>9 DEF FiredLast
  <2>11. ASSUME NEW i \in 1..n + 1, NEW j \in 1..n + 1, i < j, fired'[i].key = fired'[j].key
         PROVE  fired'[i].ts + SpikeGap <= fired'[j].ts
    <3>1. i \in 1..n /\ (j \in 1..n \/ j = n + 1)
      BY <2>1, <2>11
    <3>2. CASE j \in 1..n
      BY <2>1, <2>11, <3>1, <3>2 DEF IInv, SpikesSpaced, n
    <3>3. CASE j = n + 1
      BY <2>1, <2>8, <2>11, <3>1, <3>3
    <3>4. QED BY <3>1, <3>2, <3>3
  <2>12. SpikesSpaced'
    BY <2>1, <2>11 DEF SpikesSpaced
  <2>13. InHand'
    BY <1>5, <2>1 DEF InHand
  <2>14. announced = SubSeq(fired, 1, offered) /\ n = offered /\ offered \in Nat
    BY <1>1 DEF IInv, ReportedInOrder, Types, n
  <2>15. SubSeq(Append(fired, s), 1, offered) = SubSeq(fired, 1, offered)
    <3> DEFINE a == SubSeq(Append(fired, s), 1, offered)
               b == SubSeq(fired, 1, offered)
    <3>1. /\ a \in Seq(Copy) /\ b \in Seq(Copy) /\ Len(a) = offered /\ Len(b) = offered
          /\ \A i \in 1..offered : a[i] = fired[i] /\ b[i] = fired[i]
      BY <1>2, <2>14 DEF n
    <3> HIDE DEF a, b
    <3>2. a = b
      BY <2>14, <3>1, SeqEqual
    <3>3. QED BY <3>2 DEF a, b
  <2>16. ReportedInOrder'
    BY <1>1, <1>5, <2>1, <2>14, <2>15 DEF ReportedInOrder
  <2>17. FiredStandOut'
    <3>1. \A i \in 1..n + 1 : i \in 1..n \/ i = n + 1
      BY <2>1
    <3>2. \A i \in 1..n + 1 : StandsOut(fired'[i].value, fired'[i].slow)
      BY <1>5, <2>1, <3>1 DEF IInv, FiredStandOut, n
    <3>3. QED BY <2>1, <3>2 DEF FiredStandOut
  <2>18. QED BY <1>0, <2>6, <2>10, <2>12, <2>13, <2>16, <2>17 DEF IInv
<1>6. QED BY <1>3, <1>4, <1>5

(* The spike in hand is broadcast, whatever the sink answered. *)
LEMMA ReportStep == ASSUME IInv, Report PROVE IInv'
<1>1. /\ pc = "push" /\ pc' = "loop" /\ offered' = offered + 1 /\ announced' = Append(announced, at)
      /\ UNCHANGED <<snap, work, welford, last_fired, judged, fired>>
  BY DEF Report
<1>2. /\ fired \in Seq(Copy) /\ offered \in Nat /\ Len(fired) = offered + 1
      /\ at = fired[offered + 1] /\ announced = SubSeq(fired, 1, offered)
  BY <1>1 DEF IInv, Types, InHand, ReportedInOrder
<1>3. Types'
  BY <1>1, <1>2 DEF IInv, Types, Entry, Copy
<1>4. FiredLast' /\ SpikesSpaced' /\ InHand'
  BY <1>1 DEF IInv, FiredLast, SpikesSpaced, InHand
<1>5. Append(SubSeq(fired, 1, offered), fired[offered + 1]) = SubSeq(fired, 1, offered + 1)
  <2> DEFINE p == SubSeq(fired, 1, offered)
             a == Append(p, fired[offered + 1])
             b == SubSeq(fired, 1, offered + 1)
  <2>1. /\ p \in Seq(Copy) /\ Len(p) = offered /\ b \in Seq(Copy) /\ Len(b) = offered + 1
        /\ (\A i \in 1..offered : p[i] = fired[i]) /\ \A i \in 1..offered + 1 : b[i] = fired[i]
        /\ fired[offered + 1] \in Copy
    BY <1>2
  <2> HIDE DEF p, b
  <2>2. /\ a \in Seq(Copy) /\ Len(a) = offered + 1 /\ a[offered + 1] = fired[offered + 1]
        /\ \A i \in 1..offered : a[i] = p[i]
    BY <1>2, <2>1
  <2> HIDE DEF a
  <2>3. ASSUME NEW i \in 1..offered + 1 PROVE a[i] = b[i]
    <3>1. i \in 1..offered \/ i = offered + 1
      BY <1>2
    <3>2. QED BY <2>1, <2>2, <3>1
  <2>4. a = b
    BY <1>2, <2>1, <2>2, <2>3, SeqEqual
  <2>5. QED BY <2>4 DEF a, b, p
<1>6. ReportedInOrder'
  BY <1>1, <1>2, <1>5 DEF ReportedInOrder
<1>7. FiredStandOut' /\ WelfordSums'
  BY <1>1 DEF IInv, FiredStandOut, WelfordSums
<1>8. QED BY <1>3, <1>4, <1>6, <1>7 DEF IInv

LEMMA NextIInv == IInv /\ [Next]_vars => IInv'
<1> SUFFICES ASSUME IInv, [Next]_vars PROVE IInv'
  OBVIOUS
<1>1. CASE Publish
  BY <1>1, PublishStep
<1>2. CASE TickOnce
  BY <1>2, TickStep
<1>3. ASSUME NEW s \in work, Judge(s) PROVE IInv'
  BY <1>3, JudgeStep
<1>4. CASE Report
  BY <1>4, ReportStep
<1>5. CASE LoopEnds \/ Stop
  <2>1. /\ pc # "push" /\ pc' \in {"select", "stopped"}
        /\ UNCHANGED <<snap, work, welford, last_fired, judged, fired, offered, announced>>
    BY <1>5 DEF LoopEnds, Stop
  <2>2. Types'
    BY <2>1 DEF IInv, Types, Entry, Copy
  <2>3. WelfordSums'
    BY <2>1 DEF IInv, WelfordSums
  <2>4. QED BY <2>1, <2>2, <2>3, QuietStep
<1>6. CASE Shutdown \/ Ended \/ UNCHANGED vars
  <2>1. UNCHANGED <<snap, pc, work, at, welford, last_fired, judged, fired, offered, announced>>
    BY <1>6 DEF Shutdown, Ended, vars
  <2>2. QED BY <2>1 DEF IInv, Types, Entry, Copy, FiredLast, SpikesSpaced, InHand, ReportedInOrder,
                        FiredStandOut, WelfordSums
<1>7. QED BY <1>1, <1>2, <1>3, <1>4, <1>5, <1>6 DEF Next

----------------------------------------------------------------------------
(* No spike of a series is later than its entry of last_fired, and the spike  *)
(* being reported is the last one found.                                      *)
THEOREM SpikeDetectorInvariant == Spec => []IInv
<1>1. Init => IInv
  BY InitIInv
<1>2. IInv /\ [Next]_vars => IInv'
  BY NextIInv
<1>3. QED BY <1>1, <1>2, PTL DEF Spec

(* Two spikes of a series are SpikeGap apart and in the order of time, for    *)
(* every series of samples, times that go back included, and however often    *)
(* one sample is judged.                                                      *)
THEOREM SpikeDetectorSpaced == Spec => []SpikesSpaced
<1>1. IInv => SpikesSpaced
  BY DEF IInv
<1>2. QED BY <1>1, SpikeDetectorInvariant, PTL

(* Every spike found is broadcast once and in order, after the sink's answer, *)
(* and at most one is waiting for it.                                         *)
THEOREM SpikeDetectorReported == Spec => []ReportedInOrder
<1>1. IInv => ReportedInOrder
  BY DEF IInv
<1>2. QED BY <1>1, SpikeDetectorInvariant, PTL

(* Every reported spike stands out of its slow tail, whatever its length and  *)
(* values: more than half of the tail lies strictly nearer to a value that    *)
(* splits it in halves.                                                       *)
THEOREM SpikeDetectorStandOut == Spec => []SpikesStandOut
<1>1. IInv => SpikesStandOut
  <2> SUFFICES ASSUME IInv, NEW i \in 1..Len(fired)
               PROVE  LET x == fired[i].value
                          q == fired[i].slow
                      IN  \E m \in Value :
                            /\ 2 * Among(q, LAMBDA v : v <= m) >= Len(q)
                            /\ 2 * Among(q, LAMBDA v : v >= m) >= Len(q)
                            /\ 2 * Among(q, LAMBDA v : Abs(v - m) < Abs(x - m)) > Len(q)
    BY DEF SpikesStandOut
  <2>1. fired[i] \in Copy /\ StandsOut(fired[i].value, fired[i].slow)
    BY DEF IInv, Types, FiredStandOut
  <2>2. fired[i].value \in Nat /\ fired[i].slow \in Seq(Value)
    BY <2>1, SpikeDetectorAssumption DEF Copy
  <2>3. QED BY <2>1, <2>2, StandsOutFacts
<1>2. QED BY <1>1, SpikeDetectorInvariant, PTL

(* Count, mean and squared deviations of a series are those of all values     *)
(* judged of it, for every sequence of values and every interleaving.         *)
THEOREM SpikeDetectorWelford == Spec => []WelfordExact
<1>1. IInv => WelfordExact
  <2> SUFFICES ASSUME IInv, NEW k \in DOMAIN welford
               PROVE  /\ welford[k].n = Len(judged[k])
                      /\ Same(welford[k].mean, MeanOf(judged[k]))
                      /\ Same(welford[k].m2, SquaresOf(judged[k]))
    BY DEF WelfordExact
  <2>1. k \in Series /\ judged[k] \in Seq(Value) /\ Sums(welford[k], judged[k])
    BY DEF IInv, WelfordSums
  <2>2. judged[k] \in Seq(Int)
    BY <2>1, ValueSeq
  <2>3. QED BY <2>1, <2>2, SumsExact
<1>2. QED BY <1>1, SpikeDetectorInvariant, PTL

----------------------------------------------------------------------------
(* The clock fit: f64, medians, Theil-Sen.                                    *)

LEMMA ScaleLess ==
  ASSUME NEW a \in Int, NEW b \in Int, NEW c \in Nat \ {0}
  PROVE  /\ a < b => a * c < b * c
         /\ a * c < b * c => a < b
<1>1. a < b => a * c < b * c
  <2>1. b - a \in Int /\ (b - a) * c = b * c - a * c /\ \A z \in Int : z > 0 => z * c > 0
    OBVIOUS
  <2>2. QED BY <2>1
<1>2. a * c < b * c => a < b
  <2>1. a - b \in Int /\ (a - b) * c = a * c - b * c /\ \A z \in Int : z >= 0 => z * c >= 0
    OBVIOUS
  <2>2. QED BY <2>1
<1>3. QED BY <1>1, <1>2

LEMMA DivFacts ==
  ASSUME NEW a \in Int, NEW b \in Nat \ {0}
  PROVE  a \div b \in Int /\ (a \div b) * b <= a /\ a < (a \div b) * b + b
OBVIOUS

(* The greatest of finitely many values. *)
LEMMA GreatestFinite ==
  ASSUME NEW I, IsFiniteSet(I), I # {}, NEW f, \A i \in I : f[i] \in Nat
  PROVE  \E m \in I : \A i \in I : f[i] <= f[m]
<1> DEFINE c == Cardinality(I)
           R == {p \in I \X I : f[p[1]] < f[p[2]]}
<1>1. c \in Nat /\ c - 1 \in Nat /\ c - 1 < Cardinality(I)
  <2>1. c \in Nat /\ c # 0
    BY FS_CardinalityType, FS_EmptySet
  <2>2. QED BY <2>1
<1>2. /\ \A i \in I : <<i, i>> \notin R
      /\ \A i, j, l \in I : <<i, j>> \in R /\ <<j, l>> \in R => <<i, l>> \in R
  OBVIOUS
<1> HIDE DEF R
<1>3. PICK m \in I : Cardinality(NotAfter(I, R, m)) > c - 1
  <2> HIDE DEF c
  <2>1. QED BY <1>1, <1>2, MiddleExists
<1>4. NotAfter(I, R, m) \subseteq I
  BY DEF NotAfter
<1>5. NotAfter(I, R, m) = I
  <2>1. IsFiniteSet(NotAfter(I, R, m)) /\ Cardinality(NotAfter(I, R, m)) <= c
    BY <1>4, FS_Subset
  <2>2. Cardinality(NotAfter(I, R, m)) \in Nat
    BY <2>1, FS_CardinalityType
  <2>3. Cardinality(NotAfter(I, R, m)) = c
    BY <1>1, <1>3, <2>1, <2>2
  <2>4. QED BY <1>4, <2>3, FS_Subset
<1>6. ASSUME NEW i \in I PROVE f[i] <= f[m]
  <2>1. <<m, i>> \notin R
    BY <1>5 DEF NotAfter
  <2>2. QED BY <2>1 DEF R
<1>7. QED BY <1>6

(* The median is one of the values. *)
LEMMA SortedMiddle ==
  ASSUME NEW s, IsFiniteSet(DOMAIN s), DOMAIN s # {}, \A i \in DOMAIN s : s[i] \in Int
  PROVE  \E m \in DOMAIN s :
           /\ sorted_middle(s) = s[m]
           /\ Cardinality({i \in DOMAIN s : s[i] < s[m]}) <= Cardinality(DOMAIN s) \div 2
           /\ Cardinality({i \in DOMAIN s : s[i] <= s[m]}) > Cardinality(DOMAIN s) \div 2
<1> DEFINE I == DOMAIN s
           k == Cardinality(I) \div 2
           R == {p \in I \X I : s[p[1]] < s[p[2]]}
           Good(m) == /\ Cardinality({i \in I : s[i] < s[m]}) <= k
                      /\ Cardinality({i \in I : ~(s[m] < s[i])}) > k
<1>1. k \in Nat /\ k < Cardinality(I)
  <2> HIDE DEF I
  <2>1. Cardinality(I) \in Nat /\ Cardinality(I) # 0
    BY FS_CardinalityType, FS_EmptySet DEF I
  <2>2. QED BY <2>1
<1>2. /\ \A i \in I : <<i, i>> \notin R
      /\ \A i, j, l \in I : <<i, j>> \in R /\ <<j, l>> \in R => <<i, l>> \in R
  OBVIOUS
<1>3. \E m \in I : Good(m)
  <2>1. PICK m \in I : Cardinality(Before(I, R, m)) <= k /\ Cardinality(NotAfter(I, R, m)) > k
    <3> HIDE DEF I, R, k
    <3>1. IsFiniteSet(I)
      BY DEF I
    <3>2. QED BY <1>1, <1>2, <3>1, MiddleExists
  <2>2. Before(I, R, m) = {i \in I : s[i] < s[m]}
    BY DEF Before
  <2>3. NotAfter(I, R, m) = {i \in I : ~(s[m] < s[i])}
    BY DEF NotAfter
  <2>4. QED BY <2>1, <2>2, <2>3
<1>4. sorted_middle(s) = s[CHOOSE m \in I : Good(m)]
  BY DEF sorted_middle, Middle
<1>5. \A m \in I : {i \in I : ~(s[m] < s[i])} = {i \in I : s[i] <= s[m]}
  OBVIOUS
<1> DEFINE m == CHOOSE j \in I : Good(j)
<1>6. m \in I /\ Good(m)
  BY <1>3
<1> HIDE DEF m
<1>7. QED BY <1>4, <1>5, <1>6 DEF m

(* The median lies where most of the values lie. *)
LEMMA MiddleWithin ==
  ASSUME NEW s, IsFiniteSet(DOMAIN s), \A i \in DOMAIN s : s[i] \in Int,
         NEW S \in SUBSET DOMAIN s, More(S, DOMAIN s),
         NEW a \in Int, NEW b \in Int, \A i \in S : a <= s[i] /\ s[i] <= b
  PROVE  sorted_middle(s) \in a..b
<1> DEFINE I == DOMAIN s  n == Cardinality(I)
<1>1. IsFiniteSet(S) /\ Cardinality(S) \in Nat /\ n \in Nat /\ 2 * Cardinality(S) > n
  BY FS_Subset, FS_CardinalityType DEF More
<1>2. I # {}
  <2>1. I = {} => Cardinality(S) <= n /\ n = 0
    BY FS_Subset, FS_EmptySet
  <2> HIDE DEF I, n
  <2>2. QED BY <1>1, <2>1
<1> HIDE DEF n
<1>3. PICK m \in I : /\ sorted_middle(s) = s[m]
                     /\ Cardinality({i \in I : s[i] < s[m]}) <= n \div 2
                     /\ Cardinality({i \in I : s[i] <= s[m]}) > n \div 2
  BY <1>2, SortedMiddle DEF n
<1>4. s[m] \in Int
  OBVIOUS
<1>5. a <= s[m]
  <2> DEFINE T == {i \in I : s[i] <= s[m]}
  <2>1. IsFiniteSet(T) /\ Cardinality(T) \in Nat
    BY FS_Subset, FS_CardinalityType
  <2>2. /\ Cardinality(S \cup T) = Cardinality(S) + Cardinality(T) - Cardinality(S \cap T)
        /\ Cardinality(S \cup T) <= n
    <3>1. S \cup T \subseteq I
      OBVIOUS
    <3> HIDE DEF T
    <3>2. Cardinality(S \cup T) <= Cardinality(I)
      BY <3>1, FS_Subset
    <3>3. Cardinality(S \cup T) = Cardinality(S) + Cardinality(T) - Cardinality(S \cap T)
      BY <1>1, <2>1, FS_Union
    <3>4. QED BY <3>2, <3>3 DEF n
  <2>3. Cardinality(S \cap T) # 0
    <3> HIDE DEF T
    <3>1. Cardinality(T) > n \div 2
      BY <1>3 DEF T
    <3>2. QED BY <1>1, <2>1, <2>2, <3>1
  <2>4. S \cap T # {}
    BY <2>3, FS_EmptySet
  <2>5. QED BY <1>4, <2>4
<1>6. s[m] <= b
  <2> SUFFICES ASSUME s[m] > b PROVE FALSE
    BY <1>4
  <2> DEFINE T == {i \in I : s[i] < s[m]}
  <2>1. S \subseteq T
    BY <1>4
  <2>2. IsFiniteSet(T) /\ Cardinality(T) \in Nat
    BY FS_Subset, FS_CardinalityType
  <2>3. Cardinality(S) <= Cardinality(T)
    <3> HIDE DEF T
    <3>1. QED BY <2>1, <2>2, FS_Subset
  <2>4. Cardinality(T) <= n \div 2
    BY <1>3
  <2> HIDE DEF T
  <2>5. QED BY <1>1, <2>2, <2>3, <2>4
<1>7. QED BY <1>3, <1>4, <1>5, <1>6

(* The spacing of f64 exists, is 1 or twice one too fine, and is the finest. *)
LEMMA UnitFacts ==
  ASSUME NEW n \in Int, NEW d \in Nat \ {0}
  PROVE  /\ Unit(n, d) \in Grains /\ Unit(n, d) \in Nat \ {0}
         /\ Unit(n, d) = 1 \/ \E v \in Grains : /\ Unit(n, d) = 2 * v
                                                /\ ~(Abs(n) < v * Mant * d)
         /\ \A u \in Grains : Abs(n) < u * Mant * d \/ (\A v \in Grains : v <= u) => Unit(n, d) <= u
         /\ Abs(n) < Unit(n, d) * Mant * d \/ \A v \in Grains : v <= Unit(n, d)
<1> DEFINE wide == {u \in Grains : Abs(n) < u * Mant * d \/ \A v \in Grains : v <= u}
<1>1. \E u \in Grains : \A v \in Grains : v <= u
  <2> DEFINE f == [u \in Grains |-> u]
  <2>1. IsFiniteSet(Grains) /\ Grains # {} /\ \A u \in Grains : f[u] \in Nat /\ f[u] = u
    BY F64Assumption
  <2> HIDE DEF f
  <2>2. PICK u \in Grains : \A v \in Grains : f[v] <= f[u]
    BY <2>1, GreatestFinite
  <2>3. QED BY <2>1, <2>2
<1>2. wide \in SUBSET Nat /\ wide # {}
  BY <1>1, F64Assumption
<1>3. Unit(n, d) = CHOOSE u \in wide : \A v \in wide : u <= v
  BY DEF Unit
<1>4. Unit(n, d) \in wide /\ \A v \in wide : Unit(n, d) <= v
  <2> HIDE DEF wide
  <2>1. \E u \in wide : \A v \in wide : u <= v
    BY <1>2, LeastElement
  <2>2. QED BY <1>3, <2>1
<1> DEFINE U == Unit(n, d)
<1>5. U \in Grains /\ U \in Nat \ {0}
  BY <1>4, F64Assumption
<1>6. U = 1 \/ \E v \in Grains : U = 2 * v /\ ~(Abs(n) < v * Mant * d)
  <2> SUFFICES ASSUME U # 1 PROVE \E v \in Grains : U = 2 * v /\ ~(Abs(n) < v * Mant * d)
    OBVIOUS
  <2> HIDE DEF U
  <2>1. PICK v \in Grains : U = 2 * v
    BY <1>5, F64Assumption
  <2>2. v \in Nat \ {0}
    BY F64Assumption
  <2>3. v \notin wide
    <3>1. ~(U <= v)
      BY <2>1, <2>2
    <3>2. QED BY <1>4, <3>1 DEF U
  <2>4. QED BY <2>1, <2>3
<1>7. QED BY <1>4, <1>5, <1>6

(* Larger numbers are not spaced more finely. *)
LEMMA UnitMonotone ==
  ASSUME NEW n \in Int, NEW k \in Int, Abs(n) <= Abs(k)
  PROVE  Unit(n, 1) <= Unit(k, 1)
<1> DEFINE u == Unit(k, 1)
<1>1. u \in Grains /\ (Abs(k) < u * Mant * 1 \/ \A v \in Grains : v <= u)
  BY UnitFacts
<1> HIDE DEF u
<1>2. Mant \in Nat /\ u \in Nat /\ u * Mant * 1 \in Int /\ Abs(n) \in Int /\ Abs(k) \in Int
  <2>1. Mant \in Nat /\ u \in Nat
    BY <1>1, F64Assumption
  <2>2. QED BY <2>1 DEF Abs
<1>3. Abs(n) < u * Mant * 1 \/ \A v \in Grains : v <= u
  BY <1>1, <1>2
<1>4. Unit(n, 1) <= u
  BY <1>1, <1>3, UnitFacts
<1>5. QED BY <1>4 DEF u

(* Scaling by the denominator changes neither spacing nor rounding. *)
LEMMA UnitScaled ==
  ASSUME NEW y \in Int, NEW d \in Nat \ {0}
  PROVE  Unit(y * d, d) = Unit(y, 1)
<1>1. Mant \in Nat /\ Grains \subseteq Nat
  BY F64Assumption
<1>2. Abs(y * d) = Abs(y) * d /\ Abs(y) \in Int
  <2>1. y >= 0 => y * d >= 0
    OBVIOUS
  <2>2. y < 0 => y * d < 0 /\ (-y) * d = -(y * d)
    <3>1. y < 0 => y * d < 0 * d
      BY ScaleLess
    <3>2. 0 * d = 0 /\ (-y) * d = -(y * d)
      OBVIOUS
    <3>3. QED BY <3>1, <3>2
  <2>3. y * d \in Int
    OBVIOUS
  <2>4. QED BY <2>1, <2>2, <2>3 DEF Abs
<1>3. ASSUME NEW u \in Grains PROVE Abs(y * d) < u * Mant * d <=> Abs(y) < u * Mant * 1
  <2> DEFINE w == u * Mant
  <2>1. w \in Int /\ u * Mant * 1 = w
    BY <1>1
  <2> HIDE DEF w
  <2>2. Abs(y) * d < w * d <=> Abs(y) < w
    BY <1>2, <2>1, ScaleLess
  <2>3. QED BY <1>2, <2>1, <2>2 DEF w
<1>4. {u \in Grains : Abs(y * d) < u * Mant * d \/ \A v \in Grains : v <= u}
        = {u \in Grains : Abs(y) < u * Mant * 1 \/ \A v \in Grains : v <= u}
  BY <1>3
<1>5. QED BY <1>4 DEF Unit

LEMMA RoundHalfEvenFacts ==
  ASSUME NEW n \in Int, NEW d \in Nat \ {0}
  PROVE  /\ RoundHalfEven(n, d) \in Int
         /\ 2 * (RoundHalfEven(n, d) * d) <= 2 * n + d
         /\ 2 * (RoundHalfEven(n, d) * d) >= 2 * n - d
         /\ n >= 0 => RoundHalfEven(n, d) >= 0
<1> DEFINE q == n \div d  r == n % d
<1>1. q \in Int /\ r \in 0..d - 1 /\ n = q * d + r /\ (n >= 0 => q >= 0)
  OBVIOUS
<1>2. RoundHalfEven(n, d) = IF 2 * r < d \/ (2 * r = d /\ q % 2 = 0) THEN q ELSE q + 1
  BY DEF RoundHalfEven
<1>3. (q + 1) * d = q * d + d
  BY <1>1
<1> HIDE DEF q, r
<1>4. CASE 2 * r < d \/ (2 * r = d /\ q % 2 = 0)
  <2>1. RoundHalfEven(n, d) = q /\ 2 * r <= d
    BY <1>1, <1>2, <1>4
  <2>2. QED BY <1>1, <2>1
<1>5. CASE ~(2 * r < d \/ (2 * r = d /\ q % 2 = 0))
  <2>1. RoundHalfEven(n, d) = q + 1 /\ 2 * r >= d
    BY <1>1, <1>2, <1>5
  <2>2. QED BY <1>1, <1>3, <2>1
<1>6. QED BY <1>4, <1>5

LEMMA DivMod ==
  ASSUME NEW a \in Int, NEW b \in Nat \ {0}
  PROVE  a \div b \in Int /\ a % b \in 0..b - 1 /\ a = (a \div b) * b + (a % b)
OBVIOUS

LEMMA RoundHalfEvenScaled ==
  ASSUME NEW y \in Int, NEW u \in Nat \ {0}, NEW d \in Nat \ {0}
  PROVE  RoundHalfEven(y * d, d * u) = RoundHalfEven(y, u)
<1> DEFINE q == y \div u  r == y % u  Q == (y * d) \div (d * u)  R == (y * d) % (d * u)
<1>1. q \in Int /\ r \in 0..u - 1 /\ y = q * u + r
  OBVIOUS
<1>2. d * u \in Nat \ {0} /\ y * d \in Int
  BY Positive
<1>3. Q \in Int /\ R \in 0..(d * u) - 1 /\ y * d = Q * (d * u) + R
  BY <1>2, DivMod
<1>4. y * d = q * (d * u) + r * d
  <2> HIDE DEF q, r
  <2>1. y * d = (q * u + r) * d /\ q \in Int /\ r \in Int
    BY <1>1
  <2>2. QED BY <2>1
<1>5. r * d >= 0 /\ r * d < d * u
  <2>1. r * d < u * d
    BY <1>1, ScaleLess
  <2>2. QED BY <1>1, <2>1
<1> HIDE DEF q, r, Q, R
<1>6. Q = q /\ R = r * d
  <2> DEFINE D == d * u  e == r * d  z == Q - q
  <2>1. D \in Nat \ {0} /\ e \in Int /\ e >= 0 /\ e < D /\ R \in 0..D - 1 /\ Q * D + R = q * D + e
    BY <1>1, <1>2, <1>3, <1>4, <1>5
  <2> HIDE DEF D, e
  <2>2. z \in Int /\ z * D = e - R
    BY <1>1, <1>3, <2>1
  <2>3. (z > 0 => z * D >= D) /\ (z < 0 => z * D <= -D)
    BY <2>1, <2>2
  <2>4. z = 0
    <3> HIDE DEF z
    <3>1. QED BY <2>1, <2>2, <2>3
  <2>5. QED BY <1>1, <1>3, <2>1, <2>2, <2>4 DEF e
<1>7. (2 * R < d * u <=> 2 * r < u) /\ (2 * R = d * u <=> 2 * r = u)
  <2> DEFINE t == 2 * r
  <2>1. t \in Int /\ 2 * R = t * d /\ d * u = u * d
    BY <1>1, <1>6
  <2>2. 2 * r = t
    OBVIOUS
  <2> HIDE DEF t
  <2>3. (t * d < u * d <=> t < u) /\ (u * d < t * d <=> u < t)
    BY <2>1, ScaleLess
  <2>4. t * d \in Int /\ u * d \in Int
    BY <2>1
  <2>5. QED BY <2>1, <2>2, <2>3, <2>4
<1>8. /\ RoundHalfEven(y, u) = IF 2 * r < u \/ (2 * r = u /\ q % 2 = 0) THEN q ELSE q + 1
      /\ RoundHalfEven(y * d, d * u) = IF 2 * R < d * u \/ (2 * R = d * u /\ Q % 2 = 0) THEN Q ELSE Q + 1
  BY DEF RoundHalfEven, q, r, Q, R
<1>9. QED BY <1>6, <1>7, <1>8

(* An f64 is a number, of the sign of what it stands for. *)
LEMMA F64Type ==
  ASSUME NEW n \in Int, NEW d \in Nat \ {0}
  PROVE  F64(n, d) \in Int /\ (n >= 0 => F64(n, d) >= 0)
<1> DEFINE u == Unit(n, d)  k == RoundHalfEven(n, d * u)
<1>1. u \in Nat \ {0}
  BY UnitFacts
<1> HIDE DEF u
<1>2. d * u \in Nat \ {0}
  BY <1>1, Positive
<1>3. k \in Int /\ (n >= 0 => k >= 0)
  BY <1>2, RoundHalfEvenFacts
<1>4. F64(n, d) = u * k
  BY DEF F64, u
<1> HIDE DEF k
<1>5. QED BY <1>1, <1>3, <1>4

(* Rounding to f64 costs half the spacing and a quarter of the number at most. *)
LEMMA F64Close ==
  ASSUME NEW x \in Int
  PROVE  /\ F64(x, 1) \in Int /\ (x >= 0 => F64(x, 1) >= 0)
         /\ 2 * Abs(F64(x, 1) - x) <= Unit(x, 1)
         /\ 4 * Abs(F64(x, 1) - x) <= Abs(x)
<1> DEFINE u == Unit(x, 1)  k == RoundHalfEven(x, 1 * u)  e == F64(x, 1) - x
<1>1. u \in Nat \ {0} /\ (u = 1 \/ \E v \in Grains : u = 2 * v /\ ~(Abs(x) < v * Mant * 1))
  BY UnitFacts
<1>2. F64(x, 1) = u * k
  BY DEF F64
<1>3. F64(x, 1) \in Int /\ (x >= 0 => F64(x, 1) >= 0) /\ Abs(x) \in Int /\ Abs(x) >= 0
  BY F64Type DEF Abs
<1> HIDE DEF u
<1>4. k \in Int /\ 2 * (k * u) <= 2 * x + u /\ 2 * (k * u) >= 2 * x - u
  <2>1. 1 * u = u
    BY <1>1
  <2>2. QED BY <1>1, <2>1, RoundHalfEvenFacts
<1> HIDE DEF k
<1>5. k * u = F64(x, 1)
  BY <1>1, <1>2, <1>4
<1>6. e \in Int /\ 2 * e <= u /\ -(2 * e) <= u
  BY <1>1, <1>3, <1>4, <1>5
<1> HIDE DEF e
<1>7. 2 * Abs(e) <= u /\ Abs(e) \in Int
  BY <1>1, <1>6 DEF Abs
<1>8. 4 * Abs(e) <= Abs(x)
  <2>1. CASE u = 1
    BY <1>3, <1>7, <2>1, <1>6 DEF Abs
  <2>2. CASE u # 1
    <3>1. PICK v \in Grains : u = 2 * v /\ ~(Abs(x) < v * Mant * 1)
      BY <1>1, <2>2
    <3>2. v \in Nat /\ Mant \in Nat /\ Mant >= 4
      BY F64Assumption
    <3>3. v * Mant * 1 \in Int /\ v * Mant * 1 >= 4 * v
      <4>1. v * (Mant - 4) >= 0 /\ v * (Mant - 4) = v * Mant - 4 * v /\ v * Mant * 1 = v * Mant
        BY <3>2
      <4>2. QED BY <3>2, <4>1
    <3>4. QED BY <1>3, <1>7, <3>1, <3>2, <3>3
  <2>3. QED BY <2>1, <2>2
<1>9. QED BY <1>3, <1>7, <1>8 DEF e, u

(* Multiplying by 1.0 rounds once more at most. *)
LEMMA MulOne ==
  ASSUME NEW y \in Int
  PROVE  Mul(Fine, y) = F64(y, 1)
<1>1. Fine \in Nat \ {0} /\ Fine * y = y * Fine
  BY F64Assumption
<1> DEFINE u == Unit(y, 1)
<1>2. Unit(y * Fine, Fine) = u /\ u \in Nat \ {0}
  BY <1>1, UnitScaled, UnitFacts
<1> HIDE DEF u
<1>3. RoundHalfEven(y * Fine, Fine * u) = RoundHalfEven(y, u) /\ 1 * u = u
  BY <1>1, <1>2, RoundHalfEvenScaled
<1>4. F64(y * Fine, Fine) = u * RoundHalfEven(y, u)
  BY <1>2, <1>3 DEF F64
<1>5. F64(y, 1) = u * RoundHalfEven(y, u)
  BY <1>3 DEF F64, u
<1>6. QED BY <1>1, <1>4, <1>5 DEF Mul

(* Under slope 1 a sample's offset is its lag up to twice the spacing. *)
LEMMA OffsetClose ==
  ASSUME NEW h \in Nat, NEW s \in Nat, NEW t \in Nat, h <= t, s <= t
  PROVE  Abs(Add(as_f64(h), -Mul(Fine, as_f64(s))) - (h - s) * Fine) <= 2 * Grain(2 * t)
<1> DEFINE H == h * Fine  S == s * Fine  T == t * Fine  W == Unit(2 * T, 1)
           X == F64(H, 1)  Y == F64(S, 1)  Z == F64(Y, 1)  O == F64(X - Z, 1)
<1>1. Fine \in Nat \ {0}
  BY F64Assumption
<1>2. H \in Nat /\ S \in Nat /\ T \in Nat /\ H <= T /\ S <= T
  <2>1. \A a, b \in Nat : a <= b => a * Fine \in Nat /\ b * Fine \in Nat /\ a * Fine <= b * Fine
    <3> SUFFICES ASSUME NEW a \in Nat, NEW b \in Nat, a <= b
                 PROVE  a * Fine \in Nat /\ b * Fine \in Nat /\ a * Fine <= b * Fine
      OBVIOUS
    <3>1. (b - a) * Fine >= 0 /\ (b - a) * Fine = b * Fine - a * Fine
      BY <1>1
    <3>2. QED BY <1>1, <3>1
  <2>2. QED BY <2>1
<1>3. (h - s) * Fine = H - S /\ Grain(2 * t) = W
  <2>1. (2 * t) * Fine = 2 * T /\ (h - s) * Fine = H - S
    BY <1>1
  <2>2. QED BY <2>1 DEF Grain
<1> HIDE DEF H, S, T
<1>4. W \in Nat /\ \A x \in Int : Abs(x) <= 2 * T => Unit(x, 1) <= W /\ Unit(x, 1) \in Nat
  <2>1. 2 * T \in Int /\ Abs(2 * T) = 2 * T
    BY <1>2 DEF Abs
  <2>2. QED BY <2>1, UnitFacts, UnitMonotone
<1> HIDE DEF W
<1>5. ASSUME NEW x \in Int, Abs(x) <= 2 * T
      PROVE  /\ F64(x, 1) \in Int /\ (x >= 0 => F64(x, 1) >= 0)
             /\ 2 * (F64(x, 1) - x) <= W /\ 2 * (x - F64(x, 1)) <= W
             /\ x >= 0 => 4 * (F64(x, 1) - x) <= x
  <2>1. F64(x, 1) \in Int /\ (x >= 0 => F64(x, 1) >= 0)
        /\ 2 * Abs(F64(x, 1) - x) <= Unit(x, 1) /\ 4 * Abs(F64(x, 1) - x) <= Abs(x)
    BY F64Close
  <2>2. Unit(x, 1) <= W /\ Unit(x, 1) \in Nat
    BY <1>4, <1>5
  <2> DEFINE e == F64(x, 1) - x
  <2>3. e \in Int /\ e = F64(x, 1) - x /\ x - F64(x, 1) = -e
    BY <2>1
  <2> HIDE DEF e
  <2>4. 2 * Abs(e) <= W /\ 4 * Abs(e) <= Abs(x)
    BY <1>4, <2>1, <2>2, <2>3 DEF Abs
  <2>5. 2 * e <= W /\ -(2 * e) <= W /\ (x >= 0 => 4 * e <= x)
    BY <1>4, <2>3, <2>4 DEF Abs
  <2>6. QED BY <1>4, <2>1, <2>3, <2>5
<1>6. X \in Int /\ X >= 0 /\ 2 * (X - H) <= W /\ 2 * (H - X) <= W /\ 4 * (X - H) <= H
  <2>1. Abs(H) <= 2 * T /\ H \in Int /\ H >= 0
    BY <1>2 DEF Abs
  <2>2. QED BY <1>5, <2>1
<1>7. Y \in Int /\ Y >= 0 /\ 2 * (Y - S) <= W /\ 2 * (S - Y) <= W /\ 4 * (Y - S) <= S
  <2>1. Abs(S) <= 2 * T /\ S \in Int /\ S >= 0
    BY <1>2 DEF Abs
  <2>2. QED BY <1>5, <2>1
<1> HIDE DEF X, Y
<1>8. Z \in Int /\ Z >= 0 /\ 2 * (Z - Y) <= W /\ 2 * (Y - Z) <= W /\ 4 * (Z - Y) <= Y
  <2>1. Abs(Y) <= 2 * T
    BY <1>2, <1>7 DEF Abs
  <2>2. QED BY <1>5, <1>7, <2>1
<1> HIDE DEF Z
<1>9. O \in Int /\ 2 * (O - (X - Z)) <= W /\ 2 * ((X - Z) - O) <= W
  <2>1. X - Z \in Int /\ Abs(X - Z) <= 2 * T
    BY <1>2, <1>6, <1>7, <1>8 DEF Abs
  <2>2. QED BY <1>5, <2>1
<1>10. Add(as_f64(h), -Mul(Fine, as_f64(s))) = O
  <2>1. as_f64(h) = X /\ as_f64(s) = Y
    BY DEF as_f64, X, Y, H, S
  <2>2. Mul(Fine, Y) = Z
    BY <1>7, MulOne DEF Z
  <2>3. X + (-Z) = X - Z
    BY <1>6, <1>8
  <2>4. QED BY <2>1, <2>2, <2>3 DEF Add
<1> HIDE DEF O
<1>11. Abs(O - (H - S)) <= 2 * W
  BY <1>2, <1>4, <1>6, <1>7, <1>8, <1>9 DEF Abs
<1>12. QED BY <1>3, <1>10, <1>11

(* The nearest whole number of nanoseconds is at most a half off. *)
LEMMA RoundFacts ==
  ASSUME NEW x \in Int
  PROVE  /\ Round(x) \in Int
         /\ 2 * (Round(x) * Fine) <= 2 * x + Fine
         /\ 2 * (Round(x) * Fine) >= 2 * x - Fine
         /\ x >= 0 => Round(x) >= 0
<1> DEFINE b == Fine
<1>0. b \in Nat \ {0}
  BY F64Assumption
<1>1. CASE x >= 0
  <2> DEFINE r == (2 * x + b) \div (2 * b)
  <2>1. Round(x) = r
    BY <1>1 DEF Round
  <2> HIDE DEF b
  <2>2. r \in Int /\ r * (2 * b) <= 2 * x + b /\ 2 * x + b < r * (2 * b) + 2 * b
    <3>1. 2 * x + b \in Int /\ 2 * b \in Nat \ {0}
      BY <1>0
    <3>2. QED BY <3>1, DivFacts
  <2> HIDE DEF r
  <2>3. r * (2 * b) = 2 * (r * b)
    BY <1>0, <2>2
  <2>4. r >= 0
    <3>1. r < 0 => r + 1 <= 0 /\ (r + 1) * (2 * b) <= 0
      BY <1>0, <2>2
    <3>2. (r + 1) * (2 * b) = r * (2 * b) + 2 * b
      BY <1>0, <2>2
    <3>3. QED BY <1>0, <1>1, <2>2, <3>1, <3>2
  <2>5. r * b \in Int
    BY <1>0, <2>2
  <2>6. 2 * (r * b) <= 2 * x + b /\ 2 * (r * b) >= 2 * x - b
    BY <1>0, <2>2, <2>3, <2>5
  <2>7. QED BY <2>1, <2>2, <2>4, <2>6 DEF b
<1>2. CASE x < 0
  <2> DEFINE r == (-2 * x + b) \div (2 * b)
  <2>1. Round(x) = -r
    BY <1>2 DEF Round
  <2> HIDE DEF b
  <2>2. r \in Int /\ r * (2 * b) <= -2 * x + b /\ -2 * x + b < r * (2 * b) + 2 * b
    <3>1. -2 * x + b \in Int /\ 2 * b \in Nat \ {0}
      BY <1>0
    <3>2. QED BY <3>1, DivFacts
  <2> HIDE DEF r
  <2>3. r * (2 * b) = 2 * (r * b) /\ (-r) * b = -(r * b) /\ r * b \in Int
    BY <1>0, <2>2
  <2>4. 2 * ((-r) * b) <= 2 * x + b /\ 2 * ((-r) * b) >= 2 * x - b
    BY <1>0, <2>2, <2>3
  <2>5. QED BY <1>2, <2>1, <2>2, <2>4 DEF b
<1>3. QED BY <1>1, <1>2

(* Samples in the order they were taken: time goes on, the source not back. *)
Sampled == [src : Nat, lat : Nat, host : Nat]

InOrder(pairs) ==
  /\ IsFiniteSet(DOMAIN pairs) /\ DOMAIN pairs \subseteq Nat
  /\ \A i \in DOMAIN pairs : pairs[i] \in Sampled
  /\ \A i, j \in DOMAIN pairs : i < j => pairs[i].host < pairs[j].host /\ pairs[i].src <= pairs[j].src

LEMMA SlopeFacts ==
  ASSUME NEW pairs, InOrder(pairs)
  PROVE  /\ IsFiniteSet(DOMAIN Slopes(pairs))
         /\ \A p \in DOMAIN Slopes(pairs) : Slopes(pairs)[p] \in Int /\ Slopes(pairs)[p] >= 0
<1> DEFINE I == DOMAIN pairs
           J == {q \in I \X I : q[1] < q[2] /\ pairs[q[1]].src # pairs[q[2]].src}
<1>1. DOMAIN Slopes(pairs) = J
  BY DEF Slopes
<1>2. IsFiniteSet(J)
  <2>1. IsFiniteSet(I \X I)
    <3>1. IsFiniteSet(I)
      BY DEF InOrder
    <3>2. QED BY <3>1, FS_Product
  <2>2. J \subseteq I \X I
    OBVIOUS
  <2> HIDE DEF J
  <2>3. QED BY <2>1, <2>2, FS_Subset
<1>3. ASSUME NEW p \in J PROVE Slopes(pairs)[p] \in Int /\ Slopes(pairs)[p] >= 0
  <2> DEFINE ds == pairs[p[2]].src - pairs[p[1]].src
             dh == pairs[p[2]].host - pairs[p[1]].host
  <2>1. p[1] \in I /\ p[2] \in I /\ p[1] < p[2] /\ pairs[p[1]].src # pairs[p[2]].src
    OBVIOUS
  <2>2. /\ pairs[p[1]] \in Sampled /\ pairs[p[2]] \in Sampled
        /\ pairs[p[1]].host < pairs[p[2]].host /\ pairs[p[1]].src <= pairs[p[2]].src
    BY <2>1 DEF InOrder
  <2>3. dh \in Nat /\ ds \in Nat \ {0}
    BY <2>1, <2>2 DEF Sampled
  <2>4. Slopes(pairs)[p] = IF ds > 0 THEN F64(dh * Fine, ds) ELSE F64(-dh * Fine, -ds)
    BY DEF Slopes
  <2> HIDE DEF dh, ds
  <2>5. Slopes(pairs)[p] = F64(dh * Fine, ds)
    BY <2>3, <2>4
  <2>6. dh * Fine \in Int /\ dh * Fine >= 0
    BY <2>3, F64Assumption
  <2>7. QED BY <2>3, <2>5, <2>6, F64Type
<1>4. QED BY <1>1, <1>2, <1>3

(* What a fit is made of: the median slope, not negative, and the median of   *)
(* the offsets under it.                                                      *)
Offsets(pairs, slope) ==
  [i \in DOMAIN pairs |-> Add(as_f64(pairs[i].host), -Mul(slope, as_f64(pairs[i].src)))]

LEMMA OffsetType ==
  ASSUME NEW h \in Nat, NEW s \in Nat, NEW slope \in Int
  PROVE  Add(as_f64(h), -Mul(slope, as_f64(s))) \in Int
<1>1. Fine \in Nat \ {0} /\ h * Fine \in Int /\ s * Fine \in Int
  BY F64Assumption
<1>2. as_f64(h) \in Int /\ as_f64(s) \in Int
  BY <1>1, F64Type DEF as_f64
<1>3. slope * as_f64(s) \in Int
  BY <1>2
<1>4. Mul(slope, as_f64(s)) \in Int
  BY <1>1, <1>3, F64Type DEF Mul
<1>5. as_f64(h) + (-Mul(slope, as_f64(s))) \in Int
  BY <1>2, <1>4
<1>6. QED BY <1>5, F64Type DEF Add

LEMMA FitFacts ==
  ASSUME NEW pairs, InOrder(pairs), fit_theil_sen(pairs) # NoFit
  PROVE  LET f      == fit_theil_sen(pairs)
             slope  == sorted_middle(Slopes(pairs))
             offset == sorted_middle(Offsets(pairs, slope))
         IN  /\ DOMAIN Slopes(pairs) # {} /\ DOMAIN pairs # {}
             /\ slope \in Int /\ slope >= 0 /\ offset \in Int
             /\ f.offset = Round(offset) /\ f.num = Round(slope * Den) /\ f.den = Den
             /\ f.offset \in Int /\ f.num \in Nat
             /\ f = [offset |-> f.offset, num |-> f.num, den |-> f.den, residual |-> f.residual]
<1> DEFINE f == fit_theil_sen(pairs)
           slope == sorted_middle(Slopes(pairs))
           offset == sorted_middle(Offsets(pairs, slope))
<1>1. /\ DOMAIN Slopes(pairs) # {}
      /\ \E r : f = [offset |-> Round(offset), num |-> Round(slope * Den), den |-> Den, residual |-> r]
  BY DEF fit_theil_sen, Offsets
<1> HIDE DEF f
<1>2. slope \in Int /\ slope >= 0
  <2>1. \A p \in DOMAIN Slopes(pairs) : Slopes(pairs)[p] \in Int /\ Slopes(pairs)[p] >= 0
    BY SlopeFacts
  <2>2. IsFiniteSet(DOMAIN Slopes(pairs))
    BY SlopeFacts
  <2>3. \E p \in DOMAIN Slopes(pairs) : sorted_middle(Slopes(pairs)) = Slopes(pairs)[p]
    BY <1>1, <2>1, <2>2, SortedMiddle
  <2>4. QED BY <2>1, <2>3
<1> HIDE DEF slope
<1>3. DOMAIN pairs # {} /\ IsFiniteSet(DOMAIN pairs)
  <2>1. DOMAIN pairs = {} => DOMAIN Slopes(pairs) = {}
    BY DEF Slopes
  <2>2. QED BY <1>1, <2>1 DEF InOrder
<1>4. offset \in Int
  <2> DEFINE s == Offsets(pairs, slope)
  <2>1. DOMAIN s = DOMAIN pairs /\ \A i \in DOMAIN s : s[i] \in Int
    <3>1. \A i \in DOMAIN pairs : pairs[i].host \in Nat /\ pairs[i].src \in Nat
      BY DEF InOrder, Sampled
    <3>2. QED BY <1>2, <3>1, OffsetType DEF Offsets
  <2> HIDE DEF s
  <2>2. \E i \in DOMAIN s : sorted_middle(s) = s[i]
    BY <1>3, <2>1, SortedMiddle
  <2>3. QED BY <2>1, <2>2 DEF s
<1> HIDE DEF offset
<1>5. slope * Den \in Int /\ slope * Den >= 0
  BY <1>2, ClockAssumption
<1>6. Round(offset) \in Int /\ Round(slope * Den) \in Nat
  BY <1>4, <1>5, RoundFacts
<1>7. QED BY <1>1, <1>2, <1>3, <1>4, <1>6 DEF f, slope, offset

(* Words: numbers that differ by a multiple of Word are the same word. *)
LEMMA WordFacts ==
  ASSUME NEW x \in Int, NEW k \in Int
  PROVE  /\ ToWord(x) \in 0..Word - 1
         /\ \E j \in Int : ToWord(x) = x + j * Word
         /\ x \in 0..Word - 1 => ToWord(x) = x
         /\ ToWord(x + k * Word) = ToWord(x)
<1>1. Word \in Nat \ {0}
  BY ClockAssumption
<1> DEFINE q == x \div Word  r == x % Word
<1>2. q \in Int /\ r \in 0..Word - 1 /\ x = q * Word + r
  BY <1>1
<1>3. x \in 0..Word - 1 => r = x
  BY <1>1
<1>4. (x + k * Word) % Word = r
  <2> DEFINE y == x + k * Word  p == y \div Word  t == y % Word
  <2>1. y \in Int /\ p \in Int /\ t \in 0..Word - 1 /\ y = p * Word + t
    BY <1>1
  <2>2. (p - q - k) * Word = r - t
    BY <1>1, <1>2, <2>1
  <2> HIDE DEF p, t, q, r
  <2> DEFINE z == p - q - k
  <2>3. z \in Int /\ (z > 0 => z * Word >= Word) /\ (z < 0 => z * Word <= -Word)
    BY <1>1, <1>2, <2>1
  <2>4. z = 0
    <3> HIDE DEF z
    <3>1. z * Word = r - t
      BY <2>2 DEF z
    <3>2. QED BY <1>1, <1>2, <2>1, <2>3, <3>1
  <2>5. QED BY <1>1, <1>2, <2>1, <2>2, <2>4 DEF t
<1>5. \E j \in Int : r = x + j * Word
  <2>1. r = x + (-q) * Word /\ -q \in Int
    BY <1>1, <1>2
  <2> HIDE DEF q, r
  <2>2. QED BY <2>1
<1>6. QED BY <1>2, <1>3, <1>4, <1>5 DEF ToWord

(* The offset sent as a word maps as the signed one, where that is not        *)
(* before the epoch.                                                          *)
LEMMA WordMaps ==
  ASSUME NEW f, NEW c, f.offset \in Int, f.num \in Nat, f.den \in Nat \ {0},
         c.offset = ToWord(f.offset), c.num = f.num, c.den = f.den,
         NEW src \in Nat, Raw(f, src) >= 0
  PROVE  Map(c, src) = Map(f, src)
<1> DEFINE m == (f.num * src) \div f.den
<1>1. m \in Nat
  <2>1. f.num * src \in Int /\ f.num * src >= 0
    OBVIOUS
  <2>2. QED BY <2>1
<1>2. PICK k \in Int : ToWord(f.offset) = f.offset + k * Word
  BY WordFacts
<1>3. ToWord(f.offset) >= 0 /\ ToWord(f.offset) \in Int /\ Word \in Nat \ {0}
  <2>1. Word \in Nat \ {0} /\ ToWord(f.offset) \in 0..Word - 1
    BY WordFacts, ClockAssumption
  <2>2. QED BY <2>1
<1>4. Raw(f, src) = f.offset + m /\ Raw(c, src) = ToWord(f.offset) + m
  BY DEF Raw
<1> HIDE DEF m
<1>5. Raw(f, src) \in Int /\ Raw(c, src) = Raw(f, src) + k * Word /\ Raw(c, src) >= 0 /\ Raw(c, src) \in Int
  BY <1>1, <1>2, <1>3, <1>4
<1>6. Map(f, src) = ToWord(Raw(f, src)) /\ Map(c, src) = ToWord(Raw(c, src))
  <2> DEFINE u == Raw(f, src)  v == Raw(c, src)
  <2>1. ~(u < 0) /\ ~(v < 0)
    BY <1>5
  <2> HIDE DEF u, v
  <2>2. (IF u < 0 THEN 0 ELSE u) = u /\ (IF v < 0 THEN 0 ELSE v) = v
    BY <2>1
  <2>3. QED BY <2>2 DEF Map, u, v
<1>7. ToWord(Raw(f, src) + k * Word) = ToWord(Raw(f, src))
  BY <1>5, WordFacts
<1>8. QED BY <1>5, <1>6, <1>7

----------------------------------------------------------------------------
(* The invariant of the clock model.                                          *)

ClockTypes == host \in Nat /\ round \in 1..Len(Skews) /\ samples \in Seq(Sampled)

(* Measuring goes on after a fit only while there is another source. *)
RoundsLeft == verdict = "running" /\ fit # NoFit => round < Len(Skews)

(* Samples are in the order of time, of the host and of the source. *)
Taken ==
  /\ \A i \in 1..Len(samples) : samples[i].host < host /\ samples[i].src <= Source(host)
  /\ \A i, j \in 1..Len(samples) :
       i < j => samples[i].host < samples[j].host /\ samples[i].src <= samples[j].src

(* A fit is that of the samples, which are complete and stay as they are. *)
Fitted == fit # NoFit => Len(samples) = N /\ fit = fit_theil_sen(Filtered)

(* The collector's entry is the fit that was sent, as words. *)
IsFit(c) == c.offset \in Int /\ c.num \in Nat /\ c.den = Den

Shipped ==
  table # NoFit =>
    /\ IsFit(sent)
    /\ table.offset = ToWord(sent.offset) /\ table.num = ToWord(sent.num) /\ table.den = Den

ClockInv == ClockTypes /\ RoundsLeft /\ Taken /\ Fitted /\ Shipped

LEMMA SourceFacts ==
  ASSUME round \in 1..Len(Skews), NEW s \in Nat, NEW t \in Nat, s <= t
  PROVE  Source(s) \in Nat /\ Source(s) <= Source(t)
<1>1. Skews[round] \in Nat
  BY ClockAssumption
<1>2. QED BY <1>1 DEF Source

LEMMA Between ==
  ASSUME NEW x \in Nat, NEW y \in Nat, NEW z \in Nat
  PROVE  (x <= y /\ y <= z => x <= z) /\ (x < y /\ y <= z => x < z)
OBVIOUS

LEMMA ClockInitInv == ClockInit => ClockInv
<1> SUFFICES ASSUME ClockInit PROVE ClockInv
  OBVIOUS
<1>1. host \in Nat /\ round = 1 /\ samples = <<>> /\ fit = NoFit /\ table = NoFit
  BY ClockAssumption DEF ClockInit
<1>2. 1 \in 1..Len(Skews)
  BY ClockAssumption
<1>3. <<>> \in Seq(Sampled) /\ Len(<<>>) = 0
  OBVIOUS
<1>4. QED BY <1>1, <1>2, <1>3 DEF ClockInv, ClockTypes, RoundsLeft, Taken, Fitted, Shipped

(* One more sample, later than the others. *)
LEMMA SampleStep ==
  ASSUME ClockInv, NEW d1 \in Delay, NEW d2 \in Delay, Sample(d1, d2)
  PROVE  ClockInv'
<1> DEFINE new == [src |-> Source(host + d1), lat |-> d1 + d2, host |-> host + (d1 + d2) \div 2]
           n == Len(samples)
<1>1. /\ samples' = Append(samples, new) /\ host' = host + d1 + d2 + Gap
      /\ UNCHANGED <<round, fit, verdict, table, sent>> /\ n < N
  BY DEF Sample
<1>2. d1 \in Nat /\ d2 \in Nat /\ Gap \in Nat \ {0} /\ host \in Nat /\ round \in 1..Len(Skews)
  BY ClockAssumption DEF ClockInv, ClockTypes
<1>3. host + d1 \in Nat /\ host' \in Nat /\ host <= host + d1 /\ host + d1 <= host'
  BY <1>1, <1>2
<1>4. /\ (d1 + d2) \div 2 \in Nat /\ (d1 + d2) \div 2 <= d1 + d2
  BY <1>2
<1>5. /\ Source(host) \in Nat /\ Source(host) <= Source(host + d1)
      /\ Source(host + d1) \in Nat /\ Source(host + d1) <= Source(host') /\ Source(host') \in Nat
  <2>1. Source(host) \in Nat /\ Source(host) <= Source(host + d1)
    BY <1>2, <1>3, SourceFacts
  <2>2. Source(host + d1) \in Nat /\ Source(host + d1) <= Source(host')
    BY <1>2, <1>3, SourceFacts
  <2>3. Source(host') \in Nat /\ Source(host') <= Source(host')
    <3>1. host' <= host'
      BY <1>3
    <3>2. QED BY <1>2, <1>3, <3>1, SourceFacts
  <2>4. QED BY <2>1, <2>2, <2>3
<1>6. Source(host)' = Source(host')
  BY <1>1 DEF Source
<1>7. /\ new \in Sampled /\ new.src = Source(host + d1) /\ host <= new.host /\ new.host < host'
  <2>1. new.host \in Nat /\ host <= new.host /\ new.host < host'
    BY <1>1, <1>2, <1>4
  <2>2. d1 + d2 \in Nat
    BY <1>2
  <2>3. new.src = Source(host + d1) /\ new = [src |-> Source(host + d1), lat |-> d1 + d2, host |-> new.host]
    OBVIOUS
  <2> HIDE DEF new
  <2>4. new \in Sampled
    BY <1>5, <2>1, <2>2, <2>3 DEF Sampled
  <2>5. QED BY <2>1, <2>3, <2>4
<1> HIDE DEF new
<1>8. samples \in Seq(Sampled) /\ \A i \in 1..n : samples[i] \in Sampled /\ samples[i].host \in Nat /\ samples[i].src \in Nat
  <2>1. samples \in Seq(Sampled)
    BY DEF ClockInv, ClockTypes
  <2>2. \A i \in 1..n : samples[i] \in Sampled
    BY <2>1
  <2>3. \A r \in Sampled : r.host \in Nat /\ r.src \in Nat
    BY DEF Sampled
  <2>4. QED BY <2>1, <2>2, <2>3
<1>9. /\ n \in Nat /\ samples' \in Seq(Sampled) /\ Len(samples') = n + 1 /\ samples'[n + 1] = new
      /\ \A i \in 1..n : samples'[i] = samples[i]
  BY <1>1, <1>7, <1>8
<1>10. /\ \A i \in 1..n : samples[i].host < host /\ samples[i].src <= Source(host)
       /\ \A i, j \in 1..n : i < j => samples[i].host < samples[j].host /\ samples[i].src <= samples[j].src
  BY DEF ClockInv, Taken
<1> HIDE DEF n
<1>11. \A i \in 1..n + 1 : i \in 1..n \/ i = n + 1
  BY <1>9
<1>12. new.host \in Nat /\ new.src \in Nat
  BY <1>7 DEF Sampled
<1>13. ASSUME NEW i \in 1..n + 1
       PROVE  samples'[i].host < host' /\ samples'[i].src <= Source(host')
  <2>1. CASE i \in 1..n
    <3>1. samples[i].host < host' /\ samples[i].src <= Source(host')
      <4>1. samples[i].host < host /\ samples[i].src <= Source(host) /\ samples[i].host \in Nat /\ samples[i].src \in Nat
        BY <1>8, <1>10, <2>1
      <4>2. host <= host' /\ Source(host) <= Source(host')
        BY <1>2, <1>3, <1>5, Between
      <4>3. QED BY <1>2, <1>3, <1>5, <4>1, <4>2, Between
    <3>2. QED BY <1>9, <2>1, <3>1
  <2>2. CASE i = n + 1
    BY <1>5, <1>7, <1>9, <2>2
  <2>3. QED BY <1>11, <2>1, <2>2
<1>14. ASSUME NEW i \in 1..n + 1, NEW j \in 1..n + 1, i < j
       PROVE  samples'[i].host < samples'[j].host /\ samples'[i].src <= samples'[j].src
  <2>1. i \in 1..n
    BY <1>9, <1>14
  <2>2. CASE j \in 1..n
    BY <1>9, <1>10, <1>14, <2>1, <2>2
  <2>3. CASE j = n + 1
    <3>1. samples[i].host < host /\ samples[i].src <= Source(host) /\ samples[i].host \in Nat /\ samples[i].src \in Nat
      BY <1>8, <1>10, <2>1
    <3>2. samples[i].host < new.host /\ samples[i].src <= new.src
      BY <1>2, <1>5, <1>7, <1>12, <3>1, Between
    <3>3. QED BY <1>9, <2>1, <2>3, <3>2
  <2>4. QED BY <1>11, <2>2, <2>3
<1>15. Taken'
  BY <1>6, <1>9, <1>13, <1>14 DEF Taken
<1>16. fit = NoFit
  <2>1. n # N
    BY <1>1, <1>9, ClockAssumption
  <2>2. QED BY <2>1 DEF ClockInv, Fitted, n
<1>17. Shipped'
  BY <1>1 DEF ClockInv, Shipped
<1>18. QED BY <1>1, <1>2, <1>3, <1>9, <1>15, <1>16, <1>17 DEF ClockInv, ClockTypes, RoundsLeft, Fitted

LEMMA MeasureStep == ASSUME ClockInv, Measure PROVE ClockInv'
<1>1. /\ verdict = "running" /\ Len(samples) = N /\ fit = NoFit /\ fit' = fit_theil_sen(Filtered)
      /\ verdict' = CASE fit' = NoFit                -> "no fit"
                      [] fit'.residual > MaxResidual -> "residual"
                      [] round = Len(Skews)          -> "ok"
                      [] OTHER                       -> "running"
      /\ UNCHANGED <<host, round, samples, table, sent>>
  BY DEF Measure
<1>2. ClockTypes' /\ Taken'
  BY <1>1 DEF ClockInv, ClockTypes, Taken, Source
<1>3. Fitted'
  <2>1. Filtered' = Filtered
    BY <1>1 DEF Filtered
  <2>2. QED BY <1>1, <2>1 DEF Fitted
<1>4. Shipped'
  BY <1>1 DEF ClockInv, Shipped
<1>5. RoundsLeft'
  <2>1. verdict' = "running" => fit' = NoFit \/ round # Len(Skews)
    BY <1>1
  <2>2. round \in 1..Len(Skews) /\ Len(Skews) \in Nat
    BY ClockAssumption DEF ClockInv, ClockTypes
  <2>3. QED BY <1>1, <2>1, <2>2 DEF RoundsLeft
<1>6. QED BY <1>2, <1>3, <1>4, <1>5 DEF ClockInv

LEMMA NextSourceStep == ASSUME ClockInv, NextSource PROVE ClockInv'
<1>1. /\ verdict = "running" /\ fit # NoFit /\ round' = round + 1 /\ samples' = <<>> /\ fit' = NoFit
      /\ table' = table /\ sent' = sent /\ host' = host
  BY DEF NextSource
<1>2. round' \in 1..Len(Skews)
  <2>1. round \in 1..Len(Skews) /\ round < Len(Skews) /\ Len(Skews) \in Nat
    BY <1>1, ClockAssumption DEF ClockInv, ClockTypes, RoundsLeft
  <2>2. QED BY <1>1, <2>1
<1>3. <<>> \in Seq(Sampled) /\ Len(<<>>) = 0
  OBVIOUS
<1>4. QED BY <1>1, <1>2, <1>3 DEF ClockInv, ClockTypes, RoundsLeft, Taken, Fitted, Shipped

LEMMA FilteredInOrder == ASSUME ClockInv PROVE InOrder(Filtered)
<1> DEFINE I == DOMAIN Filtered
<1>1. I \subseteq 1..Len(samples) /\ \A i \in I : Filtered[i] = samples[i]
  BY DEF Filtered, ClockInv, ClockTypes
<1> HIDE DEF I
<1>2. Len(samples) \in Nat /\ \A i \in 1..Len(samples) : samples[i] \in Sampled
  BY DEF ClockInv, ClockTypes
<1>3. IsFiniteSet(1..Len(samples))
  BY <1>2, FS_Interval
<1>4. IsFiniteSet(I)
  BY <1>1, <1>3, FS_Subset
<1>5. \A i, j \in I : i < j => Filtered[i].host < Filtered[j].host /\ Filtered[i].src <= Filtered[j].src
  BY <1>1 DEF ClockInv, Taken
<1>6. I \subseteq Nat /\ \A i \in I : Filtered[i] \in Sampled
  BY <1>1, <1>2
<1>7. QED BY <1>4, <1>5, <1>6 DEF InOrder, I

LEMMA FitIsFit ==
  ASSUME ClockInv, fit # NoFit
  PROVE  IsFit(fit) /\ fit = [offset |-> fit.offset, num |-> fit.num, den |-> fit.den, residual |-> fit.residual]
<1>1. InOrder(Filtered) /\ fit = fit_theil_sen(Filtered) /\ fit_theil_sen(Filtered) # NoFit
  BY FilteredInOrder DEF ClockInv, Fitted
<1>2. QED BY <1>1, FitFacts DEF IsFit

LEMMA WordOfDen == ToWord(Den) = Den
<1>1. Den \in 0..Word - 1 /\ Den \in Int
  BY ClockAssumption
<1>2. QED BY <1>1, WordFacts

LEMMA ShipStep == ASSUME ClockInv, Ship PROVE ClockInv'
<1>1. /\ fit # NoFit /\ latest_proto # NoFit
      /\ table' = [latest_proto EXCEPT !.den = IF @ < 1 THEN 1 ELSE @] /\ sent' = fit
      /\ UNCHANGED <<host, round, samples, fit, verdict>>
  BY DEF Ship
<1>2. ClockTypes' /\ Taken' /\ RoundsLeft'
  BY <1>1 DEF ClockInv, ClockTypes, Taken, Source, RoundsLeft
<1>3. Fitted'
  BY <1>1 DEF ClockInv, Fitted, Filtered
<1>4. Shipped'
  <2> DEFINE c == [fit EXCEPT !.offset = ToWord(@), !.num = ToWord(@), !.den = ToWord(@)]
  <2>1. IsFit(fit) /\ fit = [offset |-> fit.offset, num |-> fit.num, den |-> fit.den, residual |-> fit.residual]
    BY <1>1, FitIsFit
  <2>2. latest_proto = c
    BY <1>1 DEF latest_proto
  <2>3. c.offset = ToWord(fit.offset) /\ c.num = ToWord(fit.num) /\ c.den = Den
    BY <2>1, WordOfDen DEF IsFit
  <2>4. ~(c.den < 1)
    BY <2>3, ClockAssumption
  <2>5. table'.offset = ToWord(fit.offset) /\ table'.num = ToWord(fit.num) /\ table'.den = Den
    <3>1. table' = [c EXCEPT !.den = IF @ < 1 THEN 1 ELSE @]
      BY <1>1, <2>2
    <3>2. table'.offset = c.offset /\ table'.num = c.num /\ table'.den = c.den
      BY <2>1, <2>4, <3>1
    <3>3. QED BY <2>3, <3>2
  <2>6. QED BY <1>1, <2>1, <2>5 DEF Shipped, IsFit, ToWord
<1>5. QED BY <1>2, <1>3, <1>4 DEF ClockInv

LEMMA ClockNextInv == ClockInv /\ [ClockNext]_ClockVars => ClockInv'
<1> SUFFICES ASSUME ClockInv, [ClockNext]_ClockVars PROVE ClockInv'
  OBVIOUS
<1>1. ASSUME NEW d1 \in Delay, NEW d2 \in Delay, Sample(d1, d2) PROVE ClockInv'
  BY <1>1, SampleStep
<1>2. CASE Measure
  BY <1>2, MeasureStep
<1>3. CASE NextSource
  BY <1>3, NextSourceStep
<1>4. CASE Ship
  BY <1>4, ShipStep
<1>5. CASE UNCHANGED ClockVars
  <2>1. UNCHANGED <<host, round, samples, fit, verdict, table, sent>>
    BY <1>5 DEF ClockVars
  <2>2. QED BY <2>1 DEF ClockInv, ClockTypes, RoundsLeft, Taken, Source, Fitted, Filtered, Shipped
<1>6. QED BY <1>1, <1>2, <1>3, <1>4, <1>5 DEF ClockNext

(* Samples are taken in order, a fit is that of the samples at hand, and the  *)
(* collector's entry is the fit sent last, whatever was measured since.       *)
THEOREM ClockInvariant == ClockSpec => []ClockInv
<1>1. ClockInit => ClockInv
  BY ClockInitInv
<1>2. ClockInv /\ [ClockNext]_ClockVars => ClockInv'
  BY ClockNextInv
<1>3. QED BY <1>1, <1>2, PTL DEF ClockSpec

(* A minority of bad samples does not move the fit, and a good one is off by  *)
(* the rounding of its times to f64 only: for every list of sources, delays   *)
(* and sample counts, every share of samples kept and every width of f64.     *)
THEOREM ClockRecovers == ClockSpec => []Recovers
<1> DEFINE F == Filtered
           slopes == Slopes(F)
           Agree(k) == {i \in DOMAIN F : Lag(F[i]) = Lag(F[k])}
           Ones == {p \in DOMAIN slopes : slopes[p] = Fine}
<1>1. ASSUME ClockInv, fit # NoFit, NEW k \in DOMAIN F, More(Agree(k), DOMAIN F), More(Ones, DOMAIN slopes)
      PROVE  fit.num = fit.den /\ 2 * Abs(fit.offset - Lag(F[k])) * Fine <= 4 * Grain(2 * host) + Fine
  <2> DEFINE slope  == sorted_middle(slopes)
             s      == Offsets(F, Fine)
             offset == sorted_middle(s)
             c      == Lag(F[k])
             W      == 2 * Grain(2 * host)
  <2>1. InOrder(F) /\ fit = fit_theil_sen(F) /\ fit_theil_sen(F) # NoFit
    BY <1>1, FilteredInOrder DEF ClockInv, Fitted
  <2>2. Fine \in Nat \ {0} /\ Fine \in Int /\ Den \in Nat \ {0} /\ host \in Nat
    BY <1>1, F64Assumption, ClockAssumption DEF ClockInv, ClockTypes
  <2>3. slope = Fine
    <3>1. IsFiniteSet(DOMAIN slopes) /\ \A p \in DOMAIN slopes : slopes[p] \in Int
      BY <2>1, SlopeFacts
    <3>2. Ones \in SUBSET DOMAIN slopes /\ \A p \in Ones : slopes[p] = Fine
      OBVIOUS
    <3>3. \A p \in Ones : Fine <= slopes[p] /\ slopes[p] <= Fine
      BY <2>2, <3>2
    <3> HIDE DEF slopes, Ones
    <3>4. sorted_middle(slopes) \in Fine..Fine
      BY <1>1, <2>2, <3>1, <3>2, <3>3, MiddleWithin
    <3>5. QED BY <2>2, <3>4
  <2> HIDE DEF slope
  <2>4. fit.offset = Round(offset) /\ fit.num = Round(Fine * Den) /\ fit.den = Den /\ offset \in Int /\ fit.offset \in Int
    BY <2>1, <2>3, FitFacts DEF slope
  <2>5. Round(Fine * Den) = Den
    <3> DEFINE r == Round(Fine * Den)
    <3>1. Fine * Den \in Int
      BY <2>2
    <3>2. r \in Int /\ 2 * (r * Fine) <= 2 * (Fine * Den) + Fine /\ 2 * (r * Fine) >= 2 * (Fine * Den) - Fine
      BY <3>1, RoundFacts
    <3> HIDE DEF r
    <3>3. (2 * (r - Den)) * Fine <= 1 * Fine /\ (2 * (Den - r)) * Fine <= 1 * Fine
      <4>1. /\ (2 * (r - Den)) * Fine = 2 * (r * Fine) - 2 * (Fine * Den)
            /\ (2 * (Den - r)) * Fine = 2 * (Fine * Den) - 2 * (r * Fine)
            /\ 1 * Fine = Fine
        BY <2>2, <3>2
      <4>2. r * Fine \in Int /\ Fine * Den \in Int
        BY <2>2, <3>2
      <4>3. QED BY <2>2, <3>2, <4>1, <4>2
    <3>4. ~(1 < 2 * (r - Den)) /\ ~(1 < 2 * (Den - r))
      <4>1. 2 * (r - Den) \in Int /\ 2 * (Den - r) \in Int
        BY <2>2, <3>2
      <4>2. ~(1 * Fine < (2 * (r - Den)) * Fine) /\ ~(1 * Fine < (2 * (Den - r)) * Fine)
        BY <2>2, <3>2, <3>3
      <4>3. QED BY <2>2, <4>1, <4>2, ScaleLess
    <3>5. r = Den
      BY <2>2, <3>2, <3>4
    <3>6. QED BY <3>5 DEF r
  <2>6. Grain(2 * host) \in Nat /\ W \in Nat /\ c \in Int /\ c * Fine \in Int
    <3>1. (2 * host) * Fine \in Int
      BY <2>2
    <3>2. Grain(2 * host) \in Nat
      BY <3>1, UnitFacts DEF Grain
    <3>3. c \in Int
      BY <2>1 DEF InOrder, Sampled, Lag
    <3> HIDE DEF c
    <3>4. QED BY <2>2, <3>2, <3>3
  <2>7. \A i \in DOMAIN F : /\ F[i].host \in Nat /\ F[i].src \in Nat
                            /\ F[i].host <= host /\ F[i].src <= host
    <3>1. \A i \in DOMAIN F : i \in 1..Len(samples) /\ F[i] = samples[i]
      BY <1>1 DEF Filtered, ClockInv, ClockTypes
    <3>2. \A i \in 1..Len(samples) : samples[i].host < host /\ samples[i].src <= Source(host)
      BY <1>1 DEF ClockInv, Taken
    <3>3. Source(host) \in Nat /\ Source(host) <= host
      <4>1. Skews[round] \in Nat
        BY <1>1, ClockAssumption DEF ClockInv, ClockTypes
      <4>2. QED BY <2>2, <4>1 DEF Source
    <3>4. \A i \in DOMAIN F : F[i].host \in Nat /\ F[i].src \in Nat
      BY <2>1 DEF InOrder, Sampled
    <3> HIDE DEF F
    <3>5. QED BY <2>2, <3>1, <3>2, <3>3, <3>4
  <2>8. /\ IsFiniteSet(DOMAIN s) /\ DOMAIN s = DOMAIN F /\ \A i \in DOMAIN s : s[i] \in Int
    BY <2>1, <2>2, <2>7, OffsetType DEF Offsets, InOrder
  <2>9. ASSUME NEW i \in Agree(k) PROVE c * Fine - W <= s[i] /\ s[i] <= c * Fine + W
    <3>1. i \in DOMAIN F /\ F[i].host - F[i].src = c
      BY DEF Lag
    <3>2. s[i] = Add(as_f64(F[i].host), -Mul(Fine, as_f64(F[i].src)))
      BY <3>1 DEF Offsets
    <3>3. Abs(s[i] - c * Fine) <= W
      <4>1. F[i].host \in Nat /\ F[i].src \in Nat /\ F[i].host <= host /\ F[i].src <= host
        BY <2>7, <3>1
      <4> HIDE DEF s, c, F
      <4>2. QED BY <2>2, <3>1, <3>2, <4>1, OffsetClose
    <3>4. s[i] \in Int
      BY <2>8, <3>1
    <3> HIDE DEF s, c, W
    <3>5. QED BY <2>6, <3>3, <3>4 DEF Abs
  <2>10. offset \in c * Fine - W..c * Fine + W
    <3>1. Agree(k) \in SUBSET DOMAIN s /\ More(Agree(k), DOMAIN s)
      BY <1>1, <2>8
    <3>2. c * Fine - W \in Int /\ c * Fine + W \in Int
      BY <2>6
    <3> HIDE DEF s, c, W, Agree
    <3>3. QED BY <2>8, <2>9, <3>1, <3>2, MiddleWithin
  <2>11. 2 * Abs(fit.offset - c) * Fine <= 2 * W + Fine
    <3> DEFINE r == fit.offset  x == c * Fine  y == r * Fine
    <3>1. r \in Int /\ 2 * y <= 2 * offset + Fine /\ 2 * y >= 2 * offset - Fine
      BY <2>4, RoundFacts
    <3>2. y \in Int
      BY <2>2, <3>1
    <3>3. (r - c) * Fine = y - x /\ (c - r) * Fine = x - y
      BY <2>2, <2>6, <3>1
    <3> HIDE DEF x, y, W, offset, c, r
    <3>4. 2 * (y - x) <= 2 * W + Fine /\ 2 * (x - y) <= 2 * W + Fine
      BY <2>2, <2>4, <2>6, <2>10, <3>1, <3>2 DEF x
    <3>5. Abs(r - c) * Fine \in Int /\ Abs(r - c) * Fine <= (2 * W + Fine) \div 2
      BY <2>2, <2>6, <3>1, <3>2, <3>3, <3>4 DEF Abs, x
    <3>6. Abs(r - c) \in Int
      BY <2>6, <3>1 DEF Abs
    <3>7. 2 * Abs(r - c) * Fine = 2 * (Abs(r - c) * Fine)
      BY <2>2, <3>6
    <3>8. QED BY <2>2, <2>6, <3>5, <3>7 DEF r
  <2>12. 2 * W = 4 * Grain(2 * host)
    BY <2>6
  <2>13. QED BY <2>4, <2>5, <2>11, <2>12
<1>2. ClockInv => Recovers
  BY <1>1 DEF Recovers
<1>3. QED BY <1>2, ClockInvariant, PTL

(* The collector maps every word as the agent does with the fit it sent last, *)
(* for every word width and denominator, offsets before zero included.        *)
THEOREM ClockMapAgrees == ClockSpec => []MapAgrees
<1>1. Word \in Nat \ {0} /\ Den \in Nat \ {0}
  BY ClockAssumption
<1>2. ASSUME ClockInv, table # NoFit, 2 * sent.num < Word, NEW src \in 0..Word - 1, Raw(sent, src) >= 0
      PROVE  ServerMap(src) = Map(sent, src)
  <2>1. /\ sent.offset \in Int /\ sent.num \in Nat /\ sent.den = Den
        /\ table.offset = ToWord(sent.offset) /\ table.num = ToWord(sent.num) /\ table.den = Den
    BY <1>2 DEF ClockInv, Shipped, IsFit
  <2>2. sent.num \in 0..Word - 1 /\ sent.num \in Int
    BY <1>1, <1>2, <2>1
  <2>3. table.num = sent.num
    BY <2>1, <2>2, WordFacts
  <2>4. Map(table, src) = Map(sent, src)
    BY <1>1, <1>2, <2>1, <2>3, WordMaps
  <2>5. QED BY <1>2, <2>4 DEF ServerMap
<1>3. ASSUME ClockInv, table = NoFit, fit # NoFit, latest_proto = NoFit, NEW src \in 0..Word - 1
      PROVE  ServerMap(src) = Map(fit, src)
  <2> DEFINE identity == fit.offset = 0 /\ fit.num = fit.den /\ fit.residual = 0
             c == [fit EXCEPT !.offset = ToWord(@), !.num = ToWord(@), !.den = ToWord(@)]
  <2>1. IsFit(fit) /\ fit = [offset |-> fit.offset, num |-> fit.num, den |-> fit.den, residual |-> fit.residual]
    BY <1>3, FitIsFit
  <2>2. latest_proto = IF identity THEN NoFit ELSE c
    BY DEF latest_proto
  <2>3. c # NoFit
    <3>1. c.den = Den
      BY <2>1, WordOfDen DEF IsFit
    <3> HIDE DEF c
    <3>2. QED BY <1>1, <3>1 DEF NoFit
  <2>4. fit.offset = 0 /\ fit.num = fit.den
    BY <1>3, <2>2, <2>3
  <2>5. src \in Nat /\ src \in Int /\ src \in 0..Word - 1
    BY <1>1
  <2>6. Raw(fit, src) = src
    <3>1. (Den * src) \div Den = src
      BY <1>1, <2>5
    <3>2. QED BY <2>1, <2>4, <2>5, <3>1 DEF Raw, IsFit
  <2>7. Map(fit, src) = src
    <3>1. ToWord(src) = src
      BY <2>5, WordFacts
    <3>2. ~(src < 0)
      BY <2>5
    <3>3. QED BY <2>6, <3>1, <3>2 DEF Map
  <2>8. QED BY <1>3, <2>7 DEF ServerMap
<1>4. ClockInv => MapAgrees
  BY <1>2, <1>3 DEF MapAgrees
<1>5. QED BY <1>4, ClockInvariant, PTL
=============================================================================
