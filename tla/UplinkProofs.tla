--------------------------- MODULE UplinkProofs ----------------------------
(* Proofs about Uplink for every set of items, strings, capacity of the     *)
(* ring and of a connection, size of a batch and number of lost connections. *)
EXTENDS Uplink, FiniteSetTheorems, SequenceTheorems, TLAPS

Types ==
  /\ ring \in [Lane -> Seq(Item)]
  /\ dropped \in [Lane -> Nat] /\ warned \in [Lane -> Nat]
  /\ batch \in Batches
  /\ cur \in 0..MaxLosses + 1 /\ losses \in Nat
  /\ link \in [Session -> {"unused", "open", "lost"}]
  /\ task \in [Session -> {"none", "recv", "ack", "ended"}]
  /\ acks \in [Session -> Seq([accepted : Nat, dropped : Nat])]
  /\ count \in [Session -> [accepted : Nat, dropped : Nat]]
  /\ wire \in [Session -> Seq(Batches)] /\ sent \in [Session -> Seq(Batches)]
  /\ taken \in [Session -> Seq([batch : Batches, fate : {"ok", "full", "closed"}])]
  /\ made \subseteq Item /\ overflow \subseteq made

(* Sessions are opened one after the other. *)
Opened ==
  /\ InSession => cur > 0
  /\ \A n \in Session :
       /\ n > cur => /\ link[n] = "unused" /\ task[n] = "none" /\ count[n] = Zero
                     /\ wire[n] = <<>> /\ sent[n] = <<>> /\ taken[n] = <<>>
       /\ link[n] = "unused" \/ task[n] = "none" => n > cur

(* Connections and tasks end only with a loss or the agent's end. *)
NoLossNoEnd ==
  losses = 0 /\ ~quit =>
    /\ gone = {} /\ collector # "closing"
    /\ \A n \in Session : link[n] # "lost" /\ task[n] # "ended"

(* An item is in one place of the ring or in the batch at hand. *)
OnePlace ==
  /\ \A l \in Lane : IsInjective(ring[l]) /\ \A i \in ToSet(ring[l]) : LaneOf[i] = l
  /\ IsInjective(batch.events)
  /\ InRing \cap ItemsOf(batch) = {}
  /\ InRing \cup ItemsOf(batch) \subseteq made

(* What has been sent is neither there nor in another batch. *)
SentOnce ==
  /\ \A n \in Session : \A j \in 1..Len(sent[n]) :
       /\ IsInjective(sent[n][j].events)
       /\ ItemsOf(sent[n][j]) \subseteq made
       /\ ItemsOf(sent[n][j]) \cap (InRing \cup ItemsOf(batch)) = {}
  /\ \A n, m \in Session : \A j \in 1..Len(sent[n]), k \in 1..Len(sent[m]) :
       <<n, j>> # <<m, k>> => ItemsOf(sent[n][j]) \cap ItemsOf(sent[m][k]) = {}

(* A session's task has taken the batches it was sent in their order, and   *)
(* its wire holds later ones; none is missing in between as long as the     *)
(* task runs, and none after them as long as the connection is open.        *)
StreamOf(n) ==
  /\ \A j \in 1..Len(taken[n]) : taken[n][j].batch = sent[n][j]
  /\ \E o \in Len(taken[n])..Len(sent[n]) :
       /\ task[n] # "ended" => o = Len(taken[n])
       /\ o + Len(wire[n]) <= Len(sent[n])
       /\ link[n] = "open" => o + Len(wire[n]) = Len(sent[n])
       /\ \A k \in 1..Len(wire[n]) : wire[n][k] = sent[n][o + k]

Streams == \A n \in Session : StreamOf(n)

(* What Custody says of the items in the uploader's and collector's hands. *)
Kept == InRing \cup ItemsOf(batch) \cup OnWire \cup TakenItems \cup gone

KeptAll == made \ overflow \subseteq Kept

(* What is lost is nowhere else. *)
GoneForGood ==
  /\ gone \cap (Waiting \cup TakenItems) = {}
  /\ gone \subseteq made

(* The strings that the current session's stream has announced. *)
Told == UNION {sent[cur][k].strings : k \in 1..Len(sent[cur])}

(* The interner knows them, and those of the batch to send. *)
Interned ==
  /\ pc \in {"connect", "sleep", "register"} => seen = {}
  /\ pc # "send" => batch.strings = {}
  /\ InSession =>
       /\ seen = Told \cup batch.strings
       /\ batch.strings \cap Told = {}
  /\ pc = "send" => UnitsIn(batch) \subseteq seen

IInv ==
  /\ Types /\ Opened /\ NoLossNoEnd /\ OnePlace /\ SentOnce /\ Streams /\ KeptAll
  /\ GoneForGood
  /\ Interned /\ UnitsAnnounced /\ IsFiniteSet(overflow) /\ DropsAccounted /\ Balanced

----------------------------------------------------------------------------
(* Sequences and the items in them. *)

(* Appending a new item. *)
LEMMA AppendItem ==
  ASSUME NEW S, NEW q \in Seq(S), NEW x \in S
  PROVE  /\ Append(q, x) \in Seq(S) /\ ToSet(Append(q, x)) = ToSet(q) \cup {x}
         /\ IsInjective(q) /\ x \notin ToSet(q) => IsInjective(Append(q, x))
<1> DEFINE t == Append(q, x)
<1>1. /\ t \in Seq(S) /\ Len(t) = Len(q) + 1 /\ Len(q) \in Nat
      /\ \A n \in 1..Len(q) : t[n] = q[n]
      /\ t[Len(q) + 1] = x
      /\ DOMAIN t = 1..Len(q) + 1 /\ DOMAIN q = 1..Len(q)
  OBVIOUS
<1> HIDE DEF t
<1>2. \A n \in 1..Len(q) + 1 : n \in 1..Len(q) \/ n = Len(q) + 1
  BY <1>1
<1>3. \A n \in 1..Len(q) : n \in 1..Len(q) + 1
  BY <1>1
<1>4. Len(q) + 1 \in 1..Len(q) + 1
  BY <1>1
<1>5. ToSet(t) = ToSet(q) \cup {x}
  BY <1>1, <1>2, <1>3, <1>4 DEF ToSet
<1>6. IsInjective(q) /\ x \notin ToSet(q) => IsInjective(t)
  BY <1>1, <1>2 DEF IsInjective, ToSet
<1>7. QED BY <1>1, <1>5, <1>6 DEF t

(* Taking the oldest item. *)
LEMMA TakeItem ==
  ASSUME NEW S, NEW q \in Seq(S), q # <<>>
  PROVE  /\ Head(q) \in S /\ Tail(q) \in Seq(S) /\ Head(q) = q[1] /\ 1 \in 1..Len(q)
         /\ Len(Tail(q)) = Len(q) - 1 /\ Len(q) \in Nat \ {0}
         /\ \A n \in 1..Len(Tail(q)) : n + 1 \in 1..Len(q) /\ Tail(q)[n] = q[n + 1]
         /\ ToSet(q) = {Head(q)} \cup ToSet(Tail(q))
         /\ IsInjective(q) => IsInjective(Tail(q)) /\ Head(q) \notin ToSet(Tail(q))
<1> DEFINE t == Tail(q)
<1>1. /\ t \in Seq(S) /\ Len(t) = Len(q) - 1 /\ Len(q) \in Nat \ {0}
      /\ Head(q) \in S /\ Head(q) = q[1]
      /\ \A n \in 1..Len(t) : n + 1 \in 1..Len(q) /\ t[n] = q[n + 1]
      /\ DOMAIN t = 1..Len(t) /\ DOMAIN q = 1..Len(q) /\ 1 \in 1..Len(q)
  OBVIOUS
<1> HIDE DEF t
<1>2. \A n \in 1..Len(q) : n = 1 \/ (n - 1 \in 1..Len(t) /\ n - 1 + 1 = n)
  BY <1>1
<1>3. ToSet(q) = {Head(q)} \cup ToSet(t)
  <2>1. \A x \in ToSet(q) : x = Head(q) \/ x \in ToSet(t)
    <3> SUFFICES ASSUME NEW n \in 1..Len(q) PROVE q[n] = Head(q) \/ q[n] \in ToSet(t)
      BY <1>1 DEF ToSet
    <3>1. CASE n = 1 BY <1>1, <3>1
    <3>2. CASE n # 1
      <4>1. t[n - 1] = q[n] /\ n - 1 \in DOMAIN t
        BY <1>1, <1>2, <3>2
      <4>2. QED BY <4>1 DEF ToSet
    <3>3. QED BY <3>1, <3>2
  <2>2. QED BY <1>1, <2>1 DEF ToSet
<1>4. ASSUME IsInjective(q)
      PROVE  IsInjective(t) /\ Head(q) \notin ToSet(t)
  <2>1. ASSUME NEW i \in 1..Len(t), NEW j \in 1..Len(t), t[i] = t[j]
        PROVE  i = j
    <3>1. q[i + 1] = q[j + 1] /\ i + 1 \in DOMAIN q /\ j + 1 \in DOMAIN q
      BY <1>1, <2>1
    <3>2. i + 1 = j + 1
      BY <1>4, <3>1 DEF IsInjective
    <3>3. QED BY <3>2
  <2>2. ASSUME NEW i \in 1..Len(t), t[i] = Head(q)
        PROVE  FALSE
    <3>1. q[i + 1] = q[1] /\ i + 1 \in DOMAIN q /\ 1 \in DOMAIN q
      BY <1>1, <2>2
    <3>2. i + 1 = 1
      BY <1>4, <3>1 DEF IsInjective
    <3>3. QED BY <3>2
  <2>3. QED BY <1>1, <2>1, <2>2 DEF IsInjective, ToSet
<1>5. QED BY <1>1, <1>3, <1>4 DEF t

(* The number of items in a sequence that holds each once is its length. *)
LEMMA OnceCount ==
  ASSUME NEW S, NEW q \in Seq(S)
  PROVE  IsFiniteSet(ToSet(q)) /\ (IsInjective(q) => Cardinality(ToSet(q)) = Len(q))
<1>1. Len(q) \in Nat /\ DOMAIN q = 1..Len(q) /\ q \in [1..Len(q) -> ToSet(q)]
  BY DEF ToSet
<1>2. q \in Surjection(1..Len(q), ToSet(q))
  BY <1>1 DEF Surjection, ToSet
<1>3. IsFiniteSet(1..Len(q)) /\ Cardinality(1..Len(q)) = Len(q)
  BY <1>1, FS_Interval
<1>4. IsFiniteSet(ToSet(q))
  BY <1>2, <1>3, FS_Surjection
<1>5. ASSUME IsInjective(q) PROVE Cardinality(ToSet(q)) = Len(q)
  <2>1. q \in Bijection(1..Len(q), ToSet(q))
    BY <1>1, <1>2, <1>5 DEF Bijection, Injection
  <2>2. ExistsBijection(1..Len(q), ToSet(q))
    BY <2>1 DEF ExistsBijection
  <2>3. QED BY <1>3, <2>2, FS_Bijection
<1>6. QED BY <1>4, <1>5

(* The items and the events in a queue of batches. *)
LEMMA ItemsInFacts ==
  ASSUME NEW q \in Seq(Batches)
  PROVE  /\ \A x : x \in ItemsIn(q) <=> \E k \in 1..Len(q) : x \in ItemsOf(q[k])
         /\ \A x : x \in EventsIn(q) <=> \E k \in 1..Len(q) : x \in ToSet(q[k].events)
         /\ ItemsIn(<<>>) = {} /\ EventsIn(<<>>) = {}
         /\ EventsIn(q) \subseteq ItemsIn(q)
         /\ \A k \in 1..Len(q) : q[k] \in Batches
<1>1. DOMAIN q = 1..Len(q)
  OBVIOUS
<1>2. QED BY <1>1 DEF ItemsIn, EventsIn, ItemsOf

(* Putting a batch behind a queue, and taking its first one.               *)
LEMMA QueueFacts ==
  ASSUME NEW q \in Seq(Batches), NEW b \in Batches
  PROVE  /\ Append(q, b) \in Seq(Batches) /\ Len(Append(q, b)) = Len(q) + 1
         /\ Append(q, b)[Len(q) + 1] = b
         /\ \A k \in 1..Len(q) : Append(q, b)[k] = q[k]
         /\ ItemsIn(Append(q, b)) = ItemsIn(q) \cup ItemsOf(b)
         /\ EventsIn(Append(q, b)) = EventsIn(q) \cup ToSet(b.events)
<1> DEFINE t == Append(q, b)
<1>1. /\ t \in Seq(Batches) /\ Len(t) = Len(q) + 1 /\ Len(q) \in Nat
      /\ \A n \in 1..Len(q) : t[n] = q[n]
      /\ t[Len(q) + 1] = b
  OBVIOUS
<1> HIDE DEF t
<1>2. \A n \in 1..Len(t) : n \in 1..Len(q) \/ n = Len(q) + 1
  BY <1>1
<1>3. Len(q) + 1 \in 1..Len(t) /\ \A n \in 1..Len(q) : n \in 1..Len(t)
  BY <1>1
<1>4. /\ \A x : x \in ItemsIn(t) <=> \E k \in 1..Len(t) : x \in ItemsOf(t[k])
      /\ \A x : x \in EventsIn(t) <=> \E k \in 1..Len(t) : x \in ToSet(t[k].events)
      /\ \A x : x \in ItemsIn(q) <=> \E k \in 1..Len(q) : x \in ItemsOf(q[k])
      /\ \A x : x \in EventsIn(q) <=> \E k \in 1..Len(q) : x \in ToSet(q[k].events)
  BY <1>1, ItemsInFacts
<1>5. ItemsIn(t) = ItemsIn(q) \cup ItemsOf(b)
  BY <1>1, <1>2, <1>3, <1>4
<1>6. EventsIn(t) = EventsIn(q) \cup ToSet(b.events)
  BY <1>1, <1>2, <1>3, <1>4
<1>7. QED BY <1>1, <1>5, <1>6 DEF t

(* The first batch of a queue and the rest of it. *)
LEMMA HeadFacts ==
  ASSUME NEW q \in Seq(Batches), q # <<>>
  PROVE  /\ Head(q) \in Batches /\ Head(q) = q[1] /\ 1 \in 1..Len(q)
         /\ Tail(q) \in Seq(Batches) /\ Len(Tail(q)) = Len(q) - 1 /\ Len(q) \in Nat \ {0}
         /\ \A k \in 1..Len(Tail(q)) : k + 1 \in 1..Len(q) /\ Tail(q)[k] = q[k + 1]
         /\ ItemsIn(q) = ItemsOf(Head(q)) \cup ItemsIn(Tail(q))
         /\ EventsIn(q) = ToSet(Head(q).events) \cup EventsIn(Tail(q))
<1> DEFINE t == Tail(q)
<1>1. /\ Head(q) \in Batches /\ t \in Seq(Batches) /\ Head(q) = q[1] /\ 1 \in 1..Len(q)
      /\ Len(t) = Len(q) - 1 /\ Len(q) \in Nat \ {0}
      /\ \A n \in 1..Len(t) : n + 1 \in 1..Len(q) /\ t[n] = q[n + 1]
  OBVIOUS
<1> HIDE DEF t
<1>2. \A n \in 1..Len(q) : n = 1 \/ (n - 1 \in 1..Len(t) /\ t[n - 1] = q[n])
  BY <1>1
<1>3. /\ \A x : x \in ItemsIn(t) <=> \E k \in 1..Len(t) : x \in ItemsOf(t[k])
      /\ \A x : x \in EventsIn(t) <=> \E k \in 1..Len(t) : x \in ToSet(t[k].events)
      /\ \A x : x \in ItemsIn(q) <=> \E k \in 1..Len(q) : x \in ItemsOf(q[k])
      /\ \A x : x \in EventsIn(q) <=> \E k \in 1..Len(q) : x \in ToSet(q[k].events)
  BY <1>1, ItemsInFacts
<1>4. ItemsIn(q) = ItemsOf(Head(q)) \cup ItemsIn(t)
  BY <1>1, <1>2, <1>3
<1>5. EventsIn(q) = ToSet(Head(q).events) \cup EventsIn(t)
  BY <1>1, <1>2, <1>3
<1>6. QED BY <1>1, <1>4, <1>5 DEF t

(* The items in the places K of a queue. *)
Part(q, K) == UNION {ItemsOf(q[k]) : k \in K}

(* A connection that breaks cuts a queue in two. *)
LEMMA CutFacts ==
  ASSUME NEW q \in Seq(Batches), NEW k \in 0..Len(q)
  PROVE  /\ SubSeq(q, 1, k) \in Seq(Batches) /\ Len(SubSeq(q, 1, k)) = k
         /\ \A j \in 1..k : SubSeq(q, 1, k)[j] = q[j] /\ j \in 1..Len(q)
         /\ ItemsIn(q) = ItemsIn(SubSeq(q, 1, k)) \cup ItemsIn(SubSeq(q, k + 1, Len(q)))
         /\ ItemsIn(SubSeq(q, 1, k)) = Part(q, 1..k)
         /\ ItemsIn(SubSeq(q, k + 1, Len(q))) = Part(q, (1..Len(q)) \ (1..k))
<1> DEFINE s == SubSeq(q, 1, k)
           t == SubSeq(q, k + 1, Len(q))
<1>1. Len(q) \in Nat /\ k \in Nat /\ k <= Len(q)
  OBVIOUS
<1>2. /\ s \in Seq(Batches) /\ Len(s) = k
      /\ \A j \in 1..k : s[j] = q[j] /\ j \in 1..Len(q)
  <2>1. /\ s \in Seq(Batches) /\ Len(s) = k - 1 + 1
        /\ \A j \in 1..k - 1 + 1 : s[j] = q[1 + j - 1]
    BY <1>1, SubSeqProperties
  <2> HIDE DEF s
  <2>2. k - 1 + 1 = k /\ \A j \in 1..k : 1 + j - 1 = j /\ j \in 1..Len(q)
    BY <1>1
  <2>3. QED BY <2>1, <2>2
<1>3. /\ t \in Seq(Batches) /\ Len(t) = Len(q) - k
      /\ \A j \in 1..Len(q) - k : t[j] = q[k + j] /\ k + j \in 1..Len(q)
  <2>1. k + 1 \in 1..Len(q) + 1 /\ Len(q) \in k + 1 - 1..Len(q)
    BY <1>1
  <2>2. /\ t \in Seq(Batches) /\ Len(t) = Len(q) - (k + 1) + 1
        /\ \A j \in 1..Len(q) - (k + 1) + 1 : t[j] = q[k + 1 + j - 1]
    BY <1>1, <2>1, SubSeqProperties
  <2> HIDE DEF t
  <2>3. Len(q) - (k + 1) + 1 = Len(q) - k
        /\ \A j \in 1..Len(q) - k : k + 1 + j - 1 = k + j /\ k + j \in 1..Len(q)
    BY <1>1
  <2>4. QED BY <2>2, <2>3
<1> HIDE DEF s, t
<1>4. /\ \A x : x \in ItemsIn(t) <=> \E j \in 1..Len(t) : x \in ItemsOf(t[j])
      /\ \A x : x \in ItemsIn(s) <=> \E j \in 1..Len(s) : x \in ItemsOf(s[j])
      /\ \A x : x \in ItemsIn(q) <=> \E j \in 1..Len(q) : x \in ItemsOf(q[j])
  BY <1>2, <1>3, ItemsInFacts
<1>5. \A n \in 1..Len(q) : n \in 1..k \/ (n - k \in 1..Len(q) - k /\ k + (n - k) = n)
  BY <1>1
<1>6. ItemsIn(q) = ItemsIn(s) \cup ItemsIn(t)
  <2>1. ASSUME NEW n \in 1..Len(q), NEW x \in ItemsOf(q[n])
        PROVE  x \in ItemsIn(s) \/ x \in ItemsIn(t)
    <3>1. CASE n \in 1..k BY <1>2, <1>4, <3>1
    <3>2. CASE n \notin 1..k
      <4>1. n - k \in 1..Len(t) /\ t[n - k] = q[n]
        BY <1>3, <1>5, <3>2
      <4>2. QED BY <1>4, <4>1
    <3>3. QED BY <3>1, <3>2
  <2>2. \A x : x \in ItemsIn(s) => x \in ItemsIn(q)
    BY <1>2, <1>4
  <2>3. \A x : x \in ItemsIn(t) => x \in ItemsIn(q)
    BY <1>3, <1>4
  <2>4. QED BY <1>4, <2>1, <2>2, <2>3
<1>7. ItemsIn(s) = Part(q, 1..k)
  BY <1>2, <1>4 DEF Part
<1>8. ItemsIn(t) = Part(q, (1..Len(q)) \ (1..k))
  <2>1. \A j \in 1..Len(t) : k + j \in (1..Len(q)) \ (1..k) /\ t[j] = q[k + j]
    BY <1>1, <1>3
  <2>2. \A n \in (1..Len(q)) \ (1..k) : n - k \in 1..Len(t) /\ t[n - k] = q[n]
    BY <1>1, <1>3, <1>5
  <2>3. \A x : x \in Part(q, (1..Len(q)) \ (1..k)) <=> \E n \in (1..Len(q)) \ (1..k) : x \in ItemsOf(q[n])
    BY DEF Part
  <2>4. \A x \in ItemsIn(t) : x \in Part(q, (1..Len(q)) \ (1..k))
    BY <1>4, <2>1, <2>3
  <2>5. \A x \in Part(q, (1..Len(q)) \ (1..k)) : x \in ItemsIn(t)
    BY <1>4, <2>2, <2>3
  <2>6. QED BY <2>4, <2>5
<1>9. QED BY <1>2, <1>6, <1>7, <1>8 DEF s, t

(* The events of a queue are finitely many. *)
LEMMA EventsFinite ==
  ASSUME NEW q \in Seq(Batches)
  PROVE  IsFiniteSet(EventsIn(q))
<1> DEFINE S == {ToSet(q[j].events) : j \in DOMAIN q}
<1>1. DOMAIN q = 1..Len(q) /\ Len(q) \in Nat
  OBVIOUS
<1>2. IsFiniteSet(DOMAIN q)
  BY <1>1, FS_Interval
<1>3. IsFiniteSet(S)
  <2> DEFINE f == [j \in DOMAIN q |-> ToSet(q[j].events)]
  <2>1. f \in Surjection(DOMAIN q, S)
    BY DEF Surjection
  <2>2. QED BY <1>2, <2>1, FS_Surjection
<1>4. \A T \in S : IsFiniteSet(T)
  <2> SUFFICES ASSUME NEW j \in 1..Len(q) PROVE IsFiniteSet(ToSet(q[j].events))
    BY <1>1
  <2>1. q[j].events \in Seq(Item)
    <3>1. q[j] \in Batches
      OBVIOUS
    <3>2. QED BY <3>1 DEF Batches
  <2>2. QED BY <2>1, OnceCount
<1>5. QED BY <1>3, <1>4, FS_UNION DEF EventsIn

----------------------------------------------------------------------------
(* What a loss leaves behind. *)
LEMMA LoseFacts ==
  ASSUME Types, NEW n \in Session, NEW S, Lose(n, S)
  PROVE  /\ link' \in [Session -> {"unused", "open", "lost"}] /\ link'[n] = "lost"
         /\ acks' \in [Session -> Seq([accepted : Nat, dropped : Nat])]
         /\ wire' \in [Session -> Seq(Batches)]
         /\ \A m \in Session : m # n => link'[m] = link[m] /\ wire'[m] = wire[m]
         /\ Len(wire'[n]) \in Nat /\ Len(wire'[n]) <= Len(wire[n])
         /\ \A k \in 1..Len(wire'[n]) : wire'[n][k] = wire[n][k]
         /\ task[n] = "ended" => Len(wire'[n]) = 0
         /\ gone \cup S \subseteq gone' /\ OnWire \subseteq OnWire' \cup gone'
<1> DEFINE q == wire[n]
<1>1. q \in Seq(Batches)
  BY DEF Types
<1>2. PICK k \in (IF task[n] = "ended" THEN {0} ELSE 0..Len(q)) :
        /\ wire' = [wire EXCEPT ![n] = SubSeq(@, 1, k)]
        /\ gone' = gone \cup S \cup ItemsIn(SubSeq(q, k + 1, Len(q)))
  BY DEF Lose
<1>3. k \in 0..Len(q) /\ (task[n] = "ended" => k = 0)
  <2>1. Len(q) \in Nat
    BY <1>1
  <2>2. QED BY <1>2, <2>1
<1> HIDE DEF q
<1>4. /\ SubSeq(q, 1, k) \in Seq(Batches) /\ Len(SubSeq(q, 1, k)) = k
      /\ \A j \in 1..k : SubSeq(q, 1, k)[j] = q[j] /\ j \in 1..Len(q)
      /\ ItemsIn(q) = ItemsIn(SubSeq(q, 1, k)) \cup ItemsIn(SubSeq(q, k + 1, Len(q)))
  BY <1>1, <1>3, CutFacts
<1>5. /\ link' \in [Session -> {"unused", "open", "lost"}] /\ link'[n] = "lost"
      /\ acks' \in [Session -> Seq([accepted : Nat, dropped : Nat])]
      /\ \A m \in Session : m # n => link'[m] = link[m]
  BY DEF Lose, Types
<1>6. /\ wire' \in [Session -> Seq(Batches)]
      /\ wire'[n] = SubSeq(q, 1, k)
      /\ \A m \in Session : m # n => wire'[m] = wire[m]
  BY <1>2, <1>4 DEF Types, q
<1>7. OnWire \subseteq OnWire' \cup gone'
  <2> SUFFICES ASSUME NEW m \in Session, NEW x \in ItemsIn(wire[m])
               PROVE  x \in gone' \/ x \in ItemsIn(wire'[m])
    BY DEF OnWire
  <2>1. CASE m # n BY <1>6, <2>1
  <2>2. CASE m = n BY <1>2, <1>4, <1>6, <2>2 DEF q
  <2>3. QED BY <2>1, <2>2
<1>8. gone \cup S \subseteq gone'
  BY <1>2
<1>9. /\ Len(wire'[n]) \in Nat /\ Len(wire'[n]) <= Len(wire[n])
      /\ \A j \in 1..Len(wire'[n]) : wire'[n][j] = wire[n][j]
      /\ task[n] = "ended" => Len(wire'[n]) = 0
  BY <1>3, <1>4, <1>6 DEF q
<1>10. QED BY <1>5, <1>6, <1>7, <1>8, <1>9

(* The unit strings a batch announces are among those of the items. *)
LEMMA BatchFacts ==
  /\ NoBatch \in Batches /\ ItemsOf(NoBatch) = {} /\ UnitsIn(NoBatch) = {}
  /\ NoBatch.events = <<>> /\ NoBatch.strings = {} /\ IsInjective(<<>>)
  /\ \A b \in Batches :
       /\ b.events \in Seq(Item) /\ b.frames \in Seq(Item)
       /\ UnitsIn(b) \subseteq UNION {UnitOf[i] : i \in Item}
       /\ \A q \in Seq(Item) : [b EXCEPT !.events = q] \in Batches /\ [b EXCEPT !.frames = q] \in Batches
       /\ \A T \in SUBSET UNION {UnitOf[i] : i \in Item} : [b EXCEPT !.strings = T] \in Batches
<1>1. /\ NoBatch \in Batches /\ ItemsOf(NoBatch) = {} /\ UnitsIn(NoBatch) = {}
      /\ NoBatch.events = <<>> /\ NoBatch.strings = {} /\ IsInjective(<<>>)
  BY DEF NoBatch, Batches, ItemsOf, UnitsIn, ToSet, IsInjective
<1>2. ASSUME NEW b \in Batches
      PROVE  /\ b.events \in Seq(Item) /\ b.frames \in Seq(Item)
             /\ UnitsIn(b) \subseteq UNION {UnitOf[i] : i \in Item}
             /\ \A q \in Seq(Item) : [b EXCEPT !.events = q] \in Batches
                                     /\ [b EXCEPT !.frames = q] \in Batches
             /\ \A T \in SUBSET UNION {UnitOf[i] : i \in Item} : [b EXCEPT !.strings = T] \in Batches
  <2>1. b.events \in Seq(Item) /\ b.frames \in Seq(Item)
    BY DEF Batches
  <2>2. ToSet(b.events) \subseteq Item
    BY <2>1 DEF ToSet
  <2>3. UnitsIn(b) \subseteq UNION {UnitOf[i] : i \in Item}
    BY <2>2 DEF UnitsIn
  <2>4. \A q \in Seq(Item) : [b EXCEPT !.events = q] \in Batches /\ [b EXCEPT !.frames = q] \in Batches
    BY DEF Batches
  <2>5. \A T \in SUBSET UNION {UnitOf[i] : i \in Item} : [b EXCEPT !.strings = T] \in Batches
    BY DEF Batches
  <2>6. QED BY <2>1, <2>3, <2>4, <2>5
<1>3. QED BY <1>1, <1>2

----------------------------------------------------------------------------
(* The inductive invariant.  Each of its parts is kept by every step.       *)

(* A session of the uploader is one of Session. *)
LEMMA CurSession ==
  ASSUME Types, Opened, InSession
  PROVE  cur \in Session
BY UplinkAssumption DEF Types, Opened, Session

(* The parts of IInv hold before anything has been pushed or sent. *)
LEMMA InitIInv == Init => IInv
<1> SUFFICES ASSUME Init PROVE IInv
  OBVIOUS
<1>1. Types
  BY BatchFacts, UplinkAssumption DEF Init, Types, Zero
<1>2. Opened /\ NoLossNoEnd
  BY UplinkAssumption DEF Init, Opened, NoLossNoEnd, Session, InSession
<1>3. OnePlace
  BY BatchFacts DEF Init, OnePlace, InRing, Lane, ToSet, IsInjective
<1>4. SentOnce
  BY DEF Init, SentOnce
<1>5. Streams
  <2> SUFFICES ASSUME NEW n \in Session PROVE StreamOf(n)
    BY DEF Streams
  <2>1. Len(taken[n]) = 0 /\ Len(wire[n]) = 0 /\ Len(sent[n]) = 0
    BY DEF Init
  <2>2. 0 \in Len(taken[n])..Len(sent[n])
    BY <2>1
  <2>3. QED BY <2>1, <2>2 DEF StreamOf
<1>6. KeptAll /\ GoneForGood
  BY DEF Init, KeptAll, GoneForGood
<1>7. Interned /\ UnitsAnnounced
  BY BatchFacts DEF Init, Interned, UnitsAnnounced, InSession
<1>8. IsFiniteSet(overflow) /\ DropsAccounted
  <2>1. \A l \in Lane : {i \in overflow : LaneOf[i] = l} = {}
    BY DEF Init
  <2>2. QED BY <2>1, FS_EmptySet DEF Init, DropsAccounted
<1>9. Balanced
  BY DEF Init, Balanced
<1>10. QED BY <1>1, <1>2, <1>3, <1>4, <1>5, <1>6, <1>7, <1>8, <1>9 DEF IInv

(* Every step keeps each variable in its set. *)
LEMMA TypesStep ==
  ASSUME Types, Opened, Next
  PROVE  Types'
<1>1. ASSUME NEW i \in Item, Push(i) PROVE Types'
  <2> DEFINE l == LaneOf[i]
  <2>1. l \in Lane /\ ring[l] \in Seq(Item)
    BY UplinkAssumption DEF Types
  <2>2. UNCHANGED <<batch, cur, losses, link, task, acks, count, wire, sent, taken, warned>>
    BY <1>1 DEF Push, server
  <2>3. Append(ring[l], i) \in Seq(Item)
    BY <2>1
  <2>4. ring' \in [Lane -> Seq(Item)] /\ dropped' \in [Lane -> Nat]
        /\ made' \subseteq Item /\ overflow' \subseteq made'
    <3>1. made' = made \cup {i}
          /\ \/ ring' = [ring EXCEPT ![l] = Append(@, i)] /\ UNCHANGED <<dropped, overflow>>
             \/ /\ dropped' = [dropped EXCEPT ![l] = @ + 1] /\ overflow' = overflow \cup {i}
                /\ UNCHANGED ring
      BY <1>1 DEF Push
    <3>2. dropped[l] + 1 \in Nat
      BY <2>1 DEF Types
    <3> HIDE DEF l
    <3>3. QED BY <2>1, <2>3, <3>1, <3>2 DEF Types
  <2>5. QED BY <2>2, <2>4 DEF Types
<1>2. CASE Quit \/ Connect \/ Wake \/ OpenFails \/ FlushTick \/ EventsDrained \/ CollectorStarts
  BY <1>2 DEF Quit, Connect, Wake, OpenFails, FlushTick, EventsDrained, CollectorStarts, Types,
              server, history, agent
<1>3. CASE Open
  <2>1. /\ cur' = cur + 1 /\ cur <= MaxLosses
        /\ link' = [link EXCEPT ![cur'] = "open"] /\ task' = [task EXCEPT ![cur'] = "recv"]
        /\ UNCHANGED <<ring, dropped, batch, wire, acks, count, history>>
    BY <1>3 DEF Open
  <2>2. cur' \in 0..MaxLosses + 1
    BY <2>1, UplinkAssumption DEF Types
  <2>3. QED BY <2>1, <2>2 DEF Types, history
<1>4. CASE Leave \/ SessionFails
  <2>1. /\ batch' = NoBatch
        /\ UNCHANGED <<ring, dropped, cur, task, count, made, overflow, warned, sent, taken, losses>>
    BY <1>4 DEF Leave, SessionFails, server
  <2>2. /\ link' \in [Session -> {"unused", "open", "lost"}]
        /\ acks' \in [Session -> Seq([accepted : Nat, dropped : Nat])]
        /\ wire' \in [Session -> Seq(Batches)]
    <3>1. CASE UNCHANGED <<link, acks, wire>>
      BY <3>1 DEF Types
    <3>2. CASE ~UNCHANGED <<link, acks, wire>>
      <4>1. Lose(cur, ItemsOf(batch)) /\ cur > 0
        BY <1>4, <3>2 DEF Leave, SessionFails, InSession, Opened
      <4>2. cur \in Session
        BY <4>1, UplinkAssumption DEF Types, Session
      <4>3. QED BY <4>1, <4>2, LoseFacts
    <3>3. QED BY <3>1, <3>2
  <2>3. QED BY <2>1, <2>2, BatchFacts DEF Types
<1>5. CASE DrainEvent
  <2>1. ring["events"] \in Seq(Item) /\ ring["events"] # <<>> /\ batch.events \in Seq(Item)
    BY <1>5, BatchFacts DEF DrainEvent, Types, Lane
  <2>2. Tail(ring["events"]) \in Seq(Item) /\ Append(batch.events, Head(ring["events"])) \in Seq(Item)
    BY <2>1
  <2>3. /\ ring' = [ring EXCEPT !["events"] = Tail(@)]
        /\ batch' = [batch EXCEPT !.events = Append(batch.events, Head(ring["events"]))]
        /\ UNCHANGED <<dropped, cur, link, wire, acks, server, history>>
    BY <1>5 DEF DrainEvent
  <2>4. batch' \in Batches /\ ring' \in [Lane -> Seq(Item)]
    BY <2>2, <2>3, BatchFacts DEF Types
  <2>5. QED BY <2>3, <2>4 DEF Types, server, history
<1>6. CASE DrainFrame
  <2>1. ring["frames"] \in Seq(Item) /\ ring["frames"] # <<>> /\ batch.frames \in Seq(Item)
    BY <1>6, BatchFacts DEF DrainFrame, Types, Lane
  <2>2. Tail(ring["frames"]) \in Seq(Item) /\ Append(batch.frames, Head(ring["frames"])) \in Seq(Item)
    BY <2>1
  <2>3. /\ ring' = [ring EXCEPT !["frames"] = Tail(@)]
        /\ batch' = [batch EXCEPT !.frames = Append(batch.frames, Head(ring["frames"]))]
        /\ UNCHANGED <<dropped, cur, link, wire, acks, server, history>>
    BY <1>6 DEF DrainFrame
  <2>4. batch' \in Batches /\ ring' \in [Lane -> Seq(Item)]
    BY <2>2, <2>3, BatchFacts DEF Types
  <2>5. QED BY <2>3, <2>4 DEF Types, server, history
<1>7. CASE FramesDrained
  <2>1. /\ batch' = batch \/ batch' = [batch EXCEPT !.strings = UnitsIn(batch) \ seen]
        /\ UNCHANGED <<ring, dropped, cur, link, wire, acks, server, history>>
    BY <1>7 DEF FramesDrained
  <2>2. batch' \in Batches
    <3>1. batch \in Batches
      BY DEF Types
    <3>2. UnitsIn(batch) \ seen \in SUBSET UNION {UnitOf[i] : i \in Item}
      BY <3>1, BatchFacts
    <3>3. [batch EXCEPT !.strings = UnitsIn(batch) \ seen] \in Batches
      BY <3>1, <3>2, BatchFacts
    <3>4. QED BY <2>1, <3>1, <3>3
  <2>3. QED BY <2>1, <2>2 DEF Types, server, history
<1>8. CASE Send
  <2>1. cur \in Session
    BY <1>8, CurSession DEF Send, InSession
  <2>2. Append(wire[cur], batch) \in Seq(Batches) /\ Append(sent[cur], batch) \in Seq(Batches)
    BY <2>1 DEF Types
  <2>3. QED BY <1>8, <2>1, <2>2, BatchFacts DEF Send, Types, server
<1>9. CASE ReadAck
  <2>1. cur \in Session
    BY <1>9, CurSession DEF ReadAck, InSession
  <2>2. acks[cur] # <<>> /\ acks[cur] \in Seq([accepted : Nat, dropped : Nat])
    BY <1>9, <2>1 DEF ReadAck, Types
  <2>3. Tail(acks[cur]) \in Seq([accepted : Nat, dropped : Nat])
    BY <2>2
  <2>4. QED BY <1>9, <2>1, <2>3 DEF ReadAck, Types, agent, server, history
<1>10. CASE DropTick
  <2>1. warned' \in [Lane -> Nat] /\ dropped' \in [Lane -> Nat]
    BY <1>10 DEF DropTick, Types
  <2>2. QED BY <1>10, <2>1 DEF DropTick, Types, server
<1>11. ASSUME NEW n \in Session, Break(n) PROVE Types'
  <2>1. Lose(n, {}) /\ losses' = losses + 1
        /\ UNCHANGED <<agent, server, made, overflow, warned, sent, taken>>
    BY <1>11 DEF Break
  <2>2. /\ link' \in [Session -> {"unused", "open", "lost"}]
        /\ acks' \in [Session -> Seq([accepted : Nat, dropped : Nat])]
        /\ wire' \in [Session -> Seq(Batches)]
    BY <2>1, LoseFacts
  <2>3. losses' \in Nat
    BY <2>1 DEF Types
  <2>4. QED BY <2>1, <2>2, <2>3 DEF Types, agent, server
<1>12. ASSUME NEW n \in Session, Ingest(n) \/ IngestClosed(n) PROVE Types'
  <2>1. wire[n] \in Seq(Batches) /\ wire[n] # <<>>
    BY <1>12 DEF Ingest, IngestClosed, Types
  <2>2. /\ Head(wire[n]) \in Batches /\ Tail(wire[n]) \in Seq(Batches)
        /\ Rows(Head(wire[n])) \in Nat
    <3>1. Head(wire[n]) \in Batches /\ Tail(wire[n]) \in Seq(Batches)
      BY <2>1
    <3>2. Head(wire[n]).events \in Seq(Item)
      BY <3>1, BatchFacts
    <3>3. QED BY <3>1, <3>2 DEF Rows
  <2>3. /\ wire' = [wire EXCEPT ![n] = Tail(@)] \/ wire' = [wire EXCEPT ![n] = <<>>]
        /\ task' = [task EXCEPT ![n] = "ack"] \/ task' = [task EXCEPT ![n] = "ended"]
        /\ Took(n, "ok") \/ Took(n, "full") \/ Took(n, "closed")
        /\ \/ count' = count
           \/ count' = [count EXCEPT ![n].accepted = @ + Rows(Head(wire[n]))]
           \/ count' = [count EXCEPT ![n].dropped = @ + Rows(Head(wire[n]))]
        /\ UNCHANGED <<agent, link, acks, made, overflow, warned, sent, losses>>
    BY <1>12 DEF Ingest, IngestClosed
  <2>4. wire' \in [Session -> Seq(Batches)] /\ task' \in [Session -> {"none", "recv", "ack", "ended"}]
    <3>1. wire \in [Session -> Seq(Batches)] /\ task \in [Session -> {"none", "recv", "ack", "ended"}]
          /\ <<>> \in Seq(Batches)
      BY DEF Types
    <3>2. wire' \in [Session -> Seq(Batches)]
      BY <2>2, <2>3, <3>1
    <3>3. task' \in [Session -> {"none", "recv", "ack", "ended"}]
      BY <2>3, <3>1
    <3>4. QED BY <3>2, <3>3
  <2>5. taken' \in [Session -> Seq([batch : Batches, fate : {"ok", "full", "closed"}])]
    <3>1. \A fate \in {"ok", "full", "closed"} :
            Append(taken[n], [batch |-> Head(wire[n]), fate |-> fate])
              \in Seq([batch : Batches, fate : {"ok", "full", "closed"}])
      <4> TAKE fate \in {"ok", "full", "closed"}
      <4>1. [batch |-> Head(wire[n]), fate |-> fate] \in [batch : Batches, fate : {"ok", "full", "closed"}]
        BY <2>2
      <4>2. taken[n] \in Seq([batch : Batches, fate : {"ok", "full", "closed"}])
        BY DEF Types
      <4>3. QED BY <4>1, <4>2, AppendProperties
    <3>2. QED BY <2>3, <3>1 DEF Took, Types
  <2>6. count' \in [Session -> [accepted : Nat, dropped : Nat]]
    <3>1. count[n] \in [accepted : Nat, dropped : Nat]
      BY DEF Types
    <3>2. /\ [count[n] EXCEPT !.accepted = @ + Rows(Head(wire[n]))] \in [accepted : Nat, dropped : Nat]
          /\ [count[n] EXCEPT !.dropped = @ + Rows(Head(wire[n]))] \in [accepted : Nat, dropped : Nat]
      BY <2>2, <3>1
    <3>3. QED BY <2>3, <3>2 DEF Types
  <2>7. QED BY <2>3, <2>4, <2>5, <2>6 DEF Types, agent
<1>13. ASSUME NEW n \in Session, Ack(n) \/ StreamEnds(n) \/ StreamErrs(n) PROVE Types'
  <2>1. /\ UNCHANGED <<agent, link, count, made, overflow, warned, sent, taken>> /\ losses' \in Nat
        /\ task' = [task EXCEPT ![n] = "recv"] \/ task' = [task EXCEPT ![n] = "ended"]
        /\ acks' = acks \/ acks' = [acks EXCEPT ![n] = Append(@, count[n])]
        /\ wire' = wire \/ wire' = [wire EXCEPT ![n] = <<>>]
    <3>1. CASE StreamErrs(n) BY <3>1 DEF StreamErrs, Types
    <3>2. CASE Ack(n) \/ StreamEnds(n) BY <3>2 DEF Ack, StreamEnds, history, Types
    <3>3. QED BY <1>13, <3>1, <3>2
  <2>2. Append(acks[n], count[n]) \in Seq([accepted : Nat, dropped : Nat])
    BY DEF Types
  <2>3. /\ acks' \in [Session -> Seq([accepted : Nat, dropped : Nat])]
        /\ wire' \in [Session -> Seq(Batches)]
        /\ task' \in [Session -> {"none", "recv", "ack", "ended"}]
    <3>1. /\ acks \in [Session -> Seq([accepted : Nat, dropped : Nat])]
          /\ wire \in [Session -> Seq(Batches)] /\ <<>> \in Seq(Batches)
          /\ task \in [Session -> {"none", "recv", "ack", "ended"}]
      BY DEF Types
    <3>2. acks' \in [Session -> Seq([accepted : Nat, dropped : Nat])]
      BY <2>1, <2>2, <3>1
    <3>3. wire' \in [Session -> Seq(Batches)]
      BY <2>1, <3>1
    <3>4. task' \in [Session -> {"none", "recv", "ack", "ended"}]
      BY <2>1, <3>1
    <3>5. QED BY <3>2, <3>3, <3>4
  <2>4. QED BY <2>1, <2>3 DEF Types, agent
<1>14. CASE CollectorCloses
  <2>1. losses' \in Nat
    BY <1>14 DEF CollectorCloses, Types
  <2>2. QED BY <1>14, <2>1 DEF CollectorCloses, Types, agent
<1>15. CASE CollectorExits
  <2>1. /\ link' = [n \in Session |-> IF link[n] = "open" THEN "lost" ELSE link[n]]
        /\ task' = [n \in Session |-> IF task[n] = "none" THEN "none" ELSE "ended"]
        /\ wire' = [n \in Session |-> <<>>] /\ acks' = [n \in Session |-> <<>>]
        /\ UNCHANGED <<agent, count, made, overflow, warned, sent, taken>>
        /\ losses' \in {losses, losses + 1}
    BY <1>15 DEF CollectorExits
  <2>2. /\ link' \in [Session -> {"unused", "open", "lost"}]
        /\ task' \in [Session -> {"none", "recv", "ack", "ended"}]
        /\ losses' \in Nat
    BY <2>1 DEF Types
  <2>3. wire' \in [Session -> Seq(Batches)]
        /\ acks' \in [Session -> Seq([accepted : Nat, dropped : Nat])]
    BY <2>1
  <2>4. QED BY <2>1, <2>2, <2>3 DEF Types, agent
<1>16. CASE Ended
  BY <1>16 DEF Ended, vars, Types
<1>17. QED BY <1>1, <1>2, <1>3, <1>4, <1>5, <1>6, <1>7, <1>8, <1>9, <1>10, <1>11, <1>12, <1>13,
              <1>14, <1>15, <1>16 DEF Next, Uploader, IngestTask

(* The end of a session either loses its connection or touches none. *)
LEMMA EndFacts ==
  ASSUME Types, Opened, Leave \/ SessionFails
  PROVE  /\ \/ UNCHANGED <<link, acks, wire>> /\ gone' = gone \cup ItemsOf(batch)
            \/ cur \in Session /\ link[cur] = "open" /\ Lose(cur, ItemsOf(batch))
         /\ UNCHANGED <<ring, dropped, cur, quit, server,
                        made, overflow, warned, sent, taken, losses>>
         /\ batch' = NoBatch /\ pc' \in {"stopped", "sleep"}
         /\ pc' = "sleep" => seen' = {}
<1>1. /\ UNCHANGED <<ring, dropped, cur, quit, server,
                     made, overflow, warned, sent, taken, losses>>
      /\ batch' = NoBatch /\ pc' \in {"stopped", "sleep"} /\ (pc' = "sleep" => seen' = {})
  BY DEF Leave, SessionFails
<1>2. \/ UNCHANGED <<link, acks, wire>> /\ gone' = gone \cup ItemsOf(batch)
      \/ cur > 0 /\ link[cur] = "open" /\ Lose(cur, ItemsOf(batch))
  <2>1. CASE Leave BY <2>1 DEF Leave
  <2>2. CASE SessionFails
    <3>1. cur > 0
      BY <2>2 DEF SessionFails, Opened, InSession
    <3>2. QED BY <2>2, <3>1 DEF SessionFails
  <2>3. QED BY <2>1, <2>2
<1>3. cur > 0 => cur \in Session
  BY UplinkAssumption DEF Types, Session
<1>4. QED BY <1>1, <1>2, <1>3

(* Steps of the agent that concern no session's stream. *)
AgentOnly ==
  \/ \E i \in Item : Push(i)
  \/ Quit \/ Connect \/ Wake \/ OpenFails \/ FlushTick \/ DrainEvent \/ EventsDrained
  \/ DrainFrame \/ FramesDrained \/ ReadAck \/ DropTick \/ Ended

(* They leave every stream and the uploader's session alone. *)
LEMMA AgentOnlyFacts ==
  ASSUME AgentOnly
  PROVE  /\ UNCHANGED <<link, task, count, wire, sent, taken, cur, collector, losses, gone>>
         /\ InSession' => InSession
BY DEF AgentOnly, Push, Quit, Connect, Wake, OpenFails, FlushTick, DrainEvent, EventsDrained,
       DrainFrame, FramesDrained, ReadAck, DropTick, Ended, agent, server, history, vars, InSession

(* The cases of a step, those of AgentOnly taken together. *)
LEMMA NextCases ==
  ASSUME Next
  PROVE  \/ AgentOnly \/ Open \/ Leave \/ SessionFails \/ Send
         \/ \E n \in Session : Break(n) \/ Ingest(n) \/ IngestClosed(n) \/ Ack(n)
                              \/ StreamEnds(n) \/ StreamErrs(n)
         \/ CollectorCloses \/ CollectorExits \/ CollectorStarts
BY DEF Next, Uploader, IngestTask, AgentOnly

(* A session's stream is empty until it is opened. *)
LEMMA OpenedStep ==
  ASSUME Types, Opened, Next
  PROVE  Opened'
<1>1. CASE AgentOnly \/ CollectorCloses \/ CollectorStarts
  <2>1. UNCHANGED <<link, task, count, wire, sent, taken, cur>> /\ (InSession' => InSession)
    BY <1>1, AgentOnlyFacts DEF CollectorCloses, CollectorStarts, agent, history, InSession
  <2>2. QED BY <2>1 DEF Opened
<1>2. CASE Open
  <2>1. /\ cur' = cur + 1 /\ cur <= MaxLosses /\ cur \in Nat
        /\ link' = [link EXCEPT ![cur'] = "open"] /\ task' = [task EXCEPT ![cur'] = "recv"]
        /\ UNCHANGED <<wire, count, sent, taken>>
    BY <1>2, UplinkAssumption DEF Open, history, Types
  <2>2. \A n \in Session : n \in Nat
    BY UplinkAssumption DEF Session
  <2>3. \A n \in Session : /\ n > cur' => n > cur /\ link'[n] = link[n] /\ task'[n] = task[n]
                           /\ link'[n] = "unused" => n # cur' /\ link[n] = "unused"
                           /\ task'[n] = "none" => n # cur' /\ task[n] = "none"
    BY <2>1, <2>2 DEF Types
  <2>4. \A n \in Session : (link[n] = "unused" \/ task[n] = "none") /\ n # cur' => n > cur'
    BY <2>1, <2>2 DEF Opened
  <2>5. QED BY <2>1, <2>3, <2>4 DEF Opened
<1>3. CASE Leave \/ SessionFails
  <2>1. /\ UNCHANGED <<task, count, sent, taken, cur>> /\ ~InSession'
        /\ UNCHANGED <<link, acks, wire>> \/ (cur \in Session /\ Lose(cur, ItemsOf(batch)))
    BY <1>3, EndFacts DEF server, InSession
  <2>2. \A n \in Session : /\ n > cur => link'[n] = link[n] /\ wire'[n] = wire[n]
                           /\ link'[n] = "unused" => link[n] = "unused"
    <3>1. CASE UNCHANGED <<link, acks, wire>> BY <3>1
    <3>2. CASE cur \in Session /\ Lose(cur, ItemsOf(batch))
      <4>1. cur \in Nat
        BY <3>2, UplinkAssumption DEF Session
      <4>2. link'[cur] = "lost" /\ \A m \in Session : m # cur => link'[m] = link[m] /\ wire'[m] = wire[m]
        BY <3>2, LoseFacts
      <4>3. \A n \in Session : n > cur => n # cur
        BY <4>1
      <4>4. QED BY <4>2, <4>3
    <3>3. QED BY <2>1, <3>1, <3>2
  <2>3. QED BY <2>1, <2>2 DEF Opened
<1>4. CASE Send
  <2>1. cur \in Session /\ cur \in Nat /\ cur > 0
    <3>1. InSession
      BY <1>4 DEF Send, InSession
    <3>2. cur \in Session /\ cur > 0
      BY <3>1, CurSession DEF Opened
    <3>3. QED BY <3>2, UplinkAssumption DEF Session
  <2>2. /\ UNCHANGED <<link, task, count, taken, cur>>
        /\ \A n \in Session : n # cur => wire'[n] = wire[n] /\ sent'[n] = sent[n]
    BY <1>4 DEF Send, server, Types
  <2>3. \A n \in Session : n > cur => n # cur
    BY <2>1
  <2>4. QED BY <2>1, <2>2, <2>3 DEF Opened
<1>5. ASSUME NEW m \in Session, Break(m) \/ Ingest(m) \/ IngestClosed(m) \/ Ack(m)
                           \/ StreamEnds(m) \/ StreamErrs(m)
      PROVE  Opened'
  <2>1. ~(m > cur) /\ link[m] # "unused"
    BY <1>5 DEF Break, Ingest, IngestClosed, Ack, StreamEnds, StreamErrs, Opened
  <2>2. UNCHANGED <<sent, cur, pc>>
    BY <1>5 DEF Break, Ingest, IngestClosed, Ack, StreamEnds, StreamErrs, agent, history
  <2>3. \A n \in Session : /\ n # m => /\ wire'[n] = wire[n] /\ taken'[n] = taken[n]
                                       /\ task'[n] = task[n] /\ count'[n] = count[n]
                                       /\ link'[n] = link[n]
                           /\ link'[n] = "unused" => link[n] = "unused"
                           /\ task'[n] = "none" => task[n] = "none"
    <3>1. CASE Break(m)
      BY <3>1, LoseFacts DEF Break, server
    <3>2. CASE Ingest(m) \/ IngestClosed(m)
      BY <3>2 DEF Ingest, IngestClosed, Took, Types
    <3>3. CASE Ack(m) \/ StreamEnds(m) \/ StreamErrs(m)
      BY <3>3 DEF Ack, StreamEnds, StreamErrs, history, Types
    <3>4. QED BY <1>5, <3>1, <3>2, <3>3
  <2>4. QED BY <2>1, <2>2, <2>3 DEF Opened, InSession
<1>6. CASE CollectorExits
  <2>1. UNCHANGED <<cur, pc, count, sent, taken>>
    BY <1>6 DEF CollectorExits, agent
  <2>2. \A n \in Session : /\ link[n] = "unused" => link'[n] = "unused"
                           /\ link'[n] = "unused" => link[n] = "unused"
                           /\ task[n] = "none" => task'[n] = "none"
                           /\ task'[n] = "none" => task[n] = "none"
                           /\ wire'[n] = <<>>
    BY <1>6 DEF CollectorExits
  <2>3. QED BY <2>1, <2>2 DEF Opened, InSession
<1>7. QED BY <1>1, <1>2, <1>3, <1>4, <1>5, <1>6, NextCases

(* Losses are counted one by one, and an agent told to stop stays told. *)
LEMMA StaysBroken ==
  ASSUME Types, Opened, Next
  PROVE  losses' \in {losses, losses + 1} /\ (quit => quit')
<1>1. losses' \in {losses, losses + 1}
  BY NextCases, AgentOnlyFacts, EndFacts
     DEF Open, Send, Break, Ingest, IngestClosed, Ack, StreamEnds, StreamErrs, CollectorCloses,
         CollectorExits, CollectorStarts, history
<1>2. quit => quit'
  BY DEF Next, Push, Quit, Uploader, Connect, Wake, Open, OpenFails, Leave, FlushTick, DrainEvent,
         EventsDrained, DrainFrame, FramesDrained, Send, ReadAck, DropTick, SessionFails, Break,
         IngestTask, Ingest, IngestClosed, Ack, StreamEnds, StreamErrs, CollectorCloses, CollectorExits,
         CollectorStarts, Ended, vars, agent
<1>3. QED BY <1>1, <1>2

(* What is lost, is lost with a connection, the collector or the agent. *)
LEMMA NoLossStep ==
  ASSUME Types, Opened, NoLossNoEnd, Next
  PROVE  NoLossNoEnd'
<1> SUFFICES ASSUME losses' = 0, ~quit'
             PROVE  /\ gone' = {} /\ collector' # "closing"
                    /\ \A n \in Session : link'[n] # "lost" /\ task'[n] # "ended"
  BY DEF NoLossNoEnd
<1>1. losses \in Nat
  BY DEF Types
<1>2. losses = 0 /\ losses' = losses /\ ~quit
  <2>1. losses' \in {losses, losses + 1} /\ (quit => quit')
    BY StaysBroken
  <2>2. QED BY <1>1, <2>1
<1>3. /\ gone = {} /\ collector # "closing"
      /\ \A n \in Session : link[n] # "lost" /\ task[n] # "ended"
  BY <1>2 DEF NoLossNoEnd
<1>4. ~SessionFails /\ ~Leave
  <2>1. ~Leave
    BY <1>2 DEF Leave
  <2>2. SessionFails => cur \in Session
    BY CurSession DEF SessionFails, InSession
  <2>3. QED BY <1>3, <2>1, <2>2 DEF SessionFails
<1>5. ~CollectorCloses /\ ~CollectorExits /\ \A n \in Session : ~Break(n) /\ ~IngestClosed(n)
  BY <1>1, <1>2, <1>3 DEF CollectorCloses, CollectorExits, Break, IngestClosed
<1>6. CASE AgentOnly BY <1>3, <1>6, AgentOnlyFacts
<1>7. CASE Open \/ Send \/ CollectorStarts
  BY <1>3, <1>7 DEF Open, Send, CollectorStarts, history, server, Types
<1>8. ASSUME NEW n \in Session, Ingest(n) \/ Ack(n) \/ StreamEnds(n) \/ StreamErrs(n)
      PROVE  /\ gone' = {} /\ collector' # "closing"
             /\ \A m \in Session : link'[m] # "lost" /\ task'[m] # "ended"
  BY <1>3, <1>8 DEF Ingest, Ack, StreamEnds, StreamErrs, history, Types
<1>9. QED BY <1>4, <1>5, <1>6, <1>7, <1>8, NextCases

(* A push puts a new item at the end of its lane, or counts it. *)
LEMMA PushFacts ==
  ASSUME Types, OnePlace, NEW i \in Item, Push(i)
  PROVE  /\ OnePlace' /\ made' = made \cup {i} /\ i \notin made /\ batch' = batch
         /\ \/ InRing' = InRing \cup {i} /\ overflow' = overflow
            \/ InRing' = InRing /\ overflow' = overflow \cup {i}
<1> DEFINE l == LaneOf[i]
<1>1. /\ l \in Lane /\ ring[l] \in Seq(Item) /\ i \notin made /\ made' = made \cup {i}
      /\ batch' = batch
  BY UplinkAssumption DEF Types, Push
<1>2. CASE ring' = [ring EXCEPT ![l] = Append(@, i)] /\ overflow' = overflow
  <2>1. /\ ring'[l] = Append(ring[l], i) /\ \A k \in Lane : k # l => ring'[k] = ring[k]
    BY <1>1, <1>2 DEF Types
  <2>2. i \notin InRing /\ i \notin ItemsOf(batch)
    BY <1>1 DEF OnePlace
  <2>3. i \notin ToSet(ring[l])
    BY <1>1, <2>2 DEF InRing, Lane
  <2>4. ToSet(ring'[l]) = ToSet(ring[l]) \cup {i} /\ IsInjective(ring'[l])
    BY <1>1, <2>1, <2>3, AppendItem DEF OnePlace
  <2>5. InRing' = InRing \cup {i}
    <3>1. CASE l = "events" BY <2>1, <2>4, <3>1 DEF InRing, Lane
    <3>2. CASE l = "frames" BY <2>1, <2>4, <3>2 DEF InRing, Lane
    <3>3. QED BY <1>1, <3>1, <3>2 DEF Lane
  <2>6. \A k \in Lane : IsInjective(ring'[k]) /\ \A x \in ToSet(ring'[k]) : LaneOf[x] = k
    BY <1>1, <2>1, <2>4 DEF OnePlace
  <2>7. OnePlace'
    BY <1>1, <2>2, <2>5, <2>6 DEF OnePlace, ItemsOf
  <2>8. QED BY <1>1, <1>2, <2>5, <2>7
<1>3. CASE ring' = ring /\ overflow' = overflow \cup {i}
  <2>1. InRing' = InRing
    BY <1>3 DEF InRing
  <2>2. OnePlace'
    BY <1>1, <1>3, <2>1 DEF OnePlace, ItemsOf
  <2>3. QED BY <1>1, <1>3, <2>1, <2>2
<1>4. QED BY <1>2, <1>3 DEF Push

(* Draining moves an item from its lane into the batch. *)
LEMMA DrainFacts ==
  ASSUME Types, OnePlace, DrainEvent \/ DrainFrame
  PROVE  /\ OnePlace' /\ made' = made /\ overflow' = overflow /\ batch'.strings = batch.strings
         /\ InRing' \cup ItemsOf(batch') = InRing \cup ItemsOf(batch)
<1>1. PICK l \in Lane :
        /\ ring[l] # <<>> /\ ring' = [ring EXCEPT ![l] = Tail(@)]
        /\ \/ l = "events" /\ batch' = [batch EXCEPT !.events = Append(@, Head(ring[l]))]
           \/ l = "frames" /\ batch' = [batch EXCEPT !.frames = Append(@, Head(ring[l]))]
  <2>1. CASE DrainEvent BY <2>1 DEF DrainEvent, Lane
  <2>2. CASE DrainFrame BY <2>2 DEF DrainFrame, Lane
  <2>3. QED BY <2>1, <2>2
<1>2. made' = made /\ overflow' = overflow
  BY DEF DrainEvent, DrainFrame, history
<1> DEFINE h == Head(ring[l])
<1>3. /\ ring[l] \in Seq(Item) /\ IsInjective(ring[l])
      /\ \A k \in Lane : \A x \in ToSet(ring[k]) : LaneOf[x] = k
  BY DEF Types, OnePlace
<1>4. /\ h \in Item /\ ToSet(ring[l]) = {h} \cup ToSet(Tail(ring[l]))
      /\ IsInjective(Tail(ring[l])) /\ h \notin ToSet(Tail(ring[l]))
  BY <1>1, <1>3, TakeItem
<1>5. /\ ring'[l] = Tail(ring[l]) /\ \A k \in Lane : k # l => ring'[k] = ring[k]
  BY <1>1 DEF Types
<1>6. InRing = {h} \cup InRing' /\ h \notin InRing'
  <2>1. \A k \in Lane : k # l => h \notin ToSet(ring[k])
    BY <1>3, <1>4
  <2>2. CASE l = "events"
    <3>1. InRing' = ToSet(Tail(ring["events"])) \cup ToSet(ring["frames"])
      BY <1>5, <2>2 DEF InRing, Lane
    <3>2. QED BY <1>4, <2>1, <2>2, <3>1 DEF InRing, Lane
  <2>3. CASE l = "frames"
    <3>1. InRing' = ToSet(ring["events"]) \cup ToSet(Tail(ring["frames"]))
      BY <1>5, <2>3 DEF InRing, Lane
    <3>2. QED BY <1>4, <2>1, <2>3, <3>1 DEF InRing, Lane
  <2>4. QED BY <2>2, <2>3 DEF Lane
<1>7. batch \in Batches /\ batch.events \in Seq(Item) /\ batch.frames \in Seq(Item)
  BY BatchFacts DEF Types
<1>8. h \notin ItemsOf(batch)
  BY <1>6 DEF OnePlace
<1>9. /\ ItemsOf(batch') = ItemsOf(batch) \cup {h} /\ IsInjective(batch'.events)
      /\ batch'.strings = batch.strings
  <2>1. CASE l = "events"
    <3>1. /\ batch'.events = Append(batch.events, h) /\ batch'.frames = batch.frames
          /\ batch'.strings = batch.strings
      BY <1>1, <1>7, <2>1 DEF Batches
    <3>2. h \notin ToSet(batch.events) /\ IsInjective(batch.events)
      BY <1>8 DEF ItemsOf, OnePlace
    <3> HIDE DEF h
    <3>3. QED BY <1>4, <1>7, <3>1, <3>2, AppendItem DEF ItemsOf
  <2>2. CASE l = "frames"
    <3>1. /\ batch'.events = batch.events /\ batch'.frames = Append(batch.frames, h)
          /\ batch'.strings = batch.strings
      BY <1>1, <1>7, <2>2 DEF Batches
    <3>2. IsInjective(batch.events)
      BY DEF OnePlace
    <3> HIDE DEF h
    <3>3. QED BY <1>4, <1>7, <3>1, <3>2, AppendItem DEF ItemsOf
  <2>3. QED BY <2>1, <2>2 DEF Lane
<1>10. \A k \in Lane : IsInjective(ring'[k]) /\ \A x \in ToSet(ring'[k]) : LaneOf[x] = k
  BY <1>3, <1>4, <1>5 DEF OnePlace
<1> HIDE DEF h
<1>11. InRing \cap ItemsOf(batch) = {} /\ InRing \cup ItemsOf(batch) \subseteq made
  BY DEF OnePlace
<1>12. /\ InRing' \cap ItemsOf(batch') = {}
       /\ InRing' \cup ItemsOf(batch') = InRing \cup ItemsOf(batch)
  BY <1>6, <1>9, <1>11
<1>13. OnePlace'
  BY <1>2, <1>9, <1>10, <1>11, <1>12 DEF OnePlace
<1>14. QED BY <1>2, <1>9, <1>12, <1>13

(* FramesDrained touches no item. *)
LEMMA FramesFacts ==
  ASSUME Types, FramesDrained
  PROVE  /\ UNCHANGED <<ring, made, overflow, batch.events, batch.frames>>
         /\ InRing' = InRing /\ ItemsOf(batch') = ItemsOf(batch)
<1>1. /\ UNCHANGED <<ring, made, overflow>>
      /\ batch' = batch \/ batch' = [batch EXCEPT !.strings = UnitsIn(batch) \ seen]
  BY DEF FramesDrained, history
<1>2. batch'.events = batch.events /\ batch'.frames = batch.frames
  BY <1>1 DEF Types, Batches
<1>3. QED BY <1>1, <1>2 DEF InRing, ItemsOf

(* The agent's steps between sessions and within one keep what was pushed. *)
LEMMA AgentKeeps ==
  ASSUME Types, OnePlace, AgentOnly
  PROVE  /\ InRing \cup ItemsOf(batch) \subseteq InRing' \cup ItemsOf(batch')
         /\ made' \ overflow' \subseteq (made \ overflow) \cup InRing'
<1>1. ASSUME NEW i \in Item, Push(i)
      PROVE  /\ InRing \cup ItemsOf(batch) \subseteq InRing' \cup ItemsOf(batch')
             /\ made' \ overflow' \subseteq (made \ overflow) \cup InRing'
  <2>1. /\ made' = made \cup {i} /\ batch' = batch
        /\ \/ InRing' = InRing \cup {i} /\ overflow' = overflow
           \/ InRing' = InRing /\ overflow' = overflow \cup {i}
    BY <1>1, PushFacts
  <2>2. ItemsOf(batch') = ItemsOf(batch)
    BY <2>1
  <2>3. QED BY <2>1, <2>2
<1>2. CASE DrainEvent \/ DrainFrame
  BY <1>2, DrainFacts
<1>3. CASE FramesDrained
  BY <1>3, FramesFacts
<1>4. ASSUME Quit \/ Connect \/ Wake \/ OpenFails \/ FlushTick \/ EventsDrained \/ ReadAck
             \/ DropTick \/ Ended
      PROVE  UNCHANGED <<ring, batch, made, overflow>>
  BY <1>4 DEF Quit, Connect, Wake, OpenFails, FlushTick, EventsDrained, ReadAck, DropTick, Ended,
              agent, history, vars
<1>5. CASE UNCHANGED <<ring, batch, made, overflow>>
  BY <1>5 DEF InRing, ItemsOf
<1>6. QED BY <1>1, <1>2, <1>3, <1>4, <1>5 DEF AgentOnly

(* No step brings an item that was made before into the ring or the batch. *)
LEMMA OnePlaceStep ==
  ASSUME Types, OnePlace, Next
  PROVE  /\ OnePlace' /\ made \subseteq made'
         /\ \A x \in InRing' \cup ItemsOf(batch') : x \in InRing \cup ItemsOf(batch) \/ x \notin made
<1>1. ASSUME NEW i \in Item, Push(i)
      PROVE  /\ OnePlace' /\ made \subseteq made'
             /\ \A x \in InRing' \cup ItemsOf(batch') : x \in InRing \cup ItemsOf(batch) \/ x \notin made
  <2>1. /\ OnePlace' /\ made' = made \cup {i} /\ i \notin made
        /\ InRing' \subseteq InRing \cup {i} /\ batch' = batch
    BY <1>1, PushFacts
  <2>2. ItemsOf(batch') = ItemsOf(batch)
    BY <2>1
  <2>3. QED BY <2>1, <2>2
<1>2. CASE DrainEvent \/ DrainFrame
  BY <1>2, DrainFacts
<1>3. CASE FramesDrained
  BY <1>3, FramesFacts DEF OnePlace
<1>4. CASE Leave \/ SessionFails \/ Send
  <2>1. UNCHANGED <<ring, made, overflow>> /\ batch' = NoBatch
    BY <1>4 DEF Leave, SessionFails, Send
  <2>2. InRing' = InRing /\ ItemsOf(batch') = {} /\ IsInjective(batch'.events)
    BY <2>1, BatchFacts DEF InRing
  <2>3. OnePlace' /\ made \subseteq made' /\ InRing' \cup ItemsOf(batch') \subseteq InRing
    BY <2>1, <2>2 DEF OnePlace
  <2>4. QED BY <2>2, <2>3
<1>5. CASE UNCHANGED <<ring, batch, made, overflow>>
  BY <1>5 DEF OnePlace, InRing, ItemsOf
<1>6. ASSUME ~(\E i \in Item : Push(i)), ~DrainEvent, ~DrainFrame, ~FramesDrained, ~Leave,
             ~SessionFails, ~Send
      PROVE  UNCHANGED <<ring, batch, made, overflow>>
  BY <1>6 DEF Next, Uploader, Quit, Connect, Wake, Open, OpenFails, FlushTick, EventsDrained,
              ReadAck, DropTick, Break, IngestTask, Ingest, IngestClosed, Ack, StreamEnds, StreamErrs,
              CollectorCloses, CollectorExits, CollectorStarts, Ended, agent, history, vars
<1>7. QED BY <1>1, <1>2, <1>3, <1>4, <1>5, <1>6

(* Send puts the batch at hand behind what the session has sent. *)
LEMMA SendFacts ==
  ASSUME Types, Opened, Send
  PROVE  /\ cur \in Session /\ cur' = cur /\ batch \in Batches /\ batch' = NoBatch
         /\ UNCHANGED <<ring, made, overflow, link, task, count, taken, gone, seen>>
         /\ wire[cur] \in Seq(Batches) /\ wire'[cur] = Append(wire[cur], batch)
         /\ sent[cur] \in Seq(Batches) /\ sent'[cur] = Append(sent[cur], batch)
         /\ Len(sent[cur]) \in Nat /\ Len(sent'[cur]) = Len(sent[cur]) + 1
         /\ sent'[cur][Len(sent[cur]) + 1] = batch
         /\ \A j \in 1..Len(sent[cur]) : sent'[cur][j] = sent[cur][j]
         /\ \A n \in Session : n # cur => wire'[n] = wire[n] /\ sent'[n] = sent[n]
         /\ \A n \in Session : \A j \in 1..Len(sent'[n]) :
              \/ j \in 1..Len(sent[n]) /\ sent'[n][j] = sent[n][j]
              \/ n = cur /\ j = Len(sent[n]) + 1 /\ sent'[n][j] = batch
<1>1. cur \in Session
  BY CurSession DEF Send, InSession
<1>2. /\ cur' = cur /\ batch' = NoBatch
      /\ UNCHANGED <<ring, made, overflow, link, task, count, taken, gone, seen>>
      /\ wire' = [wire EXCEPT ![cur] = Append(@, batch)]
      /\ sent' = [sent EXCEPT ![cur] = Append(@, batch)]
  BY DEF Send, server
<1>3. batch \in Batches /\ wire[cur] \in Seq(Batches) /\ sent[cur] \in Seq(Batches)
  BY <1>1 DEF Types
<1>4. /\ wire'[cur] = Append(wire[cur], batch) /\ sent'[cur] = Append(sent[cur], batch)
      /\ \A n \in Session : n # cur => wire'[n] = wire[n] /\ sent'[n] = sent[n]
  BY <1>1, <1>2 DEF Types
<1> DEFINE q == sent[cur]
<1>5. /\ Len(q) \in Nat /\ Len(Append(q, batch)) = Len(q) + 1
      /\ Append(q, batch)[Len(q) + 1] = batch
      /\ \A j \in 1..Len(q) : Append(q, batch)[j] = q[j]
  BY <1>3
<1> HIDE DEF q
<1>6. \A j \in 1..Len(Append(q, batch)) : j \in 1..Len(q) \/ j = Len(q) + 1
  BY <1>5
<1>7. \A n \in Session : \A j \in 1..Len(sent'[n]) :
        \/ j \in 1..Len(sent[n]) /\ sent'[n][j] = sent[n][j]
        \/ n = cur /\ j = Len(sent[n]) + 1 /\ sent'[n][j] = batch
  BY <1>4, <1>5, <1>6 DEF q
<1>8. QED BY <1>1, <1>2, <1>3, <1>4, <1>5, <1>7 DEF q

(* Only Send sends. *)
LEMMA SentSame ==
  ASSUME Types, Opened, Next, ~Send
  PROVE  sent' = sent
BY NextCases, AgentOnlyFacts, EndFacts
   DEF Open, Break, Ingest, IngestClosed, Ack, StreamEnds, StreamErrs, CollectorCloses, CollectorExits,
       CollectorStarts, history

(* A batch that is sent shares no item with what was sent before. *)
LEMMA SentOnceStep ==
  ASSUME Types, Opened, OnePlace, SentOnce, Next
  PROVE  SentOnce'
<1>1. /\ made \subseteq made'
      /\ \A x \in InRing' \cup ItemsOf(batch') : x \in InRing \cup ItemsOf(batch) \/ x \notin made
  BY OnePlaceStep
<1>2. \A n \in Session : \A j \in 1..Len(sent[n]) :
        /\ IsInjective(sent[n][j].events) /\ ItemsOf(sent[n][j]) \subseteq made
        /\ ItemsOf(sent[n][j]) \cap (InRing \cup ItemsOf(batch)) = {}
  BY DEF SentOnce
<1>3. \A n \in Session : \A j \in 1..Len(sent[n]) :
        /\ ItemsOf(sent[n][j]) \subseteq made'
        /\ ItemsOf(sent[n][j]) \cap (InRing' \cup ItemsOf(batch')) = {}
  BY <1>1, <1>2
<1>4. CASE sent' = sent
  <2>1. \A n, m \in Session : \A j \in 1..Len(sent[n]), k \in 1..Len(sent[m]) :
          <<n, j>> # <<m, k>> => ItemsOf(sent[n][j]) \cap ItemsOf(sent[m][k]) = {}
    BY DEF SentOnce
  <2>2. QED BY <1>2, <1>3, <1>4, <2>1 DEF SentOnce, ItemsOf
<1>5. CASE Send
  <2>1. /\ \A n \in Session : \A j \in 1..Len(sent'[n]) :
             \/ j \in 1..Len(sent[n]) /\ sent'[n][j] = sent[n][j]
             \/ n = cur /\ j = Len(sent[n]) + 1 /\ sent'[n][j] = batch
        /\ UNCHANGED <<ring, made>> /\ batch' = NoBatch
    BY <1>5, SendFacts
  <2>2. InRing' = InRing /\ ItemsOf(batch') = {}
    BY <2>1, BatchFacts DEF InRing
  <2>3. /\ IsInjective(batch.events) /\ ItemsOf(batch) \subseteq made
        /\ ItemsOf(batch) \cap InRing = {}
    BY DEF OnePlace
  <2>4. ASSUME NEW n \in Session, NEW j \in 1..Len(sent'[n])
        PROVE  /\ IsInjective(sent'[n][j].events) /\ ItemsOf(sent'[n][j]) \subseteq made'
               /\ ItemsOf(sent'[n][j]) \cap (InRing' \cup ItemsOf(batch')) = {}
    <3>1. CASE j \in 1..Len(sent[n]) /\ sent'[n][j] = sent[n][j]
      BY <1>2, <1>3, <3>1
    <3>2. CASE sent'[n][j] = batch
      BY <2>1, <2>2, <2>3, <3>2
    <3>3. QED BY <2>1, <3>1, <3>2
  <2>5. ASSUME NEW n \in Session, NEW m \in Session,
               NEW j \in 1..Len(sent'[n]), NEW k \in 1..Len(sent'[m]), <<n, j>> # <<m, k>>
        PROVE  ItemsOf(sent'[n][j]) \cap ItemsOf(sent'[m][k]) = {}
    <3>1. CASE /\ j \in 1..Len(sent[n]) /\ sent'[n][j] = sent[n][j]
               /\ k \in 1..Len(sent[m]) /\ sent'[m][k] = sent[m][k]
      BY <2>5, <3>1 DEF SentOnce
    <3>2. CASE /\ j \in 1..Len(sent[n]) /\ sent'[n][j] = sent[n][j]
               /\ sent'[m][k] = batch
      BY <1>2, <3>2
    <3>3. CASE /\ sent'[n][j] = batch
               /\ k \in 1..Len(sent[m]) /\ sent'[m][k] = sent[m][k]
      BY <1>2, <3>3
    <3>4. CASE n = cur /\ j = Len(sent[n]) + 1 /\ m = cur /\ k = Len(sent[m]) + 1
      BY <2>5, <3>4
    <3>5. QED BY <2>1, <3>1, <3>2, <3>3, <3>4
  <2>6. (\A n \in Session : \A j \in 1..Len(sent[n]) :
           /\ IsInjective(sent[n][j].events) /\ ItemsOf(sent[n][j]) \subseteq made
           /\ ItemsOf(sent[n][j]) \cap (InRing \cup ItemsOf(batch)) = {})'
    BY <2>4 DEF ItemsOf
  <2>7. (\A n, m \in Session : \A j \in 1..Len(sent[n]), k \in 1..Len(sent[m]) :
          <<n, j>> # <<m, k>> => ItemsOf(sent[n][j]) \cap ItemsOf(sent[m][k]) = {})'
    BY <2>5 DEF ItemsOf
  <2>8. QED BY <2>6, <2>7 DEF SentOnce
<1>6. QED BY <1>4, <1>5, SentSame

(* The lengths that StreamOf compares. *)
LEMMA StreamTypes ==
  ASSUME Types, NEW n \in Session
  PROVE  /\ Len(wire[n]) \in Nat /\ Len(sent[n]) \in Nat /\ Len(taken[n]) \in Nat
         /\ wire[n] \in Seq(Batches) /\ sent[n] \in Seq(Batches)
         /\ taken[n] \in Seq([batch : Batches, fate : {"ok", "full", "closed"}])
<1>1. /\ wire[n] \in Seq(Batches) /\ sent[n] \in Seq(Batches)
      /\ taken[n] \in Seq([batch : Batches, fate : {"ok", "full", "closed"}])
  BY DEF Types
<1>2. QED BY <1>1, LenProperties

(* A stream that no step touches but to end it. *)
LEMMA StreamSame ==
  ASSUME NEW n \in Session, StreamOf(n), UNCHANGED <<wire[n], sent[n], taken[n]>>,
         task'[n] = "ended" \/ task[n] # "ended", link'[n] = "open" => link[n] = "open"
  PROVE  StreamOf(n)'
BY DEF StreamOf

(* A stream whose wire is cleared when its task ends. *)
LEMMA StreamCleared ==
  ASSUME Types, NEW n \in Session, StreamOf(n), UNCHANGED <<sent[n], taken[n]>>,
         Len(wire'[n]) = 0, task'[n] = "ended" \/ Len(sent[n]) = Len(taken[n])
  PROVE  StreamOf(n)'
<1>1. Len(sent[n]) \in Nat /\ Len(taken[n]) \in Nat
  BY StreamTypes
<1>2. /\ \A j \in 1..Len(taken[n]) : taken[n][j].batch = sent[n][j]
      /\ \E o \in Len(taken[n])..Len(sent[n]) : TRUE
  BY DEF StreamOf
<1>3. Len(sent[n]) \in Len(taken[n])..Len(sent[n]) /\ Len(sent[n]) + 0 = Len(sent[n])
  BY <1>1, <1>2
<1>4. QED BY <1>2, <1>3 DEF StreamOf

(* The task takes the first batch of its wire; the next is the first then,  *)
(* or the wire is cleared as the task ends.                                 *)
LEMMA IngestStream ==
  ASSUME Types, NEW n \in Session, StreamOf(n), NEW fate, Took(n, fate), wire[n] # <<>>,
         task[n] = "recv", UNCHANGED <<sent, link>>,
         wire'[n] = Tail(wire[n]) \/ (Len(wire'[n]) = 0 /\ task'[n] = "ended")
  PROVE  StreamOf(n)'
<1>1. /\ Len(wire[n]) \in Nat /\ Len(sent[n]) \in Nat /\ Len(taken[n]) \in Nat
      /\ wire[n] \in Seq(Batches) /\ sent[n] \in Seq(Batches)
      /\ taken[n] \in Seq([batch : Batches, fate : {"ok", "full", "closed"}])
  BY StreamTypes
<1>2. PICK o \in Len(taken[n])..Len(sent[n]) :
        /\ o = Len(taken[n]) /\ o + Len(wire[n]) <= Len(sent[n])
        /\ link[n] = "open" => o + Len(wire[n]) = Len(sent[n])
        /\ \A k \in 1..Len(wire[n]) : wire[n][k] = sent[n][o + k]
  BY DEF StreamOf
<1>3. /\ Head(wire[n]) = wire[n][1] /\ Len(wire[n]) >= 1 /\ Len(Tail(wire[n])) = Len(wire[n]) - 1
      /\ 1 \in 1..Len(wire[n])
      /\ \A k \in 1..Len(Tail(wire[n])) : k + 1 \in 1..Len(wire[n]) /\ Tail(wire[n])[k] = wire[n][k + 1]
  BY <1>1, HeadFacts
<1> DEFINE x == [batch |-> Head(wire[n]), fate |-> fate]
<1>4. taken'[n] = Append(taken[n], x)
  BY DEF Took, Types
<1>5. /\ Len(taken'[n]) = o + 1 /\ taken'[n][o + 1] = x /\ x.batch = wire[n][1]
      /\ \A j \in 1..o : taken'[n][j] = taken[n][j]
  BY <1>1, <1>2, <1>3, <1>4
<1> HIDE DEF x
<1> DEFINE w == Len(wire[n])
           s == Len(sent[n])
           t == Len(taken[n])
<1>20. w \in Nat /\ s \in Nat /\ t \in Nat /\ o \in Nat /\ o = t /\ o + w <= s /\ w >= 1
  BY <1>1, <1>2, <1>3
<1>6. \A j \in 1..o + 1 : j \in 1..o \/ j = o + 1
  BY <1>1, <1>2
<1>7. \A j \in 1..Len(taken'[n]) : taken'[n][j].batch = sent[n][j]
  <2>1. \A j \in 1..o : taken[n][j].batch = sent[n][j]
    BY <1>2 DEF StreamOf
  <2>2. wire[n][1] = sent[n][o + 1]
    BY <1>2, <1>3
  <2>3. QED BY <1>5, <1>6, <2>1, <2>2
<1>8. CASE wire'[n] = Tail(wire[n])
  <2>1. /\ o + 1 \in Len(taken'[n])..Len(sent[n])
        /\ o + 1 + Len(wire'[n]) = o + Len(wire[n])
    <3>1. Len(wire'[n]) = w - 1 /\ Len(taken'[n]) = o + 1
      BY <1>3, <1>5, <1>8
    <3>2. o + 1 \in o + 1..s /\ o + 1 + (w - 1) = o + w
      <4> HIDE DEF w, s, t
      <4>1. QED BY <1>20
    <3>3. QED BY <3>1, <3>2
  <2>2. \A k \in 1..Len(wire'[n]) : wire'[n][k] = sent[n][o + 1 + k]
    <3> TAKE k \in 1..Len(wire'[n])
    <3>1. k + 1 \in 1..Len(wire[n]) /\ wire'[n][k] = wire[n][k + 1]
      BY <1>3, <1>8
    <3>2. o + 1 + k = o + (k + 1)
      <4> HIDE DEF w, s, t
      <4>1. k \in Int
        OBVIOUS
      <4>2. QED BY <1>20, <4>1
    <3>3. QED BY <1>2, <3>1, <3>2
  <2>3. QED BY <1>2, <1>5, <1>7, <2>1, <2>2 DEF StreamOf
<1>9. CASE Len(wire'[n]) = 0 /\ task'[n] = "ended"
  <2>1. Len(sent[n]) \in Len(taken'[n])..Len(sent[n]) /\ Len(sent[n]) + 0 = Len(sent[n])
    <3>1. Len(taken'[n]) = o + 1
      BY <1>5
    <3>2. s \in o + 1..s /\ s + 0 = s
      <4> HIDE DEF w, s, t
      <4>1. QED BY <1>20
    <3>3. QED BY <3>1, <3>2
  <2>2. /\ task'[n] = "ended" /\ sent'[n] = sent[n] /\ s \in Len(taken'[n])..Len(sent'[n])
        /\ s + Len(wire'[n]) = Len(sent'[n]) /\ s + Len(wire'[n]) <= Len(sent'[n])
        /\ \A k \in 1..Len(wire'[n]) : FALSE
    BY <1>9, <1>20, <2>1
  <2> HIDE DEF s
  <2>3. QED BY <1>7, <2>2 DEF StreamOf
<1>10. QED BY <1>8, <1>9

(* A batch sent on an open connection is the next of the stream.            *)
LEMMA SendStream ==
  ASSUME Types, Opened, StreamOf(cur), Send
  PROVE  StreamOf(cur)'
<1> DEFINE n == cur
<1>1. /\ n \in Session /\ wire'[n] = Append(wire[n], batch) /\ UNCHANGED <<link, task, taken, cur>>
      /\ Len(sent'[n]) = Len(sent[n]) + 1 /\ sent'[n][Len(sent[n]) + 1] = batch
      /\ \A j \in 1..Len(sent[n]) : sent'[n][j] = sent[n][j]
      /\ wire[n] \in Seq(Batches) /\ batch \in Batches
  BY SendFacts
<1>2. link[n] = "open"
  BY DEF Send
<1>3. Len(wire[n]) \in Nat /\ Len(sent[n]) \in Nat /\ Len(taken[n]) \in Nat
  BY <1>1, StreamTypes
<1> HIDE DEF n
<1>4. PICK o \in Len(taken[n])..Len(sent[n]) :
        /\ task[n] # "ended" => o = Len(taken[n])
        /\ o + Len(wire[n]) = Len(sent[n])
        /\ \A k \in 1..Len(wire[n]) : wire[n][k] = sent[n][o + k]
  BY <1>2 DEF StreamOf, n
<1>5. /\ Len(wire'[n]) = Len(wire[n]) + 1 /\ wire'[n][Len(wire[n]) + 1] = batch
      /\ \A k \in 1..Len(wire[n]) : wire'[n][k] = wire[n][k]
  BY <1>1
<1>6. \A k \in 1..Len(wire'[n]) : wire'[n][k] = sent'[n][o + k]
  <2> TAKE k \in 1..Len(wire'[n])
  <2>1. CASE k \in 1..Len(wire[n])
    <3>1. o + k \in 1..Len(sent[n])
      BY <1>3, <1>4, <2>1
    <3>2. QED BY <1>1, <1>4, <1>5, <2>1, <3>1
  <2>2. CASE k = Len(wire[n]) + 1
    <3>1. o + k = Len(sent[n]) + 1
      <4> DEFINE w == Len(wire[n])
                 s == Len(sent[n])
      <4>1. w \in Nat /\ s \in Nat /\ o \in Int /\ o + w = s /\ k = w + 1
        BY <1>3, <1>4, <2>2
      <4> HIDE DEF w, s
      <4>2. o + k = s + 1
        BY <4>1
      <4>3. QED BY <4>2 DEF s
    <3>2. QED BY <1>1, <1>5, <2>2, <3>1
  <2>3. QED BY <1>3, <1>5, <2>1, <2>2
<1>7. \A j \in 1..Len(taken[n]) : taken[n][j].batch = sent'[n][j]
  <2>1. \A j \in 1..Len(taken[n]) : taken[n][j].batch = sent[n][j] /\ j \in 1..Len(sent[n])
    BY <1>3, <1>4 DEF StreamOf, n
  <2>2. QED BY <1>1, <2>1
<1>8. /\ o \in Len(taken[n])..Len(sent'[n]) /\ o + Len(wire'[n]) = Len(sent'[n])
  <2> DEFINE w == Len(wire[n])
             s == Len(sent[n])
             t == Len(taken[n])
  <2>1. w \in Nat /\ s \in Nat /\ t \in Nat /\ o \in t..s /\ o + w = s
    BY <1>3, <1>4
  <2>2. Len(wire'[n]) = w + 1 /\ Len(sent'[n]) = s + 1
    BY <1>1, <1>5
  <2> HIDE DEF w, s, t
  <2>3. o \in t..s + 1 /\ o + (w + 1) = s + 1
    BY <2>1
  <2>4. QED BY <2>2, <2>3 DEF t
<1>9. /\ \A j \in 1..Len(taken'[n]) : taken'[n][j].batch = sent'[n][j]
      /\ o \in Len(taken'[n])..Len(sent'[n])
      /\ task'[n] # "ended" => o = Len(taken'[n])
      /\ o + Len(wire'[n]) = Len(sent'[n])
      /\ o + Len(wire'[n]) <= Len(sent'[n])
  BY <1>1, <1>3, <1>4, <1>7, <1>8
<1>10. StreamOf(n)'
  BY <1>1, <1>6, <1>9 DEF StreamOf, n
<1>11. QED BY <1>10 DEF n

(* What a lost connection cuts off is the end of the stream.                *)
LEMMA LoseStream ==
  ASSUME Types, NEW n \in Session, StreamOf(n), NEW S, Lose(n, S), UNCHANGED <<sent, taken, task>>
  PROVE  StreamOf(n)'
<1>1. /\ link'[n] = "lost" /\ Len(wire'[n]) \in Nat /\ Len(wire'[n]) <= Len(wire[n])
      /\ \A k \in 1..Len(wire'[n]) : wire'[n][k] = wire[n][k]
  BY LoseFacts
<1>2. Len(wire[n]) \in Nat /\ Len(sent[n]) \in Nat /\ Len(taken[n]) \in Nat
  BY StreamTypes
<1>3. PICK o \in Len(taken[n])..Len(sent[n]) :
        /\ task[n] # "ended" => o = Len(taken[n])
        /\ o + Len(wire[n]) <= Len(sent[n])
        /\ \A k \in 1..Len(wire[n]) : wire[n][k] = sent[n][o + k]
  BY DEF StreamOf
<1>4. o + Len(wire'[n]) <= Len(sent[n])
  BY <1>1, <1>2, <1>3
<1>5. \A k \in 1..Len(wire'[n]) : wire'[n][k] = sent[n][o + k]
  BY <1>1, <1>2, <1>3
<1>6. QED BY <1>1, <1>3, <1>4, <1>5 DEF StreamOf

(* Every step keeps each session's stream in order. *)
LEMMA StreamsStep ==
  ASSUME Types, Opened, Streams, Next
  PROVE  Streams'
<1> SUFFICES ASSUME NEW n \in Session PROVE StreamOf(n)'
  BY DEF Streams
<1>1. StreamOf(n) /\ \A m \in Session : StreamOf(m)
  BY DEF Streams
<1>2. CASE AgentOnly \/ CollectorCloses \/ CollectorStarts
  BY <1>1, <1>2, AgentOnlyFacts, StreamSame DEF CollectorCloses, CollectorStarts, history
<1>3. CASE Open
  <2>1. /\ cur' = cur + 1 /\ UNCHANGED <<wire, sent, taken>> /\ cur \in Nat
        /\ link' = [link EXCEPT ![cur'] = "open"] /\ task' = [task EXCEPT ![cur'] = "recv"]
    BY <1>3, UplinkAssumption DEF Open, history, Types
  <2>2. CASE n = cur'
    <3>1. wire[n] = <<>> /\ sent[n] = <<>> /\ taken[n] = <<>>
      BY <2>1, <2>2 DEF Opened
    <3>2. Len(wire'[n]) = 0 /\ Len(sent'[n]) = 0 /\ Len(taken'[n]) = 0 /\ 0 \in 0..0 /\ 0 + 0 = 0
      BY <2>1, <3>1
    <3>3. QED BY <3>2 DEF StreamOf
  <2>3. CASE n # cur'
    <3>1. link'[n] = link[n] /\ task'[n] = task[n]
      BY <2>1, <2>3 DEF Types
    <3>2. QED BY <1>1, <2>1, <3>1, StreamSame
  <2>4. QED BY <2>2, <2>3
<1>4. CASE Leave \/ SessionFails
  <2>1. /\ UNCHANGED <<task, sent, taken>>
        /\ \/ UNCHANGED <<link, acks, wire>>
           \/ cur \in Session /\ Lose(cur, ItemsOf(batch))
    BY <1>4, EndFacts DEF server
  <2>2. CASE UNCHANGED <<link, acks, wire>>
    BY <1>1, <2>1, <2>2, StreamSame
  <2>3. CASE n = cur /\ Lose(cur, ItemsOf(batch))
    BY <1>1, <2>1, <2>3, LoseStream
  <2>4. CASE n # cur /\ cur \in Session /\ Lose(cur, ItemsOf(batch))
    <3>1. link'[n] = link[n] /\ wire'[n] = wire[n]
      BY <2>4, LoseFacts
    <3>2. QED BY <1>1, <2>1, <3>1, StreamSame
  <2>5. QED BY <2>1, <2>2, <2>3, <2>4
<1>5. CASE Send
  <2>1. CASE n = cur
    <3>1. StreamOf(cur) /\ cur' = cur
      BY <1>1, <1>5, <2>1, SendFacts
    <3>2. StreamOf(cur)'
      BY <1>5, <3>1, SendStream
    <3>3. QED BY <2>1, <3>1, <3>2 DEF StreamOf
  <2>2. CASE n # cur
    <3>1. UNCHANGED <<wire[n], sent[n], taken, task, link>>
      BY <1>5, <2>2, SendFacts
    <3>2. QED BY <1>1, <3>1, StreamSame
  <2>3. QED BY <2>1, <2>2
<1>6. ASSUME NEW m \in Session, Break(m) \/ Ingest(m) \/ IngestClosed(m) \/ Ack(m)
                           \/ StreamEnds(m) \/ StreamErrs(m)
      PROVE  StreamOf(n)'
  <2>1. CASE Break(m)
    <3>1. Lose(m, {}) /\ UNCHANGED <<sent, taken, task>>
      BY <2>1 DEF Break, server
    <3>2. CASE n = m BY <1>1, <3>1, <3>2, LoseStream
    <3>3. CASE n # m
      <4>1. link'[n] = link[n] /\ wire'[n] = wire[n]
        BY <3>1, <3>3, LoseFacts
      <4>2. QED BY <1>1, <3>1, <4>1, StreamSame
    <3>4. QED BY <3>2, <3>3
  <2>2. CASE Ingest(m)
    <3>1. /\ UNCHANGED <<sent, link>> /\ wire[m] # <<>> /\ task[m] = "recv"
          /\ Took(m, "ok") \/ Took(m, "full")
          /\ wire'[m] = Tail(wire[m])
          /\ \A k \in Session : k # m => /\ wire'[k] = wire[k] /\ task'[k] = task[k]
                                         /\ taken'[k] = taken[k]
      BY <2>2 DEF Ingest, Took, Types
    <3>2. CASE n = m BY <1>1, <3>1, <3>2, IngestStream
    <3>3. CASE n # m BY <1>1, <3>1, <3>3, StreamSame
    <3>4. QED BY <3>2, <3>3
  <2>3. CASE IngestClosed(m)
    <3>1. /\ UNCHANGED <<sent, link>> /\ wire[m] # <<>> /\ task[m] = "recv" /\ Took(m, "closed")
          /\ wire'[m] = <<>> /\ task'[m] = "ended"
          /\ \A k \in Session : k # m => /\ wire'[k] = wire[k] /\ task'[k] = task[k]
                                         /\ taken'[k] = taken[k]
      BY <2>3 DEF IngestClosed, Took, Types
    <3>2. CASE n = m
      <4>1. Len(wire'[m]) = 0
        BY <3>1
      <4>2. QED BY <1>1, <3>1, <3>2, <4>1, IngestStream
    <3>3. CASE n # m BY <1>1, <3>1, <3>3, StreamSame
    <3>4. QED BY <3>2, <3>3
  <2>4. CASE Ack(m) \/ StreamEnds(m) \/ StreamErrs(m)
    <3>1. /\ UNCHANGED <<sent, taken, link>> /\ task[m] # "ended"
          /\ \A k \in Session : k # m => wire'[k] = wire[k] /\ task'[k] = task[k]
          /\ wire'[m] = wire[m] \/ (wire'[m] = <<>> /\ task'[m] = "ended")
      BY <2>4 DEF Ack, StreamEnds, StreamErrs, history, Types
    <3>2. CASE wire'[n] = wire[n]
      BY <1>1, <3>1, <3>2, StreamSame
    <3>3. CASE wire'[n] = <<>> /\ task'[n] = "ended"
      <4>1. Len(wire'[n]) = 0
        BY <3>3
      <4>2. QED BY <1>1, <3>1, <3>3, <4>1, StreamCleared
    <3>4. QED BY <3>1, <3>2, <3>3
  <2>5. QED BY <1>6, <2>1, <2>2, <2>3, <2>4
<1>7. CASE CollectorExits
  <2>1. /\ UNCHANGED <<sent, taken, cur>> /\ Len(wire'[n]) = 0
        /\ task'[n] = IF task[n] = "none" THEN "none" ELSE "ended"
    BY <1>7 DEF CollectorExits, agent
  <2>2. task[n] = "none" => Len(sent[n]) = Len(taken[n])
    <3>1. task[n] = "none" => sent[n] = <<>> /\ taken[n] = <<>>
      BY DEF Opened
    <3>2. QED BY <3>1
  <2>3. QED BY <1>1, <2>1, <2>2, StreamCleared
<1>8. QED BY <1>2, <1>3, <1>4, <1>5, <1>6, <1>7, NextCases

(* Took adds the first batch of the wire to what the collector has. *)
LEMMA TookFacts ==
  ASSUME Types, NEW n \in Session, NEW fate, Took(n, fate), wire[n] # <<>>
  PROVE  /\ TakenItems' = TakenItems \cup ItemsOf(Head(wire[n]))
         /\ WithFate(fate)' = WithFate(fate) \cup ItemsOf(Head(wire[n]))
         /\ \A f : f # fate => WithFate(f)' = WithFate(f)
         /\ ItemsIn(wire[n]) = ItemsOf(Head(wire[n])) \cup ItemsIn(Tail(wire[n]))
<1> DEFINE h == Head(wire[n])
           x == [batch |-> h, fate |-> fate]
           t == taken[n]
<1>1. taken' = [taken EXCEPT ![n] = Append(t, x)]
  BY DEF Took
<1>2. /\ taken'[n] = Append(t, x) /\ \A m \in Session : m # n => taken'[m] = taken[m]
      /\ t \in Seq([batch : Batches, fate : {"ok", "full", "closed"}])
  BY <1>1 DEF Types
<1>3. /\ DOMAIN t = 1..Len(t) /\ DOMAIN Append(t, x) = 1..Len(t) + 1 /\ Len(t) \in Nat
      /\ Append(t, x)[Len(t) + 1] = x /\ \A j \in 1..Len(t) : Append(t, x)[j] = t[j]
  BY <1>2
<1>4. /\ \A j \in DOMAIN t : j \in DOMAIN taken'[n] /\ taken'[n][j] = t[j]
      /\ \A j \in DOMAIN taken'[n] : j \in DOMAIN t \/ j = Len(t) + 1
      /\ Len(t) + 1 \in DOMAIN taken'[n] /\ taken'[n][Len(t) + 1] = x
  BY <1>2, <1>3
<1>5. x.batch = h /\ x.fate = fate
  OBVIOUS
<1> HIDE DEF x, h, t
<1>6. \A i : i \in TakenItems' <=> i \in TakenItems \/ i \in ItemsOf(h)
  <2>1. /\ \A i : i \in TakenItems <=> \E m \in Session : \E j \in DOMAIN taken[m] :
                                          i \in ItemsOf(taken[m][j].batch)
        /\ \A i : i \in TakenItems' <=> \E m \in Session : \E j \in DOMAIN taken'[m] :
                                          i \in ItemsOf(taken'[m][j].batch)
    BY DEF TakenItems, TakenBy, ItemsOf
  <2>2. QED BY <1>2, <1>4, <1>5, <2>1 DEF t
<1>7. ASSUME NEW f
      PROVE  /\ \A i : i \in WithFate(f)' <=> i \in WithFate(f) \/ (f = fate /\ i \in ItemsOf(h))
  <2>1. /\ \A i : i \in WithFate(f) <=> \E m \in Session : \E j \in DOMAIN taken[m] :
                     taken[m][j].fate = f /\ i \in ItemsOf(taken[m][j].batch)
        /\ \A i : i \in WithFate(f)' <=> \E m \in Session : \E j \in DOMAIN taken'[m] :
                     taken'[m][j].fate = f /\ i \in ItemsOf(taken'[m][j].batch)
    BY DEF WithFate, ItemsOf
  <2>2. ASSUME NEW i
        PROVE  i \in WithFate(f)' <=> i \in WithFate(f) \/ (f = fate /\ i \in ItemsOf(h))
    <3>1. ASSUME i \in WithFate(f) PROVE i \in WithFate(f)'
      <4>1. PICK m \in Session : \E j \in DOMAIN taken[m] :
                   taken[m][j].fate = f /\ i \in ItemsOf(taken[m][j].batch)
        BY <2>1, <3>1
      <4>2. PICK j \in DOMAIN taken[m] :
                   taken[m][j].fate = f /\ i \in ItemsOf(taken[m][j].batch)
        BY <4>1
      <4>3. j \in DOMAIN taken'[m] /\ taken'[m][j] = taken[m][j]
        BY <1>2, <1>4, <4>2 DEF t
      <4>4. QED BY <2>1, <4>2, <4>3
    <3>2. ASSUME f = fate, i \in ItemsOf(h) PROVE i \in WithFate(f)'
      BY <1>4, <1>5, <2>1, <3>2
    <3>3. ASSUME i \in WithFate(f)' PROVE i \in WithFate(f) \/ (f = fate /\ i \in ItemsOf(h))
      <4>1. PICK m \in Session : \E j \in DOMAIN taken'[m] :
                   taken'[m][j].fate = f /\ i \in ItemsOf(taken'[m][j].batch)
        BY <2>1, <3>3
      <4>2. PICK j \in DOMAIN taken'[m] :
                   taken'[m][j].fate = f /\ i \in ItemsOf(taken'[m][j].batch)
        BY <4>1
      <4>3. CASE m # n
        <5>1. taken'[m] = taken[m]
          BY <1>2, <4>3
        <5>2. QED BY <2>1, <4>2, <5>1
      <4>4. CASE m = n
        <5>1. CASE j \in DOMAIN t BY <1>4, <2>1, <4>2, <4>4, <5>1 DEF t
        <5>2. CASE j = Len(t) + 1 BY <1>4, <1>5, <4>2, <4>4, <5>2
        <5>3. QED BY <1>4, <4>2, <4>4, <5>1, <5>2
      <4>5. QED BY <4>3, <4>4
    <3>4. QED BY <3>1, <3>2, <3>3
  <2>3. QED BY <2>2
<1>8. ItemsIn(wire[n]) = ItemsOf(h) \cup ItemsIn(Tail(wire[n]))
  <2>1. wire[n] \in Seq(Batches)
    BY DEF Types
  <2>2. QED BY <2>1, HeadFacts DEF h
<1>9. QED BY <1>6, <1>7, <1>8 DEF h

(* No step lets an item disappear. *)
LEMMA KeptStep ==
  ASSUME Types, Opened, OnePlace, KeptAll, Next
  PROVE  KeptAll'
<1> SUFFICES made' \ overflow' \subseteq InRing' \cup ItemsOf(batch') \cup OnWire' \cup TakenItems' \cup gone'
  BY DEF KeptAll, Kept
<1>1. made \ overflow \subseteq InRing \cup ItemsOf(batch) \cup OnWire \cup TakenItems \cup gone
  BY DEF KeptAll, Kept
<1>2. CASE AgentOnly
  <2>1. OnWire' = OnWire /\ TakenItems' = TakenItems /\ gone' = gone
    BY <1>2, AgentOnlyFacts DEF OnWire, TakenItems, TakenBy, ItemsIn, ItemsOf
  <2>2. QED BY <1>1, <1>2, <2>1, AgentKeeps
<1>3. CASE Open \/ CollectorStarts \/ CollectorCloses
  <2>1. UNCHANGED <<ring, batch, wire, taken, made, overflow, gone>>
    BY <1>3 DEF Open, CollectorStarts, CollectorCloses, history, agent
  <2>2. QED BY <1>1, <2>1 DEF InRing, OnWire, TakenItems, TakenBy, ItemsIn, ItemsOf
<1>4. CASE Leave \/ SessionFails
  <2>1. /\ UNCHANGED <<ring, made, overflow, taken>>
        /\ \/ UNCHANGED <<link, acks, wire>> /\ gone' = gone \cup ItemsOf(batch)
           \/ cur \in Session /\ Lose(cur, ItemsOf(batch))
    BY <1>4, EndFacts
  <2>2. gone \cup ItemsOf(batch) \subseteq gone' /\ OnWire \subseteq OnWire' \cup gone'
    <3>1. CASE UNCHANGED <<link, acks, wire>> /\ gone' = gone \cup ItemsOf(batch)
      BY <3>1 DEF OnWire
    <3>2. CASE cur \in Session /\ Lose(cur, ItemsOf(batch))
      BY <3>2, LoseFacts
    <3>3. QED BY <2>1, <3>1, <3>2
  <2>3. InRing' = InRing /\ TakenItems' = TakenItems
    BY <2>1 DEF InRing, TakenItems, TakenBy
  <2>4. QED BY <1>1, <2>1, <2>2, <2>3
<1>5. CASE Send
  <2>1. /\ UNCHANGED <<ring, made, overflow, taken, gone>> /\ cur \in Session
        /\ wire[cur] \in Seq(Batches) /\ wire'[cur] = Append(wire[cur], batch) /\ batch \in Batches
        /\ \A n \in Session : n # cur => wire'[n] = wire[n]
    BY <1>5, SendFacts
  <2>2. ItemsIn(wire'[cur]) = ItemsIn(wire[cur]) \cup ItemsOf(batch)
    BY <2>1, QueueFacts
  <2>3. OnWire \cup ItemsOf(batch) \subseteq OnWire'
    <3>1. \A n \in Session : ItemsIn(wire[n]) \subseteq ItemsIn(wire'[n])
      BY <2>1, <2>2
    <3>2. QED BY <2>1, <2>2, <3>1 DEF OnWire
  <2>4. InRing' = InRing /\ TakenItems' = TakenItems
    BY <2>1 DEF InRing, TakenItems, TakenBy
  <2>5. QED BY <1>1, <2>1, <2>3, <2>4
<1>6. ASSUME NEW n \in Session, Break(n) \/ Ingest(n) \/ IngestClosed(n) \/ Ack(n)
                              \/ StreamEnds(n) \/ StreamErrs(n)
      PROVE  made' \ overflow' \subseteq InRing' \cup ItemsOf(batch') \cup OnWire' \cup TakenItems' \cup gone'
  <2>1. UNCHANGED <<ring, batch, made, overflow>> /\ gone \subseteq gone'
    <3>1. CASE Break(n) BY <3>1, LoseFacts DEF Break, agent
    <3>2. CASE ~Break(n)
      BY <1>6, <3>2 DEF Ingest, IngestClosed, Ack, StreamEnds, StreamErrs, agent, history
    <3>3. QED BY <3>1, <3>2
  <2>2. TakenItems \subseteq TakenItems' /\ OnWire \subseteq OnWire' \cup TakenItems' \cup gone'
    <3>1. CASE Break(n)
      <4>1. OnWire \subseteq OnWire' \cup gone'
        BY <3>1, LoseFacts DEF Break
      <4>2. TakenItems' = TakenItems
        BY <3>1 DEF Break, TakenItems, TakenBy
      <4>3. QED BY <4>1, <4>2
    <3>2. CASE Ingest(n) \/ IngestClosed(n)
      <4>1. /\ wire[n] # <<>> /\ (Took(n, "ok") \/ Took(n, "full") \/ Took(n, "closed"))
            /\ \A m \in Session : m # n => wire'[m] = wire[m]
            /\ \/ wire'[n] = Tail(wire[n])
               \/ gone' = gone \cup ItemsIn(Tail(wire[n]))
        BY <3>2 DEF Ingest, IngestClosed, Types
      <4>2. /\ TakenItems \cup ItemsOf(Head(wire[n])) \subseteq TakenItems'
            /\ ItemsIn(wire[n]) = ItemsOf(Head(wire[n])) \cup ItemsIn(Tail(wire[n]))
        BY <4>1, TookFacts
      <4>3. \A m \in Session : ItemsIn(wire[m]) \subseteq ItemsIn(wire'[m]) \cup TakenItems' \cup gone'
        BY <4>1, <4>2
      <4>4. QED BY <4>2, <4>3 DEF OnWire
    <3>3. CASE Ack(n) \/ StreamEnds(n) \/ StreamErrs(n)
      <4>1. /\ taken' = taken /\ \A m \in Session : m # n => wire'[m] = wire[m]
            /\ wire'[n] = wire[n] \/ gone' = gone \cup ItemsIn(wire[n])
        BY <3>3 DEF Ack, StreamEnds, StreamErrs, history, Types
      <4>2. \A m \in Session : ItemsIn(wire[m]) \subseteq ItemsIn(wire'[m]) \cup gone'
        BY <4>1
      <4>3. TakenItems' = TakenItems
        BY <4>1 DEF TakenItems, TakenBy
      <4>4. QED BY <4>2, <4>3 DEF OnWire
    <3>4. QED BY <1>6, <3>1, <3>2, <3>3
  <2>3. InRing' = InRing /\ ItemsOf(batch') = ItemsOf(batch)
    BY <2>1 DEF InRing
  <2>4. QED BY <1>1, <2>1, <2>2, <2>3
<1>7. CASE CollectorExits
  <2>1. UNCHANGED <<ring, batch, made, overflow, taken>> /\ gone \cup OnWire \subseteq gone'
    BY <1>7 DEF CollectorExits, agent, OnWire
  <2>2. InRing' = InRing /\ ItemsOf(batch') = ItemsOf(batch) /\ TakenItems' = TakenItems
    BY <2>1 DEF InRing, TakenItems, TakenBy
  <2>3. QED BY <1>1, <2>1, <2>2
<1>8. QED BY <1>2, <1>3, <1>4, <1>5, <1>6, <1>7, NextCases

(* What the collector has taken is neither under way nor with the agent.    *)
LEMMA OnceTaken ==
  ASSUME Types, SentOnce, Streams
  PROVE  AtMostOnce
<1>1. \A n \in Session : \A j \in DOMAIN taken[n] :
        /\ j \in 1..Len(taken[n]) /\ j \in 1..Len(sent[n]) /\ taken[n][j].batch = sent[n][j]
  <2> TAKE n \in Session
  <2>1. /\ Len(sent[n]) \in Nat /\ Len(taken[n]) \in Nat /\ DOMAIN taken[n] = 1..Len(taken[n])
    BY StreamTypes
  <2>2. Len(taken[n]) <= Len(sent[n]) /\ \A j \in 1..Len(taken[n]) : taken[n][j].batch = sent[n][j]
    BY <2>1 DEF Streams, StreamOf
  <2>3. QED BY <2>1, <2>2
<1>2. ASSUME NEW n \in Session, NEW k \in 1..Len(wire[n])
      PROVE  \E i \in 1..Len(sent[n]) : i \notin 1..Len(taken[n]) /\ wire[n][k] = sent[n][i]
  <2>1. Len(sent[n]) \in Nat /\ Len(taken[n]) \in Nat /\ Len(wire[n]) \in Nat
    BY StreamTypes
  <2>2. PICK o \in Len(taken[n])..Len(sent[n]) :
          o + Len(wire[n]) <= Len(sent[n]) /\ wire[n][k] = sent[n][o + k]
    BY DEF Streams, StreamOf
  <2>3. o + k \in 1..Len(sent[n]) /\ o + k \notin 1..Len(taken[n])
    BY <2>1, <2>2
  <2>4. QED BY <2>2, <2>3
<1>3. ASSUME NEW x \in TakenItems
      PROVE  x \notin InRing \cup ItemsOf(batch) \cup OnWire
  <2>0. PICK n \in Session : x \in TakenBy(n)
    BY DEF TakenItems
  <2>1. PICK j \in DOMAIN taken[n] : x \in ItemsOf(taken[n][j].batch)
    BY <2>0 DEF TakenBy
  <2>2. j \in 1..Len(taken[n]) /\ j \in 1..Len(sent[n]) /\ x \in ItemsOf(sent[n][j])
    BY <1>1, <2>1
  <2>3. x \notin InRing \cup ItemsOf(batch)
    BY <2>2 DEF SentOnce
  <2>4. ASSUME x \in OnWire PROVE FALSE
    <3>1. PICK m \in Session : x \in ItemsIn(wire[m])
      BY <2>4 DEF OnWire
    <3>2. PICK k \in 1..Len(wire[m]) : x \in ItemsOf(wire[m][k])
      BY <3>1, ItemsInFacts, StreamTypes
    <3>3. PICK i \in 1..Len(sent[m]) : i \notin 1..Len(taken[m]) /\ wire[m][k] = sent[m][i]
      BY <1>2
    <3>4. <<n, j>> # <<m, i>>
      BY <2>2, <3>3
    <3>5. QED BY <2>2, <3>2, <3>3, <3>4 DEF SentOnce
  <2>5. QED BY <2>3, <2>4
<1>4. ASSUME NEW n \in Session, NEW m \in Session, NEW j \in DOMAIN taken[n],
             NEW k \in DOMAIN taken[m], <<n, j>> # <<m, k>>
      PROVE  ItemsOf(taken[n][j].batch) \cap ItemsOf(taken[m][k].batch) = {}
  <2>1. /\ j \in 1..Len(sent[n]) /\ taken[n][j].batch = sent[n][j]
        /\ k \in 1..Len(sent[m]) /\ taken[m][k].batch = sent[m][k]
    BY <1>1
  <2>2. QED BY <1>4, <2>1 DEF SentOnce
<1>5. QED BY <1>3, <1>4 DEF AtMostOnce

----------------------------------------------------------------------------
(* Where a step takes the items that wait. *)

(* The batches under way share no item with each other or with the agent.   *)
LEMMA Apart ==
  ASSUME Types, SentOnce, Streams
  PROVE  /\ \A n \in Session : \A k \in 1..Len(wire[n]) :
              /\ ItemsOf(wire[n][k]) \subseteq made
              /\ ItemsOf(wire[n][k]) \cap (InRing \cup ItemsOf(batch)) = {}
         /\ \A n, m \in Session : \A k \in 1..Len(wire[n]), l \in 1..Len(wire[m]) :
              <<n, k>> # <<m, l>> => ItemsOf(wire[n][k]) \cap ItemsOf(wire[m][l]) = {}
         /\ TakenItems \subseteq made
<1>1. ASSUME NEW n \in Session
      PROVE  \E o \in Nat : \A k \in 1..Len(wire[n]) :
               k \in Nat /\ o + k \in 1..Len(sent[n]) /\ wire[n][k] = sent[n][o + k]
  <2>1. Len(sent[n]) \in Nat /\ Len(taken[n]) \in Nat /\ Len(wire[n]) \in Nat
    BY StreamTypes
  <2>2. PICK o \in Len(taken[n])..Len(sent[n]) :
          o + Len(wire[n]) <= Len(sent[n]) /\ \A k \in 1..Len(wire[n]) : wire[n][k] = sent[n][o + k]
    BY DEF Streams, StreamOf
  <2>3. o \in Nat /\ \A k \in 1..Len(wire[n]) : k \in Nat /\ o + k \in 1..Len(sent[n])
    BY <2>1, <2>2
  <2>4. QED BY <2>2, <2>3
<1>2. ASSUME NEW n \in Session, NEW k \in 1..Len(wire[n])
      PROVE  /\ ItemsOf(wire[n][k]) \subseteq made
             /\ ItemsOf(wire[n][k]) \cap (InRing \cup ItemsOf(batch)) = {}
  <2>1. \E j \in 1..Len(sent[n]) : wire[n][k] = sent[n][j]
    BY <1>1
  <2>2. QED BY <2>1 DEF SentOnce
<1>3. ASSUME NEW n \in Session, NEW m \in Session, NEW k \in 1..Len(wire[n]),
             NEW l \in 1..Len(wire[m]), <<n, k>> # <<m, l>>
      PROVE  ItemsOf(wire[n][k]) \cap ItemsOf(wire[m][l]) = {}
  <2>1. \E i \in 1..Len(sent[n]) : \E j \in 1..Len(sent[m]) :
          wire[n][k] = sent[n][i] /\ wire[m][l] = sent[m][j] /\ <<n, i>> # <<m, j>>
    <3>1. PICK o \in Nat : \A h \in 1..Len(wire[n]) :
            h \in Nat /\ o + h \in 1..Len(sent[n]) /\ wire[n][h] = sent[n][o + h]
      BY <1>1
    <3>2. CASE n = m
      <4>1. o + k # o + l
        BY <1>3, <3>1, <3>2
      <4>2. QED BY <3>1, <3>2, <4>1
    <3>3. CASE n # m
      <4>1. PICK p \in Nat : \A h \in 1..Len(wire[m]) :
              h \in Nat /\ p + h \in 1..Len(sent[m]) /\ wire[m][h] = sent[m][p + h]
        BY <1>1
      <4>2. QED BY <3>1, <3>3, <4>1
    <3>4. QED BY <3>2, <3>3
  <2>2. PICK i \in 1..Len(sent[n]) : \E j \in 1..Len(sent[m]) :
          wire[n][k] = sent[n][i] /\ wire[m][l] = sent[m][j] /\ <<n, i>> # <<m, j>>
    BY <2>1
  <2>3. PICK j \in 1..Len(sent[m]) :
          wire[n][k] = sent[n][i] /\ wire[m][l] = sent[m][j] /\ <<n, i>> # <<m, j>>
    BY <2>2
  <2>4. ItemsOf(sent[n][i]) \cap ItemsOf(sent[m][j]) = {}
    BY <2>3 DEF SentOnce
  <2>5. QED BY <2>3, <2>4
<1>4. TakenItems \subseteq made
  <2> SUFFICES ASSUME NEW n \in Session, NEW j \in DOMAIN taken[n]
               PROVE  ItemsOf(taken[n][j].batch) \subseteq made
    BY DEF TakenItems, TakenBy
  <2>1. /\ Len(sent[n]) \in Nat /\ Len(taken[n]) \in Nat /\ DOMAIN taken[n] = 1..Len(taken[n])
    BY StreamTypes
  <2>2. Len(taken[n]) <= Len(sent[n]) /\ taken[n][j].batch = sent[n][j]
    BY <2>1 DEF Streams, StreamOf
  <2>3. j \in 1..Len(sent[n])
    BY <2>1, <2>2
  <2>4. QED BY <2>2, <2>3 DEF SentOnce
<1>5. QED BY <1>2, <1>3, <1>4

(* What is under way is in some place of some wire. *)
LEMMA OnWireFacts ==
  ASSUME Types
  PROVE  \A x : x \in OnWire <=> \E m \in Session : \E k \in 1..Len(wire[m]) : x \in ItemsOf(wire[m][k])
<1>1. \A m \in Session : \A x : x \in ItemsIn(wire[m]) <=> \E k \in 1..Len(wire[m]) : x \in ItemsOf(wire[m][k])
  BY ItemsInFacts DEF Types
<1>2. \A x : x \in OnWire <=> \E m \in Session : x \in ItemsIn(wire[m])
  BY DEF OnWire
<1>3. QED BY <1>1, <1>2

(* A wire of which only the batches in the places K remain. *)
LEMMA CutOff ==
  ASSUME Types, SentOnce, Streams, NEW n \in Session, NEW K \in SUBSET (1..Len(wire[n])),
         wire' \in [Session -> Seq(Batches)], ItemsIn(wire'[n]) = Part(wire[n], K),
         \A m \in Session : m # n => wire'[m] = wire[m]
  PROVE  LET S == Part(wire[n], (1..Len(wire[n])) \ K)
         IN  /\ OnWire' = OnWire \ S /\ S \subseteq OnWire
             /\ S \cap (InRing \cup ItemsOf(batch)) = {}
<1> DEFINE S == Part(wire[n], (1..Len(wire[n])) \ K)
<1>1. \A m \in Session : \A x : x \in ItemsIn(wire[m]) <=> \E k \in 1..Len(wire[m]) : x \in ItemsOf(wire[m][k])
  BY ItemsInFacts DEF Types
<1>2. \A x : x \in OnWire <=> \E m \in Session : \E k \in 1..Len(wire[m]) : x \in ItemsOf(wire[m][k])
  BY OnWireFacts
<1>3. \A x : x \in S <=> \E k \in (1..Len(wire[n])) \ K : x \in ItemsOf(wire[n][k])
  BY DEF Part
<1>4. \A x : x \in OnWire' <=> \/ \E k \in K : x \in ItemsOf(wire[n][k])
                               \/ \E m \in Session \ {n} : \E k \in 1..Len(wire[m]) : x \in ItemsOf(wire[m][k])
  <2>1. \A x : x \in OnWire' <=> \E m \in Session : x \in ItemsIn(wire'[m])
    BY DEF OnWire, ItemsIn
  <2>2. \A x : x \in ItemsIn(wire'[n]) <=> \E k \in K : x \in ItemsOf(wire[n][k])
    BY DEF Part
  <2>3. \A m \in Session \ {n} : \A x :
          x \in ItemsIn(wire'[m]) <=> \E k \in 1..Len(wire[m]) : x \in ItemsOf(wire[m][k])
    BY <1>1
  <2>4. \A m \in Session : m = n \/ m \in Session \ {n}
    OBVIOUS
  <2>5. QED BY <2>1, <2>2, <2>3, <2>4
<1> HIDE DEF S
<1>5. S \subseteq OnWire /\ S \cap (InRing \cup ItemsOf(batch)) = {}
  BY <1>2, <1>3, Apart
<1>6. ASSUME NEW x \in S PROVE x \notin OnWire'
  <2>1. PICK k \in (1..Len(wire[n])) \ K : x \in ItemsOf(wire[n][k])
    BY <1>3
  <2>2. \A j \in K : j \in 1..Len(wire[n]) /\ <<n, k>> # <<n, j>>
    BY <2>1
  <2>3. \A m \in Session \ {n} : \A j \in 1..Len(wire[m]) : <<n, k>> # <<m, j>>
    OBVIOUS
  <2>4. \A m \in Session : \A j \in 1..Len(wire[m]) :
          <<n, k>> # <<m, j>> => ItemsOf(wire[n][k]) \cap ItemsOf(wire[m][j]) = {}
    BY <2>1, Apart
  <2>5. QED BY <1>4, <2>1, <2>2, <2>3, <2>4
<1>7. \A x \in OnWire' : x \in OnWire
  BY <1>2, <1>4
<1>8. \A x \in OnWire : x \in OnWire' \/ x \in S
  BY <1>2, <1>3, <1>4
<1>9. QED BY <1>5, <1>6, <1>7, <1>8 DEF S

(* A loss takes items off one wire and leaves the others where they are. *)
LEMMA LoseMoves ==
  ASSUME Types, SentOnce, Streams, NEW n \in Session, NEW T, Lose(n, T)
  PROVE  \E S \in SUBSET OnWire :
           /\ gone' = gone \cup T \cup S /\ OnWire' = OnWire \ S
           /\ S \cap (InRing \cup ItemsOf(batch)) = {}
<1> DEFINE q == wire[n]
<1>1. q \in Seq(Batches) /\ Len(q) \in Nat
  BY DEF Types
<1>2. \E k \in 0..Len(q) :
        /\ wire' = [wire EXCEPT ![n] = SubSeq(@, 1, k)]
        /\ gone' = gone \cup T \cup ItemsIn(SubSeq(q, k + 1, Len(q)))
  <2>1. PICK k \in (IF task[n] = "ended" THEN {0} ELSE 0..Len(q)) :
          /\ wire' = [wire EXCEPT ![n] = SubSeq(@, 1, k)]
          /\ gone' = gone \cup T \cup ItemsIn(SubSeq(q, k + 1, Len(q)))
    BY DEF Lose
  <2>2. k \in 0..Len(q)
    BY <1>1, <2>1
  <2>3. QED BY <2>1, <2>2
<1> HIDE DEF q
<1>3. PICK k \in 0..Len(q) :
        /\ wire' = [wire EXCEPT ![n] = SubSeq(@, 1, k)]
        /\ gone' = gone \cup T \cup ItemsIn(SubSeq(q, k + 1, Len(q)))
  BY <1>2
<1> DEFINE S == Part(q, (1..Len(q)) \ (1..k))
<1>4. /\ SubSeq(q, 1, k) \in Seq(Batches) /\ ItemsIn(SubSeq(q, 1, k)) = Part(q, 1..k)
      /\ ItemsIn(SubSeq(q, k + 1, Len(q))) = S
  BY <1>1, CutFacts
<1>5. /\ wire' \in [Session -> Seq(Batches)] /\ wire'[n] = SubSeq(q, 1, k)
      /\ \A m \in Session : m # n => wire'[m] = wire[m]
  BY <1>3, <1>4 DEF Types, q
<1>6. 1..k \in SUBSET (1..Len(wire[n])) /\ ItemsIn(wire'[n]) = Part(wire[n], 1..k)
  BY <1>1, <1>4, <1>5 DEF q
<1>7. OnWire' = OnWire \ S /\ S \subseteq OnWire /\ S \cap (InRing \cup ItemsOf(batch)) = {}
  BY <1>5, <1>6, CutOff DEF q
<1>8. gone' = gone \cup T \cup S
  BY <1>3, <1>4
<1>9. QED BY <1>7, <1>8

(* So does the end of a task, of all that is on its wire. *)
LEMMA EndMoves ==
  ASSUME Types, SentOnce, Streams, NEW n \in Session, wire' = [wire EXCEPT ![n] = <<>>]
  PROVE  /\ OnWire' = OnWire \ ItemsIn(wire[n]) /\ ItemsIn(wire[n]) \subseteq OnWire
         /\ ItemsIn(wire[n]) \cap (InRing \cup ItemsOf(batch)) = {}
<1>1. /\ wire' \in [Session -> Seq(Batches)] /\ wire'[n] = <<>>
      /\ \A m \in Session : m # n => wire'[m] = wire[m]
  BY DEF Types
<1>2. ItemsIn(wire'[n]) = Part(wire[n], {}) /\ {} \in SUBSET (1..Len(wire[n]))
  BY <1>1 DEF ItemsIn, Part
<1>3. Part(wire[n], (1..Len(wire[n])) \ {}) = ItemsIn(wire[n])
  <2>1. wire[n] \in Seq(Batches)
    BY DEF Types
  <2>2. DOMAIN wire[n] = (1..Len(wire[n])) \ {}
    BY <2>1
  <2>3. QED BY <2>2 DEF Part, ItemsIn
<1>4. QED BY <1>1, <1>2, <1>3, CutOff

(* The first batch of a wire leaves it alone. *)
LEMMA HeadMoves ==
  ASSUME Types, SentOnce, Streams, NEW n \in Session, wire[n] # <<>>,
         wire' = [wire EXCEPT ![n] = Tail(@)]
  PROVE  LET S == ItemsOf(Head(wire[n]))
         IN  /\ OnWire' = OnWire \ S /\ S \subseteq OnWire
             /\ S \cap (InRing \cup ItemsOf(batch)) = {}
<1> DEFINE q == wire[n]
           K == (1..Len(q)) \ {1}
<1>1. q \in Seq(Batches)
  BY DEF Types
<1>2. /\ Head(q) = q[1] /\ 1 \in 1..Len(q) /\ Tail(q) \in Seq(Batches)
      /\ Len(Tail(q)) = Len(q) - 1 /\ Len(q) \in Nat \ {0}
      /\ \A k \in 1..Len(Tail(q)) : k + 1 \in 1..Len(q) /\ Tail(q)[k] = q[k + 1]
  BY <1>1, HeadFacts
<1>3. /\ wire' \in [Session -> Seq(Batches)] /\ wire'[n] = Tail(q)
      /\ \A m \in Session : m # n => wire'[m] = wire[m]
  BY <1>2 DEF Types
<1>4. ItemsIn(Tail(q)) = Part(q, K)
  <2>1. \A x : x \in ItemsIn(Tail(q)) <=> \E k \in 1..Len(Tail(q)) : x \in ItemsOf(Tail(q)[k])
    BY <1>2, ItemsInFacts
  <2>2. \A k \in 1..Len(Tail(q)) : k + 1 \in K
    BY <1>2
  <2>3. \A k \in K : k - 1 \in 1..Len(Tail(q)) /\ Tail(q)[k - 1] = q[k]
    BY <1>2
  <2>4. \A x : x \in Part(q, K) <=> \E k \in K : x \in ItemsOf(q[k])
    BY DEF Part
  <2> HIDE DEF K, q
  <2>5. \A x \in ItemsIn(Tail(q)) : x \in Part(q, K)
    BY <1>2, <2>1, <2>2, <2>4
  <2>6. \A x \in Part(q, K) : x \in ItemsIn(Tail(q))
    BY <2>1, <2>3, <2>4
  <2>7. QED BY <2>5, <2>6
<1>5. Part(q, (1..Len(q)) \ K) = ItemsOf(Head(q))
  <2>1. (1..Len(q)) \ K = {1}
    BY <1>2
  <2>2. QED BY <1>2, <2>1 DEF Part
<1>6. K \in SUBSET (1..Len(wire[n])) /\ ItemsIn(wire'[n]) = Part(wire[n], K)
  BY <1>3, <1>4
<1>7. QED BY <1>3, <1>5, <1>6, CutOff

(* The first batch of a wire shares no item with those behind it. *)
LEMMA HeadApart ==
  ASSUME Types, SentOnce, Streams, NEW n \in Session, wire[n] # <<>>
  PROVE  /\ ItemsIn(wire[n]) = ItemsOf(Head(wire[n])) \cup ItemsIn(Tail(wire[n]))
         /\ ItemsOf(Head(wire[n])) \cap ItemsIn(Tail(wire[n])) = {}
<1>1. wire[n] \in Seq(Batches)
  BY DEF Types
<1>2. /\ Head(wire[n]) = wire[n][1] /\ 1 \in 1..Len(wire[n])
      /\ \A k \in 1..Len(Tail(wire[n])) : k + 1 \in 1..Len(wire[n]) /\ Tail(wire[n])[k] = wire[n][k + 1]
      /\ Tail(wire[n]) \in Seq(Batches)
      /\ ItemsIn(wire[n]) = ItemsOf(Head(wire[n])) \cup ItemsIn(Tail(wire[n]))
  BY <1>1, HeadFacts
<1>3. ASSUME NEW x \in ItemsIn(Tail(wire[n])), x \in ItemsOf(Head(wire[n]))
      PROVE  FALSE
  <2>1. PICK k \in 1..Len(Tail(wire[n])) : x \in ItemsOf(Tail(wire[n])[k])
    BY <1>2, ItemsInFacts
  <2>2. k + 1 \in 1..Len(wire[n]) /\ x \in ItemsOf(wire[n][k + 1]) /\ x \in ItemsOf(wire[n][1])
    BY <1>2, <1>3, <2>1
  <2>3. <<n, 1>> # <<n, k + 1>>
    BY <2>1
  <2>4. ItemsOf(wire[n][1]) \cap ItemsOf(wire[n][k + 1]) = {}
    BY <1>2, <2>2, <2>3, Apart
  <2>5. QED BY <2>2, <2>4
<1>4. QED BY <1>2, <1>3

(* A step of the agent alone brings one new item, or none. *)
LEMMA AgentMoves ==
  ASSUME Types, OnePlace, AgentOnly
  PROVE  \/ InRing' \cup ItemsOf(batch') = InRing \cup ItemsOf(batch)
         \/ \E i \in Item : /\ InRing' \cup ItemsOf(batch') = InRing \cup ItemsOf(batch) \cup {i}
                            /\ i \notin made /\ made' = made \cup {i} /\ UNCHANGED quit
<1>1. ASSUME NEW i \in Item, Push(i)
      PROVE  \/ InRing' \cup ItemsOf(batch') = InRing \cup ItemsOf(batch)
             \/ /\ InRing' \cup ItemsOf(batch') = InRing \cup ItemsOf(batch) \cup {i}
                /\ i \notin made /\ made' = made \cup {i} /\ UNCHANGED quit
  <2>1. /\ made' = made \cup {i} /\ i \notin made /\ batch' = batch
        /\ InRing' = InRing \cup {i} \/ InRing' = InRing
    BY <1>1, PushFacts
  <2>2. ItemsOf(batch') = ItemsOf(batch) /\ quit' = quit
    BY <1>1, <2>1 DEF Push
  <2>3. QED BY <2>1, <2>2
<1>2. CASE DrainEvent \/ DrainFrame
  BY <1>2, DrainFacts
<1>3. CASE FramesDrained
  BY <1>3, FramesFacts
<1>4. ASSUME Quit \/ Connect \/ Wake \/ OpenFails \/ FlushTick \/ EventsDrained \/ ReadAck
             \/ DropTick \/ Ended
      PROVE  InRing' \cup ItemsOf(batch') = InRing \cup ItemsOf(batch)
  <2>1. UNCHANGED <<ring, batch>>
    BY <1>4 DEF Quit, Connect, Wake, OpenFails, FlushTick, EventsDrained, ReadAck, DropTick, Ended,
                agent, vars
  <2>2. QED BY <2>1 DEF InRing, ItemsOf
<1>5. QED BY <1>1, <1>2, <1>3, <1>4 DEF AgentOnly

(* The four ways of an item: it enters, stays or is lost, and is taken by a *)
(* collector that answers or by one that ends.                              *)
Enters == \E i \in Item :
  /\ i \notin made /\ made' = made \cup {i} /\ Waiting' = Waiting \cup {i}
  /\ UNCHANGED <<taken, gone, losses, quit>>

Stays == \E S \in SUBSET Waiting :
  Waiting' = Waiting \ S /\ gone' = gone \cup S /\ UNCHANGED taken

Answered == \E n \in Session : \E fate \in {"ok", "full"} :
  /\ wire[n] # <<>> /\ Took(n, fate) /\ ItemsOf(Head(wire[n])) \subseteq Waiting
  /\ Waiting' = Waiting \ ItemsOf(Head(wire[n])) /\ UNCHANGED <<gone, losses, quit>>

Rejected == \E n \in Session :
  /\ wire[n] # <<>> /\ Took(n, "closed") /\ ItemsIn(wire[n]) \subseteq Waiting /\ task'[n] = "ended"
  /\ Waiting' = Waiting \ ItemsIn(wire[n]) /\ gone' = gone \cup ItemsIn(Tail(wire[n]))

LEMMA Moves ==
  ASSUME Types, Opened, OnePlace, SentOnce, Streams, Next
  PROVE  Enters \/ Stays \/ Answered \/ Rejected
<1>1. ASSUME Waiting' = Waiting, UNCHANGED <<gone, taken>>
      PROVE  Stays
  <2>1. {} \in SUBSET Waiting /\ Waiting' = Waiting \ {} /\ gone' = gone \cup {}
    BY <1>1
  <2>2. QED BY <1>1, <2>1 DEF Stays
<1>2. CASE AgentOnly
  <2>1. UNCHANGED <<wire, taken, gone, losses>> /\ OnWire' = OnWire
    BY <1>2, AgentOnlyFacts DEF OnWire
  <2>2. CASE InRing' \cup ItemsOf(batch') = InRing \cup ItemsOf(batch)
    BY <1>1, <2>1, <2>2 DEF Waiting
  <2>3. ASSUME NEW i \in Item, InRing' \cup ItemsOf(batch') = InRing \cup ItemsOf(batch) \cup {i},
               i \notin made, made' = made \cup {i}, UNCHANGED quit
        PROVE  Enters
    BY <2>1, <2>3 DEF Enters, Waiting
  <2>4. QED BY <1>2, <2>2, <2>3, AgentMoves
<1>3. CASE Open \/ CollectorStarts \/ CollectorCloses
  <2>1. UNCHANGED <<ring, batch, wire, taken, gone>>
    BY <1>3 DEF Open, CollectorStarts, CollectorCloses, history, agent
  <2>2. QED BY <1>1, <2>1 DEF Waiting, InRing, OnWire
<1>4. CASE Leave \/ SessionFails
  <2>1. /\ UNCHANGED <<ring, taken>> /\ batch' = NoBatch
        /\ \/ UNCHANGED <<link, acks, wire>> /\ gone' = gone \cup ItemsOf(batch)
           \/ cur \in Session /\ Lose(cur, ItemsOf(batch))
    BY <1>4, EndFacts
  <2>2. InRing' = InRing /\ ItemsOf(batch') = {}
    BY <2>1, BatchFacts DEF InRing
  <2>3. PICK S \in SUBSET OnWire :
          /\ gone' = gone \cup ItemsOf(batch) \cup S /\ OnWire' = OnWire \ S
          /\ S \cap (InRing \cup ItemsOf(batch)) = {}
    <3>1. CASE UNCHANGED <<link, acks, wire>> /\ gone' = gone \cup ItemsOf(batch)
      <4>1. OnWire' = OnWire \ {} /\ gone' = gone \cup ItemsOf(batch) \cup {} /\ {} \in SUBSET OnWire
        BY <3>1 DEF OnWire
      <4>2. QED BY <4>1
    <3>2. CASE cur \in Session /\ Lose(cur, ItemsOf(batch))
      BY <3>2, LoseMoves
    <3>3. QED BY <2>1, <3>1, <3>2
  <2>4. OnWire \cap ItemsOf(batch) = {} /\ InRing \cap ItemsOf(batch) = {}
    <3>1. \A x \in OnWire : \E n \in Session : \E k \in 1..Len(wire[n]) : x \in ItemsOf(wire[n][k])
      BY OnWireFacts
    <3>2. QED BY <3>1, Apart DEF OnePlace
  <2> DEFINE T == ItemsOf(batch) \cup S
  <2>5. T \in SUBSET Waiting /\ Waiting' = Waiting \ T /\ gone' = gone \cup T
    BY <2>2, <2>3, <2>4 DEF Waiting
  <2>6. QED BY <2>1, <2>5 DEF Stays
<1>5. CASE Send
  <2>1. /\ UNCHANGED <<ring, taken, gone>> /\ cur \in Session /\ batch' = NoBatch
        /\ wire[cur] \in Seq(Batches) /\ wire'[cur] = Append(wire[cur], batch) /\ batch \in Batches
        /\ \A n \in Session : n # cur => wire'[n] = wire[n]
    BY <1>5, SendFacts
  <2>2. ItemsIn(wire'[cur]) = ItemsIn(wire[cur]) \cup ItemsOf(batch)
    BY <2>1, QueueFacts
  <2>3. OnWire' = OnWire \cup ItemsOf(batch)
    <3>1. \A n \in Session : n # cur => ItemsIn(wire'[n]) = ItemsIn(wire[n])
      BY <2>1
    <3>2. /\ \A x : x \in OnWire <=> \E n \in Session : x \in ItemsIn(wire[n])
          /\ \A x : x \in OnWire' <=> \E n \in Session : x \in ItemsIn(wire'[n])
      BY DEF OnWire, ItemsIn
    <3>3. QED BY <2>1, <2>2, <3>1, <3>2
  <2>4. InRing' = InRing /\ ItemsOf(batch') = {}
    BY <2>1, BatchFacts DEF InRing
  <2>5. Waiting' = Waiting
    BY <2>3, <2>4 DEF Waiting
  <2>6. QED BY <1>1, <2>1, <2>5
<1>6. ASSUME NEW n \in Session, UNCHANGED <<ring, batch, taken>>,
             NEW S \in SUBSET OnWire, gone' = gone \cup S, OnWire' = OnWire \ S,
             S \cap (InRing \cup ItemsOf(batch)) = {}
      PROVE  Stays
  <2>1. InRing' = InRing /\ ItemsOf(batch') = ItemsOf(batch)
    BY <1>6 DEF InRing, ItemsOf
  <2>2. S \in SUBSET Waiting /\ Waiting' = Waiting \ S
    BY <1>6, <2>1 DEF Waiting
  <2>3. QED BY <1>6, <2>2 DEF Stays
<1>7. ASSUME NEW n \in Session, Break(n)
      PROVE  Stays
  <2>1. Lose(n, {}) /\ UNCHANGED <<ring, batch, taken>>
    BY <1>7 DEF Break, agent
  <2>2. PICK S \in SUBSET OnWire :
          /\ gone' = gone \cup {} \cup S /\ OnWire' = OnWire \ S
          /\ S \cap (InRing \cup ItemsOf(batch)) = {}
    BY <2>1, LoseMoves
  <2>3. gone' = gone \cup S
    BY <2>2
  <2>4. QED BY <1>6, <2>1, <2>2, <2>3
<1>8. ASSUME NEW n \in Session, Ingest(n)
      PROVE  Answered
  <2>1. /\ wire[n] # <<>> /\ UNCHANGED <<ring, batch, quit, gone, losses>>
        /\ wire' = [wire EXCEPT ![n] = Tail(@)] /\ \E fate \in {"ok", "full"} : Took(n, fate)
    BY <1>8 DEF Ingest, agent
  <2>2. /\ OnWire' = OnWire \ ItemsOf(Head(wire[n])) /\ ItemsOf(Head(wire[n])) \subseteq OnWire
        /\ ItemsOf(Head(wire[n])) \cap (InRing \cup ItemsOf(batch)) = {}
    BY <2>1, HeadMoves
  <2>3. InRing' = InRing /\ ItemsOf(batch') = ItemsOf(batch)
    BY <2>1 DEF InRing, ItemsOf
  <2>4. /\ ItemsOf(Head(wire[n])) \subseteq Waiting
        /\ Waiting' = Waiting \ ItemsOf(Head(wire[n]))
    BY <2>2, <2>3 DEF Waiting
  <2>5. QED BY <2>1, <2>4 DEF Answered
<1>9. ASSUME NEW n \in Session, IngestClosed(n)
      PROVE  Rejected
  <2>1. /\ wire[n] # <<>> /\ UNCHANGED <<ring, batch>> /\ task' = [task EXCEPT ![n] = "ended"]
        /\ wire' = [wire EXCEPT ![n] = <<>>] /\ Took(n, "closed")
        /\ gone' = gone \cup ItemsIn(Tail(wire[n]))
    BY <1>9 DEF IngestClosed, agent
  <2>2. /\ OnWire' = OnWire \ ItemsIn(wire[n]) /\ ItemsIn(wire[n]) \subseteq OnWire
        /\ ItemsIn(wire[n]) \cap (InRing \cup ItemsOf(batch)) = {}
    BY <2>1, EndMoves
  <2>3. InRing' = InRing /\ ItemsOf(batch') = ItemsOf(batch) /\ task'[n] = "ended"
    BY <2>1 DEF InRing, ItemsOf, Types
  <2>4. ItemsIn(wire[n]) \subseteq Waiting /\ Waiting' = Waiting \ ItemsIn(wire[n])
    BY <2>2, <2>3 DEF Waiting
  <2>5. QED BY <2>1, <2>3, <2>4 DEF Rejected
<1>10. ASSUME NEW n \in Session, Ack(n) \/ StreamEnds(n) \/ StreamErrs(n)
       PROVE  Stays
  <2>1. /\ UNCHANGED <<ring, batch, taken>>
        /\ \/ UNCHANGED <<wire, gone>>
           \/ wire' = [wire EXCEPT ![n] = <<>>] /\ gone' = gone \cup ItemsIn(wire[n])
    BY <1>10 DEF Ack, StreamEnds, StreamErrs, agent, history
  <2>2. CASE UNCHANGED <<wire, gone>>
    BY <1>1, <2>1, <2>2 DEF Waiting, InRing, OnWire
  <2>3. CASE wire' = [wire EXCEPT ![n] = <<>>] /\ gone' = gone \cup ItemsIn(wire[n])
    <3>1. /\ OnWire' = OnWire \ ItemsIn(wire[n]) /\ ItemsIn(wire[n]) \subseteq OnWire
          /\ ItemsIn(wire[n]) \cap (InRing \cup ItemsOf(batch)) = {}
      BY <2>3, EndMoves
    <3>2. QED BY <1>6, <2>1, <2>3, <3>1
  <2>4. QED BY <2>1, <2>2, <2>3
<1>11. CASE CollectorExits
  <2>1. UNCHANGED <<ring, batch, taken>> /\ gone' = gone \cup OnWire /\ wire' = [n \in Session |-> <<>>]
    BY <1>11 DEF CollectorExits, agent, OnWire
  <2>2. OnWire' = {} /\ InRing' = InRing /\ ItemsOf(batch') = ItemsOf(batch)
    BY <2>1 DEF OnWire, ItemsIn, InRing, ItemsOf
  <2>3. OnWire \cap (InRing \cup ItemsOf(batch)) = {}
    <3>1. \A x \in OnWire : \E n \in Session : \E k \in 1..Len(wire[n]) : x \in ItemsOf(wire[n][k])
      BY OnWireFacts
    <3>2. QED BY <3>1, Apart
  <2>4. OnWire \in SUBSET Waiting /\ Waiting' = Waiting \ OnWire
    BY <2>2, <2>3 DEF Waiting
  <2>5. QED BY <2>1, <2>4 DEF Stays
<1>12. QED BY <1>2, <1>3, <1>4, <1>5, <1>7, <1>8, <1>9, <1>10, <1>11, NextCases

(* Only what waits is lost, so nothing that is lost is found elsewhere. *)
LEMMA GoneStep ==
  ASSUME Types, Opened, OnePlace, SentOnce, Streams, GoneForGood, Next
  PROVE  GoneForGood'
<1>1. TakenItems \cap Waiting = {}
  BY OnceTaken DEF AtMostOnce, Waiting
<1>2. Waiting \subseteq made
  BY OnWireFacts, Apart DEF Waiting, OnePlace
<1>3. made \subseteq made'
  BY OnePlaceStep
<1>4. gone \cap (Waiting \cup TakenItems) = {} /\ gone \subseteq made
  BY DEF GoneForGood
<1>5. UNCHANGED taken => TakenItems' = TakenItems
  BY DEF TakenItems, TakenBy
<1>6. CASE Enters
  BY <1>3, <1>4, <1>5, <1>6 DEF Enters, GoneForGood
<1>7. CASE Stays
  <2>1. PICK S \in SUBSET Waiting : Waiting' = Waiting \ S /\ gone' = gone \cup S /\ UNCHANGED taken
    BY <1>7 DEF Stays
  <2>2. gone' \cap (Waiting' \cup TakenItems') = {}
    BY <1>1, <1>4, <1>5, <2>1
  <2>3. QED BY <1>2, <1>3, <1>4, <2>1, <2>2 DEF GoneForGood
<1>8. CASE Answered
  <2>1. PICK n \in Session, fate \in {"ok", "full"} :
          /\ wire[n] # <<>> /\ Took(n, fate) /\ ItemsOf(Head(wire[n])) \subseteq Waiting
          /\ Waiting' = Waiting \ ItemsOf(Head(wire[n])) /\ gone' = gone
    BY <1>8 DEF Answered
  <2>2. TakenItems' = TakenItems \cup ItemsOf(Head(wire[n]))
    BY <2>1, TookFacts
  <2>3. QED BY <1>3, <1>4, <2>1, <2>2 DEF GoneForGood
<1>9. CASE Rejected
  <2>1. PICK n \in Session :
          /\ wire[n] # <<>> /\ Took(n, "closed") /\ ItemsIn(wire[n]) \subseteq Waiting
          /\ Waiting' = Waiting \ ItemsIn(wire[n]) /\ gone' = gone \cup ItemsIn(Tail(wire[n]))
    BY <1>9 DEF Rejected
  <2>2. TakenItems' = TakenItems \cup ItemsOf(Head(wire[n]))
    BY <2>1, TookFacts
  <2>3. /\ ItemsIn(wire[n]) = ItemsOf(Head(wire[n])) \cup ItemsIn(Tail(wire[n]))
        /\ ItemsOf(Head(wire[n])) \cap ItemsIn(Tail(wire[n])) = {}
    BY <2>1, HeadApart
  <2>4. gone' \cap (Waiting' \cup TakenItems') = {}
    BY <1>1, <1>4, <2>1, <2>2, <2>3
  <2>5. QED BY <1>2, <1>3, <1>4, <2>1, <2>3, <2>4 DEF GoneForGood
<1>10. QED BY <1>6, <1>7, <1>8, <1>9, Moves

(* A batch of the current session announces its new strings. *)
LEMMA AnnouncedFacts ==
  ASSUME Types, Opened, Send, NEW c, NEW s, c = cur, s = Len(sent[cur])
  PROVE  /\ AnnouncedBy(c, s + 1)' = AnnouncedBy(c, s) \cup batch.strings
         /\ \A n \in Session : \A j \in 0..Len(sent[n]) : AnnouncedBy(n, j)' = AnnouncedBy(n, j)
<1>1. /\ c \in Session /\ s \in Nat
      /\ sent'[c][s + 1] = batch
      /\ \A j \in 1..s : sent'[c][j] = sent[c][j]
      /\ \A n \in Session : n # c => sent'[n] = sent[n]
  BY SendFacts
<1>2. \A n \in Session : Len(sent[n]) \in Nat /\ \A j \in 1..Len(sent[n]) : sent'[n][j] = sent[n][j]
  BY <1>1, StreamTypes
<1>3. ASSUME NEW n \in Session, NEW j \in 0..Len(sent[n])
      PROVE  AnnouncedBy(n, j)' = AnnouncedBy(n, j)
  <2>1. \A k \in 1..j : k \in 1..Len(sent[n])
    BY <1>2
  <2>2. \A k \in 1..j : sent'[n][k].strings = sent[n][k].strings
    BY <1>2, <2>1
  <2>3. QED BY <2>2 DEF AnnouncedBy
<1>4. AnnouncedBy(c, s + 1)' = AnnouncedBy(c, s) \cup batch.strings
  <2>1. /\ \A k \in 1..s + 1 : k \in 1..s \/ k = s + 1
        /\ s + 1 \in 1..s + 1 /\ \A k \in 1..s : k \in 1..s + 1
    BY <1>1
  <2>2. /\ \A x : x \in AnnouncedBy(c, s + 1)' <=> \E k \in 1..s + 1 : x \in sent'[c][k].strings
        /\ \A x : x \in AnnouncedBy(c, s) <=> \E k \in 1..s : x \in sent[c][k].strings
    BY DEF AnnouncedBy
  <2>3. ASSUME NEW x
        PROVE  x \in AnnouncedBy(c, s + 1)' <=> x \in AnnouncedBy(c, s) \/ x \in batch.strings
    BY <1>1, <2>1, <2>2
  <2>4. QED BY <2>3
<1>5. QED BY <1>3, <1>4

(* The interner goes with the announcements of its session. *)
LEMMA InternedStep ==
  ASSUME Types, Opened, Interned, Next
  PROVE  Interned'
<1>1. CASE UNCHANGED <<pc, batch, seen, cur, sent>>
  BY <1>1 DEF Interned, InSession, Told, UnitsIn
<1>2. CASE Connect \/ Wake \/ FlushTick \/ EventsDrained
  <2>1. UNCHANGED <<batch, seen, cur, sent>>
    BY <1>2 DEF Connect, Wake, FlushTick, EventsDrained, history
  <2>2. Told' = Told
    BY <2>1 DEF Told
  <2>3. \/ pc = "connect" /\ pc' \in {"register", "sleep"}
        \/ pc = "sleep" /\ pc' = "connect"
        \/ pc = "select" /\ pc' = "drain_events"
        \/ pc = "drain_events" /\ pc' = "drain_frames"
    BY <1>2 DEF Connect, Wake, FlushTick, EventsDrained
  <2>4. QED BY <2>1, <2>2, <2>3 DEF Interned, InSession
<1>3. CASE OpenFails
  BY <1>3 DEF OpenFails, Interned, InSession
<1>4. CASE Open
  <2>1. /\ pc = "register" /\ pc' = "select" /\ cur' = cur + 1 /\ cur <= MaxLosses /\ cur \in Nat
        /\ UNCHANGED <<batch, seen, sent>>
    BY <1>4, UplinkAssumption DEF Open, history, Types
  <2>2. cur' \in Session /\ cur' > cur
    BY <2>1, UplinkAssumption DEF Session
  <2>3. sent'[cur'] = <<>>
    BY <2>1, <2>2 DEF Opened
  <2>4. Told' = {}
    BY <2>3 DEF Told
  <2>5. seen' = {} /\ batch'.strings = {}
    BY <2>1 DEF Interned
  <2>6. QED BY <2>1, <2>4, <2>5 DEF Interned
<1>5. CASE Leave \/ SessionFails
  <2>1. batch' = NoBatch /\ pc' \in {"stopped", "sleep"} /\ (pc' = "sleep" => seen' = {})
    BY <1>5, EndFacts
  <2>2. QED BY <2>1, BatchFacts DEF Interned, InSession
<1>6. CASE DrainEvent \/ DrainFrame
  <2>1. batch \in Batches
    BY DEF Types
  <2>2. /\ UNCHANGED <<pc, seen, cur, sent>> /\ pc # "send" /\ batch'.strings = batch.strings
    BY <1>6, <2>1 DEF DrainEvent, DrainFrame, history, Batches
  <2>3. Told' = Told
    BY <2>2 DEF Told
  <2>4. QED BY <2>2, <2>3 DEF Interned, InSession
<1>7. CASE FramesDrained
  <2>1. batch \in Batches
    BY DEF Types
  <2>2. /\ pc = "drain_frames" /\ UNCHANGED <<cur, sent>>
        /\ \/ pc' = "select" /\ UNCHANGED <<batch, seen>>
           \/ /\ batch' = [batch EXCEPT !.strings = UnitsIn(batch) \ seen]
              /\ seen' = seen \cup UnitsIn(batch) /\ pc' = "send"
    BY <1>7 DEF FramesDrained, history
  <2>3. Told' = Told
    BY <2>2 DEF Told
  <2>4. seen = Told /\ batch.strings = {}
    BY <2>2 DEF Interned, InSession
  <2>5. CASE pc' = "select" /\ UNCHANGED <<batch, seen>>
    BY <2>3, <2>4, <2>5 DEF Interned
  <2>6. CASE /\ batch' = [batch EXCEPT !.strings = UnitsIn(batch) \ seen]
             /\ seen' = seen \cup UnitsIn(batch) /\ pc' = "send"
    <3>1. batch'.strings = UnitsIn(batch) \ seen /\ batch'.events = batch.events
      BY <2>1, <2>6 DEF Batches
    <3>2. UnitsIn(batch') = UnitsIn(batch)
      BY <3>1 DEF UnitsIn
    <3>3. QED BY <2>3, <2>4, <2>6, <3>1, <3>2 DEF Interned
  <2>7. QED BY <2>2, <2>5, <2>6
<1>8. CASE Send
  <2>1. /\ pc = "send" /\ pc' = "select" /\ seen' = seen /\ batch' = NoBatch /\ cur' = cur
        /\ Len(sent'[cur]) = Len(sent[cur]) + 1
    BY <1>8, SendFacts DEF Send
  <2>2. Told' = Told \cup batch.strings
    <3>1. PICK c, s : c = cur /\ s = Len(sent[cur])
      OBVIOUS
    <3>2. AnnouncedBy(c, s + 1)' = AnnouncedBy(c, s) \cup batch.strings
      BY <1>8, <3>1, AnnouncedFacts
    <3>3. AnnouncedBy(c, s) = Told
      BY <3>1 DEF AnnouncedBy, Told
    <3>4. AnnouncedBy(c, s + 1)' = Told'
      BY <2>1, <3>1 DEF AnnouncedBy, Told
    <3>5. QED BY <3>2, <3>3, <3>4
  <2>3. seen = Told \cup batch.strings
    BY <2>1 DEF Interned, InSession
  <2>4. batch'.strings = {}
    BY <2>1, BatchFacts
  <2>5. QED BY <2>1, <2>2, <2>3, <2>4 DEF Interned
<1>9. ASSUME ~Connect, ~Wake, ~FlushTick, ~EventsDrained, ~OpenFails, ~Open, ~Leave, ~SessionFails,
             ~DrainEvent, ~DrainFrame, ~FramesDrained, ~Send
      PROVE  UNCHANGED <<pc, batch, seen, cur, sent>>
  BY <1>9 DEF Next, Uploader, Push, Quit, ReadAck, DropTick, Break, IngestTask, Ingest, IngestClosed,
              Ack, StreamEnds, StreamErrs, CollectorCloses, CollectorExits, CollectorStarts, Ended, agent,
              history, vars
<1>10. QED BY <1>1, <1>2, <1>3, <1>4, <1>5, <1>6, <1>7, <1>8, <1>9

(* A batch that is sent announces what is new to its stream. *)
LEMMA UnitsStep ==
  ASSUME Types, Opened, Interned, UnitsAnnounced, Next
  PROVE  UnitsAnnounced'
<1>1. \A n \in Session : DOMAIN sent[n] = 1..Len(sent[n]) /\ Len(sent[n]) \in Nat
  BY StreamTypes
<1>2. CASE sent' = sent
  BY <1>2 DEF UnitsAnnounced, AnnouncedBy, UnitsIn
<1>3. CASE Send
  <2>1. PICK c, s : c = cur /\ s = Len(sent[cur])
    OBVIOUS
  <2>2. /\ c \in Session /\ s \in Nat /\ batch \in Batches
        /\ \A n \in Session : \A j \in 1..Len(sent'[n]) :
             \/ j \in 1..Len(sent[n]) /\ sent'[n][j] = sent[n][j]
             \/ n = c /\ j = Len(sent[n]) + 1 /\ sent'[n][j] = batch
    BY <1>3, <2>1, SendFacts
  <2>3. /\ AnnouncedBy(c, s + 1)' = AnnouncedBy(c, s) \cup batch.strings
        /\ \A n \in Session : \A j \in 0..Len(sent[n]) : AnnouncedBy(n, j)' = AnnouncedBy(n, j)
    BY <1>3, <2>1, AnnouncedFacts
  <2>4. /\ UnitsIn(batch) \subseteq AnnouncedBy(c, s) \cup batch.strings
        /\ batch.strings \cap AnnouncedBy(c, s) = {}
    BY <1>3, <2>1 DEF Send, Interned, InSession, Told, AnnouncedBy
  <2>5. \A n \in Session : DOMAIN sent'[n] = 1..Len(sent'[n])
    <3>1. Types'
      BY TypesStep
    <3>2. \A n \in Session : sent'[n] \in Seq(Batches)
      BY <3>1 DEF Types
    <3>3. QED BY <3>2
  <2>6. ASSUME NEW n \in Session, NEW j \in 1..Len(sent'[n])
        PROVE  /\ UnitsIn(sent'[n][j]) \subseteq AnnouncedBy(n, j)'
               /\ sent'[n][j].strings \cap AnnouncedBy(n, j - 1)' = {}
    <3>1. CASE j \in 1..Len(sent[n]) /\ sent'[n][j] = sent[n][j]
      <4>1. j \in 0..Len(sent[n]) /\ j - 1 \in 0..Len(sent[n])
        BY <1>1, <3>1
      <4>2. AnnouncedBy(n, j)' = AnnouncedBy(n, j) /\ AnnouncedBy(n, j - 1)' = AnnouncedBy(n, j - 1)
        BY <2>3, <4>1
      <4>3. UnitsIn(sent[n][j]) \subseteq AnnouncedBy(n, j)
            /\ sent[n][j].strings \cap AnnouncedBy(n, j - 1) = {}
        BY <1>1, <3>1 DEF UnitsAnnounced
      <4>4. QED BY <3>1, <4>2, <4>3
    <3>2. CASE n = c /\ j = Len(sent[n]) + 1 /\ sent'[n][j] = batch
      <4>1. j = s + 1 /\ j - 1 = s /\ s \in 0..Len(sent[n])
        BY <2>1, <2>2, <3>2
      <4>2. AnnouncedBy(n, s)' = AnnouncedBy(n, s)
        BY <2>3, <4>1
      <4>3. QED BY <2>3, <2>4, <3>2, <4>1, <4>2
    <3>3. QED BY <2>2, <3>1, <3>2
  <2>7. QED BY <2>5, <2>6 DEF UnitsAnnounced, UnitsIn
<1>4. QED BY <1>2, <1>3, SentSame

(* Refused pushes and the counters of the two lanes go together. *)
LEMMA DropsStep ==
  ASSUME Types, Opened, IsFiniteSet(overflow), DropsAccounted, Next
  PROVE  IsFiniteSet(overflow') /\ DropsAccounted'
<1> DEFINE Refused(l) == {i \in overflow : LaneOf[i] = l}
<1>1. \A l \in Lane : dropped[l] \in Nat /\ warned[l] \in Nat /\ dropped[l] + warned[l] = Cardinality(Refused(l))
  BY DEF Types, DropsAccounted
<1>2. CASE UNCHANGED <<dropped, warned, overflow>>
  BY <1>2 DEF DropsAccounted
<1>3. ASSUME NEW i \in Item, Push(i), dropped' = [dropped EXCEPT ![LaneOf[i]] = @ + 1],
             overflow' = overflow \cup {i}
      PROVE  IsFiniteSet(overflow') /\ DropsAccounted'
  <2>1. IsFiniteSet(overflow') /\ i \notin overflow /\ warned' = warned
    BY <1>3, FS_AddElement DEF Push, Types
  <2>2. ASSUME NEW l \in Lane
        PROVE  dropped'[l] + warned'[l] = Cardinality({x \in overflow' : LaneOf[x] = l})
    <3>1. CASE l = LaneOf[i]
      <4>1. {x \in overflow' : LaneOf[x] = l} = Refused(l) \cup {i}
        BY <1>3, <3>1
      <4>2. IsFiniteSet(Refused(l)) /\ i \notin Refused(l)
        <5>1. Refused(l) \subseteq overflow
          OBVIOUS
        <5>2. QED BY <2>1, <5>1, FS_Subset
      <4> HIDE DEF Refused
      <4>3. Cardinality(Refused(l) \cup {i}) = Cardinality(Refused(l)) + 1
        BY <4>2, FS_AddElement
      <4>4. dropped'[l] = dropped[l] + 1
        BY <1>3, <3>1 DEF Types
      <4>5. /\ dropped[l] \in Nat /\ warned[l] \in Nat
            /\ dropped[l] + warned[l] = Cardinality(Refused(l))
        BY <1>1
      <4>6. dropped[l] + 1 + warned[l] = Cardinality(Refused(l)) + 1
        BY <4>5
      <4>7. QED BY <2>1, <4>1, <4>3, <4>4, <4>6
    <3>2. CASE l # LaneOf[i]
      <4>1. {x \in overflow' : LaneOf[x] = l} = Refused(l)
        BY <1>3, <3>2
      <4>2. dropped'[l] = dropped[l]
        BY <1>3, <3>2 DEF Types
      <4>3. QED BY <1>1, <2>1, <4>1, <4>2
    <3>3. QED BY <3>1, <3>2
  <2>3. QED BY <2>1, <2>2 DEF DropsAccounted
<1>4. CASE DropTick
  <2>1. /\ overflow' = overflow /\ warned' = [l \in Lane |-> warned[l] + dropped[l]]
        /\ dropped' = [l \in Lane |-> 0]
    BY <1>4 DEF DropTick
  <2>2. ASSUME NEW l \in Lane
        PROVE  dropped'[l] + warned'[l] = dropped[l] + warned[l]
    <3>1. dropped'[l] = 0 /\ warned'[l] = warned[l] + dropped[l]
      BY <2>1
    <3>2. dropped[l] \in Nat /\ warned[l] \in Nat
      BY <1>1
    <3>3. QED BY <3>1, <3>2
  <2>3. QED BY <1>1, <2>1, <2>2 DEF DropsAccounted
<1>5. ASSUME NEW i \in Item, Push(i)
      PROVE  \/ UNCHANGED <<dropped, warned, overflow>>
             \/ dropped' = [dropped EXCEPT ![LaneOf[i]] = @ + 1] /\ overflow' = overflow \cup {i}
  BY <1>5 DEF Push
<1>6. ASSUME ~DropTick, ~(\E i \in Item : Push(i))
      PROVE  UNCHANGED <<dropped, warned, overflow>>
  <2>1. CASE Leave \/ SessionFails BY <2>1, EndFacts
  <2>2. CASE ~(Leave \/ SessionFails)
    BY <1>6, <2>2 DEF Next, Uploader, Quit, Connect, Wake, Open, OpenFails, FlushTick, DrainEvent,
              EventsDrained, DrainFrame, FramesDrained, Send, ReadAck, Break, IngestTask, Ingest,
              IngestClosed, Ack, StreamEnds, StreamErrs, CollectorCloses, CollectorExits, CollectorStarts, Ended,
              agent, history, vars
  <2>3. QED BY <2>1, <2>2
<1>7. QED BY <1>2, <1>3, <1>4, <1>5, <1>6

----------------------------------------------------------------------------
(* The counters of a session and its events. *)

BalanceOf(n) ==
  link[n] = "open" /\ task[n] # "ended" =>
    count[n].accepted + count[n].dropped + Cardinality(EventsIn(wire[n]))
      = Cardinality(EventsIn(sent[n]))

(* Two sets without a common member. *)
LEMMA DisjointCount ==
  ASSUME NEW S, NEW T, IsFiniteSet(S), IsFiniteSet(T), S \cap T = {}
  PROVE  /\ Cardinality(S \cup T) = Cardinality(S) + Cardinality(T)
         /\ Cardinality(S) \in Nat /\ Cardinality(T) \in Nat
<1>1. Cardinality(S) \in Nat /\ Cardinality(T) \in Nat /\ Cardinality(S \cap T) = 0
  BY FS_CardinalityType, FS_EmptySet
<1>2. Cardinality(S \cup T) = Cardinality(S) + Cardinality(T) - Cardinality(S \cap T)
  BY FS_Union
<1>3. QED BY <1>1, <1>2

(* A step that leaves a session's events and counters alone. *)
LEMMA BalanceSame ==
  ASSUME NEW n \in Session, BalanceOf(n), UNCHANGED <<wire[n], sent[n], count[n]>>,
         link'[n] = "open" => link[n] = "open", task'[n] # "ended" => task[n] # "ended"
  PROVE  BalanceOf(n)'
BY DEF BalanceOf, EventsIn

(* Send adds the events of the batch to both sides: none was sent before.   *)
LEMMA SendBalance ==
  ASSUME Types, Opened, SentOnce, Streams, Send, NEW c, c = cur, BalanceOf(c)
  PROVE  BalanceOf(c)'
<1> SUFFICES ASSUME link'[c] = "open", task'[c] # "ended"
             PROVE  count'[c].accepted + count'[c].dropped + Cardinality(EventsIn(wire'[c]))
                      = Cardinality(EventsIn(sent'[c]))
  BY DEF BalanceOf, EventsIn
<1>1. /\ c \in Session /\ batch \in Batches /\ UNCHANGED <<link, task, count>>
      /\ wire[c] \in Seq(Batches) /\ wire'[c] = Append(wire[c], batch)
      /\ sent[c] \in Seq(Batches) /\ sent'[c] = Append(sent[c], batch)
  BY SendFacts
<1> DEFINE E == ToSet(batch.events)
           W == EventsIn(wire[c])
           S == EventsIn(sent[c])
<1>2. EventsIn(wire'[c]) = W \cup E /\ EventsIn(sent'[c]) = S \cup E
  BY <1>1, QueueFacts
<1>3. IsFiniteSet(E) /\ IsFiniteSet(W) /\ IsFiniteSet(S)
  <2>1. batch.events \in Seq(Item)
    BY <1>1, BatchFacts
  <2>2. QED BY <1>1, <2>1, OnceCount, EventsFinite
<1>4. E \subseteq ItemsOf(batch)
  BY DEF ItemsOf
<1>5. S \cap E = {}
  <2>1. ASSUME NEW x \in S, x \in E PROVE FALSE
    <3>1. PICK k \in 1..Len(sent[c]) : x \in ToSet(sent[c][k].events)
      BY <1>1, ItemsInFacts
    <3>2. x \in ItemsOf(sent[c][k]) /\ x \in ItemsOf(batch)
      BY <1>4, <2>1, <3>1 DEF ItemsOf
    <3>3. QED BY <1>1, <3>2 DEF SentOnce
  <2>2. QED BY <2>1
<1>6. W \subseteq S
  <2> SUFFICES ASSUME NEW x \in W PROVE x \in S
    OBVIOUS
  <2>1. PICK k \in 1..Len(wire[c]) : x \in ToSet(wire[c][k].events)
    BY <1>1, ItemsInFacts
  <2>2. PICK o \in Len(taken[c])..Len(sent[c]) :
          o + Len(wire[c]) <= Len(sent[c]) /\ wire[c][k] = sent[c][o + k]
    BY <1>1 DEF Streams, StreamOf
  <2>3. Len(wire[c]) \in Nat /\ Len(sent[c]) \in Nat /\ Len(taken[c]) \in Nat
    BY <1>1, StreamTypes
  <2>4. o + k \in 1..Len(sent[c])
    BY <2>2, <2>3
  <2>5. QED BY <1>1, <2>1, <2>2, <2>4, ItemsInFacts
<1>7. W \cap E = {}
  BY <1>5, <1>6
<1> HIDE DEF E, W, S
<1>8. /\ Cardinality(W \cup E) = Cardinality(W) + Cardinality(E)
      /\ Cardinality(S \cup E) = Cardinality(S) + Cardinality(E)
      /\ Cardinality(W) \in Nat /\ Cardinality(E) \in Nat /\ Cardinality(S) \in Nat
  BY <1>3, <1>5, <1>7, DisjointCount
<1>9. count[c].accepted + count[c].dropped + Cardinality(W) = Cardinality(S)
  BY <1>1 DEF BalanceOf, W, S
<1>10. count[c].accepted \in Nat /\ count[c].dropped \in Nat /\ count'[c] = count[c]
  BY <1>1 DEF Types
<1>11. QED BY <1>2, <1>8, <1>9, <1>10

(* Ingest moves the events of the first batch from the wire to a counter:   *)
(* they occur in no later batch, and none of them twice in this one.        *)
LEMMA IngestBalance ==
  ASSUME Types, Opened, SentOnce, Streams, NEW n \in Session, Ingest(n), BalanceOf(n)
  PROVE  BalanceOf(n)'
<1> SUFFICES ASSUME link'[n] = "open", task'[n] # "ended"
             PROVE  count'[n].accepted + count'[n].dropped + Cardinality(EventsIn(wire'[n]))
                      = Cardinality(EventsIn(sent'[n]))
  BY DEF BalanceOf, EventsIn
<1> DEFINE q == wire[n]
           h == Head(wire[n])
           r == Len(h.events)
           E == ToSet(h.events)
           T == EventsIn(Tail(wire[n]))
<1>1. /\ q \in Seq(Batches) /\ q # <<>> /\ wire'[n] = Tail(q) /\ sent'[n] = sent[n]
      /\ task[n] = "recv" /\ link[n] = "open"
  BY DEF Ingest, Types
<1>2. \/ count'[n] = [count[n] EXCEPT !.accepted = @ + r]
      \/ count'[n] = [count[n] EXCEPT !.dropped = @ + r]
  BY DEF Ingest, Rows, Types
<1>3. /\ h \in Batches /\ h = q[1] /\ 1 \in 1..Len(q) /\ Tail(q) \in Seq(Batches)
      /\ Len(Tail(q)) = Len(q) - 1 /\ Len(q) \in Nat \ {0}
      /\ \A k \in 1..Len(Tail(q)) : k + 1 \in 1..Len(q) /\ Tail(q)[k] = q[k + 1]
      /\ EventsIn(q) = E \cup T
  BY <1>1, HeadFacts
<1>4. h.events \in Seq(Item) /\ r \in Nat
  BY <1>3, BatchFacts
<1>5. PICK o \in Len(taken[n])..Len(sent[n]) :
        o + Len(q) <= Len(sent[n]) /\ \A k \in 1..Len(q) : q[k] = sent[n][o + k]
  BY DEF Streams, StreamOf
<1>6. Len(taken[n]) \in Nat /\ Len(sent[n]) \in Nat
  BY StreamTypes
<1>7. \A k \in 1..Len(q) : o + k \in 1..Len(sent[n])
  <2>1. Len(q) \in Nat /\ o \in Nat
    BY <1>3, <1>6
  <2> HIDE DEF q
  <2>2. QED BY <1>5, <1>6, <2>1
<1>8. IsInjective(h.events)
  BY <1>3, <1>5, <1>7 DEF SentOnce
<1>9. E \cap T = {}
  <2>1. ASSUME NEW x \in T, x \in E PROVE FALSE
    <3>1. PICK k \in 1..Len(Tail(q)) : x \in ToSet(Tail(q)[k].events)
      BY <1>3, ItemsInFacts
    <3>2. k + 1 \in 1..Len(q) /\ x \in ItemsOf(q[k + 1]) /\ x \in ItemsOf(q[1])
      BY <1>3, <2>1, <3>1 DEF ItemsOf
    <3>3. q[k + 1] = sent[n][o + (k + 1)] /\ q[1] = sent[n][o + 1]
          /\ o + (k + 1) \in 1..Len(sent[n]) /\ o + 1 \in 1..Len(sent[n])
      BY <1>3, <1>5, <1>7, <3>2
    <3>4. o + (k + 1) # o + 1
      <4>1. k \in Nat /\ k >= 1 /\ o \in Nat
        BY <1>6
      <4>2. QED BY <4>1
    <3>5. \A i, j \in 1..Len(sent[n]) : i # j => ItemsOf(sent[n][i]) \cap ItemsOf(sent[n][j]) = {}
      BY DEF SentOnce
    <3>6. QED BY <3>2, <3>3, <3>4, <3>5
  <2>2. QED BY <2>1
<1>10. IsFiniteSet(E) /\ Cardinality(E) = r /\ IsFiniteSet(T)
  BY <1>3, <1>4, <1>8, OnceCount, EventsFinite
<1>11. count[n].accepted + count[n].dropped + Cardinality(E \cup T) = Cardinality(EventsIn(sent[n]))
  BY <1>1, <1>3 DEF BalanceOf
<1>12. count[n].accepted \in Nat /\ count[n].dropped \in Nat /\ count[n] \in [accepted : Nat, dropped : Nat]
  BY DEF Types
<1>13. wire'[n] = Tail(wire[n])
  BY <1>1
<1> HIDE DEF E, T, r
<1>14. \/ count'[n].accepted = count[n].accepted + r /\ count'[n].dropped = count[n].dropped
       \/ count'[n].accepted = count[n].accepted /\ count'[n].dropped = count[n].dropped + r
  BY <1>2, <1>12
<1>15. Cardinality(E \cup T) = r + Cardinality(T) /\ Cardinality(T) \in Nat
  BY <1>9, <1>10, DisjointCount
<1>16. count'[n].accepted + count'[n].dropped + Cardinality(T) = Cardinality(EventsIn(sent[n]))
  BY <1>4, <1>11, <1>12, <1>14, <1>15
<1>17. QED BY <1>1, <1>13, <1>16 DEF T

(* Every step keeps the counters of every session balanced. *)
LEMMA BalancedStep ==
  ASSUME Types, Opened, SentOnce, Streams, Balanced, Next
  PROVE  Balanced'
<1> SUFFICES ASSUME NEW n \in Session PROVE BalanceOf(n)'
  BY DEF Balanced, BalanceOf
<1>1. BalanceOf(n)
  BY DEF Balanced, BalanceOf
<1>2. CASE AgentOnly \/ CollectorCloses \/ CollectorStarts
  BY <1>1, <1>2, AgentOnlyFacts, BalanceSame DEF CollectorCloses, CollectorStarts, history
<1>3. CASE Open
  <2>1. /\ cur' = cur + 1 /\ UNCHANGED <<wire, sent, count>> /\ cur \in Nat
        /\ link' = [link EXCEPT ![cur'] = "open"] /\ task' = [task EXCEPT ![cur'] = "recv"]
    BY <1>3, UplinkAssumption DEF Open, history, Types
  <2>2. CASE n = cur'
    <3>1. n > cur
      BY <2>1, <2>2
    <3>2. count'[n] = Zero /\ wire'[n] = <<>> /\ sent'[n] = <<>>
      BY <2>1, <3>1 DEF Opened
    <3>3. EventsIn(<<>>) = {}
      BY DEF EventsIn
    <3>4. count'[n].accepted + count'[n].dropped + Cardinality(EventsIn(wire'[n]))
            = Cardinality(EventsIn(sent'[n]))
      <4>1. count'[n].accepted = 0 /\ count'[n].dropped = 0
        BY <3>2 DEF Zero
      <4>2. Cardinality(EventsIn(wire'[n])) = 0 /\ Cardinality(EventsIn(sent'[n])) = 0
        BY <3>2, <3>3, FS_EmptySet
      <4>3. QED BY <4>1, <4>2
    <3>5. QED BY <3>4 DEF BalanceOf, EventsIn
  <2>3. CASE n # cur'
    <3>1. link'[n] = link[n] /\ task'[n] = task[n]
      BY <2>1, <2>3 DEF Types
    <3>2. QED BY <1>1, <2>1, <3>1, BalanceSame
  <2>4. QED BY <2>2, <2>3
<1>4. CASE Leave \/ SessionFails
  <2>1. /\ UNCHANGED <<sent, count, task>>
        /\ \/ UNCHANGED <<link, acks, wire>>
           \/ cur \in Session /\ Lose(cur, ItemsOf(batch))
    BY <1>4, EndFacts DEF server
  <2>2. CASE UNCHANGED <<link, acks, wire>>
    BY <1>1, <2>1, <2>2, BalanceSame
  <2>3. CASE cur \in Session /\ Lose(cur, ItemsOf(batch))
    <3>1. link'[cur] = "lost" /\ \A m \in Session : m # cur => link'[m] = link[m] /\ wire'[m] = wire[m]
      BY <2>3, LoseFacts
    <3>2. CASE n = cur BY <3>1, <3>2 DEF BalanceOf
    <3>3. CASE n # cur BY <1>1, <2>1, <3>1, <3>3, BalanceSame
    <3>4. QED BY <3>2, <3>3
  <2>4. QED BY <2>1, <2>2, <2>3
<1>5. CASE Send
  <2>1. PICK c : c = cur
    OBVIOUS
  <2>2. /\ c \in Session /\ UNCHANGED <<link, task, count>>
        /\ \A m \in Session : m # c => wire'[m] = wire[m] /\ sent'[m] = sent[m]
    BY <1>5, <2>1, SendFacts
  <2>3. CASE n = c
    <3>1. BalanceOf(c)
      BY <1>1, <2>3
    <3>2. BalanceOf(c)'
      BY <1>5, <2>1, <3>1, SendBalance
    <3>3. QED BY <2>3, <3>2
  <2>4. CASE n # c BY <1>1, <2>2, <2>4, BalanceSame
  <2>5. QED BY <2>3, <2>4
<1>6. ASSUME NEW m \in Session, Break(m) \/ Ingest(m) \/ IngestClosed(m) \/ Ack(m)
                           \/ StreamEnds(m) \/ StreamErrs(m)
      PROVE  BalanceOf(n)'
  <2>1. CASE n # m
    <3>1. CASE Break(m)
      <4>1. link'[n] = link[n] /\ wire'[n] = wire[n] /\ UNCHANGED <<task, count, sent>>
        BY <2>1, <3>1, LoseFacts DEF Break, server
      <4>2. QED BY <1>1, <4>1, BalanceSame
    <3>2. CASE ~Break(m)
      <4>1. UNCHANGED <<link[n], wire[n], task[n], count[n], sent[n]>>
        BY <1>6, <2>1, <3>2 DEF Ingest, IngestClosed, Ack, StreamEnds, StreamErrs, Types, history
      <4>2. QED BY <1>1, <4>1, BalanceSame
    <3>3. QED BY <3>1, <3>2
  <2>2. CASE n = m
    <3>1. CASE Break(n)
      BY <3>1, LoseFacts DEF Break, BalanceOf
    <3>2. CASE Ingest(n)
      BY <1>1, <3>2, IngestBalance
    <3>3. CASE IngestClosed(n) \/ StreamEnds(n) \/ StreamErrs(n)
      <4>1. task'[n] = "ended"
        BY <3>3 DEF IngestClosed, StreamEnds, StreamErrs, Types
      <4>2. QED BY <4>1 DEF BalanceOf
    <3>4. CASE Ack(n)
      <4>1. /\ UNCHANGED <<link, count, sent>>
            /\ task'[n] = "ended" \/ (wire' = wire /\ task[n] = "ack")
        BY <3>4 DEF Ack, Types
      <4>2. CASE task'[n] = "ended" BY <4>2 DEF BalanceOf
      <4>3. CASE wire' = wire /\ task[n] = "ack" BY <1>1, <4>1, <4>3, BalanceSame
      <4>4. QED BY <4>1, <4>2, <4>3
    <3>5. QED BY <1>6, <2>2, <3>1, <3>2, <3>3, <3>4
  <2>3. QED BY <2>1, <2>2
<1>7. CASE CollectorExits
  <2>1. link'[n] # "open"
    BY <1>7 DEF CollectorExits
  <2>2. QED BY <2>1 DEF BalanceOf
<1>8. QED BY <1>2, <1>3, <1>4, <1>5, <1>6, <1>7, NextCases

----------------------------------------------------------------------------
(* IInv is inductive. *)
LEMMA NextIInv == IInv /\ [Next]_vars => IInv'
<1> SUFFICES ASSUME IInv, [Next]_vars PROVE IInv'
  OBVIOUS
<1>1. CASE Next
  <2>1. /\ Types /\ Opened /\ NoLossNoEnd /\ OnePlace /\ SentOnce /\ Streams /\ KeptAll
        /\ GoneForGood
        /\ Interned /\ UnitsAnnounced /\ IsFiniteSet(overflow) /\ DropsAccounted /\ Balanced
    BY DEF IInv
  <2>2. Types' /\ Opened' /\ NoLossNoEnd' /\ OnePlace'
    BY <1>1, <2>1, TypesStep, OpenedStep, NoLossStep, OnePlaceStep
  <2>3. SentOnce' /\ Streams' /\ KeptAll' /\ GoneForGood'
    BY <1>1, <2>1, SentOnceStep, StreamsStep, KeptStep, GoneStep
  <2>4. Interned' /\ UnitsAnnounced'
    BY <1>1, <2>1, InternedStep, UnitsStep
  <2>5. IsFiniteSet(overflow') /\ DropsAccounted' /\ Balanced'
    BY <1>1, <2>1, DropsStep, BalancedStep
  <2>6. QED BY <2>2, <2>3, <2>4, <2>5 DEF IInv
<1>2. CASE UNCHANGED vars
  <2>1. InRing' = InRing /\ OnWire' = OnWire /\ TakenItems' = TakenItems
    BY <1>2 DEF vars, InRing, OnWire, TakenItems, TakenBy
  <2>2. /\ Types' /\ Opened' /\ NoLossNoEnd'
    BY <1>2 DEF IInv, vars, Types, Opened, NoLossNoEnd, InSession
  <2>3. KeptAll' /\ OnePlace' /\ GoneForGood'
    BY <1>2, <2>1 DEF IInv, vars, KeptAll, Kept, OnePlace, GoneForGood, Waiting
  <2>4. SentOnce'
    BY <1>2, <2>1 DEF IInv, vars, SentOnce
  <2>5. Streams'
    BY <1>2 DEF IInv, vars, Streams, StreamOf
  <2>6. Interned' /\ UnitsAnnounced'
    BY <1>2 DEF IInv, vars, Interned, InSession, Told, UnitsAnnounced, AnnouncedBy, UnitsIn
  <2>7. IsFiniteSet(overflow') /\ DropsAccounted' /\ Balanced'
    BY <1>2 DEF IInv, vars, DropsAccounted, Balanced, EventsIn
  <2>8. QED BY <2>2, <2>3, <2>4, <2>5, <2>6, <2>7 DEF IInv
<1>3. QED BY <1>1, <1>2

(* The invariant that carries the results below: where each item is, what   *)
(* each session's stream holds, and what the interner has announced on it.  *)
THEOREM UplinkInvariant == Spec => []IInv
BY InitIInv, NextIInv, PTL DEF Spec

(* Nothing that entered the ring disappears in silence: every item is in    *)
(* the ring, in the batch at hand, on a wire, with the collector, or went   *)
(* with a lost connection or the agent's end (grpc_client.rs: run_session). *)
THEOREM UplinkCustody == Spec => []Custody
<1>1. IInv => Custody
  BY DEF IInv, KeptAll, Kept, NoLossNoEnd, Custody
<1>2. QED BY <1>1, UplinkInvariant, PTL

(* The collector never takes an item twice, whatever connections are lost   *)
(* and however long the task of a lost session goes on (ingest/grpc.rs).    *)
THEOREM UplinkAtMostOnce == Spec => []AtMostOnce
<1>1. IInv => AtMostOnce
  BY OnceTaken DEF IInv
<1>2. QED BY <1>1, UplinkInvariant, PTL

(* The counters of an ack and the events under way make up what the         *)
(* session was sent (ingest/grpc.rs: accepted and dropped).                 *)
THEOREM UplinkBalanced == Spec => []Balanced
<1>1. IInv => Balanced
  BY DEF IInv
<1>2. QED BY <1>1, UplinkInvariant, PTL

(* Each push that a full lane refuses is counted or reported, once          *)
(* (ring.rs: dropped, swapped for zero by the drop tick of run_session).    *)
THEOREM UplinkDropsAccounted == Spec => []DropsAccounted
<1>1. IInv => DropsAccounted
  BY DEF IInv
<1>2. QED BY <1>1, UplinkInvariant, PTL

(* Each session's stream announces a string with or before its first use    *)
(* and never again (intern.rs: record, reset between sessions).             *)
THEOREM UplinkUnitsAnnounced == Spec => []UnitsAnnounced
<1>1. IInv => UnitsAnnounced
  BY DEF IInv
<1>2. QED BY <1>1, UplinkInvariant, PTL
(* The agent's ring, the uploader with its sessions and the tasks of the    *)
(* collector implement the abstract delivery: each item has one fate, which *)
(* is final, and none is lost before a failure (ring.rs, grpc_client.rs,    *)
(* ingest/grpc.rs).                                                         *)
THEOREM UplinkImplementsDelivery == Spec => ImplementsDelivery
<1>1. Init => Promise!Init
  <2>1. ASSUME Init PROVE Waiting = {} /\ \A f : WithFate(f) = {}
    <3>1. InRing = {} /\ OnWire = {}
      BY <2>1 DEF Init, InRing, OnWire, ItemsIn, Lane, ToSet
    <3>2. ItemsOf(batch) = {} /\ \A f : WithFate(f) = {}
      BY <2>1, BatchFacts DEF Init, WithFate
    <3>3. QED BY <3>1, <3>2 DEF Waiting
  <2>2. Init => gone = {} /\ ~(losses > 0 \/ quit)
    BY DEF Init
  <2>3. QED BY <2>1, <2>2 DEF Promise!Init
<1>2. ASSUME IInv, IInv', [Next]_vars
      PROVE  [Promise!Next]_(Promise!vars)
  <2>1. taken' = taken => \A f : WithFate(f)' = WithFate(f)
    BY DEF WithFate
  <2>2. /\ WithFate("ok") \cup WithFate("full") \cup WithFate("closed") \subseteq TakenItems
        /\ TakenItems \subseteq made /\ Waiting \subseteq made /\ gone \subseteq made
    <3>1. \A f : WithFate(f) \subseteq TakenItems
      BY DEF WithFate, TakenItems, TakenBy
    <3>2. TakenItems \subseteq made /\ Waiting \subseteq made /\ gone \subseteq made
      BY <1>2, OnWireFacts, Apart DEF IInv, Waiting, OnePlace, GoneForGood
    <3>3. QED BY <3>1, <3>2
  <2>3. CASE UNCHANGED vars
    <3>1. Waiting' = Waiting
      BY <2>3 DEF vars, Waiting, InRing, OnWire
    <3>2. QED BY <2>1, <2>3, <3>1 DEF vars, Promise!vars
  <2>4. CASE Next
    <3>1. /\ losses \in Nat /\ losses' \in Nat
          /\ losses > 0 \/ quit => losses' > 0 \/ quit'
      <4>1. Types /\ Types' /\ Opened
        BY <1>2 DEF IInv
      <4>2. losses \in Nat /\ losses' \in Nat
        BY <4>1 DEF Types
      <4>3. QED BY <2>4, <4>1, <4>2, StaysBroken
    <3>2. gone' # {} \/ (\E n \in Session : task'[n] = "ended") => losses' > 0 \/ quit'
      BY <1>2, <3>1 DEF IInv, NoLossNoEnd
    <3>3. CASE Enters
      <4>1. PICK i \in Item : i \notin made /\ Waiting' = Waiting \cup {i} /\ UNCHANGED <<taken, gone, losses, quit>>
        BY <3>3 DEF Enters
      <4>2. Promise!Enter(i)
        BY <2>1, <2>2, <4>1 DEF Promise!Enter
      <4>3. QED BY <4>2 DEF Promise!Next
    <3>4. CASE Stays
      <4>1. PICK S \in SUBSET Waiting : Waiting' = Waiting \ S /\ gone' = gone \cup S /\ UNCHANGED taken
        BY <3>4 DEF Stays
      <4>2. CASE losses' > 0 \/ quit'
        <5>1. Promise!Fail(S)
          BY <2>1, <4>1, <4>2 DEF Promise!Fail
        <5>2. QED BY <5>1 DEF Promise!Next
      <4>3. CASE ~(losses' > 0 \/ quit')
        <5>1. S = {} /\ gone' = gone /\ ~(losses > 0 \/ quit)
          BY <3>1, <3>2, <4>1, <4>3
        <5>2. QED BY <2>1, <4>1, <4>3, <5>1 DEF Promise!vars
      <4>4. QED BY <4>2, <4>3
    <3>5. CASE Answered
      <4>1. PICK n \in Session, fate \in {"ok", "full"} :
              /\ wire[n] # <<>> /\ Took(n, fate) /\ ItemsOf(Head(wire[n])) \subseteq Waiting
              /\ Waiting' = Waiting \ ItemsOf(Head(wire[n])) /\ UNCHANGED <<gone, losses, quit>>
        BY <3>5 DEF Answered
      <4> DEFINE S == ItemsOf(Head(wire[n]))
      <4>2. WithFate(fate)' = WithFate(fate) \cup S /\ \A f : f # fate => WithFate(f)' = WithFate(f)
        BY <1>2, <4>1, TookFacts DEF IInv
      <4>3. CASE fate = "ok"
        <5>1. Promise!Take(S)
          BY <4>1, <4>2, <4>3 DEF Promise!Take
        <5>2. QED BY <4>1, <5>1 DEF Promise!Next
      <4>4. CASE fate = "full"
        <5>1. Promise!Refuse(S)
          BY <4>1, <4>2, <4>4 DEF Promise!Refuse
        <5>2. QED BY <4>1, <5>1 DEF Promise!Next
      <4>5. QED BY <4>3, <4>4
    <3>6. CASE Rejected
      <4>1. PICK n \in Session :
              /\ wire[n] # <<>> /\ Took(n, "closed") /\ ItemsIn(wire[n]) \subseteq Waiting
              /\ task'[n] = "ended" /\ Waiting' = Waiting \ ItemsIn(wire[n])
              /\ gone' = gone \cup ItemsIn(Tail(wire[n]))
        BY <3>6 DEF Rejected
      <4> DEFINE S == ItemsIn(wire[n])
      <4>2. /\ WithFate("closed")' = WithFate("closed") \cup ItemsOf(Head(wire[n]))
            /\ \A f : f # "closed" => WithFate(f)' = WithFate(f)
            /\ S = ItemsOf(Head(wire[n])) \cup ItemsIn(Tail(wire[n]))
        BY <1>2, <4>1, TookFacts DEF IInv
      <4>3. losses' > 0 \/ quit'
        BY <3>2, <4>1
      <4> HIDE DEF S
      <4>4. Promise!Fail(S)
        BY <4>1, <4>2, <4>3 DEF Promise!Fail, S
      <4>5. QED BY <4>1, <4>4 DEF Promise!Next, S
    <3>7. QED BY <1>2, <2>4, <3>3, <3>4, <3>5, <3>6, Moves DEF IInv
  <2>5. QED BY <1>2, <2>3, <2>4
<1>3. IInv /\ IInv' /\ [Next]_vars => [Promise!Next]_(Promise!vars)
  BY <1>2
<1>4. QED BY <1>1, <1>3, UplinkInvariant, PTL DEF Spec, ImplementsDelivery, Promise!Spec
=============================================================================
