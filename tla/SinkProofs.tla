---------------------------- MODULE SinkProofs ----------------------------
(* Proofs about Sink for every set of rows, capacity and number of failures. *)
EXTENDS Sink, FiniteSetTheorems, SequenceTheorems, TLAPS

(* No occurrence of a row is in two places: producers send it once, and it  *)
(* moves from the channel to the buffers.                                   *)
Fresh ==
  /\ accepted \subseteq offered
  /\ \A i \in 1..Len(waiters) : waiters[i] \subseteq offered \ accepted
  /\ \A i, j \in 1..Len(waiters) : i # j => waiters[i] \cap waiters[j] = {}
  /\ \A i \in 1..Len(chan) : chan[i] \subseteq accepted \ (pending \cup durable)
  /\ \A i, j \in 1..Len(chan) : i # j => chan[i] \cap chan[j] = {}
  /\ pending \subseteq Absorbed(accepted)
  /\ durable \subseteq Absorbed(accepted)

(* The task's state and what is left for it to do. *)
Lifecycle ==
  /\ closed => waiters = <<>>
  /\ pc \in {"final", "done"} => closed /\ chan = <<>>
  /\ pc = "aborted" => chan = <<>> /\ waiters = <<>> /\ pending = {}

(* In a flush, the tables before step have all their pending rows. *)
Written == Flushing => \A r \in pending : TableOf[r] < step => r \in durable

(* FIFO: the strings a row needs are never behind it. *)
Behind ==
  pc # "aborted" =>
    /\ \A r \in pending \cup durable : needs[r] \subseteq pending \cup durable
    /\ \A i \in 1..Len(chan) : \A r \in chan[i] : \A s \in needs[r] :
         s \in pending \cup durable \/ \E j \in 1..i : s \in chan[j]

NeedsStrings == \A r \in Row : \A s \in needs[r] : TableOf[s] = Strings

(* Copies of a row still pending: one per failure, one more once its table *)
(* has been written in the flush under way.                                *)
PendingCopies ==
  \A r \in pending : copies[r] <= fails \/ (Flushing /\ TableOf[r] < step)

IInv ==
  /\ TypeOK /\ Fresh /\ Lifecycle /\ Custody /\ Written
  /\ NeedsStrings /\ Behind /\ StringsFirst
  /\ CopiesBound /\ PendingCopies

----------------------------------------------------------------------------
(* Facts about sequences of messages. *)

(* Appending a message adds its rows to the rows in the channel. *)
LEMMA RowsInAppend ==
  ASSUME NEW s \in Seq(SUBSET Row), NEW m \in SUBSET Row
  PROVE  /\ Append(s, m) \in Seq(SUBSET Row)
         /\ Len(Append(s, m)) = Len(s) + 1
         /\ \A i \in 1..Len(s) : Append(s, m)[i] = s[i]
         /\ Append(s, m)[Len(s) + 1] = m
         /\ RowsIn(Append(s, m)) = RowsIn(s) \cup m
<1>1. /\ Append(s, m) \in Seq(SUBSET Row)
      /\ Len(Append(s, m)) = Len(s) + 1
      /\ \A i \in 1..Len(s) : Append(s, m)[i] = s[i]
      /\ Append(s, m)[Len(s) + 1] = m
  OBVIOUS
<1>2. ASSUME NEW r PROVE r \in RowsIn(Append(s, m)) <=> r \in RowsIn(s) \cup m
  <2>1. ASSUME NEW i \in 1..Len(s) + 1, r \in Append(s, m)[i]
        PROVE  r \in RowsIn(s) \cup m
    BY <1>1, <2>1 DEF RowsIn
  <2>2. ASSUME r \in RowsIn(s) PROVE r \in RowsIn(Append(s, m))
    BY <1>1, <2>2 DEF RowsIn
  <2>3. ASSUME r \in m PROVE r \in RowsIn(Append(s, m))
    BY <1>1, <2>3 DEF RowsIn
  <2>4. QED BY <1>1, <2>1, <2>2, <2>3 DEF RowsIn
<1>3. QED BY <1>1, <1>2

(* Receiving takes the rows of the head out of the channel. *)
LEMMA RowsInTail ==
  ASSUME NEW s \in Seq(SUBSET Row), s # <<>>
  PROVE  /\ Tail(s) \in Seq(SUBSET Row)
         /\ Len(Tail(s)) = Len(s) - 1
         /\ Len(s) \in Nat \ {0}
         /\ Head(s) = s[1] /\ Head(s) \in SUBSET Row
         /\ \A i \in 1..Len(Tail(s)) : Tail(s)[i] = s[i + 1] /\ i + 1 \in 1..Len(s)
         /\ RowsIn(s) = Head(s) \cup RowsIn(Tail(s))
<1>1. /\ Tail(s) \in Seq(SUBSET Row)
      /\ Len(Tail(s)) = Len(s) - 1
      /\ Len(s) \in Nat \ {0}
      /\ Head(s) = s[1] /\ Head(s) \in SUBSET Row
      /\ \A i \in 1..Len(Tail(s)) : Tail(s)[i] = s[i + 1] /\ i + 1 \in 1..Len(s)
  OBVIOUS
<1>2. ASSUME NEW r PROVE r \in RowsIn(s) <=> r \in Head(s) \cup RowsIn(Tail(s))
  <2>1. ASSUME NEW i \in 1..Len(s), r \in s[i] PROVE r \in Head(s) \cup RowsIn(Tail(s))
    <3>1. CASE i = 1 BY <1>1, <2>1, <3>1
    <3>2. CASE i # 1
      <4>1. i - 1 \in 1..Len(Tail(s)) /\ Tail(s)[i - 1] = s[i]
        BY <1>1, <3>2
      <4>2. QED BY <2>1, <4>1 DEF RowsIn
    <3>3. QED BY <3>1, <3>2
  <2>2. ASSUME r \in Head(s) PROVE r \in RowsIn(s)
    BY <1>1, <2>2 DEF RowsIn
  <2>3. ASSUME NEW i \in 1..Len(Tail(s)), r \in Tail(s)[i] PROVE r \in RowsIn(s)
    BY <1>1, <2>3 DEF RowsIn
  <2>4. QED BY <2>1, <2>2, <2>3 DEF RowsIn
<1>3. QED BY <1>1, <1>2

(* Tables are numbers, so they can be compared with the step of a flush. *)
LEMMA TableNat == \A r \in Row : TableOf[r] \in Nat /\ TableOf[r] <= Spikes
<1>1. \A r \in Row : TableOf[r] \in Metric..Spikes
  BY SinkAssumption
<1>2. QED BY <1>1 DEF Metric, Spikes

----------------------------------------------------------------------------
(* The inductive invariant: it holds initially, and each action keeps it.   *)

(* The task starts with empty buffers and an empty channel. *)
LEMMA InitIInv == Init => IInv
<1> SUFFICES ASSUME Init PROVE IInv
  OBVIOUS
<1>1. durable = {} /\ RowsIn(chan) = {}
  BY DEF Init, durable, RowsIn
<1>2. TypeOK
  <2>1. chan \in Seq(SUBSET Row) /\ Len(chan) = 0 /\ waiters \in Seq(SUBSET Row)
    BY DEF Init
  <2>2. fails \in 0..MaxFails /\ 0 <= ChanCap /\ step \in Strings..Spikes
    BY SinkAssumption DEF Init, Strings, Spikes
  <2>3. QED BY <2>1, <2>2 DEF Init, TypeOK
<1>3. Fresh /\ Lifecycle /\ Custody /\ Written
  BY <1>1 DEF Init, Fresh, Lifecycle, Custody, Written, Absorbed, Flushing
<1>4. NeedsStrings /\ Behind /\ StringsFirst
  BY <1>1 DEF Init, NeedsStrings, Behind, StringsFirst
<1>5. CopiesBound /\ PendingCopies
  BY DEF Init, CopiesBound, PendingCopies
<1>6. QED BY <1>2, <1>3, <1>4, <1>5 DEF IInv

(* A message enters a channel that has room. *)
LEMMA EnterIInv ==
  ASSUME IInv, NEW m \in SUBSET Row, ~closed, m \cap offered = {},
         offered' = offered \cup m, pc # "aborted", HasRoom, Enter(m),
         UNCHANGED <<waiters, pending, pc, step, closed, copies, fails>>
  PROVE  IInv'
<1> USE DEF IInv
<1>0. durable' = durable
  BY DEF durable
<1>1. /\ chan' \in Seq(SUBSET Row)
      /\ Len(chan') = Len(chan) + 1
      /\ \A i \in 1..Len(chan) : chan'[i] = chan[i]
      /\ chan'[Len(chan) + 1] = m
      /\ RowsIn(chan') = RowsIn(chan) \cup m
  <2>1. chan' = Append(chan, m) /\ chan \in Seq(SUBSET Row)
    BY DEF Enter, TypeOK
  <2>2. QED BY <2>1, RowsInAppend
<1>2. accepted' = accepted \cup m /\ m \cap accepted = {}
  BY DEF Enter, Accept, Fresh
<1>3. /\ \A r \in m : needs'[r] = InTable(accepted \cup m, Strings)
      /\ \A r \in Row \ m : needs'[r] = needs[r]
      /\ needs' \in [Row -> SUBSET Row]
  BY DEF Enter, Accept, NeedsWith, TypeOK, InTable
<1>4. TypeOK'
  BY <1>1, <1>2, <1>3, SinkAssumption DEF TypeOK, HasRoom
<1>5. Fresh'
  <2>1. (accepted \subseteq offered)'
    BY <1>2 DEF Fresh
  <2>2. (\A i \in 1..Len(waiters) : waiters[i] \subseteq offered \ accepted)'
    BY <1>2 DEF HasRoom
  <2>3. (\A i, j \in 1..Len(waiters) : i # j => waiters[i] \cap waiters[j] = {})'
    BY DEF HasRoom
  <2>4. (\A i \in 1..Len(chan) : chan[i] \subseteq accepted \ (pending \cup durable))'
    <3>1. m \cap (pending \cup durable) = {}
      BY DEF Fresh, Absorbed
    <3>2. QED BY <1>0, <1>1, <1>2, <3>1 DEF Fresh, TypeOK
  <2>5. (\A i, j \in 1..Len(chan) : i # j => chan[i] \cap chan[j] = {})'
    <3>1. \A i \in 1..Len(chan) : chan[i] \cap m = {}
      BY <1>2 DEF Fresh
    <3>2. QED BY <1>1, <3>1 DEF Fresh, TypeOK
  <2>6. (pending \subseteq Absorbed(accepted) /\ durable \subseteq Absorbed(accepted))'
    BY <1>0, <1>2 DEF Fresh, Absorbed
  <2>7. QED BY <2>1, <2>2, <2>3, <2>4, <2>5, <2>6 DEF Fresh
<1>6. Lifecycle'
  BY DEF Lifecycle
<1>7. Custody'
  BY <1>0, <1>1, <1>2 DEF Custody, Absorbed
<1>8. Written'
  BY <1>0 DEF Written, Flushing
<1>9. NeedsStrings'
  BY <1>3 DEF NeedsStrings, InTable
<1>10. Behind'
  <2>1. \A r \in pending \cup durable : needs'[r] = needs[r]
    BY <1>2, <1>3 DEF Fresh, Absorbed, TypeOK, durable
  <2>2. ASSUME NEW i \in 1..Len(chan'), NEW r \in chan'[i], NEW s \in needs'[r]
        PROVE  s \in pending \cup durable \/ \E j \in 1..i : s \in chan'[j]
    <3>1. CASE i \in 1..Len(chan)
      <4>1. r \in chan[i] /\ r \notin m /\ r \in Row
        BY <1>1, <1>2, <3>1 DEF Fresh, TypeOK
      <4>2. s \in needs[r]
        BY <1>3, <4>1
      <4>3. s \in pending \cup durable \/ \E j \in 1..i : s \in chan[j]
        BY <3>1, <4>1, <4>2 DEF Behind
      <4>4. ASSUME NEW j \in 1..i PROVE chan'[j] = chan[j]
        BY <1>1, <3>1 DEF TypeOK
      <4>5. QED BY <4>3, <4>4
    <3>2. CASE i = Len(chan) + 1
      <4>1. s \in Absorbed(accepted) \cup m
        BY <1>1, <1>3, <3>2 DEF InTable, Absorbed, Strings, Metric
      <4>2. s \in RowsIn(chan') \cup pending \cup durable
        BY <1>1, <4>1 DEF Custody
      <4>3. QED BY <1>1, <3>2, <4>2 DEF RowsIn
    <3>3. QED BY <1>1, <3>1, <3>2 DEF TypeOK
  <2>3. QED BY <1>0, <2>1, <2>2 DEF Behind
<1>11. StringsFirst'
  BY <1>0, <1>2, <1>3 DEF StringsFirst, Fresh, Absorbed, durable
<1>12. CopiesBound' /\ PendingCopies'
  BY DEF CopiesBound, PendingCopies, Flushing
<1>13. QED
  BY <1>4, <1>5, <1>6, <1>7, <1>8, <1>9, <1>10, <1>11, <1>12

(* A message is refused, or a sender starts or stops waiting. *)
LEMMA OfferIInv ==
  ASSUME IInv, NEW m \in SUBSET Row, offered' = offered \cup m,
         waiters' \in Seq(SUBSET Row),
         \A i \in 1..Len(waiters') : waiters'[i] \subseteq offered' \ accepted,
         \A i, j \in 1..Len(waiters') : i # j => waiters'[i] \cap waiters'[j] = {},
         closed => waiters' = <<>>,
         pc = "aborted" => waiters' = <<>>,
         UNCHANGED <<chan, pending, pc, step, closed, copies, fails, accepted, needs>>
  PROVE  IInv'
<1> USE DEF IInv
<1>0. durable' = durable /\ RowsIn(chan') = RowsIn(chan)
  BY DEF durable
<1>1. TypeOK'
  BY DEF TypeOK
<1>2. Fresh'
  BY <1>0 DEF Fresh, Absorbed
<1>3. Lifecycle' /\ Custody' /\ Written'
  BY <1>0 DEF Lifecycle, Custody, Written, Flushing, Absorbed
<1>4. NeedsStrings' /\ Behind' /\ StringsFirst'
  BY <1>0 DEF NeedsStrings, Behind, StringsFirst
<1>5. CopiesBound' /\ PendingCopies'
  BY DEF CopiesBound, PendingCopies, Flushing
<1>6. QED BY <1>1, <1>2, <1>3, <1>4, <1>5

(* Every action of a producer keeps the invariant. *)
LEMMA ProduceIInv ==
  ASSUME IInv, Produce PROVE IInv'
<1>1. ASSUME NEW m \in SUBSET Row, ~closed, m \cap offered = {},
             offered' = offered \cup m,
             UNCHANGED <<chan, waiters, pending, pc, step, closed, copies, fails, accepted, needs>>
      PROVE  IInv'
  <2>1. waiters' \in Seq(SUBSET Row) /\ waiters' = waiters
    BY <1>1 DEF IInv, TypeOK
  <2>2. QED BY <1>1, <2>1, OfferIInv DEF IInv, Fresh, Lifecycle
<1>2. ASSUME NEW m \in SUBSET Row, Send(m) PROVE IInv'
  <2>1. CASE pc # "aborted" /\ HasRoom
    BY <1>2, <2>1, EnterIInv DEF Send
  <2>2. CASE pc # "aborted" /\ ~HasRoom
    <3>1. waiters' = Append(waiters, m) /\ waiters \in Seq(SUBSET Row)
      BY <1>2, <2>2 DEF Send, IInv, TypeOK
    <3>2. /\ waiters' \in Seq(SUBSET Row)
          /\ Len(waiters') = Len(waiters) + 1
          /\ \A i \in 1..Len(waiters) : waiters'[i] = waiters[i]
          /\ waiters'[Len(waiters) + 1] = m
      BY <3>1, RowsInAppend
    <3>3. offered' = offered \cup m /\ m \cap offered = {} /\ ~closed
      BY <1>2 DEF Send
    <3>4. \A i \in 1..Len(waiters) : waiters[i] \subseteq offered /\ waiters[i] \cap accepted = {}
      BY DEF IInv, Fresh
    <3>5. m \cap accepted = {}
      BY <3>3 DEF IInv, Fresh
    <3>6. \A i \in 1..Len(waiters') : waiters'[i] \subseteq offered' \ accepted
      BY <3>1, <3>2, <3>3, <3>4, <3>5
    <3>7. \A i, j \in 1..Len(waiters') : i # j => waiters'[i] \cap waiters'[j] = {}
      <4>1. \A i \in 1..Len(waiters) : waiters[i] \cap m = {}
        BY <3>3, <3>4
      <4>2. \A i, j \in 1..Len(waiters) : i # j => waiters[i] \cap waiters[j] = {}
        BY DEF IInv, Fresh
      <4>3. QED BY <3>1, <3>2, <4>1, <4>2
    <3>8. QED BY <1>2, <2>2, <3>2, <3>3, <3>6, <3>7, OfferIInv DEF Send
  <2>3. CASE pc = "aborted"
    BY <1>1, <1>2, <2>3 DEF Send
  <2>4. QED BY <2>1, <2>2, <2>3
<1>3. ASSUME NEW m \in Batch, TryPush(m) PROVE IInv'
  <2>1. m \in SUBSET Row
    BY SinkAssumption
  <2>2. CASE pc # "aborted" /\ HasRoom
    BY <1>3, <2>1, <2>2, EnterIInv DEF TryPush
  <2>3. CASE ~(pc # "aborted" /\ HasRoom)
    BY <1>1, <1>3, <2>1, <2>3 DEF TryPush
  <2>4. QED BY <2>2, <2>3
<1>4. ASSUME NEW i \in 1..Len(waiters), CancelSend(i) PROVE IInv'
  <2> DEFINE w == SubSeq(waiters, 1, i - 1) \o SubSeq(waiters, i + 1, Len(waiters))
  <2>1. waiters' = w /\ waiters \in Seq(SUBSET Row) /\ Len(waiters) \in Nat
    BY <1>4 DEF CancelSend, IInv, TypeOK
  <2>2. /\ w \in Seq(SUBSET Row)
        /\ Len(w) = Len(waiters) - 1
        /\ \A k \in 1..Len(w) : w[k] = waiters[IF k < i THEN k ELSE k + 1]
    <3>1. /\ SubSeq(waiters, 1, i - 1) \in Seq(SUBSET Row)
          /\ Len(SubSeq(waiters, 1, i - 1)) = i - 1
          /\ \A k \in 1..(i - 1) : SubSeq(waiters, 1, i - 1)[k] = waiters[k]
      BY <2>1
    <3>2. /\ SubSeq(waiters, i + 1, Len(waiters)) \in Seq(SUBSET Row)
          /\ Len(SubSeq(waiters, i + 1, Len(waiters))) = Len(waiters) - i
          /\ \A k \in 1..(Len(waiters) - i) :
               SubSeq(waiters, i + 1, Len(waiters))[k] = waiters[i + k]
      BY <2>1
    <3> DEFINE a == SubSeq(waiters, 1, i - 1)
               b == SubSeq(waiters, i + 1, Len(waiters))
    <3>3. w = a \o b /\ i \in Nat
      OBVIOUS
    <3> HIDE DEF w, a, b
    <3>4. /\ a \in Seq(SUBSET Row) /\ Len(a) = i - 1
          /\ b \in Seq(SUBSET Row) /\ Len(b) = Len(waiters) - i
      BY <3>1, <3>2 DEF a, b
    <3>5. /\ w \in Seq(SUBSET Row) /\ Len(w) = Len(a) + Len(b)
          /\ \A k \in 1..Len(w) : w[k] = IF k <= Len(a) THEN a[k] ELSE b[k - Len(a)]
      <4>1. /\ a \o b \in Seq(SUBSET Row)
            /\ Len(a \o b) = Len(a) + Len(b)
            /\ \A k \in 1..(Len(a) + Len(b)) :
                 (a \o b)[k] = IF k <= Len(a) THEN a[k] ELSE b[k - Len(a)]
        BY <3>4, ConcatProperties
      <4>2. QED BY <3>3, <4>1
    <3>6. ASSUME NEW k \in 1..Len(w) PROVE w[k] = waiters[IF k < i THEN k ELSE k + 1]
      <4>1. CASE k < i
        BY <2>1, <3>1, <3>3, <3>4, <3>5, <4>1 DEF a
      <4>2. CASE ~(k < i)
        <5>1. k - Len(a) \in 1..(Len(waiters) - i) /\ i + (k - Len(a)) = k + 1 /\ ~(k <= Len(a))
          BY <2>1, <3>3, <3>4, <3>5, <4>2
        <5>2. b[k - Len(a)] = waiters[i + (k - Len(a))]
          BY <3>2, <5>1 DEF b
        <5>3. QED BY <3>5, <4>2, <5>1, <5>2
      <4>3. QED BY <4>1, <4>2
    <3>7. Len(w) = Len(waiters) - 1
      BY <2>1, <3>3, <3>4, <3>5
    <3>8. QED BY <3>5, <3>6, <3>7
  <2> HIDE DEF w
  <2>3. ASSUME NEW k \in 1..Len(w)
        PROVE  (IF k < i THEN k ELSE k + 1) \in 1..Len(waiters)
    BY <2>1, <2>2
  <2>4. \A k \in 1..Len(w) : w[k] \subseteq offered \ accepted
    BY <2>2, <2>3 DEF IInv, Fresh
  <2>5. \A j, k \in 1..Len(w) : j # k => w[j] \cap w[k] = {}
    <3>1. SUFFICES ASSUME NEW j \in 1..Len(w), NEW k \in 1..Len(w), j # k
                   PROVE  w[j] \cap w[k] = {}
      OBVIOUS
    <3> DEFINE jj == IF j < i THEN j ELSE j + 1
               kk == IF k < i THEN k ELSE k + 1
    <3>2. jj \in 1..Len(waiters) /\ kk \in 1..Len(waiters) /\ jj # kk
      BY <2>1, <2>3, <3>1
    <3>3. QED BY <2>2, <3>2 DEF IInv, Fresh
  <2>6. ~closed /\ pc # "aborted"
    BY <2>1 DEF IInv, Lifecycle
  <2>7. offered' = offered \cup {} /\ {} \in SUBSET Row
    BY <1>4 DEF CancelSend
  <2>8. UNCHANGED <<chan, pending, pc, step, closed, copies, fails, accepted, needs, offered>>
    BY <1>4 DEF CancelSend
  <2>9. QED BY <2>1, <2>2, <2>4, <2>5, <2>6, <2>7, <2>8, OfferIInv
<1>5. ASSUME Close PROVE IInv'
  <2>0. durable' = durable /\ RowsIn(chan') = RowsIn(chan)
    BY <1>5 DEF Close, durable
  <2>1. TypeOK' /\ Fresh' /\ Lifecycle'
    BY <1>5, <2>0 DEF Close, IInv, TypeOK, Fresh, Lifecycle, Absorbed
  <2>2. Custody' /\ Written' /\ NeedsStrings' /\ Behind' /\ StringsFirst'
    BY <1>5, <2>0 DEF Close, IInv, Custody, Written, NeedsStrings, Behind, StringsFirst,
                      Flushing, Absorbed
  <2>3. CopiesBound' /\ PendingCopies'
    BY <1>5 DEF Close, IInv, CopiesBound, PendingCopies, Flushing
  <2>4. QED BY <2>1, <2>2, <2>3 DEF IInv
<1>6. QED
  BY <1>2, <1>3, <1>4, <1>5 DEF Produce, PushKernelSol, PushSpike

(* RecvNone and Tick only start a flush. *)
LEMMA StartFlushIInv ==
  ASSUME IInv, RecvNone \/ Tick PROVE IInv'
<1> USE DEF IInv
<1>0. /\ UNCHANGED <<chan, waiters, pending, closed, copies, fails, offered, accepted, needs>>
      /\ pc = "select" /\ pc' \in {"flush", "final"} /\ step' = Strings
      /\ pc' = "final" => closed /\ chan = <<>>
  BY DEF RecvNone, Tick, StartFlush
<1>1. durable' = durable /\ RowsIn(chan') = RowsIn(chan)
  BY <1>0 DEF durable
<1>2. TypeOK' /\ Fresh' /\ Lifecycle'
  BY <1>0, <1>1 DEF TypeOK, Fresh, Lifecycle, Absorbed, Strings, Spikes
<1>3. Written'
  <2>1. \A r \in pending : TableOf[r] \in Metric..Spikes /\ TableOf[r] # Metric
    BY SinkAssumption DEF Fresh, Absorbed, TypeOK
  <2>2. \A r \in pending' : ~(TableOf[r] < step')
    BY <1>0, <2>1 DEF Strings, Metric, Spikes
  <2>3. QED BY <2>2 DEF Written
<1>4. Custody' /\ NeedsStrings' /\ Behind' /\ StringsFirst'
  BY <1>0, <1>1 DEF Custody, NeedsStrings, Behind, StringsFirst, Absorbed
<1>5. CopiesBound' /\ PendingCopies'
  BY <1>0 DEF CopiesBound, PendingCopies, Flushing
<1>6. QED BY <1>2, <1>3, <1>4, <1>5

(* What the head of the channel looks like when it is absorbed, and the     *)
(* channel without it: used by Recv with and without a waiting sender.      *)
LEMMA RecvFacts ==
  ASSUME IInv, Recv
  PROVE  /\ durable' = durable
         /\ pending' = pending \cup Absorbed(chan[1])
         /\ chan[1] \in SUBSET accepted /\ chan[1] \cap durable = {}
         /\ \A i \in 1..Len(Tail(chan)) :
              Tail(chan)[i] \subseteq accepted \ (pending' \cup durable)
         /\ \A i, j \in 1..Len(Tail(chan)) :
              i # j => Tail(chan)[i] \cap Tail(chan)[j] = {}
         /\ Absorbed(accepted) \subseteq RowsIn(Tail(chan)) \cup pending' \cup durable
         /\ \A r \in pending' \cup durable : needs[r] \subseteq pending' \cup durable
         /\ \A i \in 1..Len(Tail(chan)) : \A r \in Tail(chan)[i] : \A s \in needs[r] :
              s \in pending' \cup durable \/ \E j \in 1..i : s \in Tail(chan)[j]
<1> USE DEF IInv
<1>1. /\ chan # <<>> /\ chan \in Seq(SUBSET Row) /\ pc = "select"
      /\ pending' = pending \cup Absorbed(Head(chan))
      /\ durable' = durable
  BY DEF Recv, TypeOK, durable
<1>2. /\ Tail(chan) \in Seq(SUBSET Row)
      /\ Len(Tail(chan)) = Len(chan) - 1
      /\ Len(chan) \in Nat \ {0}
      /\ Head(chan) = chan[1] /\ Head(chan) \in SUBSET Row
      /\ \A i \in 1..Len(Tail(chan)) : Tail(chan)[i] = chan[i + 1] /\ i + 1 \in 1..Len(chan)
      /\ RowsIn(chan) = Head(chan) \cup RowsIn(Tail(chan))
  BY <1>1, RowsInTail
<1>3. 1 \in 1..Len(chan) /\ pending' = pending \cup Absorbed(chan[1])
  BY <1>1, <1>2
<1>4. chan[1] \in SUBSET accepted /\ chan[1] \cap (pending \cup durable) = {}
  BY <1>3 DEF Fresh
<1>5. ASSUME NEW i \in 1..Len(Tail(chan))
      PROVE  Tail(chan)[i] \subseteq accepted \ (pending' \cup durable)
  <2>1. i + 1 \in 1..Len(chan) /\ i + 1 # 1 /\ Tail(chan)[i] = chan[i + 1]
    BY <1>2
  <2>2. chan[i + 1] \cap chan[1] = {}
    BY <1>3, <2>1 DEF Fresh
  <2>3. QED BY <1>3, <2>1, <2>2 DEF Fresh, Absorbed
<1>6. ASSUME NEW i \in 1..Len(Tail(chan)), NEW j \in 1..Len(Tail(chan)), i # j
      PROVE  Tail(chan)[i] \cap Tail(chan)[j] = {}
  <2>1. /\ i + 1 \in 1..Len(chan) /\ Tail(chan)[i] = chan[i + 1]
        /\ j + 1 \in 1..Len(chan) /\ Tail(chan)[j] = chan[j + 1]
        /\ i + 1 # j + 1
    BY <1>2, <1>6
  <2>2. QED BY <2>1 DEF Fresh
<1>7. Absorbed(accepted) \subseteq RowsIn(Tail(chan)) \cup pending' \cup durable
  BY <1>1, <1>2 DEF Custody, Absorbed
<1>8. ASSUME NEW i \in 1..Len(chan), NEW r \in chan[i], NEW s \in needs[r]
      PROVE  s \in pending' \cup durable \/ \E j \in 1..i : j # 1 /\ s \in chan[j]
  <2>1. s \in pending \cup durable \/ \E j \in 1..i : s \in chan[j]
    BY <1>1, <1>8 DEF Behind
  <2>2. r \in Row
    BY <1>1
  <2>3. s \notin Absorbed(chan[1]) => s \notin chan[1]
    BY <2>2 DEF NeedsStrings, Absorbed, Strings, Metric
  <2>4. QED BY <1>3, <2>1, <2>3
<1>9. ASSUME NEW r \in pending' \cup durable PROVE needs[r] \subseteq pending' \cup durable
  <2>1. CASE r \in pending \cup durable
    BY <1>1, <1>3, <2>1 DEF Behind
  <2>2. CASE r \in chan[1]
    <3>1. ASSUME NEW s \in needs[r] PROVE s \in pending' \cup durable
      BY <1>3, <1>8, <2>2
    <3>2. QED BY <3>1
  <2>3. QED BY <1>3, <2>1, <2>2 DEF Absorbed
<1>10. ASSUME NEW i \in 1..Len(Tail(chan)), NEW r \in Tail(chan)[i], NEW s \in needs[r]
       PROVE  s \in pending' \cup durable \/ \E j \in 1..i : s \in Tail(chan)[j]
  <2>1. i + 1 \in 1..Len(chan) /\ r \in chan[i + 1]
    BY <1>2
  <2>2. s \in pending' \cup durable \/ \E j \in 1..(i + 1) : j # 1 /\ s \in chan[j]
    BY <1>8, <2>1
  <2>3. ASSUME NEW j \in 1..(i + 1), j # 1, s \in chan[j]
        PROVE  \E k \in 1..i : s \in Tail(chan)[k]
    <3>1. j - 1 \in 1..i /\ j - 1 \in 1..Len(Tail(chan)) /\ (j - 1) + 1 = j
      BY <1>2, <2>3
    <3>2. QED BY <1>2, <2>3, <3>1
  <2>4. QED BY <2>2, <2>3
<1>11. QED BY <1>1, <1>3, <1>4, <1>5, <1>6, <1>7, <1>9, <1>10

(* The recv arm moves one message into the buffers and lets a waiter in.   *)
LEMMA RecvIInv ==
  ASSUME IInv, Recv PROVE IInv'
<1> USE DEF IInv
<1> DEFINE tl == Tail(chan)
<1>1. /\ chan # <<>> /\ chan \in Seq(SUBSET Row) /\ pc = "select"
      /\ UNCHANGED <<closed, copies, fails, offered>>
  BY DEF Recv, TypeOK
<1>2. /\ tl \in Seq(SUBSET Row) /\ Len(tl) = Len(chan) - 1 /\ Len(chan) \in Nat \ {0}
      /\ Head(chan) = chan[1] /\ Head(chan) \in SUBSET Row
      /\ RowsIn(chan) = Head(chan) \cup RowsIn(tl)
  BY <1>1, RowsInTail
<1>3. /\ durable' = durable
      /\ pending' = pending \cup Absorbed(chan[1])
      /\ chan[1] \in SUBSET accepted /\ chan[1] \cap durable = {}
  BY RecvFacts
<1>4. pc' \in {"select", "flush"} /\ step' \in Strings..Spikes
      /\ (pc' = "flush" => step' = Strings)
  BY <1>1 DEF Recv, StartFlush, TypeOK, Strings, Spikes
<1>5. pending' \in SUBSET Row
  BY <1>2, <1>3 DEF TypeOK, Absorbed
<1>6. Written'
  <2>1. \A r \in pending' : TableOf[r] \in Metric..Spikes /\ TableOf[r] # Metric
    BY <1>3, <1>5, SinkAssumption DEF Fresh, Absorbed
  <2>2. QED BY <1>4, <2>1 DEF Written, Flushing, Strings, Metric, Spikes
<1>7. CopiesBound' /\ PendingCopies'
  <2>1. \A r \in chan[1] : copies[r] = 0
    BY <1>2, <1>3 DEF durable, TypeOK
  <2>2. \A r \in pending' : copies[r] <= fails
    BY <1>1, <1>3, <2>1 DEF PendingCopies, Flushing, Absorbed, TypeOK
  <2>3. QED BY <1>1, <2>2 DEF CopiesBound, PendingCopies
<1>8. CASE waiters = <<>>
  <2>1. chan' = tl /\ UNCHANGED <<waiters, accepted, needs>>
    BY <1>8 DEF Recv
  <2>2. TypeOK'
    BY <1>1, <1>2, <1>4, <1>5, <2>1, SinkAssumption DEF TypeOK
  <2>3. Fresh'
    <3>1. pending' \subseteq Absorbed(accepted)
      BY <1>3 DEF Fresh, Absorbed
    <3>2. QED BY <1>1, <1>3, <1>8, <2>1, <3>1, RecvFacts DEF Fresh, Absorbed
  <2>4. Lifecycle'
    BY <1>1, <1>4, <1>8, <2>1 DEF Lifecycle
  <2>5. Custody'
    BY <2>1, <1>3, RecvFacts DEF Custody, Absorbed
  <2>6. NeedsStrings' /\ StringsFirst'
    BY <1>3, <2>1 DEF NeedsStrings, StringsFirst
  <2>7. Behind'
    BY <1>3, <2>1, RecvFacts DEF Behind
  <2>8. QED BY <1>6, <1>7, <2>2, <2>3, <2>4, <2>5, <2>6, <2>7
<1>9. CASE waiters # <<>>
  <2> DEFINE m == Head(waiters)
  <2>1. chan' = Append(tl, m) /\ waiters' = Tail(waiters) /\ Accept(m)
    BY <1>9 DEF Recv
  <2>2. /\ waiters' \in Seq(SUBSET Row) /\ Len(waiters) \in Nat \ {0}
        /\ Len(waiters') = Len(waiters) - 1
        /\ m = waiters[1] /\ m \in SUBSET Row
        /\ \A i \in 1..Len(waiters') : waiters'[i] = waiters[i + 1] /\ i + 1 \in 1..Len(waiters)
    <3>1. waiters \in Seq(SUBSET Row)
      BY DEF TypeOK
    <3>2. QED BY <1>9, <2>1, <3>1, RowsInTail
  <2>3. /\ chan' \in Seq(SUBSET Row) /\ Len(chan') = Len(tl) + 1
        /\ \A i \in 1..Len(tl) : chan'[i] = tl[i]
        /\ chan'[Len(tl) + 1] = m
        /\ RowsIn(chan') = RowsIn(tl) \cup m
    BY <1>2, <2>1, <2>2, RowsInAppend
  <2>4. /\ accepted' = accepted \cup m /\ m \cap accepted = {} /\ m \subseteq offered
        /\ m \cap (pending' \cup durable) = {}
    <3>1. 1 \in 1..Len(waiters)
      BY <2>2
    <3>2. m \subseteq offered /\ m \cap accepted = {}
      BY <2>2, <3>1 DEF Fresh
    <3>3. pending' \cup durable \subseteq accepted
      BY <1>3 DEF Fresh, Absorbed
    <3>4. QED BY <2>1, <3>2, <3>3 DEF Accept
  <2>5. /\ \A r \in m : needs'[r] = InTable(accepted \cup m, Strings)
        /\ \A r \in Row \ m : needs'[r] = needs[r]
        /\ needs' \in [Row -> SUBSET Row]
    BY <2>1, <2>2 DEF Accept, NeedsWith, TypeOK, InTable
  <2> HIDE DEF m, tl
  <2>6. TypeOK'
    BY <1>1, <1>2, <1>4, <1>5, <2>2, <2>3, <2>4, <2>5 DEF TypeOK
  <2>7. Fresh'
    <3>1. accepted' \subseteq offered'
      BY <1>1, <2>4 DEF Fresh
    <3>2. ASSUME NEW i \in 1..Len(waiters')
          PROVE  waiters'[i] \subseteq offered' \ accepted'
      <4>1. i + 1 \in 1..Len(waiters) /\ i + 1 # 1 /\ 1 \in 1..Len(waiters)
            /\ waiters'[i] = waiters[i + 1]
        BY <2>2
      <4>2. waiters[i + 1] \cap m = {} /\ waiters[i + 1] \subseteq offered \ accepted
        BY <2>2, <4>1 DEF Fresh
      <4>3. QED BY <1>1, <2>4, <4>1, <4>2
    <3>3. ASSUME NEW i \in 1..Len(waiters'), NEW j \in 1..Len(waiters'), i # j
          PROVE  waiters'[i] \cap waiters'[j] = {}
      <4>1. /\ i + 1 \in 1..Len(waiters) /\ waiters'[i] = waiters[i + 1]
            /\ j + 1 \in 1..Len(waiters) /\ waiters'[j] = waiters[j + 1]
            /\ i + 1 # j + 1
        BY <2>2, <3>3
      <4>2. QED BY <4>1 DEF Fresh
    <3>4. /\ \A i \in 1..Len(tl) : tl[i] \subseteq accepted \ (pending' \cup durable)
          /\ \A i, j \in 1..Len(tl) : i # j => tl[i] \cap tl[j] = {}
      BY RecvFacts DEF tl
    <3>5. ASSUME NEW i \in 1..Len(chan')
          PROVE  chan'[i] \subseteq accepted' \ (pending' \cup durable')
      BY <1>2, <1>3, <2>3, <2>4, <3>4
    <3>6. ASSUME NEW i \in 1..Len(chan'), NEW j \in 1..Len(chan'), i # j
          PROVE  chan'[i] \cap chan'[j] = {}
      <4>1. \A k \in 1..Len(tl) : tl[k] \cap m = {}
        BY <2>4, <3>4
      <4>2. QED BY <1>2, <2>3, <3>4, <3>6, <4>1
    <3>7. pending' \subseteq Absorbed(accepted') /\ durable' \subseteq Absorbed(accepted')
      BY <1>3, <2>4 DEF Fresh, Absorbed
    <3>8. QED BY <3>1, <3>2, <3>3, <3>5, <3>6, <3>7 DEF Fresh, Absorbed
  <2>8. Lifecycle'
    BY <1>1, <1>4, <1>9 DEF Lifecycle
  <2>9. Custody'
    <3>1. Absorbed(accepted) \subseteq RowsIn(tl) \cup pending' \cup durable
      BY RecvFacts DEF tl
    <3>2. QED BY <1>3, <2>3, <2>4, <3>1 DEF Custody, Absorbed
  <2>10. NeedsStrings'
    BY <2>5 DEF NeedsStrings, InTable
  <2>11. StringsFirst'
    <3>1. \A r \in durable : needs'[r] = needs[r]
      BY <2>4, <2>5 DEF durable
    <3>2. QED BY <1>3, <3>1 DEF StringsFirst
  <2>12. Behind'
    <3>1. ASSUME NEW r \in pending' \cup durable
          PROVE  needs'[r] \subseteq pending' \cup durable
      <4>1. r \in Row \ m
        BY <1>5, <2>4 DEF durable
      <4>2. QED BY <2>5, <4>1, RecvFacts
    <3>2. ASSUME NEW i \in 1..Len(chan'), NEW r \in chan'[i], NEW s \in needs'[r]
          PROVE  s \in pending' \cup durable \/ \E j \in 1..i : s \in chan'[j]
      <4>1. CASE i \in 1..Len(tl)
        <5>1. r \in tl[i] /\ r \in Row \ m
          BY <1>2, <2>3, <2>4, <4>1, RecvFacts DEF tl
        <5>2. s \in pending' \cup durable \/ \E j \in 1..i : s \in tl[j]
          BY <2>5, <4>1, <5>1, RecvFacts DEF tl
        <5>3. ASSUME NEW j \in 1..i PROVE chan'[j] = tl[j]
          BY <1>2, <2>3, <4>1
        <5>4. QED BY <5>2, <5>3
      <4>2. CASE i = Len(tl) + 1
        <5>1. s \in Absorbed(accepted) \cup m
          BY <2>3, <2>5, <4>2 DEF InTable, Absorbed, Strings, Metric
        <5>2. s \in RowsIn(chan') \cup pending' \cup durable
          BY <2>3, <5>1, RecvFacts DEF tl
        <5>3. QED BY <2>3, <4>2, <5>2 DEF RowsIn
      <4>3. QED BY <1>2, <2>3, <4>1, <4>2
    <3>3. QED BY <1>3, <3>1, <3>2 DEF Behind
  <2>13. QED BY <1>6, <1>7, <2>6, <2>7, <2>8, <2>9, <2>10, <2>11, <2>12
<1>10. QED BY <1>8, <1>9

(* Storing pending rows of the table being written keeps everything that    *)
(* does not concern copies: what InsertOk, InsertFails and Abort share.     *)
LEMMA StoredFacts ==
  ASSUME IInv, Flushing, NEW S \in SUBSET InTable(pending, step), copies' = Stored(S)
  PROVE  /\ copies' \in [Row -> Nat]
         /\ durable' = durable \cup S
         /\ S \subseteq pending /\ \A r \in S : TableOf[r] = step
         /\ \A r \in Row : copies'[r] = IF r \in S THEN copies[r] + 1 ELSE copies[r]
         /\ \A r \in S : copies[r] <= fails
         /\ \A r \in durable' : TableOf[r] > Strings => needs[r] \subseteq durable'
<1> USE DEF IInv
<1>1. S \subseteq pending /\ \A r \in S : TableOf[r] = step
  BY DEF InTable
<1>2. /\ copies' \in [Row -> Nat]
      /\ \A r \in Row : copies'[r] = IF r \in S THEN copies[r] + 1 ELSE copies[r]
  BY DEF Stored, TypeOK
<1>3. durable' = durable \cup S
  <2>1. \A r \in Row : copies[r] \in Nat
    BY DEF TypeOK
  <2>2. S \subseteq Row
    BY <1>1 DEF TypeOK
  <2>3. QED BY <1>2, <2>1, <2>2 DEF durable
<1>4. \A r \in S : copies[r] <= fails
  BY <1>1 DEF PendingCopies, TypeOK, Strings, Spikes
<1>5. ASSUME NEW r \in durable', TableOf[r] > Strings PROVE needs[r] \subseteq durable'
  <2>1. CASE r \in durable
    BY <1>3, <1>5, <2>1 DEF StringsFirst
  <2>2. CASE r \in S
    <3>1. r \in pending /\ step > Strings /\ pc # "aborted"
      BY <1>1, <1>5, <2>2 DEF Flushing
    <3>2. ASSUME NEW s \in needs[r] PROVE s \in durable
      <4>1. s \in pending \cup durable
        BY <3>1, <3>2 DEF Behind
      <4>2. TableOf[s] = Strings
        BY <3>1, <3>2 DEF NeedsStrings, TypeOK
      <4>3. QED BY <3>1, <4>1, <4>2 DEF Written
    <3>3. QED BY <1>3, <3>2
  <2>3. QED BY <1>3, <2>1, <2>2
<1>6. QED BY <1>1, <1>2, <1>3, <1>4, <1>5

(* A successful insert of flush, the one that clears the buffers included. *)
LEMMA InsertOkIInv ==
  ASSUME IInv, InsertOk PROVE IInv'
<1> USE DEF IInv
<1> DEFINE S == InTable(pending, step)
<1>1. /\ Flushing /\ copies' = Stored(S) /\ S \in SUBSET S
      /\ UNCHANGED <<chan, waiters, closed, fails, offered, accepted, needs>>
  BY DEF InsertOk
<1>2. /\ copies' \in [Row -> Nat]
      /\ durable' = durable \cup S
      /\ S \subseteq pending
      /\ \A r \in Row : copies'[r] = IF r \in S THEN copies[r] + 1 ELSE copies[r]
      /\ \A r \in S : copies[r] <= fails
      /\ \A r \in durable' : TableOf[r] > Strings => needs[r] \subseteq durable'
  BY <1>1, StoredFacts
<1>3. RowsIn(chan') = RowsIn(chan) /\ step \in Nat /\ fails \in Nat
  BY <1>1 DEF TypeOK, Strings, Spikes
<1>4. StringsFirst' /\ NeedsStrings'
  BY <1>1, <1>2 DEF StringsFirst, NeedsStrings
<1>5. CopiesBound'
  <2>1. \A r \in Row : copies[r] \in Nat /\ copies[r] <= fails + 1
    BY DEF CopiesBound, TypeOK
  <2>2. QED BY <1>1, <1>2, <1>3, <2>1 DEF CopiesBound
<1>6. CASE step < Spikes
  <2>1. step' = step + 1 /\ pending' = pending /\ pc' = pc
    BY <1>6 DEF InsertOk
  <2>2. TypeOK'
    BY <1>1, <1>2, <1>6, <2>1 DEF TypeOK, Strings, Spikes
  <2>3. Fresh'
    BY <1>1, <1>2, <2>1 DEF Fresh, Absorbed
  <2>4. Lifecycle' /\ Custody' /\ Behind'
    BY <1>1, <1>2, <1>3, <2>1 DEF Lifecycle, Custody, Absorbed, Behind
  <2>5. Written'
    <3>1. ASSUME NEW r \in pending, TableOf[r] < step + 1 PROVE r \in durable'
      <4>1. TableOf[r] \in Nat
        BY TableNat DEF TypeOK
      <4>2. TableOf[r] < step \/ TableOf[r] = step
        BY <1>3, <3>1, <4>1
      <4>3. QED BY <1>1, <1>2, <4>2 DEF Written, InTable
    <3>2. QED BY <2>1, <3>1 DEF Written
  <2>6. PendingCopies'
    <3>1. ASSUME NEW r \in pending
          PROVE  copies'[r] <= fails \/ TableOf[r] < step + 1
      <4>1. r \in Row /\ TableOf[r] \in Nat /\ copies[r] \in Nat
        BY TableNat DEF TypeOK
      <4>2. CASE r \in S
        BY <1>3, <4>1, <4>2 DEF InTable
      <4>3. CASE r \notin S
        BY <1>2, <1>3, <4>1, <4>3 DEF PendingCopies
      <4>4. QED BY <4>2, <4>3
    <3>2. QED BY <1>1, <2>1, <3>1 DEF PendingCopies, Flushing
  <2>7. QED BY <1>4, <1>5, <2>2, <2>3, <2>4, <2>5, <2>6
<1>7. CASE ~(step < Spikes)
  <2>1. /\ pending' = {} /\ step' = step /\ pc' = AfterFlush /\ step = Spikes
    BY <1>7 DEF InsertOk, TypeOK, Strings, Spikes
  <2>2. pc' = IF pc = "final" THEN "done" ELSE "select"
    BY <2>1 DEF AfterFlush
  <2>3. pending \subseteq durable'
    <3>1. ASSUME NEW r \in pending PROVE r \in durable'
      <4>1. TableOf[r] \in Metric..Spikes
        BY SinkAssumption DEF TypeOK
      <4>2. TableOf[r] < step \/ TableOf[r] = step
        BY <2>1, <4>1 DEF Metric, Spikes
      <4>3. QED BY <1>1, <1>2, <4>2 DEF Written, InTable
    <3>2. QED BY <3>1
  <2>4. TypeOK'
    BY <1>1, <1>2, <2>1, <2>2 DEF TypeOK
  <2>5. Fresh'
    <3>1. durable' \subseteq durable \cup pending
      BY <1>2
    <3>2. QED BY <1>1, <2>1, <3>1 DEF Fresh, Absorbed
  <2>6. Lifecycle'
    BY <1>1, <2>1, <2>2 DEF Lifecycle, Flushing
  <2>7. Custody' /\ Behind'
    <3>1. pending \cup durable \subseteq durable'
      BY <1>2, <2>3
    <3>2. durable' \subseteq pending \cup durable
      BY <1>2
    <3>3. pc # "aborted"
      BY <1>1 DEF Flushing
    <3>4. QED BY <1>1, <1>3, <2>1, <3>1, <3>2, <3>3 DEF Custody, Absorbed, Behind
  <2>8. Written' /\ PendingCopies'
    BY <2>1 DEF Written, PendingCopies
  <2>9. QED BY <1>4, <1>5, <2>4, <2>5, <2>6, <2>7, <2>8
<1>8. QED BY <1>6, <1>7

(* A failed insert leaves every buffer as it was. *)
LEMMA InsertFailsIInv ==
  ASSUME IInv, InsertFails PROVE IInv'
<1> USE DEF IInv
<1>1. PICK S \in SUBSET InTable(pending, step) : copies' = Stored(S)
  BY DEF InsertFails
<1>2. /\ Flushing /\ fails < MaxFails /\ fails' = fails + 1 /\ pc' = AfterFlush
      /\ UNCHANGED <<chan, waiters, pending, step, closed, offered, accepted, needs>>
  BY DEF InsertFails
<1>3. /\ copies' \in [Row -> Nat]
      /\ durable' = durable \cup S
      /\ S \subseteq pending
      /\ \A r \in Row : copies'[r] = IF r \in S THEN copies[r] + 1 ELSE copies[r]
      /\ \A r \in S : copies[r] <= fails
      /\ \A r \in durable' : TableOf[r] > Strings => needs[r] \subseteq durable'
  BY <1>1, <1>2, StoredFacts
<1>4. pc' = IF pc = "final" THEN "done" ELSE "select"
  BY <1>2 DEF AfterFlush
<1>5. TypeOK'
  BY <1>2, <1>3, <1>4, SinkAssumption DEF TypeOK
<1>6. Fresh'
  BY <1>2, <1>3 DEF Fresh, Absorbed
<1>7. Lifecycle'
  BY <1>2, <1>4 DEF Lifecycle, Flushing
<1>8. Custody' /\ Behind'
  <2>1. RowsIn(chan') = RowsIn(chan) /\ pc # "aborted"
    BY <1>2 DEF Flushing
  <2>2. QED BY <1>2, <1>3, <2>1 DEF Custody, Absorbed, Behind
<1>9. Written' /\ NeedsStrings' /\ StringsFirst'
  BY <1>2, <1>3, <1>4 DEF Written, Flushing, NeedsStrings, StringsFirst
<1>10. CopiesBound' /\ PendingCopies'
  <2>1. fails \in Nat /\ \A r \in Row : copies[r] \in Nat /\ copies[r] <= fails + 1
    BY DEF CopiesBound, TypeOK
  <2>2. \A r \in Row : copies'[r] <= fails + 1
    BY <1>3, <2>1
  <2>3. pending \subseteq Row
    BY DEF TypeOK
  <2>4. \A r \in Row : copies'[r] \in Nat
    BY <1>3
  <2>5. \A r \in Row : copies'[r] <= fails' /\ copies'[r] <= fails' + 1
    BY <1>2, <2>1, <2>2, <2>4
  <2>6. QED BY <1>2, <2>3, <2>5 DEF CopiesBound, PendingCopies
<1>11. QED BY <1>5, <1>6, <1>7, <1>8, <1>9, <1>10

(* The end of the process in the middle of whatever the task does. *)
LEMMA AbortIInv ==
  ASSUME IInv, Abort PROVE IInv'
<1> USE DEF IInv
<1>1. /\ chan' = <<>> /\ waiters' = <<>> /\ pending' = {} /\ pc' = "aborted"
      /\ UNCHANGED <<step, closed, fails, offered, accepted, needs>>
  BY DEF Abort
<1>2. /\ copies' \in [Row -> Nat]
      /\ durable' \subseteq durable \cup pending
      /\ \A r \in Row : copies'[r] <= fails + 1
      /\ \A r \in durable' : TableOf[r] > Strings => needs[r] \subseteq durable'
  <2>1. PICK S \in SUBSET InTable(pending, step) :
          copies' = IF Flushing THEN Stored(S) ELSE copies
    BY DEF Abort
  <2>2. fails \in Nat /\ \A r \in Row : copies[r] \in Nat /\ copies[r] <= fails + 1
    BY DEF CopiesBound, TypeOK
  <2>3. CASE Flushing
    <3>1. /\ copies' \in [Row -> Nat]
          /\ durable' = durable \cup S
          /\ S \subseteq pending
          /\ \A r \in Row : copies'[r] = IF r \in S THEN copies[r] + 1 ELSE copies[r]
          /\ \A r \in S : copies[r] <= fails
          /\ \A r \in durable' : TableOf[r] > Strings => needs[r] \subseteq durable'
      BY <2>1, <2>3, StoredFacts
    <3>2. QED BY <2>2, <3>1
  <2>4. CASE ~Flushing
    <3>1. copies' = copies /\ durable' = durable
      BY <2>1, <2>4 DEF durable
    <3>2. QED BY <2>2, <3>1 DEF StringsFirst, TypeOK
  <2>5. QED BY <2>3, <2>4
<1>3. TypeOK'
  BY <1>1, <1>2, SinkAssumption DEF TypeOK
<1>4. Fresh'
  BY <1>1, <1>2 DEF Fresh, Absorbed
<1>5. Lifecycle' /\ Custody' /\ Written' /\ NeedsStrings' /\ Behind' /\ StringsFirst'
  BY <1>1, <1>2 DEF Lifecycle, Custody, Written, NeedsStrings, Behind, StringsFirst
<1>6. CopiesBound' /\ PendingCopies'
  BY <1>1, <1>2 DEF CopiesBound, PendingCopies
<1>7. QED BY <1>3, <1>4, <1>5, <1>6

(* Every step of the sink keeps the invariant. *)
LEMMA NextIInv ==
  ASSUME IInv, [Next]_vars PROVE IInv'
<1>1. CASE Produce BY <1>1, ProduceIInv
<1>2. CASE Recv BY <1>2, RecvIInv
<1>3. CASE RecvNone \/ Tick BY <1>3, StartFlushIInv
<1>4. CASE InsertOk BY <1>4, InsertOkIInv
<1>5. CASE InsertFails BY <1>5, InsertFailsIInv
<1>6. CASE Abort BY <1>6, AbortIInv
<1>7. CASE UNCHANGED vars
  BY <1>7 DEF IInv, vars, TypeOK, Fresh, Lifecycle, Custody, Written, NeedsStrings, Behind,
              StringsFirst, CopiesBound, PendingCopies, durable, RowsIn, Absorbed, Flushing
<1>8. QED
  BY <1>1, <1>2, <1>3, <1>4, <1>5, <1>6, <1>7 DEF Next, Ended

(* The invariant the theorems below follow from. *)
THEOREM SinkInvariant == Spec => []IInv
<1>1. IInv /\ [Next]_vars => IInv'
  BY NextIInv
<1>2. QED BY InitIInv, <1>1, PTL DEF Spec

(* Type correctness of the sink: in particular the channel never holds more *)
(* than its capacity, with and without senders waiting for room.            *)
THEOREM SinkTypeOK == Spec => []TypeOK
<1>1. IInv => TypeOK
  BY DEF IInv
<1>2. QED BY SinkInvariant, <1>1, PTL

(* absorb and flush lose no accepted row while the process lives, for any   *)
(* number of rows, capacities and insert failures.                          *)
THEOREM SinkCustody == Spec => []Custody
<1>1. IInv => Custody
  BY DEF IInv
<1>2. QED BY SinkInvariant, <1>1, PTL

(* flush never stores a row before a string accepted no later than it.      *)
THEOREM SinkStringsFirst == Spec => []StringsFirst
<1>1. IInv => StringsFirst
  BY DEF IInv
<1>2. QED BY SinkInvariant, <1>1, PTL

(* The retries of flush store a row at most once more than inserts fail.    *)
THEOREM SinkCopiesBound == Spec => []CopiesBound
<1>1. IInv => CopiesBound
  BY DEF IInv
<1>2. QED BY SinkInvariant, <1>1, PTL

(* If the last flush of run succeeds, everything accepted is stored.        *)
THEOREM SinkCleanStop == Spec => []CleanStop
<1>1. IInv => CleanStop
  <2>1. IInv /\ pc = "done" => RowsIn(chan) = {}
    BY DEF IInv, Lifecycle, RowsIn
  <2>2. QED BY <2>1 DEF IInv, Custody, CleanStop
<1>2. QED BY SinkInvariant, <1>1, PTL

----------------------------------------------------------------------------
(* Finite buffers, so that len() and Cardinality agree. *)
Finite ==
  /\ IsFiniteSet(pending)
  /\ \A i \in 1..Len(chan) : IsFiniteSet(chan[i])
  /\ \A i \in 1..Len(waiters) : IsFiniteSet(waiters[i])

(* Every message a producer sends is finite, so every buffer is. *)
LEMMA NextFinite ==
  ASSUME IInv, Finite, [Next]_vars PROVE Finite'
<1> USE DEF Finite
<1>0. chan \in Seq(SUBSET Row) /\ waiters \in Seq(SUBSET Row)
  BY DEF IInv, TypeOK
<1>1. ASSUME NEW s \in Seq(SUBSET Row), NEW m \in SUBSET Row, IsFiniteSet(m),
             \A i \in 1..Len(s) : IsFiniteSet(s[i])
      PROVE  \A i \in 1..Len(Append(s, m)) : IsFiniteSet(Append(s, m)[i])
  BY <1>1, RowsInAppend
<1>2. ASSUME NEW s \in Seq(SUBSET Row), s # <<>>,
             \A i \in 1..Len(s) : IsFiniteSet(s[i])
      PROVE  /\ IsFiniteSet(Head(s)) /\ Head(s) \in SUBSET Row
             /\ Tail(s) \in Seq(SUBSET Row)
             /\ \A i \in 1..Len(Tail(s)) : IsFiniteSet(Tail(s)[i])
  <2>1. /\ Len(s) \in Nat \ {0} /\ Head(s) = s[1] /\ Head(s) \in SUBSET Row
        /\ Tail(s) \in Seq(SUBSET Row)
        /\ \A i \in 1..Len(Tail(s)) : Tail(s)[i] = s[i + 1] /\ i + 1 \in 1..Len(s)
    BY <1>2, RowsInTail
  <2>2. 1 \in 1..Len(s)
    BY <2>1
  <2>3. QED BY <1>2, <2>1, <2>2
<1>3. ASSUME NEW m \in SUBSET Row, IsFiniteSet(m), Send(m) PROVE Finite'
  <2>1. pending' = pending /\ chan' \in {chan, Append(chan, m)}
        /\ waiters' \in {waiters, Append(waiters, m)}
    BY <1>3 DEF Send, Enter
  <2>2. QED BY <1>0, <1>1, <1>3, <2>1
<1>4. CASE Produce
  <2>1. ASSUME NEW m \in Batch, TryPush(m) PROVE Finite'
    <3>1. m \in SUBSET Row /\ IsFiniteSet(m)
      BY SinkAssumption
    <3>2. pending' = pending /\ waiters' = waiters /\ chan' \in {chan, Append(chan, m)}
      BY <2>1 DEF TryPush, Enter
    <3>3. QED BY <1>0, <1>1, <3>1, <3>2
  <2>2. ASSUME NEW r \in Row, Send({r}) PROVE Finite'
    BY <1>3, <2>2, FS_Singleton
  <2>3. ASSUME NEW i \in 1..Len(waiters), CancelSend(i) PROVE Finite'
    <3> DEFINE a == SubSeq(waiters, 1, i - 1)
               b == SubSeq(waiters, i + 1, Len(waiters))
    <3>1. chan' = chan /\ pending' = pending /\ waiters' = a \o b
      BY <2>3 DEF CancelSend
    <3>2. /\ a \in Seq(SUBSET Row) /\ b \in Seq(SUBSET Row)
          /\ Len(a) = i - 1 /\ \A k \in 1..Len(a) : a[k] = waiters[k] /\ k \in 1..Len(waiters)
          /\ Len(b) = Len(waiters) - i
          /\ \A k \in 1..Len(b) : b[k] = waiters[i + k] /\ i + k \in 1..Len(waiters)
      BY <1>0
    <3> HIDE DEF a, b
    <3>3. /\ Len(a \o b) = Len(a) + Len(b)
          /\ \A k \in 1..(Len(a) + Len(b)) :
               (a \o b)[k] = IF k <= Len(a) THEN a[k] ELSE b[k - Len(a)]
      BY <3>2, ConcatProperties
    <3>4. ASSUME NEW k \in 1..(Len(a) + Len(b)) PROVE IsFiniteSet((a \o b)[k])
      <4>1. CASE k <= Len(a)
        BY <3>2, <3>3, <4>1
      <4>2. CASE ~(k <= Len(a))
        <5>1. k - Len(a) \in 1..Len(b)
          BY <3>2, <4>2
        <5>2. QED BY <3>2, <3>3, <4>2, <5>1
      <4>3. QED BY <4>1, <4>2
    <3>5. QED BY <3>1, <3>3, <3>4
  <2>4. ASSUME Close PROVE Finite'
    BY <2>4 DEF Close
  <2>5. QED BY <1>4, <2>1, <2>2, <2>3, <2>4 DEF Produce, PushKernelSol, PushSpike
<1>5. CASE Recv
  <2>1. IsFiniteSet(Head(chan)) /\ Head(chan) \in SUBSET Row
    BY <1>0, <1>2, <1>5 DEF Recv
  <2>2. IsFiniteSet(pending')
    <3>1. IsFiniteSet(Absorbed(Head(chan)))
      BY <2>1, FS_Subset DEF Absorbed
    <3>2. QED BY <1>5, <3>1, FS_Union DEF Recv
  <2>3. CASE waiters = <<>>
    <3>1. chan # <<>> /\ chan' = Tail(chan) /\ waiters' = waiters
      BY <1>5, <2>3 DEF Recv
    <3>2. QED BY <1>0, <1>2, <2>2, <3>1
  <2>4. CASE waiters # <<>>
    <3>1. chan # <<>> /\ chan' = Append(Tail(chan), Head(waiters)) /\ waiters' = Tail(waiters)
      BY <1>5, <2>4 DEF Recv
    <3>2. /\ Tail(chan) \in Seq(SUBSET Row)
          /\ \A i \in 1..Len(Tail(chan)) : IsFiniteSet(Tail(chan)[i])
      BY <1>0, <1>2, <3>1
    <3>3. /\ IsFiniteSet(Head(waiters)) /\ Head(waiters) \in SUBSET Row
          /\ \A i \in 1..Len(Tail(waiters)) : IsFiniteSet(Tail(waiters)[i])
      BY <1>0, <1>2, <2>4
    <3>4. \A i \in 1..Len(chan') : IsFiniteSet(chan'[i])
      BY <1>1, <3>1, <3>2, <3>3
    <3>5. QED BY <2>2, <3>1, <3>3, <3>4
  <2>5. QED BY <2>3, <2>4
<1>6. CASE RecvNone \/ Tick \/ InsertFails
  BY <1>6 DEF RecvNone, Tick, InsertFails
<1>7. CASE InsertOk
  <2>1. pending' \in {pending, {}} /\ chan' = chan /\ waiters' = waiters
    BY <1>7 DEF InsertOk
  <2>2. QED BY <2>1, FS_EmptySet
<1>8. CASE Abort
  <2>1. pending' = {} /\ Len(chan') = 0 /\ Len(waiters') = 0
    BY <1>8 DEF Abort
  <2>2. QED BY <2>1, FS_EmptySet
<1>9. CASE UNCHANGED vars
  BY <1>9 DEF vars
<1>10. QED
  BY <1>4, <1>5, <1>6, <1>7, <1>8, <1>9 DEF Next, Ended

(* Until an insert fails, recv's threshold bounds the event buffer.         *)
THEOREM SinkBufferBound == Spec => []BufferBound
<1>1. Init => Finite /\ BufferBound
  <2>1. Init => pending = {} /\ chan = <<>> /\ waiters = <<>> /\ pc = "select"
    BY DEF Init
  <2>2. Init => Finite
    BY <2>1, FS_EmptySet DEF Finite
  <2>3. Init => InTable(pending, Events) = {}
    BY <2>1 DEF InTable
  <2>4. Cardinality({}) = 0
    BY FS_EmptySet
  <2>5. 0 < MaxBatchRows
    BY SinkAssumption
  <2>6. Init => Cardinality(InTable(pending, Events)) < MaxBatchRows
    BY <2>3, <2>4, <2>5
  <2>7. QED BY <2>2, <2>6 DEF BufferBound
<1>2. ASSUME IInv, Finite, BufferBound, [Next]_vars PROVE BufferBound'
  <2>1. IInv' /\ Finite'
    BY <1>2, NextIInv, NextFinite
  <2>2. IsFiniteSet(InTable(pending', Events)) /\ Cardinality(InTable(pending', Events)) \in Nat
    <3>1. InTable(pending', Events) \subseteq pending'
      BY DEF InTable
    <3>2. QED BY <2>1, <3>1, FS_Subset, FS_CardinalityType DEF Finite
  <2>3. ASSUME pending' = {} PROVE BufferBound'
    <3>1. InTable(pending', Events) = {}
      BY <2>3 DEF InTable
    <3>2. QED BY <3>1, FS_EmptySet, SinkAssumption DEF BufferBound
  <2>4. CASE Recv
    <3>1. CASE Cardinality(InTable(pending', Events)) >= MaxBatchRows
      BY <2>4, <3>1 DEF Recv, StartFlush, BufferBound, Flushing
    <3>2. CASE ~(Cardinality(InTable(pending', Events)) >= MaxBatchRows)
      BY <2>2, <3>2, SinkAssumption DEF BufferBound
    <3>3. QED BY <3>1, <3>2
  <2>5. CASE Produce \/ Ended \/ UNCHANGED vars
    <3>1. UNCHANGED <<pending, fails, pc>>
      BY <2>5 DEF Produce, Ended, vars, TryPush, PushKernelSol, PushSpike, Send, CancelSend, Close
    <3>2. QED BY <1>2, <3>1 DEF BufferBound, Flushing
  <2>6. CASE RecvNone \/ Tick
    BY <2>6 DEF RecvNone, Tick, StartFlush, BufferBound, Flushing
  <2>7. CASE InsertFails
    <3>1. fails' = fails + 1 /\ fails \in Nat
      BY <1>2, <2>7 DEF InsertFails, IInv, TypeOK
    <3>2. QED BY <3>1 DEF BufferBound
  <2>8. CASE InsertOk
    <3>1. CASE step < Spikes
      BY <2>8, <3>1 DEF InsertOk, BufferBound, Flushing
    <3>2. CASE ~(step < Spikes)
      BY <2>3, <2>8, <3>2 DEF InsertOk
    <3>3. QED BY <3>1, <3>2
  <2>9. CASE Abort
    BY <2>3, <2>9 DEF Abort
  <2>10. QED BY <1>2, <2>4, <2>5, <2>6, <2>7, <2>8, <2>9 DEF Next
<1>3. IInv /\ Finite /\ [Next]_vars => Finite'
  BY NextFinite
<1>4. IInv /\ Finite /\ BufferBound /\ [Next]_vars => BufferBound'
  BY <1>2
<1>5. QED BY SinkInvariant, <1>1, <1>3, <1>4, PTL DEF Spec

----------------------------------------------------------------------------
(* The sink implements the abstract store. *)

(* A step that stores the rows of S and keeps the channel as it is: a step  *)
(* of the abstract store if the task goes on, its end if the task ends.     *)
LEMMA FlushRefines ==
  ASSUME IInv, NEW S \in SUBSET pending, Alive, durable' = durable \cup S,
         \/ Alive' /\ UNCHANGED <<chan, pending>>
         \/ Alive' /\ chan' = chan /\ pending' = {} /\ pending \subseteq durable'
         \/ ~Alive'
  PROVE  Store!Next
<1>1. S \subseteq Owned /\ pending \subseteq Owned
  BY DEF Owned
<1>2. CASE Alive' /\ UNCHANGED <<chan, pending>>
  <2>1. Owned' = Owned \ {}
    BY <1>2 DEF Owned, Absorbed, RowsIn
  <2>2. Store!Store(S, {})
    BY <1>1, <1>2, <2>1 DEF Store!Store
  <2>3. QED BY <1>1, <2>2 DEF Store!Next
<1>3. CASE Alive' /\ chan' = chan /\ pending' = {} /\ pending \subseteq durable'
  <2>1. pending \cap Absorbed(RowsIn(chan)) = {}
    BY DEF IInv, Fresh, RowsIn, Absorbed
  <2>2. Owned' = Owned \ pending
    BY <1>3, <2>1 DEF Owned, Absorbed, RowsIn
  <2>3. Store!Store(S, pending)
    BY <1>1, <1>3, <2>2 DEF Store!Store
  <2>4. QED BY <1>1, <2>3 DEF Store!Next
<1>4. CASE ~Alive'
  <2>1. Owned' = {}
    BY <1>4 DEF Owned
  <2>2. Store!Stop(S)
    BY <1>1, <1>4, <2>1 DEF Store!Stop, Alive
  <2>3. QED BY <1>1, <2>2 DEF Store!Next
<1>5. QED BY <1>2, <1>3, <1>4

(* A message enters the channel behind whatever was in it: rows are taken.  *)
LEMMA TakeRefines ==
  ASSUME IInv, NEW m \in SUBSET Row, m \cap accepted = {}, Alive, Alive',
         durable' = durable,
         Absorbed(RowsIn(chan')) \cup pending' = Absorbed(RowsIn(chan)) \cup pending \cup Absorbed(m)
  PROVE  Store!Next
<1>1. Owned' = Owned \cup Absorbed(m)
  BY DEF Owned
<1>2. Absorbed(m) \in SUBSET Absorbed(Row)
  BY DEF Absorbed
<1>3. Absorbed(m) \cap (Owned \cup durable) = {}
  BY DEF IInv, Fresh, Owned, Absorbed, RowsIn
<1>4. Store!Take(Absorbed(m))
  BY <1>1, <1>3 DEF Store!Take
<1>5. QED BY <1>2, <1>4 DEF Store!Next

(* Every behaviour of the channel, the select loop and flush, with failing  *)
(* inserts and process exits, keeps the promise of the abstract store.      *)
THEOREM SinkImplementsStore == Spec => ImplementsStore
<1>1. Init => Store!Init
  <2>1. Init => durable = {} /\ RowsIn(chan) = {} /\ pending = {} /\ Alive
    BY DEF Init, durable, RowsIn, Alive
  <2>2. QED BY <2>1 DEF Store!Init, Owned, Absorbed
<1>2. ASSUME IInv, [Next]_vars PROVE [Store!Next]_(Store!vars)
  <2>1. ASSUME UNCHANGED <<chan, pending, pc, copies>> PROVE UNCHANGED Store!vars
    BY <2>1 DEF Store!vars, Owned, Alive, durable, Absorbed, RowsIn
  <2>2. ASSUME NEW m \in SUBSET Row, ~closed, m \cap offered = {}, pc # "aborted",
               Enter(m), UNCHANGED <<pending, pc, copies>>
        PROVE  Store!Next
    <3>1. RowsIn(chan') = RowsIn(chan) \cup m
      <4>1. chan' = Append(chan, m) /\ chan \in Seq(SUBSET Row)
        BY <1>2, <2>2 DEF Enter, IInv, TypeOK
      <4>2. QED BY <4>1, RowsInAppend
    <3>2. Alive /\ Alive' /\ durable' = durable /\ m \cap accepted = {}
      BY <1>2, <2>2 DEF Alive, durable, IInv, Lifecycle, Fresh
    <3>3. QED BY <1>2, <2>2, <3>1, <3>2, TakeRefines DEF Absorbed
  <2>3. CASE Produce
    <3>1. ASSUME NEW m \in SUBSET Row, Send(m) PROVE [Store!Next]_(Store!vars)
      BY <2>1, <2>2, <3>1 DEF Send
    <3>2. ASSUME NEW m \in Batch, TryPush(m) PROVE [Store!Next]_(Store!vars)
      <4>1. m \in SUBSET Row
        BY SinkAssumption
      <4>2. QED BY <2>1, <2>2, <3>2, <4>1 DEF TryPush
    <3>3. CASE Close \/ \E i \in 1..Len(waiters) : CancelSend(i)
      BY <2>1, <3>3 DEF Close, CancelSend
    <3>4. QED BY <2>3, <3>1, <3>2, <3>3 DEF Produce, PushKernelSol, PushSpike
  <2>4. CASE Recv
    <3>1. /\ chan # <<>> /\ chan \in Seq(SUBSET Row) /\ pending' = pending \cup Absorbed(Head(chan))
          /\ Alive /\ Alive' /\ durable' = durable
      BY <1>2, <2>4 DEF Recv, StartFlush, IInv, TypeOK, Alive, durable
    <3>2. /\ RowsIn(chan) = Head(chan) \cup RowsIn(Tail(chan))
          /\ Tail(chan) \in Seq(SUBSET Row)
      BY <3>1, RowsInTail
    <3>3. CASE waiters = <<>>
      <4>1. chan' = Tail(chan)
        BY <2>4, <3>3 DEF Recv
      <4>2. Owned' = Owned
        BY <3>1, <3>2, <4>1 DEF Owned, Absorbed
      <4>3. QED BY <3>1, <4>2 DEF Store!vars
    <3>4. CASE waiters # <<>>
      <4>1. chan' = Append(Tail(chan), Head(waiters)) /\ waiters \in Seq(SUBSET Row)
        BY <1>2, <2>4, <3>4 DEF Recv, IInv, TypeOK
      <4>2. Head(waiters) \in SUBSET Row /\ Head(waiters) = waiters[1] /\ 1 \in 1..Len(waiters)
        BY <3>4, <4>1
      <4>3. RowsIn(chan') = RowsIn(Tail(chan)) \cup Head(waiters)
        BY <3>2, <4>1, <4>2, RowsInAppend
      <4>4. Head(waiters) \cap accepted = {}
        BY <1>2, <4>2 DEF IInv, Fresh
      <4>5. Absorbed(RowsIn(chan')) \cup pending'
              = Absorbed(RowsIn(chan)) \cup pending \cup Absorbed(Head(waiters))
        BY <3>1, <3>2, <4>3 DEF Absorbed
      <4>6. QED BY <1>2, <3>1, <4>2, <4>4, <4>5, TakeRefines
    <3>5. QED BY <3>3, <3>4
  <2>5. CASE RecvNone \/ Tick
    <3>1. UNCHANGED <<chan, pending, copies>> /\ Alive /\ Alive'
      BY <2>5 DEF RecvNone, Tick, StartFlush, Alive
    <3>2. QED BY <3>1 DEF Store!vars, Owned, durable, Absorbed, RowsIn
  <2>6. CASE InsertOk
    <3> DEFINE S == InTable(pending, step)
    <3>1. Flushing /\ copies' = Stored(S) /\ S \in SUBSET S /\ chan' = chan /\ Alive
      BY <2>6 DEF InsertOk, Flushing, Alive
    <3>2. durable' = durable \cup S /\ S \in SUBSET pending
      BY <1>2, <3>1, StoredFacts
    <3>3. CASE step < Spikes
      <4>1. pending' = pending /\ Alive'
        BY <2>6, <3>1, <3>3 DEF InsertOk, Alive
      <4>2. QED BY <1>2, <3>1, <3>2, <4>1, FlushRefines
    <3>4. CASE ~(step < Spikes)
      <4>1. pending' = {} /\ step = Spikes
        BY <1>2, <2>6, <3>4 DEF InsertOk, IInv, TypeOK, Strings, Spikes
      <4>2. ASSUME NEW r \in pending PROVE r \in durable'
        <5>1. TableOf[r] \in Nat /\ TableOf[r] <= Spikes
          BY <1>2, TableNat DEF IInv, TypeOK
        <5>2. TableOf[r] < step \/ TableOf[r] = step
          BY <4>1, <5>1 DEF Spikes
        <5>3. QED BY <1>2, <3>1, <3>2, <5>2 DEF IInv, Written, InTable
      <4>3. Alive' \/ ~Alive'
        OBVIOUS
      <4>4. QED BY <1>2, <3>1, <3>2, <4>1, <4>2, <4>3, FlushRefines
    <3>5. QED BY <3>3, <3>4
  <2>7. CASE InsertFails
    <3>1. PICK S \in SUBSET InTable(pending, step) : copies' = Stored(S)
      BY <2>7 DEF InsertFails
    <3>2. Flushing /\ UNCHANGED <<chan, pending>> /\ Alive
      BY <2>7 DEF InsertFails, Flushing, Alive
    <3>3. durable' = durable \cup S /\ S \in SUBSET pending
      BY <1>2, <3>1, <3>2, StoredFacts
    <3>4. QED BY <1>2, <3>2, <3>3, FlushRefines
  <2>8. CASE Abort
    <3>1. PICK S \in SUBSET InTable(pending, step) :
            copies' = IF Flushing THEN Stored(S) ELSE copies
      BY <2>8 DEF Abort
    <3>2. Alive /\ ~Alive'
      BY <2>8 DEF Abort, Alive
    <3>3. CASE Flushing
      <4>1. durable' = durable \cup S /\ S \in SUBSET pending
        BY <1>2, <3>1, <3>3, StoredFacts
      <4>2. QED BY <1>2, <3>2, <4>1, FlushRefines
    <3>4. CASE ~Flushing
      <4>1. durable' = durable \cup {} /\ {} \in SUBSET pending
        BY <3>1, <3>4 DEF durable
      <4>2. QED BY <1>2, <3>2, <4>1, FlushRefines
    <3>5. QED BY <3>3, <3>4
  <2>9. CASE Ended \/ UNCHANGED vars
    BY <2>1, <2>9 DEF Ended, vars
  <2>10. QED
    BY <1>2, <2>3, <2>4, <2>5, <2>6, <2>7, <2>8, <2>9 DEF Next
<1>3. IInv /\ [Next]_vars => [Store!Next]_(Store!vars)
  BY <1>2
<1>4. QED BY <1>1, <1>3, SinkInvariant, PTL DEF Spec, ImplementsStore, Store!Spec
============================================================================
