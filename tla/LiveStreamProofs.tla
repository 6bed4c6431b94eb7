------------------------- MODULE LiveStreamProofs --------------------------
(* Proofs about LiveStream for every channel capacity, ring size and number *)
(* of messages, connections, restarts and switches of live mode.            *)
EXTENDS LiveStream, SequenceTheorems, TLAPS

Message == [type : {"metric", "spike", "kernel"}, keys : SUBSET Series]

Entry == [state : {"new", "connecting", "open", "broken", "closed"},
          start : Nat \ {0}, pos : Nat \ {0}, wire : Seq(Nat)]

Types ==
  /\ log \in [Chan -> Seq(Message)]
  /\ snap \in SUBSET Series
  /\ es \in [Source -> Entry] /\ recv \in [Source -> SUBSET Nat]
  /\ rings \in [series : [Series -> Seq(Nat)], spikes : Seq(Nat), kernels : Seq(Nat)]
  /\ opens \in Nat /\ enabled \in BOOLEAN

(* Which channel carries which messages. *)
LogKinds ==
  /\ \A i \in 1..Len(log["metrics"]) : log["metrics"][i].type # "kernel"
  /\ \A i \in 1..Len(log["kernels"]) : log["kernels"][i].type = "kernel"

Active(s) == es[s].state \in {"open", "broken"}

(* Only the EventSources of the last switch to live mode are in use. *)
InUse(s) == Active(s) \/ es[s].state = "connecting"

LastOpened == \A s \in Source : InUse(s) => enabled /\ s[2] = opens

(* Message i of channel c is in a ring of the browser. *)
Held(c, i) ==
  IF c = "metrics"
  THEN \/ \E k \in Series : \E n \in 1..Len(rings.series[k]) : rings.series[k][n] = i
       \/ \E n \in 1..Len(rings.spikes) : rings.spikes[n] = i
  ELSE \E n \in 1..Len(rings.kernels) : rings.kernels[n] = i

(* A source in use sends what is newer than all that the rings hold, in     *)
(* order: its wire, and then the log from pos on.                           *)
AheadOf(s) ==
  /\ es[s].pos <= Len(log[s[1]]) + 1
  /\ es[s].start <= es[s].pos
  /\ Rising(es[s].wire)
  /\ \A n \in 1..Len(es[s].wire) : 1 <= es[s].wire[n] /\ es[s].wire[n] < es[s].pos
  /\ \A i \in 1..Len(log[s[1]]) : Held(s[1], i) =>
       i < es[s].pos /\ \A n \in 1..Len(es[s].wire) : i < es[s].wire[n]

Ahead == \A s \in Source : Active(s) => AheadOf(s)

HeldSent ==
  /\ \A k \in Series : \A n \in 1..Len(rings.series[k]) :
       rings.series[k][n] \in 1..Len(log["metrics"])
  /\ \A n \in 1..Len(rings.spikes) : rings.spikes[n] \in 1..Len(log["metrics"])
  /\ \A n \in 1..Len(rings.kernels) : rings.kernels[n] \in 1..Len(log["kernels"])

(* What LagsOnly says of one source. *)
LagsOf(s) ==
  \A i \in es[s].start..es[s].pos - 1 :
    i \in recv[s] \/ OnWire(s, i) \/ i + Cap <= Len(log[s[1]])

IInv ==
  /\ Types /\ LogKinds /\ LastOpened /\ Ahead /\ HeldSent
  /\ RingsInOrder /\ LagsOnly

----------------------------------------------------------------------------
(* Rings and wires. *)

(* Appending something newer keeps a sequence rising. *)
LEMMA RisingAppend ==
  ASSUME NEW q \in Seq(Nat), NEW x \in Nat, Rising(q), \A n \in 1..Len(q) : q[n] < x
  PROVE  /\ Append(q, x) \in Seq(Nat) /\ Rising(Append(q, x))
         /\ Len(Append(q, x)) = Len(q) + 1
         /\ \A n \in 1..Len(q) : Append(q, x)[n] = q[n]
         /\ Append(q, x)[Len(q) + 1] = x
<1>1. /\ Append(q, x) \in Seq(Nat)
      /\ Len(Append(q, x)) = Len(q) + 1
      /\ \A n \in 1..Len(q) : Append(q, x)[n] = q[n]
      /\ Append(q, x)[Len(q) + 1] = x
  OBVIOUS
<1>2. Rising(Append(q, x))
  <2> SUFFICES ASSUME NEW i \in 1..Len(q) + 1, NEW j \in 1..Len(q) + 1, i < j
               PROVE  Append(q, x)[i] < Append(q, x)[j]
    BY <1>1 DEF Rising
  <2>1. i \in 1..Len(q) /\ Append(q, x)[i] = q[i]
    BY <1>1
  <2>2. CASE j = Len(q) + 1 BY <1>1, <2>1, <2>2
  <2>3. CASE j # Len(q) + 1
    <3>1. j \in 1..Len(q) BY <2>3
    <3>2. QED BY <1>1, <2>1, <3>1 DEF Rising
  <2>4. QED BY <2>2, <2>3
<1>3. QED BY <1>1, <1>2

(* Taking the oldest message off a rising wire leaves newer ones. *)
LEMMA RisingTail ==
  ASSUME NEW q \in Seq(Nat), q # <<>>, Rising(q)
  PROVE  /\ Tail(q) \in Seq(Nat) /\ Rising(Tail(q)) /\ Head(q) = q[1] /\ Head(q) \in Nat
         /\ 1 \in 1..Len(q)
         /\ \A n \in 1..Len(Tail(q)) : n + 1 \in 1..Len(q) /\ Tail(q)[n] = q[n + 1]
         /\ \A n \in 1..Len(Tail(q)) : Head(q) < Tail(q)[n]
<1>1. /\ Tail(q) \in Seq(Nat) /\ Head(q) = q[1] /\ Head(q) \in Nat
      /\ 1 \in 1..Len(q) /\ Len(Tail(q)) = Len(q) - 1 /\ Len(q) \in Nat
      /\ \A n \in 1..Len(Tail(q)) : n + 1 \in 1..Len(q) /\ Tail(q)[n] = q[n + 1]
  OBVIOUS
<1>2. QED BY <1>1 DEF Rising

(* A ring that receives something newer stays in order and gains only it.  *)
LEMMA KeepFacts ==
  ASSUME NEW q \in Seq(Nat), NEW x \in Nat, NEW size \in Nat \ {0},
         Rising(q), \A n \in 1..Len(q) : q[n] < x
  PROVE  /\ Keep(q, x, size) \in Seq(Nat) /\ Rising(Keep(q, x, size))
         /\ \A n \in 1..Len(Keep(q, x, size)) :
              Keep(q, x, size)[n] = x \/ \E m \in 1..Len(q) : Keep(q, x, size)[n] = q[m]
<1> DEFINE t == Append(q, x)
           lo == Len(t) - size + 1
<1>1. /\ t \in Seq(Nat) /\ Rising(t) /\ Len(t) = Len(q) + 1
      /\ \A n \in 1..Len(q) : t[n] = q[n]
      /\ t[Len(q) + 1] = x
  BY RisingAppend
<1>2. \A n \in 1..Len(t) : t[n] = x \/ \E m \in 1..Len(q) : t[n] = q[m]
  BY <1>1
<1>3. CASE Len(t) > size
  <2>1. Keep(q, x, size) = SubSeq(t, lo, Len(t))
    BY <1>3 DEF Keep
  <2>2. lo \in 1..Len(t) /\ Len(t) \in Nat
    BY <1>1, <1>3
  <2>3. /\ SubSeq(t, lo, Len(t)) \in Seq(Nat)
        /\ Len(SubSeq(t, lo, Len(t))) = size
        /\ \A n \in 1..size : SubSeq(t, lo, Len(t))[n] = t[lo + n - 1] /\ lo + n - 1 \in 1..Len(t)
    <3> HIDE DEF t, lo
    <3>1. lo \in 1..Len(t) + 1 /\ Len(t) \in lo - 1..Len(t) /\ Len(t) - lo + 1 = size
      BY <1>1, <1>3, <2>2 DEF lo
    <3>2. QED BY <1>1, <2>2, <3>1, SubSeqProperties
  <2> HIDE DEF t, lo
  <2>4. ASSUME NEW i \in 1..size, NEW j \in 1..size, i < j
        PROVE  t[lo + i - 1] < t[lo + j - 1]
    <3>1. lo + i - 1 \in 1..Len(t) /\ lo + j - 1 \in 1..Len(t) /\ lo + i - 1 < lo + j - 1
      BY <2>2, <2>3, <2>4
    <3>2. QED BY <1>1, <3>1 DEF Rising
  <2>5. Rising(Keep(q, x, size))
    <3>1. \A i, j \in 1..size : i < j => SubSeq(t, lo, Len(t))[i] < SubSeq(t, lo, Len(t))[j]
      BY <2>3, <2>4
    <3>2. QED BY <2>1, <2>3, <3>1 DEF Rising
  <2>6. ASSUME NEW n \in 1..size
        PROVE  Keep(q, x, size)[n] = x \/ \E m \in 1..Len(q) : Keep(q, x, size)[n] = q[m]
    <3>1. Keep(q, x, size)[n] = t[lo + n - 1] /\ lo + n - 1 \in 1..Len(t)
      BY <2>1, <2>3
    <3>2. QED BY <1>2, <3>1
  <2>7. QED BY <2>1, <2>3, <2>5, <2>6
<1>4. CASE ~(Len(t) > size)
  <2>1. Keep(q, x, size) = t
    BY <1>4 DEF Keep
  <2> HIDE DEF t
  <2>2. QED BY <1>1, <1>2, <2>1
<1>5. QED BY <1>3, <1>4

----------------------------------------------------------------------------
(* The inductive invariant: it holds initially, and each action keeps it.   *)

(* Sources are pairs of a channel and a count of switches. *)
LEMMA SourceFacts ==
  /\ \A s \in Source : s[1] \in Chan
  /\ \A c \in Chan : c = "metrics" \/ c = "kernels"
  /\ "metrics" \in Chan /\ "kernels" \in Chan /\ "metrics" # "kernels"
BY DEF Source, Chan

(* The browser starts with empty rings and no source in use. *)
LEMMA InitIInv == Init => IInv
<1> SUFFICES ASSUME Init PROVE IInv
  OBVIOUS
<1>1. \A c \in Chan : log[c] = <<>>
  BY DEF Init
<1>2. Types
  <2>1. log \in [Chan -> Seq(Message)]
    BY DEF Init
  <2>2. Unopened \in Entry
    BY DEF Unopened, Entry
  <2>3. es \in [Source -> Entry]
    BY <2>2 DEF Init
  <2>4. rings \in [series : [Series -> Seq(Nat)], spikes : Seq(Nat), kernels : Seq(Nat)]
    BY DEF Init
  <2>5. QED BY <2>1, <2>3, <2>4 DEF Init, Types, NoSnapshot
<1>3. \A s \in Source : es[s].state = "new"
  BY DEF Init, Unopened
<1>4. LogKinds
  BY <1>1, SourceFacts DEF LogKinds
<1>5. LastOpened /\ Ahead /\ LagsOnly
  BY <1>3 DEF LastOpened, InUse, Ahead, LagsOnly, Active
<1>6. HeldSent /\ RingsInOrder
  BY DEF Init, HeldSent, RingsInOrder, Rising
<1>7. QED BY <1>2, <1>4, <1>5, <1>6 DEF IInv

(* A new snapshot, and steps that concern none of the state above. *)
LEMMA ServerIInv ==
  ASSUME IInv, Publish \/ Start \/ KernelsTick \/ UNCHANGED vars
  PROVE  IInv'
<1> USE DEF IInv
<1>1. UNCHANGED <<log, es, rings, opens, enabled, recv>>
  BY DEF Publish, Start, KernelsTick, browser, server, vars
<1>2. snap' \in SUBSET Series
  <2>1. CASE Publish
    <3>1. PICK K \in SUBSET Series : snap' = snap \cup K
      BY <2>1 DEF Publish
    <3>2. QED BY <3>1 DEF Types
  <2>2. CASE ~Publish
    BY <2>2 DEF Start, KernelsTick, server, vars, Types
  <2>3. QED BY <2>1, <2>2
<1>3. Types'
  BY <1>1, <1>2 DEF Types
<1>4. (LogKinds /\ LastOpened /\ Ahead /\ HeldSent /\ RingsInOrder /\ LagsOnly)'
  BY <1>1 DEF LogKinds, LastOpened, Ahead, HeldSent, RingsInOrder, LagsOnly,
              Active, InUse, AheadOf, Held, OnWire
<1>5. QED BY <1>3, <1>4

(* A send on a channel is the newest message of its log. *)
LEMMA SendIInv ==
  ASSUME IInv, NEW c \in Chan, NEW m \in Message, Send(c, m),
         c = "metrics" <=> m.type # "kernel"
  PROVE  IInv'
<1> USE DEF IInv
<1>1. UNCHANGED <<es, rings, opens, enabled, recv, snap>>
  BY DEF Send, browser
<1>2. /\ log' \in [Chan -> Seq(Message)]
      /\ \A d \in Chan : d # c => log'[d] = log[d]
      /\ log'[c] = Append(log[c], m)
  BY DEF Send, Types
<1>3. /\ Len(log'[c]) = Len(log[c]) + 1 /\ Len(log[c]) \in Nat
      /\ \A i \in 1..Len(log[c]) : log'[c][i] = log[c][i]
      /\ log'[c][Len(log[c]) + 1] = m
  BY <1>2 DEF Types
<1>4. \A d \in Chan : /\ Len(log[d]) <= Len(log'[d])
                      /\ Len(log[d]) \in Nat /\ Len(log'[d]) \in Nat
                      /\ \A i \in 1..Len(log[d]) : log'[d][i] = log[d][i]
  <2> TAKE d \in Chan
  <2>1. log[d] \in Seq(Message) /\ log'[d] \in Seq(Message)
    BY <1>2 DEF Types
  <2>2. Len(log[d]) \in Nat /\ Len(log'[d]) \in Nat
    BY <2>1
  <2>3. CASE d = c BY <1>3, <2>2, <2>3
  <2>4. CASE d # c BY <1>2, <2>2, <2>4
  <2>5. QED BY <2>3, <2>4
<1>5. Types'
  BY <1>1, <1>2 DEF Types
<1>6. LogKinds'
  <2>1. \A i \in 1..Len(log'[c]) : i \in 1..Len(log[c]) \/ i = Len(log[c]) + 1
    BY <1>3
  <2>2. m.type \in {"metric", "spike", "kernel"}
    BY DEF Message
  <2>3. CASE c = "metrics"
    <3>1. \A i \in 1..Len(log'[c]) : log'[c][i].type # "kernel"
      BY <1>3, <2>1, <2>3 DEF LogKinds
    <3>2. QED BY <1>2, <2>3, <3>1, SourceFacts DEF LogKinds
  <2>4. CASE c = "kernels"
    <3>1. \A i \in 1..Len(log'[c]) : log'[c][i].type = "kernel"
      BY <1>3, <2>1, <2>2, <2>4, SourceFacts DEF LogKinds
    <3>2. QED BY <1>2, <2>4, <3>1, SourceFacts DEF LogKinds
  <2>5. QED BY <2>3, <2>4, SourceFacts
<1>7. LastOpened' /\ RingsInOrder'
  BY <1>1 DEF LastOpened, RingsInOrder, InUse, Active
<1>8. HeldSent'
  <2>1. \A d \in Chan : 1..Len(log[d]) \subseteq 1..Len(log'[d])
    BY <1>4
  <2>2. QED BY <1>1, <2>1, SourceFacts DEF HeldSent
<1>9. ASSUME NEW d \in Chan, NEW i \in Nat PROVE Held(d, i)' => i \in 1..Len(log[d])
  BY <1>1, SourceFacts DEF Held, HeldSent
<1>10. Ahead'
  <2> SUFFICES ASSUME NEW s \in Source, Active(s)'
               PROVE  /\ es'[s].pos <= Len(log'[s[1]]) + 1
                      /\ es'[s].start <= es'[s].pos
                      /\ Rising(es'[s].wire)
                      /\ \A n \in 1..Len(es'[s].wire) :
                           1 <= es'[s].wire[n] /\ es'[s].wire[n] < es'[s].pos
                      /\ \A i \in 1..Len(log'[s[1]]) : Held(s[1], i)' =>
                           i < es'[s].pos /\ \A n \in 1..Len(es'[s].wire) : i < es'[s].wire[n]
    BY DEF Ahead, AheadOf
  <2>1. Active(s)
    BY <1>1 DEF Active
  <2>2. ASSUME NEW i \in 1..Len(log'[s[1]]), Held(s[1], i)'
        PROVE  i < es[s].pos /\ \A n \in 1..Len(es[s].wire) : i < es[s].wire[n]
    <3>1. Held(s[1], i)
      BY <1>1, <2>2 DEF Held
    <3>2. i \in 1..Len(log[s[1]])
      BY <1>4, <1>9, <2>2, SourceFacts
    <3>3. QED BY <2>1, <3>1, <3>2 DEF Ahead, AheadOf
  <2>3. es[s].pos \in Nat
    BY DEF Types, Entry
  <2>4. QED BY <1>1, <1>4, <2>1, <2>2, <2>3, SourceFacts DEF Ahead, AheadOf
<1>11. LagsOnly'
  <2> SUFFICES ASSUME NEW s \in Source, es'[s].state = "open",
                      NEW i \in es'[s].start..es'[s].pos - 1
               PROVE  i \in recv'[s] \/ OnWire(s, i)' \/ i + Cap <= Len(log'[s[1]])
    BY DEF LagsOnly
  <2>1. i \in recv[s] \/ OnWire(s, i) \/ i + Cap <= Len(log[s[1]])
    BY <1>1 DEF LagsOnly
  <2>2. OnWire(s, i)' <=> OnWire(s, i)
    BY <1>1 DEF OnWire
  <2>3. /\ Cap \in Nat /\ i \in Int
        /\ Len(log[s[1]]) \in Nat /\ Len(log'[s[1]]) \in Nat /\ Len(log[s[1]]) <= Len(log'[s[1]])
    BY <1>4, SourceFacts, LiveStreamAssumption
  <2>4. QED BY <1>1, <2>1, <2>2, <2>3
<1>12. QED BY <1>5, <1>6, <1>7, <1>8, <1>10, <1>11

(* A step that changes sources only, each of them soundly. *)
LEMMA SourceIInv ==
  ASSUME IInv, Types', UNCHANGED <<log, rings, opens, enabled>>,
         \A t \in Source : /\ InUse(t)' => InUse(t)
                           /\ Active(t)' => AheadOf(t)'
                           /\ es'[t].state = "open" => LagsOf(t)'
  PROVE  IInv'
<1>1. LastOpened'
  BY DEF LastOpened, IInv
<1>2. Ahead'
  BY DEF Ahead
<1>3. LagsOnly'
  BY DEF LagsOnly, LagsOf
<1>4. (LogKinds /\ HeldSent /\ RingsInOrder)'
  BY DEF LogKinds, HeldSent, RingsInOrder, IInv
<1>5. QED BY <1>1, <1>2, <1>3, <1>4 DEF IInv

(* A source that keeps its place keeps what holds of it. *)
LEMMA SameSource ==
  ASSUME IInv, UNCHANGED <<log, rings>>, NEW t \in Source,
         UNCHANGED <<recv[t], es[t].start, es[t].pos, es[t].wire>>
  PROVE  /\ Active(t) => AheadOf(t)'
         /\ es[t].state = "open" => LagsOf(t)'
<1>1. AheadOf(t)' <=> AheadOf(t)
  BY DEF AheadOf, Held
<1>2. LagsOf(t)' <=> LagsOf(t)
  BY DEF LagsOf, OnWire
<1>3. QED BY <1>1, <1>2 DEF IInv, Ahead, LagsOnly, LagsOf

(* A connection that breaks keeps what has reached the browser. *)
LEMMA BreakIInv ==
  ASSUME IInv, Exit \/ \E s \in Source : Break(s)
  PROVE  IInv'
<1>1. UNCHANGED <<log, rings, opens, enabled, recv>>
  BY DEF Exit, Break, server, browser
<1>2. /\ \A t \in Source : \/ es'[t] = es[t]
                           \/ es[t].state = "open" /\ es'[t] = [es[t] EXCEPT !.state = "broken"]
      /\ es' \in [Source -> Entry]
      /\ snap' = snap \/ snap' = NoSnapshot
  <2>1. es \in [Source -> Entry]
    BY DEF IInv, Types
  <2>2. \A t \in Source : [es[t] EXCEPT !.state = "broken"] \in Entry
    BY <2>1 DEF Entry
  <2>3. CASE Exit
    <3>1. es' = [s \in Source |-> IF es[s].state = "open"
                                 THEN [es[s] EXCEPT !.state = "broken"] ELSE es[s]]
      BY <2>3 DEF Exit
    <3>2. QED BY <2>1, <2>2, <2>3, <3>1 DEF Exit
  <2>4. CASE \E s \in Source : Break(s)
    <3>1. PICK s \in Source : Break(s)
      BY <2>4
    <3>2. es' = [es EXCEPT ![s].state = "broken"] /\ es[s].state = "open"
      BY <3>1 DEF Break
    <3>3. QED BY <2>1, <2>2, <3>1, <3>2 DEF Break, server
  <2>5. QED BY <2>3, <2>4
<1>3. Types'
  BY <1>1, <1>2 DEF Types, IInv, NoSnapshot
<1>5. ASSUME NEW t \in Source
      PROVE  /\ InUse(t)' => InUse(t)
             /\ Active(t)' => AheadOf(t)'
             /\ es'[t].state = "open" => LagsOf(t)'
  <2>1. es[t] \in Entry
    BY DEF IInv, Types
  <2>2. /\ UNCHANGED <<es[t].start, es[t].pos, es[t].wire>>
        /\ Active(t)' => Active(t)
        /\ es'[t].state = "open" => es[t].state = "open"
        /\ InUse(t)' => InUse(t)
    <3>1. CASE es'[t] = es[t] BY <3>1 DEF Active, InUse
    <3>2. CASE es[t].state = "open" /\ es'[t] = [es[t] EXCEPT !.state = "broken"]
      BY <2>1, <3>2 DEF Active, InUse, Entry
    <3>3. QED BY <1>2, <3>1, <3>2
  <2>3. UNCHANGED recv[t]
    BY <1>1
  <2>4. QED BY <1>1, <2>2, <2>3, SameSource
<1>6. QED BY <1>1, <1>3, <1>5, SourceIInv

(* The fields of an entry, and of those that a step makes of it. *)
LEMMA EntryFields ==
  /\ \A e \in Entry : e.pos \in Nat \ {0} /\ e.start \in Nat \ {0} /\ e.wire \in Seq(Nat)
  /\ \A e \in Entry, p \in Nat \ {0} : [e EXCEPT !.pos = p] \in Entry
  /\ \A e \in Entry, p \in Nat \ {0}, w \in Seq(Nat) : [e EXCEPT !.wire = w, !.pos = p] \in Entry
  /\ \A e \in Entry, w \in Seq(Nat) :
       /\ [e EXCEPT !.wire = w] \in Entry
       /\ [e EXCEPT !.state = "connecting", !.wire = w] \in Entry
       /\ [e EXCEPT !.state = "connecting", !.wire = w].state = "connecting"
  /\ \A e \in Entry : [e EXCEPT !.state = "connecting"] \in Entry
BY DEF Entry

(* A handler, a subscription and an error concern one source. *)
LEMMA HandlerIInv ==
  ASSUME IInv, NEW s \in Source, Lag(s) \/ Forward(s) \/ Subscribe(s) \/ OnError(s)
  PROVE  IInv'
<1> DEFINE n == Len(log[s[1]])
           e == es[s]
<1>1. UNCHANGED <<log, rings, opens, enabled, snap>>
  BY DEF Lag, Forward, Subscribe, OnError, server, browser
<1>2. /\ e \in Entry
      /\ n \in Nat /\ s[1] \in Chan /\ Cap \in Nat \ {0}
  BY SourceFacts, LiveStreamAssumption DEF IInv, Types
<1>3. Active(s) => AheadOf(s)
  BY DEF IInv, Ahead
<1>4. e.state = "open" => LagsOf(s)
  BY DEF IInv, LagsOnly, LagsOf
<1>5. \A t \in Source : t # s => es'[t] = es[t] /\ recv'[t] = recv[t]
  <2>1. es \in [Source -> Entry] /\ recv \in [Source -> SUBSET Nat]
    BY DEF IInv, Types
  <2>2. CASE Lag(s) BY <2>1, <2>2 DEF Lag, browser
  <2>3. CASE Forward(s) BY <2>1, <2>3 DEF Forward, browser
  <2>4. CASE Subscribe(s) BY <2>1, <2>4 DEF Subscribe
  <2>5. CASE OnError(s) BY <2>1, <2>5 DEF OnError
  <2>6. QED BY <2>2, <2>3, <2>4, <2>5
<1>6. /\ es' \in [Source -> Entry] /\ recv' \in [Source -> SUBSET Nat]
      /\ InUse(s)' => InUse(s)
      /\ Active(s)' => AheadOf(s)'
      /\ es'[s].state = "open" => LagsOf(s)'
  <2>0. es \in [Source -> Entry] /\ recv \in [Source -> SUBSET Nat]
    BY DEF IInv, Types
  <2>1. CASE Lag(s)
    <3>1. es' = [es EXCEPT ![s].pos = n - Cap + 1] /\ recv' = recv
      BY <2>1 DEF Lag, browser
    <3>2. n >= e.pos + Cap /\ e.state = "open"
      BY <2>1 DEF Lag, Lagging
    <3>3. /\ e.pos \in Nat \ {0} /\ e.start \in Nat
          /\ n - Cap + 1 \in Nat \ {0} /\ e.pos < n - Cap + 1 /\ n - Cap + 1 <= n + 1
      <4>1. e.pos \in Nat \ {0} /\ e.start \in Nat \ {0}
        BY <1>2 DEF Entry
      <4> HIDE DEF e, n
      <4>2. QED BY <1>2, <3>2, <4>1
    <3>4. [e EXCEPT !.pos = n - Cap + 1] \in Entry
      <4> HIDE DEF e, n
      <4>1. QED BY <1>2, <3>3, EntryFields
    <3>5. /\ es'[s] = [e EXCEPT !.pos = n - Cap + 1]
          /\ es' \in [Source -> Entry] /\ recv' \in [Source -> SUBSET Nat]
      BY <2>0, <3>1, <3>4
    <3>6. /\ es'[s].pos = n - Cap + 1 /\ es'[s].start = e.start /\ es'[s].wire = e.wire
          /\ es'[s].state = e.state
      BY <1>2, <3>5 DEF Entry
    <3>7. Active(s) /\ InUse(s)
      BY <3>2 DEF Active, InUse
    <3>8. AheadOf(s)'
      <4>1. e.wire \in Seq(Nat)
        BY <1>2 DEF Entry
      <4>2. \A i \in 1..Len(log[s[1]]) : Held(s[1], i)' <=> Held(s[1], i)
        BY <1>1 DEF Held
      <4>3. /\ e.start <= e.pos /\ Rising(e.wire)
            /\ \A k \in 1..Len(e.wire) : 1 <= e.wire[k] /\ e.wire[k] < e.pos
            /\ \A i \in 1..n : Held(s[1], i) => i < e.pos /\ \A k \in 1..Len(e.wire) : i < e.wire[k]
        BY <1>3, <3>7 DEF AheadOf
      <4>4. /\ es'[s].start <= es'[s].pos /\ es'[s].pos <= n + 1
            /\ \A k \in 1..Len(e.wire) : 1 <= e.wire[k] /\ e.wire[k] < es'[s].pos
            /\ \A i \in 1..n : Held(s[1], i)' =>
                 i < es'[s].pos /\ \A k \in 1..Len(e.wire) : i < e.wire[k]
        <5>1. \A k \in 1..Len(e.wire) : e.wire[k] \in Nat
          BY <4>1
        <5>2. e.start \in Nat /\ e.pos \in Nat
          BY <1>2 DEF Entry
        <5>3. \A i \in 1..n : Held(s[1], i)' <=> Held(s[1], i)
          BY <4>2
        <5> HIDE DEF e, n
        <5>4. es'[s].start <= es'[s].pos /\ e.pos <= es'[s].pos /\ es'[s].pos <= n + 1
              /\ es'[s].pos \in Nat
          BY <3>3, <3>6, <4>3, <5>2
        <5>5. \A k \in 1..Len(e.wire) : 1 <= e.wire[k] /\ e.wire[k] < es'[s].pos
          BY <4>3, <5>1, <5>2, <5>4
        <5>6. \A i \in 1..n : Held(s[1], i)' =>
                i < es'[s].pos /\ \A k \in 1..Len(e.wire) : i < e.wire[k]
          BY <4>3, <5>2, <5>3, <5>4
        <5>7. QED BY <5>4, <5>5, <5>6
      <4>5. QED BY <1>1, <3>6, <4>3, <4>4 DEF AheadOf
    <3>9. LagsOf(s)'
      <4> SUFFICES ASSUME NEW i \in es'[s].start..es'[s].pos - 1
                   PROVE  i \in recv'[s] \/ OnWire(s, i)' \/ i + Cap <= Len(log'[s[1]])
        BY DEF LagsOf
      <4>0. /\ i \in e.start..n - Cap + 1 - 1
            /\ OnWire(s, i) => OnWire(s, i)'
            /\ recv'[s] = recv[s] /\ Len(log'[s[1]]) = n
        <5>1. es'[s].start = e.start /\ es'[s].pos = n - Cap + 1 /\ es'[s].wire = e.wire
          BY <3>6
        <5>2. OnWire(s, i) => OnWire(s, i)'
          BY <5>1 DEF OnWire
        <5>3. recv'[s] = recv[s] /\ Len(log'[s[1]]) = n
          BY <1>1, <3>1
        <5>4. i \in e.start..n - Cap + 1 - 1
          <6> HIDE DEF e, n
          <6>1. QED BY <1>2, <3>3, <5>1
        <5>5. QED BY <5>1, <5>2, <5>3, <5>4
      <4>1. CASE i < e.pos
        <5>1. i \in e.start..e.pos - 1
          <6> HIDE DEF e, n
          <6>1. QED BY <1>2, <3>3, <4>0, <4>1
        <5>2. QED BY <1>4, <3>2, <4>0, <5>1 DEF LagsOf
      <4>2. CASE ~(i < e.pos)
        <5>1. i + Cap <= n
          <6> HIDE DEF e, n
          <6>1. QED BY <1>2, <3>3, <4>0
        <5>2. QED BY <4>0, <5>1
      <4>3. QED BY <4>1, <4>2
    <3>10. QED BY <3>5, <3>7, <3>8, <3>9
  <2>2. CASE Forward(s)
    <3>1. /\ es' = [es EXCEPT ![s].wire = Append(@, e.pos), ![s].pos = @ + 1]
          /\ e.state = "open" /\ e.pos <= n /\ recv' = recv
      BY <2>2 DEF Forward, browser
    <3>2. e.wire \in Seq(Nat) /\ e.pos \in Nat \ {0} /\ e.start \in Nat \ {0}
      BY <1>2 DEF Entry
    <3>3. es'[s] = [e EXCEPT !.wire = Append(@, e.pos), !.pos = @ + 1]
      BY <2>0, <3>1
    <3>4. /\ es'[s].pos = e.pos + 1 /\ es'[s].start = e.start
          /\ es'[s].wire = Append(e.wire, e.pos) /\ es'[s].state = e.state
      BY <1>2, <3>3 DEF Entry
    <3>5. es'[s] \in Entry
      <4>1. Append(e.wire, e.pos) \in Seq(Nat) /\ e.pos + 1 \in Nat \ {0}
        BY <3>2
      <4>2. es'[s] = [e EXCEPT !.wire = Append(e.wire, e.pos), !.pos = e.pos + 1]
        BY <1>2, <3>3 DEF Entry
      <4> DEFINE w == Append(e.wire, e.pos)
                 p == e.pos + 1
      <4>3. w \in Seq(Nat) /\ p \in Nat \ {0} /\ es'[s] = [e EXCEPT !.wire = w, !.pos = p]
        BY <4>1, <4>2
      <4> HIDE DEF e, w, p
      <4>4. QED BY <1>2, <4>3 DEF Entry
    <3>6. es' \in [Source -> Entry]
      BY <2>0, <3>1, <3>3, <3>5
    <3>7. Active(s) /\ InUse(s)
      BY <3>1 DEF Active, InUse
    <3>8. /\ Rising(e.wire) /\ e.start <= e.pos
          /\ \A k \in 1..Len(e.wire) : 1 <= e.wire[k] /\ e.wire[k] < e.pos
          /\ \A i \in 1..n : Held(s[1], i) => i < e.pos /\ \A k \in 1..Len(e.wire) : i < e.wire[k]
      BY <1>3, <3>7 DEF AheadOf
    <3>9. /\ Rising(es'[s].wire) /\ Len(es'[s].wire) = Len(e.wire) + 1 /\ Len(e.wire) \in Nat
          /\ \A k \in 1..Len(e.wire) : es'[s].wire[k] = e.wire[k] /\ e.wire[k] \in Nat
          /\ es'[s].wire[Len(e.wire) + 1] = e.pos
      <4>1. Len(e.wire) \in Nat /\ \A k \in 1..Len(e.wire) : e.wire[k] \in Nat
        BY <3>2
      <4>2. /\ Rising(Append(e.wire, e.pos))
            /\ Len(Append(e.wire, e.pos)) = Len(e.wire) + 1
            /\ \A k \in 1..Len(e.wire) : Append(e.wire, e.pos)[k] = e.wire[k]
            /\ Append(e.wire, e.pos)[Len(e.wire) + 1] = e.pos
        <5>1. e.wire \in Seq(Nat) /\ e.pos \in Nat /\ Rising(e.wire)
              /\ \A k \in 1..Len(e.wire) : e.wire[k] < e.pos
          BY <3>2, <3>8
        <5> DEFINE w == e.wire
                   x == e.pos
        <5>2. w \in Seq(Nat) /\ x \in Nat /\ Rising(w) /\ \A k \in 1..Len(w) : w[k] < x
          BY <5>1
        <5> HIDE DEF w, x
        <5>3. /\ Rising(Append(w, x)) /\ Len(Append(w, x)) = Len(w) + 1
              /\ \A k \in 1..Len(w) : Append(w, x)[k] = w[k]
              /\ Append(w, x)[Len(w) + 1] = x
          BY <5>2, RisingAppend
        <5>4. QED BY <5>3 DEF w, x
      <4>3. QED BY <3>4, <4>1, <4>2
    <3>10. \A k \in 1..Len(es'[s].wire) : k \in 1..Len(e.wire) \/ k = Len(e.wire) + 1
      BY <3>9
    <3>11. AheadOf(s)'
      <4>1. \A i \in 1..n : Held(s[1], i)' <=> Held(s[1], i)
        BY <1>1 DEF Held
      <4>2. \A k \in 1..Len(es'[s].wire) : 1 <= es'[s].wire[k] /\ es'[s].wire[k] < es'[s].pos
        BY <3>2, <3>4, <3>8, <3>9, <3>10
      <4>3. \A i \in 1..n : Held(s[1], i) =>
              i < es'[s].pos /\ \A k \in 1..Len(es'[s].wire) : i < es'[s].wire[k]
        BY <3>2, <3>4, <3>8, <3>9, <3>10
      <4>4. es'[s].pos <= n + 1 /\ es'[s].start <= es'[s].pos
        BY <1>2, <3>1, <3>2, <3>4, <3>8
      <4>5. QED BY <1>1, <3>9, <4>1, <4>2, <4>3, <4>4 DEF AheadOf
    <3>12. LagsOf(s)'
      <4> SUFFICES ASSUME NEW i \in es'[s].start..es'[s].pos - 1
                   PROVE  i \in recv'[s] \/ OnWire(s, i)' \/ i + Cap <= Len(log'[s[1]])
        BY DEF LagsOf
      <4>0. /\ i \in e.start..e.pos + 1 - 1
            /\ recv'[s] = recv[s] /\ Len(log'[s[1]]) = n
        <5>1. es'[s].start = e.start /\ es'[s].pos = e.pos + 1
          BY <3>4
        <5>2. recv'[s] = recv[s] /\ Len(log'[s[1]]) = n
          BY <1>1, <3>1
        <5>3. i \in e.start..e.pos + 1 - 1
          <6> HIDE DEF e, n
          <6>1. QED BY <3>2, <5>1
        <5>4. QED BY <5>1, <5>2, <5>3
      <4>1. OnWire(s, i) => OnWire(s, i)'
        <5>1. \A k \in 1..Len(e.wire) : k \in 1..Len(es'[s].wire)
          BY <3>9
        <5>2. QED BY <3>9, <5>1 DEF OnWire
      <4>2. CASE i = e.pos
        <5>1. Len(e.wire) + 1 \in 1..Len(es'[s].wire)
          BY <3>9
        <5>2. QED BY <3>9, <4>2, <5>1 DEF OnWire
      <4>3. CASE i # e.pos
        <5>1. i \in e.start..e.pos - 1
          <6> HIDE DEF e, n
          <6>1. QED BY <3>2, <4>0, <4>3
        <5>2. QED BY <1>4, <3>1, <4>0, <4>1, <5>1 DEF LagsOf
      <4>4. QED BY <4>2, <4>3
    <3>13. QED BY <2>0, <3>1, <3>6, <3>7, <3>11, <3>12
  <2>3. CASE Subscribe(s)
    <3>1. /\ es' = [es EXCEPT ![s] = [state |-> "open", start |-> n + 1, pos |-> n + 1,
                                      wire |-> <<>>]]
          /\ recv' = [recv EXCEPT ![s] = {}] /\ e.state = "connecting"
      BY <2>3 DEF Subscribe
    <3>2. [state |-> "open", start |-> n + 1, pos |-> n + 1, wire |-> <<>>] \in Entry
      BY <1>2 DEF Entry
    <3>3. /\ es' \in [Source -> Entry] /\ recv' \in [Source -> SUBSET Nat]
          /\ es'[s].pos = n + 1 /\ es'[s].start = n + 1 /\ es'[s].wire = <<>>
      BY <2>0, <3>1, <3>2
    <3>4. AheadOf(s)' /\ LagsOf(s)'
      BY <1>1, <1>2, <3>3 DEF AheadOf, LagsOf, Rising
    <3>5. InUse(s)
      BY <3>1 DEF InUse
    <3>6. QED BY <3>3, <3>4, <3>5
  <2>4. CASE OnError(s)
    <3>1. /\ es' = [es EXCEPT ![s].state = "connecting", ![s].wire = <<>>]
          /\ recv' = recv /\ e.state \in {"broken", "connecting"}
      BY <2>4 DEF OnError
    <3>2. es'[s] = [e EXCEPT !.state = "connecting", !.wire = <<>>]
      BY <2>0, <3>1
    <3>3. es'[s] \in Entry /\ es'[s].state = "connecting"
      <4>1. <<>> \in Seq(Nat) /\ 1 \in Nat \ {0}
        OBVIOUS
      <4> HIDE DEF e
      <4>2. QED BY <1>2, <3>2, <4>1, EntryFields
    <3>4. es' \in [Source -> Entry]
      BY <2>0, <3>1, <3>2, <3>3
    <3>5. QED BY <2>0, <3>1, <3>3, <3>4 DEF Active, InUse
  <2>5. QED BY <2>1, <2>2, <2>3, <2>4
<1>7. Types'
  BY <1>1, <1>6 DEF IInv, Types
<1>8. ASSUME NEW t \in Source, t # s
      PROVE  /\ InUse(t)' => InUse(t)
             /\ Active(t)' => AheadOf(t)'
             /\ es'[t].state = "open" => LagsOf(t)'
  <2>1. es'[t] = es[t] /\ recv'[t] = recv[t]
    BY <1>5, <1>8
  <2>2. QED BY <1>1, <2>1, SameSource DEF InUse, Active
<1>9. QED BY <1>1, <1>6, <1>7, <1>8, SourceIInv


(* Switching live mode on opens new sources; switching it off closes all.   *)
LEMMA SwitchIInv ==
  ASSUME IInv, Enable \/ Disable
  PROVE  IInv'
<1>1. UNCHANGED <<log, rings, snap>>
  BY DEF Enable, Disable, server
<1>2. es \in [Source -> Entry] /\ recv \in [Source -> SUBSET Nat] /\ opens \in Nat
  BY DEF IInv, Types
<1>3. LogKinds' /\ HeldSent' /\ RingsInOrder'
  BY <1>1 DEF IInv, LogKinds, HeldSent, RingsInOrder
<1>4. CASE Enable
  <2>1. /\ es' = [s \in Source |-> IF s[2] = opens' THEN [es[s] EXCEPT !.state = "connecting"]
                                                    ELSE es[s]]
        /\ recv' = recv /\ opens' = opens + 1 /\ enabled' = TRUE /\ enabled = FALSE
    <3>1. enabled \in BOOLEAN
      BY DEF IInv, Types
    <3>2. QED BY <1>4, <3>1 DEF Enable
  <2>2. \A t \in Source : ~InUse(t)
    BY <2>1 DEF IInv, LastOpened
  <2>3. \A t \in Source : es'[t] \in Entry /\ (es'[t].state = "connecting" \/ es'[t] = es[t])
    <3> TAKE t \in Source
    <3>1. es[t] \in Entry
      BY <1>2
    <3>2. [es[t] EXCEPT !.state = "connecting"] \in Entry
          /\ [es[t] EXCEPT !.state = "connecting"].state = "connecting"
      BY <3>1 DEF Entry
    <3>3. QED BY <2>1, <3>1, <3>2
  <2>4. es' \in [Source -> Entry]
    BY <2>1, <2>3
  <2>5. Types'
    BY <1>1, <2>1, <2>4 DEF IInv, Types
  <2>6. \A t \in Source : ~Active(t)'
    BY <2>2, <2>3 DEF InUse, Active
  <2>7. LastOpened'
    <3> SUFFICES ASSUME NEW t \in Source, InUse(t)' PROVE t[2] = opens'
      BY <2>1 DEF LastOpened
    <3>1. CASE t[2] = opens' BY <3>1
    <3>2. CASE t[2] # opens'
      <4>1. es'[t] = es[t]
        BY <2>1, <3>2
      <4>2. QED BY <2>2, <4>1 DEF InUse, Active
    <3>3. QED BY <3>1, <3>2
  <2>8. Ahead' /\ LagsOnly'
    BY <2>6 DEF Ahead, LagsOnly, Active
  <2>9. QED BY <1>3, <2>5, <2>7, <2>8 DEF IInv
<1>5. CASE Disable
  <2>1. /\ es' = [s \in Source |-> IF es[s].state = "new" THEN es[s] ELSE Closed]
        /\ recv' = [s \in Source |-> {}] /\ opens' = opens /\ enabled' = FALSE
    BY <1>5 DEF Disable
  <2>2. Closed \in Entry /\ Closed.state = "closed"
    <3>1. Unopened \in Entry
      BY DEF Unopened, Entry
    <3>2. QED BY <3>1 DEF Closed, Entry
  <2>3. es' \in [Source -> Entry] /\ \A t \in Source : es'[t].state \in {"new", "closed"}
    BY <1>2, <2>1, <2>2
  <2>4. Types'
    BY <1>1, <2>1, <2>3 DEF IInv, Types
  <2>5. \A t \in Source : ~Active(t)' /\ ~InUse(t)'
    BY <2>3 DEF InUse, Active
  <2>6. LastOpened' /\ Ahead' /\ LagsOnly'
    BY <2>5 DEF LastOpened, Ahead, LagsOnly, Active
  <2>7. QED BY <1>3, <2>4, <2>6 DEF IInv
<1>6. QED BY <1>4, <1>5


(* What the rings hold has been sent. *)
LEMMA HeldIsSent ==
  HeldSent <=> \A c \in Chan : \A j : Held(c, j) => j \in 1..Len(log[c])
BY SourceFacts DEF HeldSent, Held

(* The front of a wire is newer than what the rings hold, and the rest is   *)
(* newer still.                                                             *)
LEMMA WireFront ==
  ASSUME IInv, NEW s \in Source, Active(s), es[s].wire # <<>>
  PROVE  /\ es[s].wire \in Seq(Nat) /\ Tail(es[s].wire) \in Seq(Nat) /\ Rising(Tail(es[s].wire))
         /\ Head(es[s].wire) \in 1..Len(log[s[1]]) /\ OnWire(s, Head(es[s].wire))
         /\ Head(es[s].wire) \in Nat /\ Head(es[s].wire) < es[s].pos
         /\ \A j : Held(s[1], j) => j \in Nat /\ j < Head(es[s].wire)
         /\ \A n \in 1..Len(Tail(es[s].wire)) :
              /\ Tail(es[s].wire)[n] \in Nat /\ Head(es[s].wire) < Tail(es[s].wire)[n]
              /\ n + 1 \in 1..Len(es[s].wire) /\ Tail(es[s].wire)[n] = es[s].wire[n + 1]
<1>1. /\ es[s] \in Entry /\ AheadOf(s) /\ s[1] \in Chan /\ Len(log[s[1]]) \in Nat
  BY SourceFacts DEF IInv, Types, Ahead
<1>2. /\ es[s].pos \in Nat /\ es[s].wire \in Seq(Nat)
  BY <1>1, EntryFields
<1> DEFINE w == es[s].wire
<1>3. /\ w \in Seq(Nat) /\ w # <<>> /\ Rising(w)
      /\ \A n \in 1..Len(w) : 1 <= w[n] /\ w[n] < es[s].pos
      /\ es[s].pos <= Len(log[s[1]]) + 1
      /\ \A j \in 1..Len(log[s[1]]) : Held(s[1], j) => \A n \in 1..Len(w) : j < w[n]
  BY <1>1, <1>2 DEF AheadOf
<1>4. \A j : Held(s[1], j) => j \in 1..Len(log[s[1]])
  BY <1>1, HeldIsSent DEF IInv
<1>5. OnWire(s, w[1]) <=> \E n \in 1..Len(w) : w[n] = w[1]
  BY DEF OnWire
<1> HIDE DEF w
<1>6. /\ Tail(w) \in Seq(Nat) /\ Rising(Tail(w)) /\ Head(w) = w[1] /\ Head(w) \in Nat
      /\ 1 \in 1..Len(w)
      /\ \A n \in 1..Len(Tail(w)) : n + 1 \in 1..Len(w) /\ Tail(w)[n] = w[n + 1]
      /\ \A n \in 1..Len(Tail(w)) : Head(w) < Tail(w)[n]
  BY <1>3, RisingTail
<1>7. /\ Head(w) \in 1..Len(log[s[1]]) /\ OnWire(s, Head(w)) /\ Head(w) < es[s].pos
  BY <1>1, <1>2, <1>3, <1>5, <1>6
<1>8. \A j : Held(s[1], j) => j \in Nat /\ j < Head(w)
  BY <1>3, <1>4, <1>6
<1>9. \A n \in 1..Len(Tail(w)) : Tail(w)[n] \in Nat
  BY <1>3, <1>6
<1>10. QED BY <1>3, <1>6, <1>7, <1>8, <1>9 DEF w

(* No two sources in use belong to one channel. *)
LEMMA OnePerChannel ==
  ASSUME IInv, NEW s \in Source, NEW t \in Source, InUse(s), InUse(t), s # t
  PROVE  s[1] # t[1]
<1>1. s[2] = t[2]
  BY DEF IInv, LastOpened
<1>2. QED BY <1>1 DEF Source

(* A message that its listener puts into the rings was the next one.        *)
LEMMA ReceiveIInv ==
  ASSUME IInv, NEW s \in Source, Active(s), es[s].wire # <<>>, NEW i, i = Head(es[s].wire),
         es' = [es EXCEPT ![s].wire = Tail(@)],
         recv' = [recv EXCEPT ![s] = @ \cup {i}],
         UNCHANGED <<log, snap, opens, enabled>>,
         rings' \in [series : [Series -> Seq(Nat)], spikes : Seq(Nat), kernels : Seq(Nat)],
         RingsInOrder',
         \A j : Held(s[1], j)' => Held(s[1], j) \/ j = i,
         \A c \in Chan : c # s[1] => \A j : Held(c, j)' => Held(c, j)
  PROVE  IInv'
<1>1. /\ Tail(es[s].wire) \in Seq(Nat) /\ Rising(Tail(es[s].wire))
      /\ i \in 1..Len(log[s[1]]) /\ i \in Nat /\ OnWire(s, i) /\ i < es[s].pos
      /\ \A j : Held(s[1], j) => j \in Nat /\ j < i
      /\ \A n \in 1..Len(Tail(es[s].wire)) :
           /\ Tail(es[s].wire)[n] \in Nat /\ i < Tail(es[s].wire)[n]
           /\ n + 1 \in 1..Len(es[s].wire) /\ Tail(es[s].wire)[n] = es[s].wire[n + 1]
  BY WireFront
<1>2. /\ es \in [Source -> Entry] /\ es[s] \in Entry /\ s[1] \in Chan
      /\ es[s].pos \in Nat \ {0} /\ es[s].start \in Nat \ {0}
  BY SourceFacts, EntryFields DEF IInv, Types
<1>3. /\ es' \in [Source -> Entry] /\ \A t \in Source : t # s => es'[t] = es[t]
      /\ es'[s].wire = Tail(es[s].wire) /\ es'[s].pos = es[s].pos /\ es'[s].start = es[s].start
      /\ es'[s].state = es[s].state
  <2>1. es'[s] = [es[s] EXCEPT !.wire = Tail(es[s].wire)]
    BY <1>2
  <2>2. [es[s] EXCEPT !.wire = Tail(es[s].wire)] \in Entry
    BY <1>1, <1>2, EntryFields
  <2>3. es' \in [Source -> Entry] /\ \A t \in Source : t # s => es'[t] = es[t]
    BY <1>2, <2>1, <2>2
  <2>4. /\ es'[s].wire = Tail(es[s].wire) /\ es'[s].pos = es[s].pos /\ es'[s].start = es[s].start
        /\ es'[s].state = es[s].state
    BY <1>2, <2>1 DEF Entry
  <2>5. QED BY <2>3, <2>4
<1>4. \A t \in Source : /\ es'[t].state = es[t].state /\ es'[t].pos = es[t].pos
                        /\ es'[t].start = es[t].start
                        /\ Active(t)' <=> Active(t)
                        /\ InUse(t)' <=> InUse(t)
  BY <1>3 DEF Active, InUse
<1>5. /\ recv \in [Source -> SUBSET Nat] /\ recv' \in [Source -> SUBSET Nat]
      /\ recv'[s] = recv[s] \cup {i} /\ \A t \in Source : t # s => recv'[t] = recv[t]
  BY <1>1 DEF IInv, Types
<1>6. Types'
  BY <1>3, <1>5 DEF IInv, Types
<1>7. LogKinds' /\ LastOpened' /\ LagsOnly'
  <2>1. LogKinds' /\ LastOpened'
    BY <1>4 DEF IInv, LogKinds, LastOpened
  <2>2. ASSUME NEW j, OnWire(s, j)
        PROVE  j = i \/ OnWire(s, j)'
    <3>1. PICK n \in 1..Len(es[s].wire) : es[s].wire[n] = j
      BY <2>2 DEF OnWire
    <3>2. es[s].wire \in Seq(Nat)
      BY <1>2, EntryFields
    <3>3. CASE n = 1
      <4>1. i = es[s].wire[1]
        BY <3>2
      <4>2. QED BY <3>1, <3>3, <4>1
    <3>4. CASE n # 1
      <4> DEFINE w == es[s].wire
      <4>1. n - 1 \in 1..Len(Tail(w)) /\ Tail(w)[n - 1] = w[n]
        <5>1. w \in Seq(Nat) /\ n \in 1..Len(w) /\ n # 1
          BY <3>2, <3>4
        <5> HIDE DEF w
        <5>2. /\ Len(w) \in Nat /\ w # <<>> /\ Len(Tail(w)) = Len(w) - 1
              /\ \A k \in 1..Len(w) - 1 : Tail(w)[k] = w[k + 1]
          BY <5>1
        <5>3. n - 1 \in 1..Len(w) - 1 /\ (n - 1) + 1 = n
          BY <5>1, <5>2
        <5>4. Tail(w)[n - 1] = w[(n - 1) + 1]
          BY <5>2, <5>3
        <5>5. QED BY <5>2, <5>3, <5>4
      <4>2. QED BY <1>3, <3>1, <4>1 DEF OnWire
    <3>5. QED BY <3>3, <3>4
  <2>3. ASSUME NEW t \in Source, es'[t].state = "open", NEW j \in es'[t].start..es'[t].pos - 1
        PROVE  j \in recv'[t] \/ OnWire(t, j)' \/ j + Cap <= Len(log[t[1]])
    <3>1. j \in recv[t] \/ OnWire(t, j) \/ j + Cap <= Len(log[t[1]])
      BY <1>4, <2>3 DEF IInv, LagsOnly
    <3>2. CASE t = s BY <1>5, <2>2, <3>1, <3>2
    <3>3. CASE t # s
      <4>1. recv'[t] = recv[t] /\ es'[t] = es[t]
        BY <1>3, <1>5, <3>3
      <4>2. QED BY <3>1, <4>1 DEF OnWire
    <3>4. QED BY <3>2, <3>3
  <2>4. QED BY <2>1, <2>3 DEF LagsOnly
<1>8. HeldSent'
  <2>1. \A c \in Chan : \A j : Held(c, j) => j \in 1..Len(log[c])
    BY HeldIsSent DEF IInv
  <2>2. \A c \in Chan : \A j : Held(c, j)' => j \in 1..Len(log'[c])
    BY <1>1, <2>1
  <2>3. /\ \A j : Held("metrics", j)' => j \in 1..Len(log'["metrics"])
        /\ \A j : Held("kernels", j)' => j \in 1..Len(log'["kernels"])
    BY <2>2, SourceFacts
  <2>4. QED BY <2>3, SourceFacts DEF HeldSent, Held
<1>9. \A t \in Source : Active(t) /\ t # s => t[1] # s[1]
  BY OnePerChannel DEF InUse
<1>10. Ahead'
  <2> SUFFICES ASSUME NEW t \in Source, Active(t)' PROVE AheadOf(t)'
    BY DEF Ahead
  <2>1. Active(t) /\ AheadOf(t)
    BY <1>4 DEF IInv, Ahead
  <2>2. CASE t # s
    <3>1. \A j : Held(t[1], j)' => Held(t[1], j)
      BY <1>9, <2>1, <2>2, SourceFacts
    <3>2. QED BY <1>3, <2>1, <2>2, <3>1 DEF AheadOf
  <2>3. CASE t = s
    <3>1. /\ es[s].pos <= Len(log[s[1]]) + 1 /\ es[s].start <= es[s].pos
          /\ \A n \in 1..Len(es[s].wire) : 1 <= es[s].wire[n] /\ es[s].wire[n] < es[s].pos
      BY <2>1, <2>3 DEF AheadOf
    <3>2. \A n \in 1..Len(Tail(es[s].wire)) :
             1 <= Tail(es[s].wire)[n] /\ Tail(es[s].wire)[n] < es[s].pos
      BY <1>1, <3>1
    <3>3. ASSUME NEW j, Held(s[1], j)'
          PROVE  j \in Nat /\ j <= i
      <4>1. CASE j = i BY <1>1, <4>1
      <4>2. CASE Held(s[1], j) BY <1>1, <4>2
      <4>3. QED BY <3>3, <4>1, <4>2
    <3>4. i < es[s].pos /\ \A n \in 1..Len(Tail(es[s].wire)) :
             Tail(es[s].wire)[n] \in Nat /\ i < Tail(es[s].wire)[n]
      BY <1>1
    <3>5. ASSUME NEW j, Held(s[1], j)'
          PROVE  j < es[s].pos /\ \A n \in 1..Len(Tail(es[s].wire)) : j < Tail(es[s].wire)[n]
      <4>1. j \in Nat /\ j <= i
        BY <3>3, <3>5
      <4>2. i \in Nat /\ i < es[s].pos /\ es[s].pos \in Nat
        BY <1>1, <1>2
      <4>3. j < es[s].pos
        BY <4>1, <4>2
      <4>4. ASSUME NEW n \in 1..Len(Tail(es[s].wire))
            PROVE  j < Tail(es[s].wire)[n]
        <5>1. Tail(es[s].wire)[n] \in Nat /\ i < Tail(es[s].wire)[n]
          BY <3>4
        <5>2. QED BY <4>1, <4>2, <5>1
      <4>5. QED BY <4>3, <4>4
    <3>6. QED BY <1>1, <1>3, <2>3, <3>1, <3>2, <3>5 DEF AheadOf
  <2>4. QED BY <2>2, <2>3
<1>11. QED BY <1>6, <1>7, <1>8, <1>10 DEF IInv

(* The three listeners. *)
LEMMA ListenerIInv ==
  ASSUME IInv, NEW s \in Source, Listener(s)
  PROVE  IInv'
<1> DEFINE i == Head(es[s].wire)
<1>1. /\ Active(s) /\ es[s].wire # <<>> /\ es' = [es EXCEPT ![s].wire = Tail(@)]
      /\ recv' = [recv EXCEPT ![s] = @ \cup {i}]
      /\ UNCHANGED <<log, snap, opens, enabled>>
  BY DEF Listener, OnMetric, OnSpike, OnKernel, Receive, Active, server
<1>2. i \in 1..Len(log[s[1]]) /\ i \in Nat /\ \A j : Held(s[1], j) => j \in Nat /\ j < i
  BY <1>1, WireFront
<1>3. /\ rings \in [series : [Series -> Seq(Nat)], spikes : Seq(Nat), kernels : Seq(Nat)]
      /\ RingsInOrder /\ {RING_SIZE, SPIKE_RING_SIZE, KERNEL_RING_SIZE} \subseteq Nat \ {0}
  BY LiveStreamAssumption DEF IInv, Types
<1>4. CASE OnMetric(s)
  <2> DEFINE m == log["metrics"][i]
  <2>1. /\ rings' = [rings EXCEPT !.series =
                      [k \in Series |-> IF k \in m.keys THEN Keep(@[k], i, RING_SIZE) ELSE @[k]]]
        /\ log[s[1]][i].type = "metric"
    BY <1>4 DEF OnMetric, Receive
  <2>2. s[1] = "metrics"
    BY <1>2, <2>1, SourceFacts DEF IInv, LogKinds
  <2>3. /\ rings'.series =
             [k \in Series |-> IF k \in m.keys THEN Keep(rings.series[k], i, RING_SIZE)
                                               ELSE rings.series[k]]
        /\ rings'.spikes = rings.spikes /\ rings'.kernels = rings.kernels
        /\ rings' = [series |-> rings'.series, spikes |-> rings.spikes, kernels |-> rings.kernels]
    BY <1>3, <2>1
  <2>4. ASSUME NEW k \in Series
        PROVE  /\ rings'.series[k] \in Seq(Nat) /\ Rising(rings'.series[k])
               /\ \A n \in 1..Len(rings'.series[k]) :
                    \/ rings'.series[k][n] = i
                    \/ \E o \in 1..Len(rings.series[k]) : rings'.series[k][n] = rings.series[k][o]
    <3> DEFINE q == rings.series[k]
    <3>1. q \in Seq(Nat) /\ Rising(q)
      BY <1>3 DEF RingsInOrder
    <3>2. \A n \in 1..Len(q) : q[n] < i
      BY <1>2, <2>2 DEF Held
    <3>3. rings'.series[k] = IF k \in m.keys THEN Keep(q, i, RING_SIZE) ELSE q
      BY <2>3
    <3> HIDE DEF q, i, m
    <3>4. /\ rings'.series[k] \in Seq(Nat) /\ Rising(rings'.series[k])
          /\ \A n \in 1..Len(rings'.series[k]) :
               rings'.series[k][n] = i \/ \E o \in 1..Len(q) : rings'.series[k][n] = q[o]
      <4>1. CASE k \in m.keys
        <5> DEFINE r == Keep(q, i, RING_SIZE)
        <5>1. /\ r \in Seq(Nat) /\ Rising(r)
              /\ \A n \in 1..Len(r) : r[n] = i \/ \E o \in 1..Len(q) : r[n] = q[o]
          BY <1>2, <1>3, <3>1, <3>2, KeepFacts
        <5>2. rings'.series[k] = r
          BY <3>3, <4>1
        <5> HIDE DEF r
        <5>3. QED BY <5>1, <5>2
      <4>2. CASE k \notin m.keys
        BY <3>1, <3>3, <4>2
      <4>3. QED BY <4>1, <4>2
    <3>5. QED BY <3>4 DEF q
  <2>5. rings'.series \in [Series -> Seq(Nat)]
    BY <2>3, <2>4
  <2>6. rings' \in [series : [Series -> Seq(Nat)], spikes : Seq(Nat), kernels : Seq(Nat)]
    BY <1>3, <2>3, <2>5
  <2>7. RingsInOrder'
    BY <1>3, <2>3, <2>4 DEF RingsInOrder
  <2>8. \A j : Held("metrics", j)' => Held("metrics", j) \/ j = i
    <3> SUFFICES ASSUME NEW j, Held("metrics", j)' PROVE Held("metrics", j) \/ j = i
      OBVIOUS
    <3>1. CASE \E k \in Series : \E n \in 1..Len(rings'.series[k]) : rings'.series[k][n] = j
      <4>1. PICK k \in Series : \E n \in 1..Len(rings'.series[k]) : rings'.series[k][n] = j
        BY <3>1
      <4>2. j = i \/ \E o \in 1..Len(rings.series[k]) : j = rings.series[k][o]
        BY <2>4, <4>1
      <4>3. QED BY <4>2 DEF Held
    <3>2. CASE \E n \in 1..Len(rings'.spikes) : rings'.spikes[n] = j
      BY <2>3, <3>2 DEF Held
    <3>3. QED BY <3>1, <3>2 DEF Held
  <2>9. \A c \in Chan : c # "metrics" => \A j : Held(c, j)' => Held(c, j)
    BY <2>3 DEF Held
  <2>10. QED BY <1>1, <2>1, <2>2, <2>6, <2>7, <2>8, <2>9, ReceiveIInv
<1>5. CASE OnSpike(s)
  <2>1. /\ rings' = [rings EXCEPT !.spikes = Keep(@, i, SPIKE_RING_SIZE)]
        /\ log[s[1]][i].type = "spike"
    BY <1>5 DEF OnSpike, Receive
  <2>2. s[1] = "metrics"
    BY <1>2, <2>1, SourceFacts DEF IInv, LogKinds
  <2> DEFINE q == rings.spikes
             r == Keep(q, i, SPIKE_RING_SIZE)
  <2>3. /\ rings'.spikes = r /\ rings'.series = rings.series /\ rings'.kernels = rings.kernels
        /\ rings' = [series |-> rings.series, spikes |-> r, kernels |-> rings.kernels]
    BY <1>3, <2>1
  <2>4. q \in Seq(Nat) /\ Rising(q) /\ \A n \in 1..Len(q) : q[n] < i
    BY <1>2, <1>3, <2>2 DEF RingsInOrder, Held
  <2>5. /\ r \in Seq(Nat) /\ Rising(r)
        /\ \A n \in 1..Len(r) : r[n] = i \/ \E o \in 1..Len(q) : r[n] = q[o]
    <3> HIDE DEF q, i
    <3>1. QED BY <1>2, <1>3, <2>4, KeepFacts
  <2> HIDE DEF r
  <2>6. rings' \in [series : [Series -> Seq(Nat)], spikes : Seq(Nat), kernels : Seq(Nat)]
    BY <1>3, <2>3, <2>5
  <2>7. RingsInOrder'
    BY <1>3, <2>3, <2>5 DEF RingsInOrder
  <2>8. \A j : Held("metrics", j)' => Held("metrics", j) \/ j = i
    BY <2>3, <2>5 DEF Held
  <2>9. \A c \in Chan : c # "metrics" => \A j : Held(c, j)' => Held(c, j)
    BY <2>3 DEF Held
  <2>10. QED BY <1>1, <2>1, <2>2, <2>6, <2>7, <2>8, <2>9, ReceiveIInv
<1>6. CASE OnKernel(s)
  <2>1. /\ rings' = [rings EXCEPT !.kernels = Keep(@, i, KERNEL_RING_SIZE)]
        /\ log[s[1]][i].type = "kernel"
    BY <1>6 DEF OnKernel, Receive
  <2>2. s[1] = "kernels"
    BY <1>2, <2>1, SourceFacts DEF IInv, LogKinds
  <2> DEFINE q == rings.kernels
             r == Keep(q, i, KERNEL_RING_SIZE)
  <2>3. /\ rings'.kernels = r /\ rings'.series = rings.series /\ rings'.spikes = rings.spikes
        /\ rings' = [series |-> rings.series, spikes |-> rings.spikes, kernels |-> r]
    BY <1>3, <2>1
  <2>4. q \in Seq(Nat) /\ Rising(q) /\ \A n \in 1..Len(q) : q[n] < i
    BY <1>2, <1>3, <2>2 DEF RingsInOrder, Held
  <2>5. /\ r \in Seq(Nat) /\ Rising(r)
        /\ \A n \in 1..Len(r) : r[n] = i \/ \E o \in 1..Len(q) : r[n] = q[o]
    <3> HIDE DEF q, i
    <3>1. QED BY <1>2, <1>3, <2>4, KeepFacts
  <2> HIDE DEF r
  <2>6. rings' \in [series : [Series -> Seq(Nat)], spikes : Seq(Nat), kernels : Seq(Nat)]
    BY <1>3, <2>3, <2>5
  <2>7. RingsInOrder'
    BY <1>3, <2>3, <2>5 DEF RingsInOrder
  <2>8. \A j : Held("kernels", j)' => Held("kernels", j) \/ j = i
    BY <2>3, <2>5 DEF Held
  <2>9. \A c \in Chan : c # "kernels" => \A j : Held(c, j)' => Held(c, j)
    BY <2>3, SourceFacts DEF Held
  <2>10. QED BY <1>1, <2>1, <2>2, <2>6, <2>7, <2>8, <2>9, ReceiveIInv
<1>7. QED BY <1>4, <1>5, <1>6 DEF Listener


----------------------------------------------------------------------------
(* Every step of the server, the network and the browser keeps IInv.        *)
LEMMA NextIInv == IInv /\ [Next]_vars => IInv'
<1> SUFFICES ASSUME IInv, [Next]_vars PROVE IInv'
  OBVIOUS
<1>1. snap \in SUBSET Series
  BY DEF IInv, Types
<1>2. CASE MetricTick
  <2> DEFINE m == [type |-> "metric", keys |-> snap]
  <2>1. /\ m \in Message /\ m.type = "metric" /\ Send("metrics", m)
    BY <1>1, <1>2 DEF Message, MetricTick
  <2> HIDE DEF m
  <2>2. QED BY <2>1, SendIInv, SourceFacts
<1>3. CASE PublishSpike
  <2> DEFINE m == [type |-> "spike", keys |-> {}]
  <2>1. /\ m \in Message /\ m.type = "spike" /\ Send("metrics", m)
    BY <1>3 DEF Message, PublishSpike
  <2> HIDE DEF m
  <2>2. QED BY <2>1, SendIInv, SourceFacts
<1>4. CASE PublishKernel
  <2> DEFINE m == [type |-> "kernel", keys |-> {}]
  <2>1. /\ m \in Message /\ m.type = "kernel" /\ Send("kernels", m)
    BY <1>4 DEF Message, PublishKernel
  <2> HIDE DEF m
  <2>2. QED BY <2>1, SendIInv, SourceFacts
<1>5. CASE Publish \/ Start \/ KernelsTick \/ Off \/ UNCHANGED vars
  BY <1>5, ServerIInv DEF Off
<1>6. CASE Exit BY <1>6, BreakIInv
<1>7. CASE \E s \in Source : Handler(s) \/ Subscribe(s) \/ Break(s) \/ OnError(s) \/ Listener(s)
  <2>1. PICK s \in Source : Handler(s) \/ Subscribe(s) \/ Break(s) \/ OnError(s) \/ Listener(s)
    BY <1>7
  <2>2. CASE Handler(s) \/ Subscribe(s) \/ OnError(s)
    BY <2>2, HandlerIInv DEF Handler
  <2>3. CASE Break(s) BY <2>3, BreakIInv
  <2>4. CASE Listener(s) BY <2>4, ListenerIInv
  <2>5. QED BY <2>1, <2>2, <2>3, <2>4
<1>8. CASE Enable \/ Disable BY <1>8, SwitchIInv
<1>9. QED BY <1>2, <1>3, <1>4, <1>5, <1>6, <1>7, <1>8 DEF Next

(* The types, the marks of each channel and of each source, and what they   *)
(* imply hold in every reachable state.                                     *)
THEOREM LiveStreamInvariant == Spec => []IInv
<1>1. Init => IInv
  BY InitIInv
<1>2. IInv /\ [Next]_vars => IInv'
  BY NextIInv
<1>3. QED BY <1>1, <1>2, PTL DEF Spec

(* useLiveStream: the rings hold the messages of a channel in the order they *)
(* were sent and none twice, whatever connections break, however often live  *)
(* mode is switched and the server restarts.                                 *)
THEOREM LiveStreamRingsInOrder == Spec => []RingsInOrder
<1>1. IInv => RingsInOrder
  BY DEF IInv
<1>2. QED BY <1>1, LiveStreamInvariant, PTL

(* The SSE handlers: a handler leaves out only what has left the channel.    *)
THEOREM LiveStreamLagsOnly == Spec => []LagsOnly
<1>1. IInv => LagsOnly
  BY DEF IInv
<1>2. QED BY <1>1, LiveStreamInvariant, PTL

(* useLiveStream's connected flag: only a frame of the metric EventSource of *)
(* the last switch sets it, and every way in which that source or live mode  *)
(* ends clears it, however errors, late frames and switches interleave.      *)
THEOREM LiveStreamConnected == Spec => []ConnectedHonest
<1> DEFINE src == <<"metrics", opens>>
           Conn == /\ connected \in BOOLEAN
                   /\ connected => src \in Source /\ enabled /\ Active(src)
<1>1. Init => Conn
  BY DEF Init
<1>2. IInv /\ Conn /\ [Next]_vars => Conn'
  <2> SUFFICES ASSUME IInv, Conn, [Next]_vars PROVE Conn'
    OBVIOUS
  <2>1. es \in [Source -> Entry]
    BY DEF IInv, Types
  <2>2. CASE \E s \in Source : OnMetric(s)
    <3>1. PICK s \in Source : OnMetric(s)
      BY <2>2
    <3> DEFINE i == Head(es[s].wire)
    <3>2. /\ Active(s) /\ es[s].wire # <<>> /\ log[s[1]][i].type = "metric"
          /\ es' = [es EXCEPT ![s].wire = Tail(@)]
          /\ connected' = TRUE /\ opens' = opens /\ enabled' = enabled
      BY <3>1 DEF OnMetric, Receive, Active
    <3>3. i \in 1..Len(log[s[1]])
      BY <3>2, WireFront
    <3>4. s[1] = "metrics"
      BY <3>2, <3>3, SourceFacts DEF IInv, LogKinds
    <3>5. enabled /\ s[2] = opens
      BY <3>2 DEF IInv, LastOpened, InUse
    <3>6. s = src
      BY <3>4, <3>5 DEF Source
    <3>7. es'[s].state = es[s].state
      BY <2>1, <3>2 DEF Entry
    <3>8. Active(s)'
      BY <3>2, <3>7 DEF Active
    <3>9. QED BY <3>2, <3>5, <3>6, <3>8
  <2>3. CASE Disable \/ \E s \in Source : OnError(s)
    BY <2>3 DEF Disable, OnError
  <2>4. CASE Enable
    BY <2>4 DEF Enable
  <2>5. CASE \/ Publish \/ MetricTick \/ PublishSpike \/ PublishKernel \/ Start
             \/ KernelsTick \/ Off \/ UNCHANGED vars
    <3>1. UNCHANGED <<es, connected, opens, enabled>>
      BY <2>5 DEF Publish, MetricTick, PublishSpike, PublishKernel, Send, Start, KernelsTick,
                  Off, browser, vars
    <3>2. QED BY <3>1 DEF Active
  <2>6. CASE \/ Exit
             \/ \E s \in Source : Handler(s) \/ Subscribe(s) \/ Break(s) \/ OnSpike(s) \/ OnKernel(s)
    <3>1. UNCHANGED <<connected, opens, enabled>>
      BY <2>6 DEF Exit, Handler, Lag, Forward, Subscribe, Break, OnSpike, OnKernel, browser
    <3>2. \A t \in Source : Active(t) => Active(t)'
      <4> SUFFICES ASSUME NEW t \in Source, es[t].state \in {"open", "broken"}
                   PROVE  es'[t].state \in {"open", "broken"}
        BY DEF Active
      <4>0. es[t] \in Entry
        BY <2>1
      <4>1. CASE Exit
        BY <2>1, <4>0, <4>1 DEF Exit, Entry
      <4>2. CASE \E s \in Source : Handler(s) \/ Subscribe(s) \/ Break(s) \/ OnSpike(s) \/ OnKernel(s)
        <5>1. PICK s \in Source : Handler(s) \/ Subscribe(s) \/ Break(s) \/ OnSpike(s) \/ OnKernel(s)
          BY <4>2
        <5>2. CASE t # s
          BY <2>1, <5>1, <5>2 DEF Handler, Lag, Forward, Subscribe, Break, OnSpike, OnKernel, Receive
        <5>3. CASE t = s
          <6>1. CASE Handler(s) BY <2>1, <4>0, <5>3, <6>1 DEF Handler, Lag, Forward, Entry
          <6>2. CASE Subscribe(s) BY <2>1, <5>3, <6>2 DEF Subscribe
          <6>3. CASE Break(s) BY <2>1, <4>0, <5>3, <6>3 DEF Break, Entry
          <6>4. CASE OnSpike(s) \/ OnKernel(s)
            BY <2>1, <4>0, <5>3, <6>4 DEF OnSpike, OnKernel, Receive, Entry
          <6>5. QED BY <5>1, <6>1, <6>2, <6>3, <6>4
        <5>4. QED BY <5>2, <5>3
      <4>3. QED BY <2>6, <4>1, <4>2
    <3>3. QED BY <3>1, <3>2
  <2>7. QED BY <2>2, <2>3, <2>4, <2>5, <2>6 DEF Next, Listener
<1>3. IInv /\ Conn => ConnectedHonest
  BY DEF ConnectedHonest, Active
<1>4. QED BY <1>1, <1>2, <1>3, LiveStreamInvariant, PTL DEF Spec
=============================================================================
