---------------------------- MODULE ReplayProofs ----------------------------
(* Proofs about Replay for every set of agents, node ids and requests, every  *)
(* channel capacity, and any number of sessions, calls and restarts.          *)
EXTENDS Replay, SequenceTheorems, TLAPS

(* The correlation ids of the requests, and what the channel may hold. *)
Corr == UNION {{req[i] : i \in DOMAIN req} : req \in Request}
Message == Corr \cup {"unimplemented"}

Types ==
  /\ pc \in {"idle", "connect", "drain", "persist", "ack", "error"}
  /\ ids \in Seq(Corr) /\ results \in Seq(Corr) /\ completed \in Nat
  /\ todo \in Seq(Corr) /\ chan \in Seq(Message)
  /\ pc = "persist" => cur \in Corr

(* Before the agent is dialled nothing of an earlier call is left. *)
Fresh == pc = "connect" => results = <<>> /\ completed = 0 /\ todo = <<>> /\ chan = <<>>

(* The rows received so far, the one in hand included. *)
Received == IF pc = "persist" THEN Append(results, cur) ELSE results

(* s answers the first ids of req, in order. *)
Answers(s, req) == Len(s) <= Len(req) /\ \A i \in 1..Len(s) : s[i] = req[i]

(* What is still to come after k rows: nothing, as the agent has ended or all *)
(* was read; the one error; or the next ids, those in channel c first, up to  *)
(* the last one unless the agent has fallen silent.                           *)
ToCome(k, c, t, req) ==
  \/ c = <<>> /\ t = <<>>
  \/ c = <<"unimplemented">> /\ t = <<>>
  \/ /\ k + Len(c) + Len(t) <= Len(req)
     /\ \A i \in 1..Len(c) : c[i] = req[k + i]
     /\ \A i \in 1..Len(t) : t[i] = req[k + Len(c) + i]

(* While the call drains, rows received, channel and the agent's list are the *)
(* request, or what a silent agent leaves of it, cut into three.              *)
Flow ==
  /\ pc \in {"drain", "persist"} => reading /\ ToCome(Len(Received), chan, todo, ids)
  /\ pc \in {"drain", "persist", "ack"} =>
       Answers(Received, ids) /\ completed = Len(Received)

(* The rows to be returned are in the sink as long as it is open. *)
Stored ==
  pc \in {"drain", "persist", "ack"} /\ sinkOpen =>
    \A i \in 1..Len(results) : <<node, results[i]>> \in queue \cup kernel_sol

IInv == Types /\ Fresh /\ Flow /\ Stored

----------------------------------------------------------------------------
(* What reading, sending and receiving do to what is still to come. *)

(* A request is a sequence of correlation ids. *)
LEMMA RequestFacts == ASSUME NEW req \in Request PROVE req \in Seq(Corr)
<1> DEFINE R == {req[i] : i \in DOMAIN req}
<1>1. req \in Seq(R)
  BY ReplayAssumption
<1>2. R \subseteq Corr
  BY DEF Corr
<1> HIDE DEF R
<1>3. req \in [1..Len(req) -> R] /\ Len(req) \in Nat
  BY <1>1
<1>4. req \in [1..Len(req) -> Corr]
  BY <1>2, <1>3
<1>5. \A n \in Nat : \A f \in [1..n -> Corr] : f \in Seq(Corr)
  OBVIOUS
<1>6. QED BY <1>3, <1>4, <1>5

(* One more row that is the next one of the request. *)
LEMMA AnswersAppend ==
  ASSUME NEW s \in Seq(Corr), NEW req \in Seq(Corr), NEW x \in Corr,
         Answers(s, req), Len(s) + 1 <= Len(req), x = req[Len(s) + 1]
  PROVE  Answers(Append(s, x), req) /\ Append(s, x) \in Seq(Corr) /\ Len(Append(s, x)) = Len(s) + 1
<1> DEFINE v == Append(s, x)
           m == Len(s)
<1>1. /\ v \in Seq(Corr) /\ m \in Nat /\ Len(v) = m + 1
      /\ v[m + 1] = x /\ \A i \in 1..m : v[i] = s[i]
  OBVIOUS
<1>2. m + 1 <= Len(req) /\ x = req[m + 1] /\ \A i \in 1..m : s[i] = req[i]
  BY DEF Answers
<1> HIDE DEF v, m
<1>3. ASSUME NEW i \in 1..m + 1 PROVE v[i] = req[i]
  <2>1. i \in 1..m \/ i = m + 1
    BY <1>1
  <2>2. QED BY <1>1, <1>2, <2>1
<1>4. Answers(v, req)
  BY <1>1, <1>2, <1>3 DEF Answers
<1>5. QED BY <1>1, <1>4 DEF v, m

(* The agent's task moves its first id to the end of the channel. *)
LEMMA SendFacts ==
  ASSUME NEW k \in Nat, NEW c \in Seq(Message), NEW t \in Seq(Corr), NEW req \in Seq(Corr),
         t # <<>>, ToCome(k, c, t, req)
  PROVE  ToCome(k, Append(c, Head(t)), Tail(t), req)
<1> DEFINE d == Append(c, Head(t))
           u == Tail(t)
           m == Len(c)
           n == Len(t)
<1>1. /\ m \in Nat /\ n \in Nat /\ n >= 1 /\ Len(d) = m + 1 /\ Len(u) = n - 1
      /\ d[m + 1] = t[1] /\ \A i \in 1..m : d[i] = c[i]
  BY DEF Message
<1>2. \A i \in 1..n - 1 : u[i] = t[i + 1]
  OBVIOUS
<1>3. /\ k + m + n <= Len(req) /\ (\A i \in 1..m : c[i] = req[k + i])
      /\ \A i \in 1..n : t[i] = req[k + m + i]
  BY DEF ToCome
<1>4. Len(req) \in Nat
  OBVIOUS
<1> HIDE DEF d, u, m, n
<1>5. k + Len(d) + Len(u) <= Len(req)
  <2>1. m \in Nat /\ n \in Nat /\ Len(d) = m + 1 /\ Len(u) = n - 1
    BY <1>1
  <2>2. k + m + n <= Len(req) /\ Len(req) \in Nat
    BY <1>3, <1>4
  <2>3. QED BY ONLY k \in Nat, <2>1, <2>2
<1>6. ASSUME NEW i \in 1..Len(d) PROVE d[i] = req[k + i]
  <2>1. CASE i \in 1..m
    BY <1>1, <1>3, <2>1
  <2>2. CASE i = m + 1
    <3>1. 1 \in 1..n /\ k + m + 1 = k + i
      BY <1>1, <2>2
    <3>2. QED BY <1>1, <1>3, <2>2, <3>1
  <2>3. i \in 1..m \/ i = m + 1
    BY <1>1
  <2>4. QED BY <2>1, <2>2, <2>3
<1>7. ASSUME NEW i \in 1..Len(u) PROVE u[i] = req[k + Len(d) + i]
  <2>1. i \in 1..n - 1 /\ i + 1 \in 1..n /\ k + Len(d) + i = k + m + (i + 1)
    BY <1>1
  <2>2. QED BY <1>2, <1>3, <2>1
<1>8. ToCome(k, d, u, req)
  BY <1>5, <1>6, <1>7 DEF ToCome
<1>9. QED BY <1>8 DEF d, u

(* Reading a row takes the next id of the request off the channel. *)
LEMMA ReadFacts ==
  ASSUME NEW k \in Nat, NEW c \in Seq(Message), NEW t \in Seq(Corr), NEW req \in Seq(Corr),
         c # <<>>, Head(c) # "unimplemented", ToCome(k, c, t, req)
  PROVE  /\ Head(c) \in Corr /\ k + 1 <= Len(req) /\ Head(c) = req[k + 1]
         /\ Tail(c) \in Seq(Message) /\ ToCome(k + 1, Tail(c), t, req)
<1> DEFINE d == Tail(c)
           m == Len(c)
           n == Len(t)
<1>1. /\ m \in Nat /\ n \in Nat /\ m >= 1 /\ Len(d) = m - 1 /\ Head(c) = c[1]
      /\ d \in Seq(Message) /\ Head(c) \in Message /\ Len(req) \in Nat
  OBVIOUS
<1>2. \A i \in 1..m - 1 : d[i] = c[i + 1]
  OBVIOUS
<1>3. c # <<"unimplemented">>
  OBVIOUS
<1>4. /\ k + m + n <= Len(req) /\ (\A i \in 1..m : c[i] = req[k + i])
      /\ \A i \in 1..n : t[i] = req[k + m + i]
  BY <1>3 DEF ToCome
<1> HIDE DEF d, m, n
<1>5. Head(c) \in Corr /\ k + 1 <= Len(req) /\ Head(c) = req[k + 1]
  <2>1. 1 \in 1..m /\ k + 1 <= Len(req)
    BY <1>1, <1>4
  <2>2. QED BY <1>1, <1>4, <2>1 DEF Message
<1>6. k + 1 + Len(d) + n <= Len(req)
  <2>1. m \in Nat /\ n \in Nat /\ Len(d) = m - 1
    BY <1>1
  <2>2. k + m + n <= Len(req) /\ Len(req) \in Nat
    BY <1>1, <1>4
  <2>3. QED BY ONLY k \in Nat, <2>1, <2>2
<1>7. ASSUME NEW i \in 1..Len(d) PROVE d[i] = req[k + 1 + i]
  <2>1. i \in 1..m - 1 /\ i + 1 \in 1..m /\ k + 1 + i = k + (i + 1)
    BY <1>1
  <2>2. QED BY <1>2, <1>4, <2>1
<1>8. ASSUME NEW i \in 1..n PROVE t[i] = req[k + 1 + Len(d) + i]
  <2>1. k + 1 + Len(d) + i = k + m + i
    BY <1>1
  <2>2. QED BY <1>4, <2>1
<1>9. ToCome(k + 1, d, t, req)
  BY <1>6, <1>7, <1>8 DEF ToCome, n
<1>10. QED BY <1>1, <1>5, <1>9 DEF d

(* Of a channel a prefix is left and of the agent's list nothing. *)
LEMMA PrefixFacts ==
  ASSUME NEW k \in Nat, NEW c \in Seq(Message), NEW t \in Seq(Corr), NEW req \in Seq(Corr),
         ToCome(k, c, t, req), NEW l \in 0..Len(c)
  PROVE  ToCome(k, SubSeq(c, 1, l), <<>>, req)
<1> DEFINE d == SubSeq(c, 1, l)
<1>1. /\ Len(d) = l /\ (\A i \in 1..l : d[i] = c[i]) /\ (l = 0 => d = <<>>)
      /\ Len(c) \in Nat /\ Len(t) \in Nat /\ Len(req) \in Nat
  OBVIOUS
<1>2. Len(c) = 1 /\ l = 1 => d = c
  BY SMTT(30)
<1>3. CASE c = <<>>
  BY <1>1, <1>3 DEF ToCome
<1>4. CASE c = <<"unimplemented">>
  <2>1. l = 0 \/ l = 1
    BY <1>4
  <2>2. QED BY <1>1, <1>2, <1>4, <2>1 DEF ToCome
<1>5. CASE c # <<>> /\ c # <<"unimplemented">>
  <2>1. /\ k + Len(c) + Len(t) <= Len(req)
        /\ \A i \in 1..Len(c) : c[i] = req[k + i]
    BY <1>5 DEF ToCome
  <2> HIDE DEF d
  <2>2. k + Len(d) + 0 <= Len(req) /\ \A i \in 1..Len(d) : d[i] = req[k + i]
    BY <1>1, <2>1
  <2>3. QED BY <2>2 DEF ToCome, d
<1>6. QED BY <1>3, <1>4, <1>5

----------------------------------------------------------------------------
(* The invariant holds initially and every step preserves it. *)

LEMMA InitIInv == Init => IInv
<1> SUFFICES ASSUME Init PROVE IInv
  OBVIOUS
<1>1. <<>> \in Seq(Corr) /\ <<>> \in Seq(Message)
  OBVIOUS
<1>2. QED BY <1>1 DEF Init, IInv, Types, Fresh, Flow, Stored

(* Steps that concern neither the call nor its stream nor the sink. *)
LEMMA ElsewhereStep ==
  ASSUME IInv, UNCHANGED <<caller, wire, store>>
  PROVE  IInv'
<1>1. UNCHANGED <<pc, node, ids, completed, cur, results, todo, chan, reading, sinkOpen, queue, kernel_sol>>
  BY DEF caller, args, progress, wire, store
<1>2. Corr' = Corr /\ Message' = Message
  BY DEF Corr, Message
<1>3. Types'
  BY <1>1, <1>2 DEF IInv, Types
<1>4. Fresh'
  BY <1>1 DEF IInv, Fresh
<1>5. Flow'
  BY <1>1 DEF IInv, Flow, Received, ToCome, Answers
<1>6. Stored'
  BY <1>1 DEF IInv, Stored
<1>7. QED BY <1>3, <1>4, <1>5, <1>6 DEF IInv

(* The agent ends: what it had not sent, and what nobody had read, is gone. *)
LEMMA AgentEndsStep == ASSUME IInv, NEW a \in Agent, AgentEnds(a) PROVE IInv'
<1>1. UNCHANGED <<pc, node, ids, completed, cur, results, reading, sinkOpen, queue, kernel_sol>>
  BY DEF AgentEnds, caller, args, progress, store
<1>2. (todo' = <<>> /\ chan' = <<>>) \/ (todo' = todo /\ chan' = chan)
  BY DEF AgentEnds
<1>3. <<>> \in Seq(Corr) /\ <<>> \in Seq(Message)
  OBVIOUS
<1>4. Types'
  BY <1>1, <1>2, <1>3 DEF IInv, Types, Corr, Message
<1>5. Fresh'
  BY <1>1, <1>2 DEF IInv, Fresh
<1>6. Flow'
  <2>1. Received' = Received
    BY <1>1 DEF Received
  <2>2. pc \in {"drain", "persist"} => ToCome(Len(Received), chan', todo', ids)
    BY <1>2 DEF IInv, Flow, ToCome
  <2>3. QED BY <1>1, <2>1, <2>2 DEF IInv, Flow, ToCome, Answers
<1>7. Stored'
  BY <1>1 DEF IInv, Stored
<1>8. QED BY <1>4, <1>5, <1>6, <1>7 DEF IInv

(* The agent falls silent: of its stream a prefix has arrived. *)
LEMMA GoesSilentStep == ASSUME IInv, NEW a \in Agent, GoesSilent(a) PROVE IInv'
<1>1. UNCHANGED <<pc, node, ids, completed, cur, results, reading, sinkOpen, queue, kernel_sol>>
  BY DEF GoesSilent, caller, args, progress, store
<1>2. \/ todo' = <<>> /\ \E k \in 0..Len(chan) : chan' = SubSeq(chan, 1, k)
      \/ todo' = todo /\ chan' = chan
  BY DEF GoesSilent
<1>3. todo \in Seq(Corr) /\ chan \in Seq(Message) /\ ids \in Seq(Corr)
  BY DEF IInv, Types
<1>4. todo' \in Seq(Corr) /\ chan' \in Seq(Message)
  <2>1. <<>> \in Seq(Corr) /\ \A k \in 0..Len(chan) : SubSeq(chan, 1, k) \in Seq(Message)
    BY <1>3
  <2>2. QED BY <1>2, <1>3, <2>1
<1>5. Types'
  BY <1>1, <1>4 DEF IInv, Types, Corr, Message
<1>6. Fresh'
  <2>1. chan = <<>> => \A k \in 0..Len(chan) : SubSeq(chan, 1, k) = <<>>
    OBVIOUS
  <2>2. QED BY <1>1, <1>2, <2>1 DEF IInv, Fresh
<1>7. Flow'
  <2>1. Received' = Received
    BY <1>1 DEF Received
  <2>2. ASSUME pc \in {"drain", "persist"} PROVE ToCome(Len(Received), chan', todo', ids)
    <3>1. ToCome(Len(Received), chan, todo, ids) /\ Len(Received) \in Nat
      BY <2>2 DEF IInv, Flow, Types
    <3>2. QED BY <1>2, <1>3, <3>1, PrefixFacts
  <2>3. QED BY <1>1, <2>1, <2>2 DEF IInv, Flow, ToCome, Answers
<1>8. Stored'
  BY <1>1 DEF IInv, Stored
<1>9. QED BY <1>5, <1>6, <1>7, <1>8 DEF IInv

(* A restart of the collector and a client that goes away end the call. *)
LEMMA DroppedStep == ASSUME IInv, Restart \/ Cancel PROVE IInv'
<1>1. pc' = "idle" /\ UNCHANGED <<ids, completed, results, todo, chan>>
  BY DEF Restart, Cancel, Finish, args, progress
<1>2. Types'
  BY <1>1 DEF IInv, Types, Corr, Message
<1>3. Fresh' /\ Flow' /\ Stored'
  BY <1>1 DEF Fresh, Flow, Stored
<1>4. QED BY <1>2, <1>3 DEF IInv

(* A flush moves rows from the queue to the table; a closed sink is excused. *)
LEMMA SinkStep == ASSUME IInv, Flush \/ SinkCloses PROVE IInv'
<1>1. UNCHANGED <<pc, node, ids, completed, cur, results, todo, chan, reading>>
  BY DEF Flush, SinkCloses, caller, args, progress, wire
<1>2. sinkOpen' => queue' \cup kernel_sol' = queue \cup kernel_sol /\ sinkOpen
  BY DEF Flush, SinkCloses
<1>3. Types'
  BY <1>1 DEF IInv, Types, Corr, Message
<1>4. Fresh'
  BY <1>1 DEF IInv, Fresh
<1>5. Flow'
  BY <1>1 DEF IInv, Flow, Received, ToCome, Answers
<1>6. Stored'
  BY <1>1, <1>2 DEF IInv, Stored
<1>7. QED BY <1>3, <1>4, <1>5, <1>6 DEF IInv

(* A new call starts from nothing. *)
LEMMA CallStart == ASSUME IInv, NEW n \in NodeId, NEW req \in Request, Call(n, req) PROVE IInv'
<1>1. /\ pc' \in {"connect", "error"} /\ todo = <<>> /\ todo' = todo /\ chan' = <<>>
      /\ ids' = req /\ completed' = 0 /\ results' = <<>>
  BY DEF Call
<1>2. <<>> \in Seq(Corr) /\ <<>> \in Seq(Message) /\ req \in Seq(Corr)
  BY RequestFacts
<1>3. Types'
  BY <1>1, <1>2 DEF Types, Corr, Message
<1>4. Fresh' /\ Flow' /\ Stored'
  BY <1>1 DEF Fresh, Flow, Stored
<1>5. QED BY <1>3, <1>4 DEF IInv

(* The agent answers: with all ids in its task, with the one error, or not. *)
LEMMA ConnectStep == ASSUME IInv, Connect PROVE IInv'
<1>1. /\ pc = "connect" /\ UNCHANGED <<node, ids, completed, cur, results, sinkOpen, queue, kernel_sol>>
      /\ results = <<>> /\ completed = 0 /\ todo = <<>> /\ chan = <<>>
  BY DEF Connect, args, progress, store, IInv, Fresh
<1>2. \/ pc' = "error" /\ UNCHANGED <<todo, chan>>
      \/ pc' = "drain" /\ reading' /\ UNCHANGED <<todo, chan>>
      \/ pc' = "drain" /\ reading' /\ todo' = ids /\ UNCHANGED chan
      \/ pc' = "drain" /\ reading' /\ chan' = <<"unimplemented">> /\ UNCHANGED todo
  BY DEF Connect, Finish
<1>3. ids \in Seq(Corr) /\ <<"unimplemented">> \in Seq(Message)
  BY DEF IInv, Types, Message
<1>4. Types'
  BY <1>1, <1>2, <1>3 DEF IInv, Types, Corr, Message
<1>5. Fresh' /\ Stored'
  <2>1. pc' # "connect"
    BY <1>2
  <2>2. Len(results') = 0
    BY <1>1
  <2>3. QED BY <2>1, <2>2 DEF Fresh, Stored
<1>6. Flow'
  <2>1. CASE pc' = "error"
    BY <2>1 DEF Flow
  <2>2. CASE pc' = "drain"
    <3>1. Received' = <<>> /\ Len(Received') = 0 /\ completed' = 0 /\ ids' = ids /\ Len(ids) \in Nat
      BY <1>1, <1>3, <2>2 DEF Received
    <3>2. Answers(Received', ids')
      BY <3>1 DEF Answers
    <3>3. CASE todo' = ids /\ chan' = chan
      <4>1. chan' = <<>> /\ Len(chan') = 0 /\ Len(todo') = Len(ids)
        BY <1>1, <3>3
      <4>2. 0 + 0 + Len(ids) <= Len(ids) /\ \A i \in 1..Len(ids) : ids[i] = ids[0 + 0 + i]
        BY <3>1
      <4>3. ToCome(0, chan', todo', ids)
        BY <3>3, <4>1, <4>2 DEF ToCome
      <4>4. QED BY <1>2, <2>2, <3>1, <3>2, <4>3 DEF Flow, ToCome, Answers
    <3>4. CASE chan' = <<"unimplemented">> /\ todo' = todo
      <4>1. ToCome(0, chan', todo', ids)
        BY <1>1, <3>4 DEF ToCome
      <4>2. QED BY <1>2, <2>2, <3>1, <3>2, <4>1 DEF Flow, ToCome, Answers
    <3>5. CASE chan' = chan /\ todo' = todo
      <4>1. ToCome(0, chan', todo', ids)
        BY <1>1, <3>5 DEF ToCome
      <4>2. QED BY <1>2, <2>2, <3>1, <3>2, <4>1 DEF Flow, ToCome, Answers
    <3>6. QED BY <1>2, <2>2, <3>3, <3>4, <3>5
  <2>3. QED BY <1>2, <2>1, <2>2
<1>7. QED BY <1>4, <1>5, <1>6 DEF IInv

(* The agent's task sends: into the channel while the call reads it. *)
LEMMA AgentSendsStep == ASSUME IInv, AgentSends PROVE IInv'
<1>1. /\ UNCHANGED <<pc, node, ids, completed, cur, results, reading, sinkOpen, queue, kernel_sol>>
      /\ todo # <<>> /\ todo' = Tail(todo)
      /\ chan' = IF reading THEN Append(chan, Head(todo)) ELSE chan
  BY DEF AgentSends, caller, args, progress, store
<1>2. todo \in Seq(Corr) /\ chan \in Seq(Message) /\ ids \in Seq(Corr)
  BY DEF IInv, Types
<1>3. todo' \in Seq(Corr) /\ chan' \in Seq(Message)
  <2>1. Head(todo) \in Corr /\ Tail(todo) \in Seq(Corr)
    BY <1>1, <1>2
  <2>2. Head(todo) \in Message
    BY <2>1 DEF Message
  <2>3. QED BY <1>1, <1>2, <2>1, <2>2
<1>4. Types'
  BY <1>1, <1>3 DEF IInv, Types, Corr, Message
<1>5. Fresh'
  BY <1>1 DEF IInv, Fresh
<1>6. Flow'
  <2>1. Received' = Received
    BY <1>1 DEF Received
  <2>2. ASSUME pc \in {"drain", "persist"} PROVE ToCome(Len(Received), chan', todo', ids)
    <3>1. reading /\ ToCome(Len(Received), chan, todo, ids) /\ completed = Len(Received) /\ completed \in Nat
      BY <2>2 DEF IInv, Flow, Types
    <3>2. QED BY <1>1, <1>2, <3>1, SendFacts
  <2>3. QED BY <1>1, <2>1, <2>2 DEF IInv, Flow, ToCome, Answers
<1>7. Stored'
  BY <1>1 DEF IInv, Stored
<1>8. QED BY <1>4, <1>5, <1>6, <1>7 DEF IInv

(* A message is read: the error ends the call, a row is the next one asked. *)
LEMMA DrainStep == ASSUME IInv, Drain PROVE IInv'
<1>1. /\ pc = "drain" /\ chan # <<>> /\ chan' = Tail(chan)
      /\ UNCHANGED <<node, ids, results, todo, sinkOpen, queue, kernel_sol>>
  BY DEF Drain, args, store
<1>2. /\ todo \in Seq(Corr) /\ chan \in Seq(Message) /\ ids \in Seq(Corr) /\ results \in Seq(Corr)
      /\ reading /\ ToCome(Len(results), chan, todo, ids) /\ Answers(results, ids)
      /\ completed = Len(results) /\ completed \in Nat
  BY <1>1 DEF IInv, Types, Flow, Received
<1>3. Tail(chan) \in Seq(Message)
  BY <1>1, <1>2
<1>4. CASE Head(chan) = "unimplemented"
  <2>1. pc' = "ack" /\ completed' = completed
    BY <1>4 DEF Drain, Finish
  <2>2. Types'
    BY <1>1, <1>2, <1>3, <2>1 DEF Types, Corr, Message
  <2>3. Fresh' /\ Stored'
    BY <1>1, <2>1 DEF IInv, Fresh, Stored
  <2>4. Received' = results
    BY <1>1, <2>1 DEF Received
  <2>5. Flow'
    BY <1>1, <1>2, <2>1, <2>4 DEF Flow, Answers
  <2>6. QED BY <2>2, <2>3, <2>5 DEF IInv
<1>5. CASE Head(chan) # "unimplemented"
  <2>1. pc' = "persist" /\ completed' = completed + 1 /\ cur' = Head(chan) /\ reading' = reading
    BY <1>5 DEF Drain
  <2>2. /\ Head(chan) \in Corr /\ Len(results) + 1 <= Len(ids) /\ Head(chan) = ids[Len(results) + 1]
        /\ ToCome(Len(results) + 1, Tail(chan), todo, ids)
    BY <1>1, <1>2, <1>5, ReadFacts
  <2>3. Types'
    BY <1>1, <1>2, <1>3, <2>1, <2>2 DEF Types, Corr, Message
  <2>4. Fresh' /\ Stored'
    BY <1>1, <2>1 DEF IInv, Fresh, Stored
  <2>5. Received' = Append(results, Head(chan))
    BY <1>1, <2>1 DEF Received
  <2>6. Answers(Received', ids) /\ Len(Received') = Len(results) + 1
    BY <1>2, <2>2, <2>5, AnswersAppend
  <2>7. ToCome(Len(Received'), chan', todo', ids')
    BY <1>1, <2>2, <2>6
  <2>8. Flow'
    BY <1>1, <1>2, <2>1, <2>6, <2>7 DEF Flow, ToCome, Answers
  <2>9. QED BY <2>3, <2>4, <2>8 DEF IInv
<1>6. QED BY <1>4, <1>5

(* The stream ends: the call returns what it has received. *)
LEMMA StreamEndsStep == ASSUME IInv, StreamEnds PROVE IInv'
<1>1. /\ pc = "drain" /\ pc' = "ack"
      /\ UNCHANGED <<node, ids, completed, cur, results, todo, chan, sinkOpen, queue, kernel_sol>>
  BY DEF StreamEnds, Finish, args, progress, store
<1>2. Types'
  BY <1>1 DEF IInv, Types, Corr, Message
<1>3. Fresh' /\ Stored'
  BY <1>1 DEF IInv, Fresh, Stored
<1>4. Received' = Received
  BY <1>1 DEF Received
<1>5. Flow'
  BY <1>1, <1>4 DEF IInv, Flow, Answers
<1>6. QED BY <1>2, <1>3, <1>5 DEF IInv

(* The row in hand goes to the sink, if it is open, and to the answer. *)
LEMMA PersistStep == ASSUME IInv, Persist PROVE IInv'
<1>1. /\ pc = "persist" /\ pc' = "drain" /\ results' = Append(results, cur)
      /\ queue' = IF sinkOpen THEN queue \cup {<<node, cur>>} ELSE queue
      /\ UNCHANGED <<node, ids, completed, cur, todo, chan, reading, sinkOpen, kernel_sol>>
  BY DEF Persist, Push, args, wire
<1>2. cur \in Corr /\ results \in Seq(Corr)
  BY <1>1 DEF IInv, Types
<1>3. /\ results' \in Seq(Corr) /\ Len(results) \in Nat /\ Len(results') = Len(results) + 1
      /\ results'[Len(results) + 1] = cur /\ \A i \in 1..Len(results) : results'[i] = results[i]
  BY <1>1, <1>2
<1>4. Types'
  BY <1>1, <1>3 DEF IInv, Types, Corr, Message
<1>5. Fresh'
  BY <1>1 DEF Fresh
<1>6. Flow'
  <2>1. Received' = Received
    BY <1>1 DEF Received
  <2>2. QED BY <1>1, <2>1 DEF IInv, Flow, ToCome, Answers
<1>7. ASSUME sinkOpen, NEW i \in 1..Len(results) + 1
      PROVE  <<node, results'[i]>> \in queue' \cup kernel_sol
  <2>1. CASE i \in 1..Len(results)
    BY <1>1, <1>3, <1>7, <2>1 DEF IInv, Stored
  <2>2. CASE i = Len(results) + 1
    BY <1>1, <1>3, <1>7, <2>2
  <2>3. i \in 1..Len(results) \/ i = Len(results) + 1
    BY <1>3
  <2>4. QED BY <2>1, <2>2, <2>3
<1>8. Stored'
  BY <1>1, <1>3, <1>7 DEF Stored
<1>9. QED BY <1>4, <1>5, <1>6, <1>8 DEF IInv

LEMMA NextIInv == IInv /\ [Next]_vars => IInv'
<1> SUFFICES ASSUME IInv, [Next]_vars PROVE IInv'
  OBVIOUS
<1>1. ASSUME NEW a \in Agent, Register(a) PROVE IInv'
  BY <1>1, ElsewhereStep DEF Register
<1>2. ASSUME NEW a \in Agent, AgentEnds(a) PROVE IInv'
  BY <1>2, AgentEndsStep
<1>3. CASE Restart \/ Cancel
  BY <1>3, DroppedStep
<1>4. CASE Flush \/ SinkCloses
  BY <1>4, SinkStep
<1>5. ASSUME NEW n \in NodeId, NEW req \in Request, Call(n, req) PROVE IInv'
  BY <1>5, CallStart
<1>6. CASE CallStep
  BY <1>6, ConnectStep, DrainStep, StreamEndsStep, PersistStep DEF CallStep
<1>7. CASE AgentSends
  BY <1>7, AgentSendsStep
<1>8. CASE UNCHANGED vars
  BY <1>8, ElsewhereStep DEF vars
<1>9. ASSUME NEW a \in Agent, GoesSilent(a) PROVE IInv'
  BY <1>9, GoesSilentStep
<1>10. QED BY <1>1, <1>2, <1>3, <1>4, <1>5, <1>6, <1>7, <1>8, <1>9 DEF Next

----------------------------------------------------------------------------
(* At every moment of a call the rows received, the agent's channel and its   *)
(* list of ids still to send are the request, cut into three, unless the      *)
(* agent has ended, refused or fallen silent, and the rows to be returned are *)
(* in the sink.                                                               *)
THEOREM ReplayInvariant == Spec => []IInv
<1>1. Init => IInv
  BY InitIInv
<1>2. IInv /\ [Next]_vars => IInv'
  BY NextIInv
<1>3. QED BY <1>1, <1>2, PTL DEF Spec

(* profile_kernels acknowledges what it did, for every set of agents, every   *)
(* request and channel capacity, and any number of calls, cancelled calls,    *)
(* restarts and ends of agents: it counts the rows it returns, these answer   *)
(* the first ids of the request in order, and each is in the sink or in       *)
(* kernel_sol unless the sink has closed.                                     *)
THEOREM ReplayAckHonest == Spec => []AckHonest
<1>1. IInv => AckHonest
  <2> SUFFICES ASSUME IInv, pc = "ack" PROVE AckHonest
    BY DEF AckHonest
  <2>1. /\ completed = Len(results) /\ results \in Seq(Corr) /\ ids \in Seq(Corr)
        /\ Len(results) <= Len(ids) /\ \A i \in 1..Len(results) : results[i] = ids[i]
    BY DEF IInv, Flow, Types, Received, Answers
  <2>2. SubSeq(results, 1, Len(results)) = SubSeq(ids, 1, Len(results))
    <3> DEFINE a == SubSeq(results, 1, Len(results))
               b == SubSeq(ids, 1, Len(results))
    <3>1. /\ a \in Seq(Corr) /\ b \in Seq(Corr) /\ Len(a) = Len(results) /\ Len(b) = Len(results)
          /\ \A i \in 1..Len(results) : a[i] = results[i] /\ b[i] = ids[i]
      BY <2>1
    <3> HIDE DEF a, b
    <3>2. a = b
      BY <2>1, <3>1, SeqEqual
    <3>3. QED BY <3>2 DEF a, b
  <2>3. IsPrefix(results, ids)
    BY <2>1, <2>2 DEF IsPrefix
  <2>4. DOMAIN results = 1..Len(results)
    BY <2>1
  <2>5. QED BY <2>1, <2>3, <2>4 DEF IInv, Stored, AckHonest
<1>2. QED BY <1>1, ReplayInvariant, PTL
=============================================================================
