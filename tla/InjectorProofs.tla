--------------------------- MODULE InjectorProofs ---------------------------
(* Proofs about Injector for every set of batches, threads and agents and    *)
(* every size of the socket buffer.                                          *)
EXTENDS Injector, FiniteSetTheorems, SequenceTheorems, TLAPS

Piece == {"len", "body"} \X Batch
Conn  == [agent : Agent, state : {"backlog", "served", "closed"}, wire : Seq(Piece),
          len : Batch \cup {NoBatch}]

Types ==
  /\ lock \in Thread \cup {NoThread} /\ path \in Agent \cup {NoAgent}
  /\ pc \in [Thread -> {"idle", "lock", "dial", "redial", "write", "rewrite"}]
  /\ cur \in [Thread -> Batch \cup {NoBatch}] /\ sent \in [Thread -> {0, 1}]
  /\ conns \in Seq(Conn) /\ conn \in 0..Len(conns)
  /\ ring \in [Agent -> Seq(Batch)]
  /\ dropped \in Nat
  /\ written \in [Batch -> Int] /\ \A b \in Batch : written[b] <= Len(conns)

Inside == {"dial", "redial", "write", "rewrite"}

(* The thread inside ship() holds GLOBAL; a thread dials without a           *)
(* connection, or again with one that is closed.                             *)
Guarded ==
  /\ \A t \in Thread :
       /\ pc[t] \in Inside <=> lock = t
       /\ pc[t] = "idle" <=> cur[t] = NoBatch
       /\ sent[t] = 1 => pc[t] \in {"write", "redial", "rewrite"}
       /\ pc[t] = "dial" => conn = 0
       /\ pc[t] \in {"write", "redial", "rewrite"} => conn # 0
       /\ pc[t] = "redial" => conns[conn].state = "closed"
  /\ ~installed => conn = 0 /\ \A t \in Thread : pc[t] = "idle"

(* A batch is shipped by one thread, and not written yet. *)
OneShipper ==
  /\ \A t \in Thread : cur[t] # NoBatch => written[cur[t]] = 0
  /\ \A t, u \in Thread : cur[t] # NoBatch /\ cur[t] = cur[u] => t = u

(* The batch whose body is due at place k of the pieces w, of which the      *)
(* handler has read the length l; at the end, the body still to be written.  *)
Due(w, l, k) ==
  IF k = 1 THEN l ELSE IF w[k - 1][1] = "len" THEN w[k - 1][2] ELSE NoBatch

Framed(w, l, p) ==
  /\ \A k \in 1..Len(w) :
       IF Due(w, l, k) = NoBatch THEN w[k][1] = "len" ELSE w[k] = <<"body", Due(w, l, k)>>
  /\ Due(w, l, Len(w) + 1) = p

Owed(i) == IF i = conn /\ lock # NoThread /\ sent[lock] = 1 THEN cur[lock] ELSE NoBatch

(* Lengths and bodies alternate on every connection, each body after its     *)
(* own length; only the thread inside ship() owes a body.                    *)
AllFramed ==
  \A i \in 1..Len(conns) :
    conns[i].state # "closed" => Framed(conns[i].wire, conns[i].len, Owed(i))

InRings(r, b) == \E a \in Agent : \E k \in 1..Len(r[a]) : r[a][k] = b

(* A body on the wire w of connection i is of a batch that was written       *)
(* there (f) and is in no ring (r), and comes once.                          *)
OneBody(w, i, r, f) ==
  /\ \A k \in 1..Len(w) :
       w[k][1] = "body" => f[w[k][2]] = i /\ ~InRings(r, w[k][2])
  /\ \A k, m \in 1..Len(w) : w[k][1] = "body" /\ w[k] = w[m] => k = m

BodiesOnce == \A i \in 1..Len(conns) : OneBody(conns[i].wire, i, ring, written)

(* An event ring holds batches that were written, each once. *)
RingsOnce ==
  /\ \A b \in Batch : InRings(ring, b) => written[b] > 0
  /\ \A a, e \in Agent : \A k \in 1..Len(ring[a]), m \in 1..Len(ring[e]) :
       ring[a][k] = ring[e][m] => a = e /\ k = m

(* The batches counted as dropped: given up, or in their second attempt. *)
GivenUp ==
  {b \in Batch : written[b] = 0 /\ \A t \in Thread : cur[t] = b => pc[t] \in {"redial", "rewrite"}}

IInv ==
  /\ Types /\ Guarded /\ OneShipper /\ AllFramed /\ BodiesOnce /\ RingsOnce
  /\ WrittenArrives /\ Cardinality(GivenUp) <= dropped

----------------------------------------------------------------------------
(* The pieces on a wire. *)

(* Appending a piece leaves the ones before it in place. *)
LEMMA AppendPiece ==
  ASSUME NEW w \in Seq(Piece), NEW x \in Piece
  PROVE  /\ Append(w, x) \in Seq(Piece) /\ Len(w) \in Nat /\ Len(Append(w, x)) = Len(w) + 1
         /\ Append(w, x)[Len(w) + 1] = x
         /\ \A k \in 1..Len(w) : Append(w, x)[k] = w[k]
         /\ \A k \in 1..Len(Append(w, x)) : k \in 1..Len(w) \/ k = Len(w) + 1
OBVIOUS

(* Taking the first piece moves the others one place forward. *)
LEMMA TakePiece ==
  ASSUME NEW w \in Seq(Piece), w # <<>>
  PROVE  /\ Head(w) \in Piece /\ Head(w) = w[1] /\ Tail(w) \in Seq(Piece)
         /\ Len(w) \in Nat /\ Len(w) >= 1 /\ Len(Tail(w)) = Len(w) - 1
         /\ \A k \in 1..Len(w) - 1 : Tail(w)[k] = w[k + 1] /\ k + 1 \in 1..Len(w)
OBVIOUS

(* A length goes on a wire that owes no body, and its body is then due.     *)
LEMMA FramedLen ==
  ASSUME NEW w \in Seq(Piece), NEW l, NEW b \in Batch, Framed(w, l, NoBatch)
  PROVE  Framed(Append(w, <<"len", b>>), l, b)
<1> DEFINE x == <<"len", b>>
           v == Append(w, x)
           n == Len(w)
<1>1. x \in Piece /\ x[1] = "len" /\ x[2] = b
  BY DEF Piece
<1> HIDE DEF x
<1>2. /\ n \in Nat /\ Len(v) = n + 1 /\ v[n + 1] = x
      /\ \A k \in 1..n : v[k] = w[k]
      /\ \A k \in 1..Len(v) : k \in 1..n \/ k = n + 1
  BY <1>1, AppendPiece
<1> HIDE DEF v, n
<1>3. \A k \in 1..n + 1 : Due(v, l, k) = Due(w, l, k)
  <2> TAKE k \in 1..n + 1
  <2>1. k = 1 \/ k - 1 \in 1..n
    BY <1>2
  <2>2. QED BY <1>2, <2>1 DEF Due
<1>4. Due(w, l, n + 1) = NoBatch
  BY DEF Framed, n
<1>5. \A k \in 1..Len(v) :
        IF Due(v, l, k) = NoBatch THEN v[k][1] = "len" ELSE v[k] = <<"body", Due(v, l, k)>>
  <2> TAKE k \in 1..Len(v)
  <2>1. CASE k \in 1..n
    <3>1. k \in 1..n + 1
      BY <1>2, <2>1
    <3>2. QED BY <1>2, <1>3, <2>1, <3>1 DEF Framed, n
  <2>2. CASE k = n + 1
    <3>1. n + 1 \in 1..n + 1
      BY <1>2
    <3>2. QED BY <1>1, <1>2, <1>3, <1>4, <2>2, <3>1
  <2>3. QED BY <1>2, <2>1, <2>2
<1>6. Due(v, l, Len(v) + 1) = b
  <2>1. Len(v) + 1 # 1 /\ Len(v) + 1 - 1 = n + 1
    BY <1>2
  <2>2. QED BY <1>1, <1>2, <2>1 DEF Due
<1>7. Framed(v, l, b)
  BY <1>5, <1>6 DEF Framed
<1>8. QED BY <1>7 DEF v, x

(* The body that is due goes on the wire, and none is due then.             *)
LEMMA FramedBody ==
  ASSUME NEW w \in Seq(Piece), NEW l, NEW b \in Batch, Framed(w, l, b)
  PROVE  Framed(Append(w, <<"body", b>>), l, NoBatch)
<1> DEFINE x == <<"body", b>>
           v == Append(w, x)
           n == Len(w)
<1>1. x \in Piece /\ x[1] = "body" /\ x = <<"body", b>> /\ b # NoBatch
  BY InjectorAssumption DEF Piece
<1> HIDE DEF x
<1>2. /\ n \in Nat /\ Len(v) = n + 1 /\ v[n + 1] = x
      /\ \A k \in 1..n : v[k] = w[k]
      /\ \A k \in 1..Len(v) : k \in 1..n \/ k = n + 1
  BY <1>1, AppendPiece
<1> HIDE DEF v, n
<1>3. \A k \in 1..n + 1 : Due(v, l, k) = Due(w, l, k)
  <2> TAKE k \in 1..n + 1
  <2>1. k = 1 \/ k - 1 \in 1..n
    BY <1>2
  <2>2. QED BY <1>2, <2>1 DEF Due
<1>4. Due(w, l, n + 1) = b
  BY DEF Framed, n
<1>5. \A k \in 1..Len(v) :
        IF Due(v, l, k) = NoBatch THEN v[k][1] = "len" ELSE v[k] = <<"body", Due(v, l, k)>>
  <2> TAKE k \in 1..Len(v)
  <2>1. CASE k \in 1..n
    <3>1. k \in 1..n + 1
      BY <1>2, <2>1
    <3>2. QED BY <1>2, <1>3, <2>1, <3>1 DEF Framed, n
  <2>2. CASE k = n + 1
    <3>1. n + 1 \in 1..n + 1
      BY <1>2
    <3>2. QED BY <1>1, <1>2, <1>3, <1>4, <2>2, <3>1
  <2>3. QED BY <1>2, <2>1, <2>2
<1>6. Due(v, l, Len(v) + 1) = NoBatch
  <2>1. Len(v) + 1 # 1 /\ Len(v) + 1 - 1 = n + 1
    BY <1>2
  <2>2. QED BY <1>1, <1>2, <2>1 DEF Due
<1>7. Framed(v, l, NoBatch)
  BY <1>5, <1>6 DEF Framed
<1>8. QED BY <1>7 DEF v, x

(* The handler reads a length when it expects one, and then the body of     *)
(* that length.                                                             *)
LEMMA FramedTail ==
  ASSUME NEW w \in Seq(Piece), NEW l, NEW p, Framed(w, l, p), w # <<>>
  PROVE  /\ l = NoBatch => Head(w)[1] = "len" /\ Framed(Tail(w), Head(w)[2], p)
         /\ l # NoBatch => Head(w) = <<"body", l>> /\ Framed(Tail(w), NoBatch, p)
<1> DEFINE v == Tail(w)
           h == Head(w)
           n == Len(w)
           m == IF h[1] = "len" THEN h[2] ELSE NoBatch
<1>1. /\ h = w[1] /\ n \in Nat /\ n >= 1 /\ Len(v) = n - 1
      /\ \A k \in 1..n - 1 : v[k] = w[k + 1] /\ k + 1 \in 1..n
  BY TakePiece
<1>2. 1 \in 1..n
  BY <1>1
<1>3. IF l = NoBatch THEN h[1] = "len" ELSE h = <<"body", l>>
  BY <1>1, <1>2 DEF Framed, Due
<1> HIDE DEF v, n, h
<1>4. ASSUME NEW k \in 1..n PROVE Due(v, m, k) = Due(w, l, k + 1)
  <2>1. k + 1 # 1 /\ k + 1 - 1 = k
    BY <1>1
  <2>2. CASE k = 1 BY <1>1, <2>1, <2>2 DEF Due
  <2>3. CASE k # 1
    <3>1. k - 1 \in 1..n - 1 /\ k - 1 + 1 = k
      BY <1>1, <2>3
    <3>2. v[k - 1] = w[k]
      BY <1>1, <3>1
    <3>3. QED BY <2>1, <2>3, <3>2 DEF Due
  <2>4. QED BY <2>2, <2>3
<1>5. \A k \in 1..Len(v) :
        IF Due(v, m, k) = NoBatch THEN v[k][1] = "len" ELSE v[k] = <<"body", Due(v, m, k)>>
  <2> TAKE k \in 1..Len(v)
  <2>1. k \in 1..n /\ k \in 1..n - 1
    BY <1>1
  <2>2. v[k] = w[k + 1] /\ k + 1 \in 1..n
    BY <1>1, <2>1
  <2>3. QED BY <1>4, <2>1, <2>2 DEF Framed, n
<1>6. Due(v, m, Len(v) + 1) = p
  <2>1. Len(v) + 1 = n /\ n \in 1..n
    BY <1>1
  <2>2. QED BY <1>4, <2>1 DEF Framed, n
<1>7. Framed(v, m, p)
  BY <1>5, <1>6 DEF Framed
<1>8. CASE l = NoBatch BY <1>3, <1>7, <1>8 DEF v, h
<1>9. CASE l # NoBatch
  <2>1. h = <<"body", l>> /\ h[1] # "len"
    BY <1>3, <1>9
  <2>2. QED BY <1>7, <1>9, <2>1 DEF v, h
<1>10. QED BY <1>8, <1>9

----------------------------------------------------------------------------
(* What the steps do to the connections. *)

(* The fields of a connection, open and closed. *)
LEMMA ConnFields ==
  ASSUME NEW c \in Conn
  PROVE  /\ c.agent \in Agent /\ c.wire \in Seq(Piece) /\ c.len \in Batch \cup {NoBatch}
         /\ Closed(c) \in Conn /\ Closed(c).agent = c.agent /\ Closed(c).state = "closed"
         /\ Closed(c).wire = <<>>
<1>1. <<>> \in Seq(Piece)
  OBVIOUS
<1>2. QED BY <1>1 DEF Conn, Closed

(* A connection that is neither written nor read is kept, accepted or closed. *)
Settled(i) ==
  /\ conns'[i].agent = conns[i].agent
  /\ \/ conns'[i].state = "closed" /\ conns'[i].wire = <<>>
     \/ /\ conns'[i].wire = conns[i].wire /\ conns'[i].len = conns[i].len
        /\ conns'[i].state # "closed" /\ conns[i].state # "closed"
     \/ conns'[i] = conns[i]

(* The agents' own steps settle every connection and touch nothing else. *)
LEMMA AgentFacts ==
  ASSUME Types, (\E a \in Agent : AgentStep(a)) \/ (\E i \in 1..MaxConns : Accept(i))
  PROVE  /\ UNCHANGED <<installed, lock, pc, cur, sent, conn, dropped, written, ring>>
         /\ path' \in Agent \cup {NoAgent}
         /\ conns' \in Seq(Conn) /\ Len(conns') = Len(conns)
         /\ \A i \in 1..Len(conns) : Settled(i)
<1>1. /\ conns \in Seq(Conn) /\ DOMAIN conns = 1..Len(conns) /\ Len(conns) \in Nat
      /\ \A i \in 1..Len(conns) : conns[i] \in Conn
  BY DEF Types
<1>2. ASSUME NEW a \in Agent, NEW states, CloseConns(a, states)
      PROVE  /\ conns' \in Seq(Conn) /\ Len(conns') = Len(conns)
             /\ \A i \in 1..Len(conns) : Settled(i)
  <2>1. /\ conns' = [i \in 1..Len(conns) |->
                       IF conns[i].agent = a /\ conns[i].state \in states
                       THEN Closed(conns[i]) ELSE conns[i]]
    BY <1>1, <1>2 DEF CloseConns
  <2>2. \A i \in 1..Len(conns) : conns'[i] \in {conns[i], Closed(conns[i])} /\ conns'[i] \in Conn
    BY <1>1, <2>1, ConnFields
  <2>3. conns' \in Seq(Conn) /\ Len(conns') = Len(conns)
    <3>1. conns' \in [1..Len(conns) -> Conn]
      BY <2>1, <2>2
    <3>2. QED BY <1>1, <3>1
  <2>4. QED BY <1>1, <2>2, <2>3, ConnFields DEF Settled
<1>3. ASSUME NEW a \in Agent, AgentStep(a)
      PROVE  /\ UNCHANGED <<installed, lock, pc, cur, sent, conn, dropped, written, ring>>
             /\ path' \in Agent \cup {NoAgent}
             /\ conns' = conns \/ \E states : CloseConns(a, states)
  BY <1>3 DEF AgentStep, Start, Bind, StopReceiver, Exit, process, Types
<1>4. ASSUME conns' = conns
      PROVE  /\ conns' \in Seq(Conn) /\ Len(conns') = Len(conns)
             /\ \A i \in 1..Len(conns) : Settled(i)
  BY <1>1, <1>4 DEF Settled
<1>5. ASSUME NEW i \in 1..MaxConns, Accept(i)
      PROVE  /\ conns' \in Seq(Conn) /\ Len(conns') = Len(conns)
             /\ \A j \in 1..Len(conns) : Settled(j)
             /\ UNCHANGED <<installed, lock, pc, cur, sent, conn, dropped, written, ring, path>>
  <2>1. /\ i \in 1..Len(conns) /\ conns[i].state = "backlog"
        /\ conns' = [conns EXCEPT ![i] = [conns[i] EXCEPT !.state = "served"]]
        /\ UNCHANGED <<installed, lock, pc, cur, sent, conn, dropped, written, ring, path>>
    BY <1>1, <1>5 DEF Accept, process
  <2> DEFINE d == [conns[i] EXCEPT !.state = "served"]
  <2>2. /\ d \in Conn /\ d.agent = conns[i].agent /\ d.wire = conns[i].wire
        /\ d.len = conns[i].len /\ d.state = "served"
    BY <1>1, <2>1 DEF Conn
  <2> HIDE DEF d
  <2>3. conns' \in Seq(Conn) /\ Len(conns') = Len(conns)
    BY <1>1, <2>1, <2>2 DEF d
  <2>4. conns'[i] = d /\ \A j \in 1..Len(conns) : j # i => conns'[j] = conns[j]
    BY <1>1, <2>1 DEF d
  <2>5. QED BY <2>1, <2>2, <2>3, <2>4 DEF Settled
<1>6. QED
  <2>1. CASE \E a \in Agent : AgentStep(a) BY <1>2, <1>3, <1>4, <2>1
  <2>2. CASE \E i \in 1..MaxConns : Accept(i) BY <1>5, <2>2 DEF Types
  <2>3. QED BY <2>1, <2>2

(* handle_conn reads one piece: a length, the body of the length before it, *)
(* or a length it refuses by closing.                                       *)
LEMMA HandleFacts ==
  ASSUME Types, AllFramed, NEW i, HandleConn(i)
  PROVE  /\ i \in 1..Len(conns)
         /\ UNCHANGED <<installed, lock, pc, cur, sent, conn, dropped, written, path>>
         /\ conns' \in Seq(Conn) /\ Len(conns') = Len(conns)
         /\ \A j \in 1..Len(conns) : j # i => conns'[j] = conns[j]
         /\ \/ Settled(i) /\ ring' = ring
            \/ /\ conns[i].wire # <<>> /\ conns[i].wire \in Seq(Piece)
               /\ conns'[i].agent = conns[i].agent /\ conns[i].state = "served"
               /\ conns'[i].wire = Tail(conns[i].wire)
               /\ Framed(conns'[i].wire, conns'[i].len, Owed(i))
               /\ \/ Head(conns[i].wire)[1] = "len" /\ ring' = ring
                  \/ \E b \in Batch :
                       /\ Head(conns[i].wire) = <<"body", b>> /\ conns[i].agent \in Agent
                       /\ ring' = [ring EXCEPT ![conns[i].agent] = Append(@, b)]
<1> DEFINE c == conns[i]
           head == Head(c.wire)
           rest == [c EXCEPT !.wire = Tail(@)]
           over == c.len = NoBatch /\ head[2] \in Oversized
           d == IF c.len = NoBatch
                THEN IF head[2] \in Oversized THEN Closed(c) ELSE [rest EXCEPT !.len = head[2]]
                ELSE [rest EXCEPT !.len = NoBatch]
<1>1. /\ i \in 1..Len(conns) /\ c \in Conn /\ DOMAIN conns = 1..Len(conns) /\ conns \in Seq(Conn)
  BY DEF HandleConn, Types
<1>2. /\ UNCHANGED <<installed, lock, pc, cur, sent, conn, dropped, written, path>>
      /\ c.state = "served" /\ c.wire # <<>> /\ conns' = [conns EXCEPT ![i] = d]
  BY DEF HandleConn, process
<1>3. /\ c.len = NoBatch => ring' = ring
      /\ c.len # NoBatch /\ head = <<"body", c.len>> =>
           ring' = [ring EXCEPT ![c.agent] = Append(@, c.len)]
  BY DEF HandleConn
<1>4. /\ c.agent \in Agent /\ c.wire \in Seq(Piece) /\ c.len \in Batch \cup {NoBatch}
  BY <1>1, ConnFields
<1>5. /\ head \in Piece /\ Tail(c.wire) \in Seq(Piece)
  BY <1>2, <1>4, TakePiece
<1>6. head[2] \in Batch
  BY <1>5 DEF Piece
<1>7. Framed(c.wire, c.len, Owed(i))
  BY <1>1, <1>2 DEF AllFramed
<1>8. /\ c.len = NoBatch => head[1] = "len" /\ Framed(Tail(c.wire), head[2], Owed(i))
      /\ c.len # NoBatch => head = <<"body", c.len>> /\ Framed(Tail(c.wire), NoBatch, Owed(i))
  BY <1>2, <1>4, <1>7, FramedTail
<1>9. d \in Conn
  <2>1. Closed(c) \in Conn
    BY <1>1, ConnFields
  <2>2. \A l \in Batch \cup {NoBatch} : [rest EXCEPT !.len = l] \in Conn
    BY <1>1, <1>5 DEF Conn
  <2>3. QED BY <1>6, <2>1, <2>2
<1>10. /\ conns' \in Seq(Conn) /\ Len(conns') = Len(conns) /\ conns'[i] = d
       /\ \A j \in 1..Len(conns) : j # i => conns'[j] = conns[j]
  <2> HIDE DEF d
  <2>1. QED BY <1>1, <1>2, <1>9
<1>11. CASE over
  <2>1. d = Closed(c) /\ ring' = ring
    BY <1>3, <1>11
  <2>2. Settled(i)
    <3>1. conns'[i] = Closed(c)
      BY <1>10, <2>1
    <3>2. Closed(c).agent = c.agent /\ Closed(c).state = "closed" /\ Closed(c).wire = <<>>
      BY <1>1, ConnFields
    <3> HIDE DEF d
    <3>3. QED BY <3>1, <3>2 DEF Settled
  <2>3. QED BY <1>1, <1>2, <1>10, <2>1, <2>2
<1>12. CASE ~over /\ c.len = NoBatch
  <2>1. d.wire = Tail(c.wire) /\ d.len = head[2] /\ d.agent = c.agent
    BY <1>1, <1>12 DEF Conn
  <2>2. QED BY <1>1, <1>2, <1>3, <1>4, <1>8, <1>10, <1>12, <2>1
<1>13. CASE c.len # NoBatch
  <2>1. d.wire = Tail(c.wire) /\ d.len = NoBatch /\ d.agent = c.agent
    BY <1>1, <1>13 DEF Conn
  <2>2. /\ head = <<"body", c.len>> /\ c.len \in Batch
        /\ ring' = [ring EXCEPT ![c.agent] = Append(@, c.len)]
    BY <1>3, <1>4, <1>8, <1>13
  <2>3. QED BY <1>1, <1>2, <1>4, <1>8, <1>10, <1>13, <2>1, <2>2
<1>14. QED BY <1>11, <1>12, <1>13

(* A connection that is dialled comes last, open and empty. *)
LEMMA DialFacts ==
  ASSUME Types, Dial
  PROVE  /\ conns' \in Seq(Conn) /\ Len(conns) \in Nat /\ Len(conns') = Len(conns) + 1
         /\ conn' = Len(conns) + 1
         /\ \A i \in 1..Len(conns) : conns'[i] = conns[i]
         /\ conns'[Len(conns) + 1].wire = <<>> /\ conns'[Len(conns) + 1].len = NoBatch
         /\ conns'[Len(conns) + 1].state # "closed"
         /\ \A i \in 1..Len(conns') : i \in 1..Len(conns) \/ i = Len(conns) + 1
<1> DEFINE x == [agent |-> path, state |-> "backlog", wire |-> <<>>, len |-> NoBatch]
<1>1. x \in Conn /\ x.wire = <<>> /\ x.len = NoBatch /\ x.state # "closed"
  BY DEF Dial, Listening, Types, Conn
<1>2. conns \in Seq(Conn) /\ conns' = Append(conns, x) /\ conn' = Len(conns')
  BY DEF Types, Dial
<1> HIDE DEF x
<1>3. QED BY <1>1, <1>2

(* WriteAll puts a length, or the body of the batch at hand, on the current *)
(* connection.                                                              *)
LEMMA WriteFacts ==
  ASSUME Types, Guarded, NEW t \in Thread, WriteAll(t)
  PROVE  /\ conn \in 1..Len(conns) /\ conns[conn].state # "closed" /\ cur[t] \in Batch /\ lock = t
         /\ UNCHANGED <<installed, conn, dropped, path, ring>>
         /\ conns' \in Seq(Conn) /\ Len(conns') = Len(conns)
         /\ \A j \in 1..Len(conns) : /\ j # conn => conns'[j] = conns[j]
                                     /\ conns'[j].state = conns[j].state
                                     /\ conns'[j].agent = conns[j].agent
         /\ conns[conn].wire \in Seq(Piece) /\ conns'[conn].len = conns[conn].len
         /\ \/ /\ sent[t] = 0 /\ sent' = [sent EXCEPT ![t] = 1] /\ UNCHANGED <<lock, pc, cur, written>>
               /\ conns'[conn].wire = Append(conns[conn].wire, <<"len", cur[t]>>)
            \/ /\ sent[t] = 1 /\ Return(t) /\ written' = [written EXCEPT ![cur[t]] = conn]
               /\ conns'[conn].wire = Append(conns[conn].wire, <<"body", cur[t]>>)
<1> DEFINE c == conns[conn]
           kind == IF sent[t] = 0 THEN "len" ELSE "body"
           x == <<kind, cur[t]>>
           d == [c EXCEPT !.wire = Append(@, x)]
<1>1. /\ pc[t] \in {"write", "rewrite"} /\ lock = t /\ conn # 0 /\ cur[t] # NoBatch
  BY DEF WriteAll, Guarded, Inside
<1>2. /\ conn \in 1..Len(conns) /\ cur[t] \in Batch /\ conns \in Seq(Conn) /\ sent[t] \in {0, 1}
      /\ DOMAIN conns = 1..Len(conns)
  BY <1>1 DEF Types
<1>3. c \in Conn /\ c.wire \in Seq(Piece) /\ x \in Piece
  <2>1. c \in Conn
    BY <1>2
  <2>2. QED BY <1>2, <2>1, ConnFields DEF Piece
<1>4. conns' = [conns EXCEPT ![conn] = d]
  BY DEF WriteAll
<1>5. Append(c.wire, x) \in Seq(Piece)
  BY <1>3, AppendPiece
<1>6. /\ d \in Conn /\ d.wire = Append(c.wire, x) /\ d.agent = c.agent /\ d.state = c.state
      /\ d.len = c.len
  <2> HIDE DEF x
  <2>1. QED BY <1>3, <1>5 DEF Conn
<1>7. conns[conn].state # "closed" /\ UNCHANGED <<installed, conn, dropped, path, ring>>
  BY DEF WriteAll
<1>8. /\ sent[t] = 0 => sent' = [sent EXCEPT ![t] = 1] /\ UNCHANGED <<lock, pc, cur, written>>
      /\ sent[t] # 0 => Return(t) /\ written' = [written EXCEPT ![cur[t]] = conn]
  BY DEF WriteAll
<1>9. /\ conns' \in Seq(Conn) /\ Len(conns') = Len(conns) /\ conns'[conn] = d
      /\ \A j \in 1..Len(conns) : j # conn => conns'[j] = conns[j]
  <2> HIDE DEF d
  <2>1. QED BY <1>2, <1>4, <1>6
<1>10. \A j \in 1..Len(conns) : /\ j # conn => conns'[j] = conns[j]
                                /\ conns'[j].state = conns[j].state
                                /\ conns'[j].agent = conns[j].agent
  <2> HIDE DEF d
  <2>1. QED BY <1>6, <1>9
<1>11. conns'[conn].wire = Append(c.wire, x) /\ conns'[conn].len = c.len
  <2> HIDE DEF d, x
  <2>1. QED BY <1>6, <1>9
<1>12. CASE sent[t] = 0 BY <1>1, <1>2, <1>3, <1>7, <1>8, <1>9, <1>10, <1>11, <1>12
<1>13. CASE sent[t] = 1 BY <1>1, <1>2, <1>3, <1>7, <1>8, <1>9, <1>10, <1>11, <1>13
<1>14. QED BY <1>2, <1>12, <1>13

(* The steps of ship() that leave the connections alone. *)
Local(t) ==
  \/ \E b \in Batch : Call(t, b)
  \/ Acquire(t) \/ WriteFails(t)
  \/ Redial(t) /\ GivesUp /\ Return(t) /\ UNCHANGED <<conn, conns>>

(* The steps of ship() and InitializeInjection that dial. *)
Dials ==
  \/ InitializeInjection /\ Dial
  \/ \E t \in Thread : Redial(t) /\ Dial

(* The cases of a step. *)
LEMMA NextCases ==
  ASSUME Next
  PROVE  \/ \E t \in Thread : Local(t) \/ WriteAll(t)
         \/ Dials
         \/ InitializeInjection /\ UNCHANGED <<conn, conns>>
         \/ (\E a \in Agent : AgentStep(a)) \/ (\E i \in 1..MaxConns : Accept(i))
         \/ \E i \in 1..MaxConns : HandleConn(i)
<1>1. ASSUME NEW t \in Thread, Redial(t)
      PROVE  Dial \/ (GivesUp /\ Return(t) /\ UNCHANGED <<conn, conns>>)
  BY <1>1 DEF Redial
<1>2. InitializeInjection => Dial \/ UNCHANGED <<conn, conns>>
  BY DEF InitializeInjection
<1>3. QED BY <1>1, <1>2 DEF Next, Ship, Local, Dials

(* What ship() does to its thread's place, batch and lock in these steps.   *)
LEMMA LocalFacts ==
  ASSUME Types, Guarded, NEW t \in Thread, Local(t)
  PROVE  /\ UNCHANGED <<installed, conn, conns, ring, path>>
         /\ \/ \E b \in Batch : /\ installed /\ pc[t] = "idle" /\ written[b] = -1 /\ dropped' = dropped
                                /\ pc' = [pc EXCEPT ![t] = "lock"] /\ cur' = [cur EXCEPT ![t] = b]
                                /\ written' = [written EXCEPT ![b] = 0] /\ UNCHANGED <<lock, sent>>
            \/ /\ pc[t] = "lock" /\ lock = NoThread /\ lock' = t
               /\ pc' = [pc EXCEPT ![t] = IF conn = 0 THEN "dial" ELSE "write"]
               /\ UNCHANGED <<cur, sent, written, dropped>>
            \/ /\ pc[t] \in {"dial", "redial", "rewrite"} /\ Return(t) /\ written' = written
               /\ pc[t] = "dial" => dropped' = dropped + 1
               /\ pc[t] # "dial" => dropped' = dropped
               /\ pc[t] = "rewrite" => conns[conn].state = "closed"
            \/ /\ pc[t] = "write" /\ conns[conn].state = "closed" /\ dropped' = dropped + 1
               /\ pc' = [pc EXCEPT ![t] = "redial"] /\ UNCHANGED <<lock, cur, sent, written>>
<1>1. CASE \E b \in Batch : Call(t, b)
  BY <1>1 DEF Call
<1>2. CASE Acquire(t)
  BY <1>2 DEF Acquire, LockFree
<1>3. CASE WriteFails(t)
  BY <1>3 DEF WriteFails, CountFailure
<1>4. CASE Redial(t) /\ GivesUp /\ Return(t) /\ UNCHANGED <<conn, conns>>
  <2>1. UNCHANGED <<installed, written, path, ring>> /\ pc[t] \in {"dial", "redial"} /\ ~Dial
    BY <1>4 DEF Redial, GivesUp, Dial
  <2>2. dropped' = IF pc[t] = "dial" THEN dropped + 1 ELSE dropped
    BY <1>4, <2>1 DEF Redial
  <2>3. QED BY <1>4, <2>1, <2>2
<1>5. QED BY <1>1, <1>2, <1>3, <1>4 DEF Local

(* A dial of InitializeInjection, or of the thread inside ship().           *)
LEMMA DialsFacts ==
  ASSUME Dials
  PROVE  /\ Dial /\ UNCHANGED <<lock, cur, written, ring, path, dropped>>
         /\ \/ ~installed /\ installed' = TRUE /\ UNCHANGED <<pc, sent>>
            \/ \E t \in Thread :
                 /\ pc[t] \in {"dial", "redial"} /\ installed' = installed
                 /\ pc' = [pc EXCEPT ![t] = IF pc[t] = "dial" THEN "write" ELSE "rewrite"]
                 /\ sent' = [sent EXCEPT ![t] = 0]
<1>1. CASE InitializeInjection /\ Dial
  BY <1>1 DEF InitializeInjection
<1>2. CASE \E t \in Thread : Redial(t) /\ Dial
  BY <1>2 DEF Redial, GivesUp, Dial
<1>3. QED BY <1>1, <1>2 DEF Dials

----------------------------------------------------------------------------
(* The inductive invariant.  Each of its parts is kept by every step. *)

(* The parts of IInv hold before the library is installed. *)
LEMMA InitIInv == Init => IInv
<1> SUFFICES ASSUME Init PROVE IInv
  OBVIOUS
<1>1. Types
  BY DEF Init, Types
<1>2. Guarded /\ OneShipper
  BY InjectorAssumption DEF Init, Guarded, OneShipper, Inside
<1>3. AllFramed /\ BodiesOnce /\ RingsOnce /\ WrittenArrives
  BY DEF Init, AllFramed, BodiesOnce, RingsOnce, InRings, WrittenArrives
<1>4. Cardinality(GivenUp) <= dropped
  <2>1. GivenUp = {}
    BY DEF Init, GivenUp
  <2>2. QED BY <2>1, FS_EmptySet DEF Init
<1>5. QED BY <1>1, <1>2, <1>3, <1>4 DEF IInv

(* Every step keeps each variable in its set. *)
LEMMA TypesStep ==
  ASSUME Types, Guarded, AllFramed, Next
  PROVE  Types'
<1>1. Len(conns) \in Nat /\ conns \in Seq(Conn)
  BY DEF Types
<1>2. ASSUME NEW b \in Batch, NEW x \in Int, x <= Len(conns), written' = [written EXCEPT ![b] = x]
      PROVE  written' \in [Batch -> Int] /\ \A e \in Batch : written'[e] <= Len(conns)
  <2>1. written \in [Batch -> Int] /\ \A e \in Batch : written[e] <= Len(conns)
    BY DEF Types
  <2>2. written' \in [Batch -> Int] /\ \A e \in Batch : written'[e] = IF e = b THEN x ELSE written[e]
    BY <1>2, <2>1
  <2>3. QED BY <1>2, <2>1, <2>2
<1>3. ASSUME NEW t \in Thread, Local(t) PROVE Types'
  <2>1. UNCHANGED <<conn, conns, ring, path>>
    BY <1>3, LocalFacts
  <2>2. /\ lock' \in Thread \cup {NoThread} /\ dropped' \in Nat
        /\ pc' \in [Thread -> {"idle", "lock", "dial", "redial", "write", "rewrite"}]
        /\ cur' \in [Thread -> Batch \cup {NoBatch}] /\ sent' \in [Thread -> {0, 1}]
    <3>1. dropped' \in {dropped, dropped + 1}
      BY <1>3, LocalFacts
    <3>2. dropped' \in Nat
      BY <3>1 DEF Types
    <3>3. lock' \in {lock, t, NoThread} /\ (sent' = sent \/ sent' = [sent EXCEPT ![t] = 0])
      BY <1>3, LocalFacts DEF Return
    <3>4. \E p \in {"idle", "lock", "dial", "redial", "write"} : pc' = [pc EXCEPT ![t] = p]
      BY <1>3, LocalFacts DEF Return
    <3>5. cur' = cur \/ \E b \in Batch \cup {NoBatch} : cur' = [cur EXCEPT ![t] = b]
      BY <1>3, LocalFacts DEF Return
    <3>6. QED BY <3>2, <3>3, <3>4, <3>5 DEF Types
  <2>3. written' = written \/ \E b \in Batch : written' = [written EXCEPT ![b] = 0]
    BY <1>3, LocalFacts
  <2>4. written' \in [Batch -> Int] /\ \A b \in Batch : written'[b] <= Len(conns)
    BY <1>1, <1>2, <2>3 DEF Types
  <2>5. QED BY <2>1, <2>2, <2>4 DEF Types
<1>4. ASSUME NEW t \in Thread, WriteAll(t) PROVE Types'
  <2>1. /\ conn \in 1..Len(conns) /\ cur[t] \in Batch
        /\ UNCHANGED <<conn, dropped, path, ring>>
        /\ conns' \in Seq(Conn) /\ Len(conns') = Len(conns)
        /\ \/ sent' = [sent EXCEPT ![t] = 1] /\ UNCHANGED <<lock, pc, cur, written>>
           \/ Return(t) /\ written' = [written EXCEPT ![cur[t]] = conn]
    BY <1>4, WriteFacts
  <2>2. written' \in [Batch -> Int] /\ \A b \in Batch : written'[b] <= Len(conns)
    <3>1. conn \in Int /\ conn <= Len(conns)
      BY <1>1, <2>1
    <3>2. QED BY <1>2, <2>1, <3>1 DEF Types
  <2>3. QED BY <1>1, <2>1, <2>2 DEF Types, Return
<1>5. CASE Dials
  <2>1. /\ conns' \in Seq(Conn) /\ Len(conns') = Len(conns) + 1 /\ conn' = Len(conns) + 1
        /\ UNCHANGED <<lock, cur, written, ring, path, dropped>>
        /\ pc' \in [Thread -> {"idle", "lock", "dial", "redial", "write", "rewrite"}]
        /\ sent' \in [Thread -> {0, 1}]
    BY <1>5, DialFacts, DialsFacts DEF Types
  <2>2. conn' \in 0..Len(conns') /\ \A b \in Batch : written[b] <= Len(conns')
    <3>1. \A b \in Batch : written[b] \in Int /\ written[b] <= Len(conns)
      BY DEF Types
    <3>2. QED BY <1>1, <2>1, <3>1
  <2>3. QED BY <2>1, <2>2 DEF Types
<1>6. CASE InitializeInjection /\ UNCHANGED <<conn, conns>>
  BY <1>6 DEF InitializeInjection, Types
<1>7. CASE (\E a \in Agent : AgentStep(a)) \/ (\E i \in 1..MaxConns : Accept(i))
  BY <1>7, AgentFacts DEF Types
<1>8. ASSUME NEW i \in 1..MaxConns, HandleConn(i) PROVE Types'
  <2>1. /\ UNCHANGED <<lock, pc, cur, sent, conn, dropped, written, path>>
        /\ conns' \in Seq(Conn) /\ Len(conns') = Len(conns)
        /\ \/ ring' = ring
           \/ \E a \in Agent, b \in Batch : ring' = [ring EXCEPT ![a] = Append(@, b)]
    BY <1>8, HandleFacts
  <2>2. ring' \in [Agent -> Seq(Batch)]
    <3>1. ring \in [Agent -> Seq(Batch)]
      BY DEF Types
    <3>2. ASSUME NEW a \in Agent, NEW b \in Batch PROVE Append(ring[a], b) \in Seq(Batch)
      BY <3>1
    <3>3. QED BY <2>1, <3>1, <3>2
  <2>3. QED BY <2>1, <2>2 DEF Types
<1>9. QED BY <1>3, <1>4, <1>5, <1>6, <1>7, <1>8, NextCases

(* GLOBAL admits one thread, which dials only when no connection is usable. *)
LEMMA GuardedStep ==
  ASSUME Types, Guarded, AllFramed, Next
  PROVE  Guarded'
<1>1. /\ Len(conns) \in Nat /\ conn \in 0..Len(conns)
      /\ \A t \in Thread : t # NoThread /\ sent[t] \in {0, 1}
  BY InjectorAssumption DEF Types
<1>2. ASSUME NEW t \in Thread, Local(t) PROVE Guarded'
  <2>1. UNCHANGED <<installed, conn, conns>>
    BY <1>2, LocalFacts
  <2>2. ASSUME NEW b \in Batch, installed, pc[t] = "idle", pc' = [pc EXCEPT ![t] = "lock"],
               cur' = [cur EXCEPT ![t] = b], UNCHANGED <<lock, sent>>
        PROVE  Guarded'
    BY <2>1, <2>2, InjectorAssumption DEF Guarded, Types, Inside
  <2>3. CASE /\ pc[t] = "lock" /\ lock = NoThread /\ lock' = t
             /\ pc' = [pc EXCEPT ![t] = IF conn = 0 THEN "dial" ELSE "write"]
             /\ UNCHANGED <<cur, sent>>
    BY <1>1, <2>1, <2>3 DEF Guarded, Types, Inside
  <2>4. CASE pc[t] \in {"dial", "redial", "rewrite"} /\ Return(t)
    <3>1. lock = t
      BY <2>4 DEF Guarded, Inside
    <3>2. QED BY <1>1, <2>1, <2>4, <3>1 DEF Guarded, Types, Inside, Return
  <2>5. CASE /\ pc[t] = "write" /\ conns[conn].state = "closed"
             /\ pc' = [pc EXCEPT ![t] = "redial"] /\ UNCHANGED <<lock, cur, sent>>
    <3>1. lock = t
      BY <2>5 DEF Guarded, Inside
    <3>2. QED BY <1>1, <2>1, <2>5, <3>1 DEF Guarded, Types, Inside
  <2>6. QED BY <1>2, <2>2, <2>3, <2>4, <2>5, LocalFacts
<1>3. ASSUME NEW t \in Thread, WriteAll(t) PROVE Guarded'
  <2>1. /\ lock = t /\ conn \in 1..Len(conns) /\ UNCHANGED <<installed, conn>>
        /\ conns'[conn].state = conns[conn].state /\ conns[conn].state # "closed"
        /\ \/ sent' = [sent EXCEPT ![t] = 1] /\ UNCHANGED <<lock, pc, cur>>
           \/ Return(t)
    BY <1>3, WriteFacts
  <2>2. pc[t] \in {"write", "rewrite"}
    BY <1>3 DEF WriteAll
  <2>3. CASE sent' = [sent EXCEPT ![t] = 1] /\ UNCHANGED <<lock, pc, cur>>
    BY <1>1, <2>1, <2>2, <2>3 DEF Guarded, Types, Inside
  <2>4. CASE Return(t)
    BY <1>1, <2>1, <2>2, <2>4 DEF Guarded, Types, Inside, Return
  <2>5. QED BY <2>1, <2>3, <2>4
<1>4. CASE Dials
  <2>1. conn' # 0
    BY <1>1, <1>4, DialFacts, DialsFacts
  <2>2. CASE ~installed /\ installed' = TRUE /\ UNCHANGED <<pc, sent>>
    BY <1>4, <2>1, <2>2, DialsFacts DEF Guarded
  <2>3. ASSUME NEW t \in Thread, pc[t] \in {"dial", "redial"}, installed' = installed,
               pc' = [pc EXCEPT ![t] = IF pc[t] = "dial" THEN "write" ELSE "rewrite"],
               sent' = [sent EXCEPT ![t] = 0]
        PROVE  Guarded'
    <3>1. lock = t /\ UNCHANGED <<lock, cur>> /\ installed
      BY <1>4, <2>3, DialsFacts DEF Guarded, Inside
    <3>2. \A u \in Thread : u # t => pc[u] \notin Inside /\ pc'[u] = pc[u] /\ sent'[u] = sent[u]
      BY <2>3, <3>1 DEF Guarded, Types
    <3>3. pc'[t] \in {"write", "rewrite"} /\ sent'[t] = 0
      BY <2>3 DEF Types
    <3>4. QED BY <2>1, <2>3, <3>1, <3>2, <3>3 DEF Guarded, Inside
  <2>4. QED BY <1>4, <2>2, <2>3, DialsFacts
<1>5. CASE InitializeInjection /\ UNCHANGED <<conn, conns>>
  BY <1>5 DEF InitializeInjection, Guarded
<1>6. ASSUME UNCHANGED <<installed, lock, pc, cur, sent, conn>>,
             \A j \in 1..Len(conns) : conns[j].state = "closed" => conns'[j].state = "closed"
      PROVE  Guarded'
  <2>1. conn # 0 => conn \in 1..Len(conns)
    BY <1>1
  <2>2. QED BY <1>6, <2>1 DEF Guarded
<1>7. CASE (\E a \in Agent : AgentStep(a)) \/ (\E i \in 1..MaxConns : Accept(i))
  <2>1. \A i \in 1..Len(conns) : Settled(i)
    BY <1>7, AgentFacts
  <2>2. \A j \in 1..Len(conns) : conns[j].state = "closed" => conns'[j].state = "closed"
    BY <2>1 DEF Settled
  <2>3. QED BY <1>6, <1>7, <2>2, AgentFacts
<1>8. ASSUME NEW i \in 1..MaxConns, HandleConn(i) PROVE Guarded'
  <2>1. conns[i].state # "closed"
    BY <1>8 DEF HandleConn
  <2>2. \A j \in 1..Len(conns) : conns[j].state = "closed" => conns'[j].state = "closed"
    BY <1>8, <2>1, HandleFacts
  <2>3. QED BY <1>6, <1>8, <2>2, HandleFacts
<1>9. QED BY <1>2, <1>3, <1>4, <1>5, <1>7, <1>8, NextCases

(* Call takes a batch that no thread ships; a batch is written once. *)
LEMMA OneShipperStep ==
  ASSUME Types, Guarded, OneShipper, AllFramed, Next
  PROVE  OneShipper'
<1>1. CASE UNCHANGED <<cur, written>>
  BY <1>1 DEF OneShipper
<1>2. ASSUME NEW t \in Thread, Local(t) PROVE OneShipper'
  <2>1. ASSUME NEW b \in Batch, written[b] = -1, cur' = [cur EXCEPT ![t] = b],
               written' = [written EXCEPT ![b] = 0]
        PROVE  OneShipper'
    <3>1. \A u \in Thread : cur[u] # b
      <4>1. b # NoBatch
        BY InjectorAssumption
      <4>2. QED BY <2>1, <4>1 DEF OneShipper
    <3>2. QED BY <2>1, <3>1 DEF OneShipper, Types
  <2>2. CASE Return(t) /\ written' = written
    BY <2>2 DEF Return, OneShipper, Types
  <2>3. QED BY <1>1, <1>2, <2>1, <2>2, LocalFacts
<1>3. ASSUME NEW t \in Thread, WriteAll(t) PROVE OneShipper'
  <2>1. cur[t] \in Batch /\ cur[t] # NoBatch
    BY <1>3, WriteFacts, InjectorAssumption
  <2>2. CASE Return(t) /\ written' = [written EXCEPT ![cur[t]] = conn]
    <3>1. \A u \in Thread : u # t => cur[u] # cur[t]
      BY <2>1 DEF OneShipper
    <3>2. QED BY <2>1, <2>2, <3>1 DEF Return, OneShipper, Types
  <2>3. QED BY <1>1, <1>3, <2>2, WriteFacts
<1>4. CASE Dials \/ InitializeInjection
  BY <1>1, <1>4, DialsFacts DEF InitializeInjection
<1>5. CASE (\E a \in Agent : AgentStep(a)) \/ (\E i \in 1..MaxConns : Accept(i))
  BY <1>1, <1>5, AgentFacts
<1>6. ASSUME NEW i \in 1..MaxConns, HandleConn(i) PROVE OneShipper'
  BY <1>1, <1>6, HandleFacts
<1>7. QED BY <1>2, <1>3, <1>4, <1>5, <1>6, NextCases


(* A connection that is settled stays framed when the same body is owed. *)
LEMMA SettledFramed ==
  ASSUME NEW i \in 1..Len(conns), AllFramed, Settled(i), Owed(i)' = Owed(i)
  PROVE  (conns[i].state # "closed" => Framed(conns[i].wire, conns[i].len, Owed(i)))'
BY DEF AllFramed, Settled

(* No piece comes between a length and its body. *)
LEMMA FramedStep ==
  ASSUME Types, Guarded, AllFramed, Next
  PROVE  AllFramed'
<1>1. /\ Len(conns) \in Nat /\ conn \in 0..Len(conns)
      /\ \A t \in Thread : t # NoThread /\ sent[t] \in {0, 1}
  BY InjectorAssumption DEF Types
<1>2. ASSUME NEW t \in Thread, Local(t) PROVE AllFramed'
  <2>1. UNCHANGED <<conn, conns>>
    BY <1>2, LocalFacts
  <2>2. ASSUME NEW i \in 1..Len(conns), conns[i].state # "closed" PROVE Owed(i)' = Owed(i)
    <3>1. ASSUME NEW b \in Batch, pc[t] = "idle", cur' = [cur EXCEPT ![t] = b], UNCHANGED <<lock, sent>>
          PROVE  Owed(i)' = Owed(i)
      <4>1. lock # t
        BY <3>1 DEF Guarded, Inside
      <4>2. lock # NoThread => cur'[lock] = cur[lock]
        BY <3>1, <4>1 DEF Types
      <4>3. QED BY <2>1, <3>1, <4>2 DEF Owed
    <3>2. CASE pc[t] = "lock" /\ lock = NoThread /\ lock' = t /\ UNCHANGED <<cur, sent>>
      <4>1. sent[t] = 0
        BY <1>1, <3>2 DEF Guarded
      <4>2. QED BY <2>1, <3>2, <4>1 DEF Owed
    <3>3. CASE /\ pc[t] \in {"dial", "redial", "rewrite"} /\ Return(t)
               /\ pc[t] = "rewrite" => conns[conn].state = "closed"
      <4>1. lock = t /\ lock' = NoThread
        BY <3>3 DEF Guarded, Inside, Return
      <4>2. i = conn => pc[t] = "dial"
        BY <2>2, <3>3 DEF Guarded
      <4>3. pc[t] = "dial" => sent[t] = 0
        BY <1>1 DEF Guarded
      <4>4. QED BY <4>1, <4>2, <4>3 DEF Owed
    <3>4. CASE UNCHANGED <<lock, cur, sent>>
      BY <2>1, <3>4 DEF Owed
    <3>5. QED BY <1>2, <3>1, <3>2, <3>3, <3>4, LocalFacts
  <2>3. QED BY <2>1, <2>2 DEF AllFramed
<1>3. ASSUME NEW t \in Thread, WriteAll(t) PROVE AllFramed'
  <2>1. /\ conn \in 1..Len(conns) /\ conns[conn].state # "closed" /\ cur[t] \in Batch /\ lock = t
        /\ conn' = conn /\ Len(conns') = Len(conns)
        /\ \A j \in 1..Len(conns) : j # conn => conns'[j] = conns[j]
        /\ conns[conn].wire \in Seq(Piece) /\ conns'[conn].len = conns[conn].len
        /\ \/ /\ sent[t] = 0 /\ sent' = [sent EXCEPT ![t] = 1] /\ UNCHANGED <<lock, cur>>
              /\ conns'[conn].wire = Append(conns[conn].wire, <<"len", cur[t]>>)
           \/ /\ sent[t] = 1 /\ Return(t)
              /\ conns'[conn].wire = Append(conns[conn].wire, <<"body", cur[t]>>)
    BY <1>3, WriteFacts
  <2>2. ASSUME NEW i \in 1..Len(conns), i # conn
        PROVE  (conns[i].state # "closed" => Framed(conns[i].wire, conns[i].len, Owed(i)))'
    <3>1. Owed(i)' = Owed(i) /\ conns'[i] = conns[i]
      BY <2>1, <2>2 DEF Owed
    <3>2. QED BY <3>1 DEF AllFramed
  <2>3. PICK c : c = conn
    OBVIOUS
  <2>4. Framed(conns'[c].wire, conns'[c].len, Owed(c)')
    <3>1. Framed(conns[c].wire, conns[c].len, Owed(c))
      BY <2>1, <2>3 DEF AllFramed
    <3>2. CASE /\ sent[t] = 0 /\ sent' = [sent EXCEPT ![t] = 1] /\ UNCHANGED <<lock, cur>>
               /\ conns'[conn].wire = Append(conns[conn].wire, <<"len", cur[t]>>)
      <4>1. Owed(c) = NoBatch
        BY <2>1, <2>3, <3>2 DEF Owed
      <4>2. sent'[t] = 1
        BY <3>2 DEF Types
      <4>3. Owed(c)' = cur[t]
        BY <1>1, <2>1, <2>3, <3>2, <4>2 DEF Owed
      <4>4. Framed(Append(conns[c].wire, <<"len", cur[t]>>), conns[c].len, cur[t])
        BY <2>1, <2>3, <3>1, <4>1, FramedLen
      <4>5. QED BY <2>1, <2>3, <3>2, <4>3, <4>4
    <3>3. CASE /\ sent[t] = 1 /\ Return(t)
               /\ conns'[conn].wire = Append(conns[conn].wire, <<"body", cur[t]>>)
      <4>1. Owed(c) = cur[t]
        BY <1>1, <2>1, <2>3, <3>3 DEF Owed
      <4>2. Owed(c)' = NoBatch
        BY <3>3 DEF Return, Owed
      <4>3. Framed(Append(conns[c].wire, <<"body", cur[t]>>), conns[c].len, NoBatch)
        BY <2>1, <2>3, <3>1, <4>1, FramedBody
      <4>4. QED BY <2>1, <2>3, <3>3, <4>2, <4>3
    <3>4. QED BY <2>1, <3>2, <3>3
  <2>5. QED BY <2>1, <2>2, <2>3, <2>4 DEF AllFramed
<1>4. CASE Dials
  <2>1. /\ Len(conns') = Len(conns) + 1 /\ conn' = Len(conns) + 1
        /\ \A i \in 1..Len(conns) : conns'[i] = conns[i]
        /\ conns'[Len(conns) + 1].wire = <<>> /\ conns'[Len(conns) + 1].len = NoBatch
        /\ \A i \in 1..Len(conns') : i \in 1..Len(conns) \/ i = Len(conns) + 1
        /\ UNCHANGED <<lock, cur>>
    BY <1>4, DialFacts, DialsFacts
  <2>2. /\ conn # 0 /\ conns[conn].state # "closed" => lock = NoThread \/ sent[lock] # 1
        /\ lock = NoThread \/ sent'[lock] = 0
    <3>1. CASE ~installed
      BY <1>1, <3>1 DEF Guarded, Inside, Types
    <3>2. ASSUME NEW t \in Thread, pc[t] \in {"dial", "redial"}, sent' = [sent EXCEPT ![t] = 0]
          PROVE  /\ conn # 0 /\ conns[conn].state # "closed" => lock = NoThread \/ sent[lock] # 1
                 /\ sent'[lock] = 0
      <4>1. lock = t /\ sent'[t] = 0
        BY <3>2 DEF Guarded, Inside, Types
      <4>2. QED BY <3>2, <4>1 DEF Guarded
    <3>3. QED BY <1>4, <3>1, <3>2, DialsFacts
  <2>3. ASSUME NEW i \in 1..Len(conns), conns[i].state # "closed"
        PROVE  Owed(i) = NoBatch /\ Owed(i)' = NoBatch
    <3>1. i # 0 /\ i # conn'
      BY <1>1, <2>1
    <3>2. QED BY <2>1, <2>2, <2>3, <3>1 DEF Owed
  <2>4. ASSUME NEW i, i = Len(conns) + 1
        PROVE  Owed(i)' = NoBatch
    BY <2>1, <2>2 DEF Owed
  <2>5. Framed(<<>>, NoBatch, NoBatch)
    BY DEF Framed, Due
  <2>6. QED BY <2>1, <2>3, <2>4, <2>5 DEF AllFramed
<1>5. CASE InitializeInjection /\ UNCHANGED <<conn, conns>>
  BY <1>5 DEF InitializeInjection, AllFramed, Owed
<1>6. CASE (\E a \in Agent : AgentStep(a)) \/ (\E i \in 1..MaxConns : Accept(i))
  <2>1. /\ Len(conns') = Len(conns) /\ UNCHANGED <<lock, cur, sent, conn>>
        /\ \A i \in 1..Len(conns) : Settled(i)
    BY <1>6, AgentFacts
  <2>2. \A i \in 1..Len(conns) : Owed(i)' = Owed(i)
    BY <2>1 DEF Owed
  <2>3. QED BY <2>1, <2>2, SettledFramed DEF AllFramed
<1>7. ASSUME NEW i \in 1..MaxConns, HandleConn(i) PROVE AllFramed'
  <2>1. /\ Len(conns') = Len(conns) /\ UNCHANGED <<lock, cur, sent, conn>>
        /\ i \in 1..Len(conns) /\ \A j \in 1..Len(conns) : j # i => conns'[j] = conns[j]
        /\ Settled(i) \/ Framed(conns'[i].wire, conns'[i].len, Owed(i))
    BY <1>7, HandleFacts
  <2>2. \A j \in 1..Len(conns) : Owed(j)' = Owed(j)
    BY <2>1 DEF Owed
  <2>3. ASSUME NEW j \in 1..Len(conns)
        PROVE  (conns[j].state # "closed" => Framed(conns[j].wire, conns[j].len, Owed(j)))'
    <3>1. CASE j # i \/ Settled(j)
      <4>1. Settled(j)
        BY <2>1, <3>1 DEF Settled
      <4>2. QED BY <2>2, <4>1, SettledFramed
    <3>2. CASE j = i /\ Framed(conns'[i].wire, conns'[i].len, Owed(i))
      BY <2>2, <3>2
    <3>3. QED BY <2>1, <3>1, <3>2
  <2>4. QED BY <2>1, <2>3 DEF AllFramed
<1>8. QED BY <1>2, <1>3, <1>4, <1>5, <1>6, <1>7, NextCases


----------------------------------------------------------------------------
(* Bodies on the wires and in the event rings. *)

(* The wires as they were, or cleared, and no batch written again. *)
LEMMA OneBodySame ==
  ASSUME NEW w \in Seq(Piece), NEW i \in Nat, i > 0, NEW r, NEW f, NEW g, OneBody(w, i, r, f),
         \A b \in Batch : f[b] > 0 => g[b] = f[b]
  PROVE  OneBody(w, i, r, g)
<1>1. ASSUME NEW k \in 1..Len(w), w[k][1] = "body"
      PROVE  g[w[k][2]] = i /\ ~InRings(r, w[k][2])
  <2>1. w[k] \in Piece
    OBVIOUS
  <2>2. w[k][2] \in Batch
    BY <2>1 DEF Piece
  <2>3. QED BY <1>1, <2>2 DEF OneBody
<1>2. QED BY <1>1 DEF OneBody

(* The handler takes the first piece; a body goes into a ring. *)
LEMMA OneBodyTail ==
  ASSUME NEW w \in Seq(Piece), w # <<>>, NEW i \in Nat, NEW r, NEW s, NEW f, OneBody(w, i, r, f),
         \/ s = r
         \/ \E b \in Batch : Head(w) = <<"body", b>> /\ \A x : InRings(s, x) => InRings(r, x) \/ x = b
  PROVE  OneBody(Tail(w), i, s, f)
<1> DEFINE v == Tail(w)
<1>1. /\ Head(w) = w[1] /\ v \in Seq(Piece) /\ Len(w) \in Nat /\ Len(w) >= 1 /\ Len(v) = Len(w) - 1
      /\ \A k \in 1..Len(w) - 1 : v[k] = w[k + 1] /\ k + 1 \in 1..Len(w)
  BY TakePiece
<1>2. 1 \in 1..Len(w)
  BY <1>1
<1> HIDE DEF v
<1>3. ASSUME NEW k \in 1..Len(v)
      PROVE  v[k] = w[k + 1] /\ k + 1 \in 1..Len(w) /\ k + 1 # 1 /\ k \in Nat
  BY <1>1
<1>4. ASSUME NEW k \in 1..Len(v), v[k][1] = "body"
      PROVE  f[v[k][2]] = i /\ ~InRings(s, v[k][2])
  <2>1. f[v[k][2]] = i /\ ~InRings(r, v[k][2])
    BY <1>3, <1>4 DEF OneBody
  <2>2. ASSUME NEW b \in Batch, Head(w) = <<"body", b>> PROVE v[k][2] # b
    <3>1. v[k] \in Piece
      BY <1>1
    <3>2. v[k] = <<v[k][1], v[k][2]>>
      BY <3>1 DEF Piece
    <3>3. v[k][2] = b => w[k + 1] = w[1] /\ w[1][1] = "body"
      BY <1>1, <1>3, <1>4, <2>2, <3>2
    <3>4. QED BY <1>2, <1>3, <3>3 DEF OneBody
  <2>3. QED BY <2>1, <2>2
<1>5. ASSUME NEW k \in 1..Len(v), NEW m \in 1..Len(v), v[k][1] = "body", v[k] = v[m]
      PROVE  k = m
  <2>1. k + 1 = m + 1
    BY <1>3, <1>5 DEF OneBody
  <2>2. QED BY <1>3, <2>1
<1>6. OneBody(v, i, s, f)
  BY <1>4, <1>5 DEF OneBody
<1>7. QED BY <1>6 DEF v

(* A length, or the body of a batch that was not written before, is added.  *)
LEMMA OneBodyAppend ==
  ASSUME NEW w \in Seq(Piece), NEW i \in Nat, i > 0, NEW r, NEW f \in [Batch -> Int],
         NEW b \in Batch, OneBody(w, i, r, f)
  PROVE  /\ OneBody(Append(w, <<"len", b>>), i, r, f)
         /\ f[b] = 0 /\ ~InRings(r, b) => OneBody(Append(w, <<"body", b>>), i, r, [f EXCEPT ![b] = i])
<1> DEFINE n == Len(w)
<1>1. ASSUME NEW x \in Piece
      PROVE  /\ n \in Nat /\ Len(Append(w, x)) = n + 1 /\ Append(w, x)[n + 1] = x
             /\ \A k \in 1..n : Append(w, x)[k] = w[k]
             /\ \A k \in 1..n + 1 : k \in 1..n \/ k = n + 1
  BY AppendPiece
<1> HIDE DEF n
<1>2. OneBody(Append(w, <<"len", b>>), i, r, f)
  <2> DEFINE x == <<"len", b>>
             v == Append(w, x)
  <2>1. x \in Piece /\ x[1] # "body"
    BY DEF Piece
  <2> HIDE DEF x
  <2>2. /\ Len(v) = n + 1 /\ v[n + 1] = x /\ \A k \in 1..n : v[k] = w[k]
        /\ \A k \in 1..n + 1 : k \in 1..n \/ k = n + 1
    BY <1>1, <2>1
  <2> HIDE DEF v
  <2>3. \A k \in 1..Len(v) : v[k][1] = "body" => k \in 1..n
    BY <2>1, <2>2
  <2>4. OneBody(v, i, r, f)
    BY <2>2, <2>3 DEF OneBody, n
  <2>5. QED BY <2>4 DEF v, x
<1>3. ASSUME f[b] = 0, ~InRings(r, b)
      PROVE  OneBody(Append(w, <<"body", b>>), i, r, [f EXCEPT ![b] = i])
  <2> DEFINE x == <<"body", b>>
             v == Append(w, x)
             g == [f EXCEPT ![b] = i]
  <2>1. x \in Piece /\ x[1] = "body" /\ x[2] = b /\ g[b] = i /\ \A e \in Batch : f[e] > 0 => g[e] = f[e]
    BY <1>3 DEF Piece
  <2>2. OneBody(w, i, r, g)
    <3> HIDE DEF g
    <3>1. QED BY <2>1, OneBodySame
  <2> HIDE DEF x, g
  <2>3. /\ Len(v) = n + 1 /\ v[n + 1] = x /\ \A k \in 1..n : v[k] = w[k]
        /\ \A k \in 1..n + 1 : k \in 1..n \/ k = n + 1
    BY <1>1, <2>1
  <2> HIDE DEF v
  <2>4. \A k \in 1..n : w[k] # x
    <3>1. ASSUME NEW k \in 1..n, w[k] = x PROVE FALSE
      <4>1. f[b] = i
        BY <2>1, <3>1 DEF OneBody, n
      <4>2. QED BY <1>3, <4>1
    <3>2. QED BY <3>1
  <2>5. \A k \in 1..Len(v) : v[k][1] = "body" => g[v[k][2]] = i /\ ~InRings(r, v[k][2])
    BY <1>3, <2>1, <2>2, <2>3 DEF OneBody, n
  <2>6. \A k, m \in 1..Len(v) : v[k][1] = "body" /\ v[k] = v[m] => k = m
    BY <2>2, <2>3, <2>4 DEF OneBody, n
  <2>7. OneBody(v, i, r, g)
    BY <2>5, <2>6 DEF OneBody
  <2>8. QED BY <2>7 DEF v, x, g
<1>4. QED BY <1>2, <1>3


(* A batch that is wholly written stays so, on that connection. *)
LEMMA WrittenKept ==
  ASSUME Types, Guarded, OneShipper, AllFramed, Next
  PROVE  \A b \in Batch : written[b] > 0 => written'[b] = written[b]
<1>1. CASE written' = written
  BY <1>1
<1>2. ASSUME NEW t \in Thread, Local(t), written' # written
      PROVE  \A b \in Batch : written[b] > 0 => written'[b] = written[b]
  <2>1. PICK b \in Batch : written[b] = -1 /\ written' = [written EXCEPT ![b] = 0]
    BY <1>2, LocalFacts
  <2>2. \A e \in Batch : e # b => written'[e] = written[e]
    BY <2>1 DEF Types
  <2>3. ~(written[b] > 0)
    BY <2>1
  <2>4. QED BY <2>2, <2>3
<1>3. ASSUME NEW t \in Thread, WriteAll(t), written' # written
      PROVE  \A b \in Batch : written[b] > 0 => written'[b] = written[b]
  <2>1. cur[t] \in Batch /\ written' = [written EXCEPT ![cur[t]] = conn]
    BY <1>3, WriteFacts
  <2>2. written[cur[t]] = 0
    BY <2>1, InjectorAssumption DEF OneShipper
  <2>3. \A e \in Batch : e # cur[t] => written'[e] = written[e]
    BY <2>1 DEF Types
  <2>4. ~(written[cur[t]] > 0)
    BY <2>2
  <2>5. QED BY <2>3, <2>4
<1>4. CASE Dials \/ InitializeInjection
  BY <1>4, DialsFacts DEF InitializeInjection
<1>5. CASE (\E a \in Agent : AgentStep(a)) \/ (\E i \in 1..MaxConns : Accept(i))
  BY <1>5, AgentFacts
<1>6. ASSUME NEW i \in 1..MaxConns, HandleConn(i)
      PROVE  \A b \in Batch : written[b] > 0 => written'[b] = written[b]
  BY <1>6, HandleFacts
<1>7. QED BY <1>1, <1>2, <1>3, <1>4, <1>5, <1>6, NextCases

(* A push into the ring of an agent. *)
LEMMA RingPush ==
  ASSUME Types, NEW a \in Agent, NEW b \in Batch, ring' = [ring EXCEPT ![a] = Append(@, b)]
  PROVE  /\ \A x : InRings(ring', x) <=> InRings(ring, x) \/ x = b
         /\ Len(ring[a]) \in Nat /\ Len(ring'[a]) = Len(ring[a]) + 1
         /\ ring'[a][Len(ring[a]) + 1] = b
         /\ \A k \in 1..Len(ring[a]) : ring'[a][k] = ring[a][k]
         /\ \A k \in 1..Len(ring'[a]) : k \in 1..Len(ring[a]) \/ k = Len(ring[a]) + 1
         /\ \A e \in Agent : e # a => ring'[e] = ring[e]
<1> DEFINE q == ring[a]
           v == Append(q, b)
<1>1. q \in Seq(Batch) /\ ring'[a] = v /\ \A e \in Agent : e # a => ring'[e] = ring[e]
  BY DEF Types
<1>2. /\ Len(q) \in Nat /\ Len(v) = Len(q) + 1 /\ v[Len(q) + 1] = b
      /\ \A k \in 1..Len(q) : v[k] = q[k]
      /\ \A k \in 1..Len(v) : k \in 1..Len(q) \/ k = Len(q) + 1
      /\ Len(q) + 1 \in 1..Len(v) /\ \A k \in 1..Len(q) : k \in 1..Len(v)
  BY <1>1
<1> HIDE DEF v
<1>3. ASSUME NEW x PROVE InRings(ring', x) <=> InRings(ring, x) \/ x = b
  <2>1. (\E k \in 1..Len(v) : v[k] = x) <=> (\E k \in 1..Len(q) : q[k] = x) \/ x = b
    BY <1>2
  <2>2. QED BY <1>1, <2>1 DEF InRings
<1>4. QED BY <1>1, <1>2, <1>3

(* A batch's body is written once and pushed into one ring, once.           *)
LEMMA BodiesStep ==
  ASSUME Types, Guarded, OneShipper, AllFramed, BodiesOnce, RingsOnce, Next
  PROVE  BodiesOnce' /\ RingsOnce'
<1>1. /\ Len(conns) \in Nat /\ \A i \in 1..Len(conns) : i \in Nat /\ i > 0 /\ conns[i] \in Conn
      /\ written \in [Batch -> Int]
  BY DEF Types
<1>2. \A i \in 1..Len(conns) : conns[i].wire \in Seq(Piece)
  BY <1>1, ConnFields
<1>3. \A b \in Batch : written[b] > 0 => written'[b] = written[b]
  BY WrittenKept
<1>4. \A i \in 1..Len(conns) : OneBody(conns[i].wire, i, ring, written)
  BY DEF BodiesOnce
<1>5. \A i \in 1..Len(conns) : OneBody(conns[i].wire, i, ring, written')
  BY <1>1, <1>2, <1>3, <1>4, OneBodySame
<1>6. \A i : OneBody(<<>>, i, ring, written')
  BY DEF OneBody
<1>7. ASSUME ring' = ring PROVE RingsOnce'
  BY <1>3, <1>7 DEF RingsOnce
<1>8. ASSUME ring' = ring, \A i \in 1..Len(conns') : \/ i \in 1..Len(conns) /\ conns'[i].wire = conns[i].wire
                                                     \/ conns'[i].wire = <<>>
      PROVE  BodiesOnce' /\ RingsOnce'
  BY <1>5, <1>6, <1>7, <1>8 DEF BodiesOnce
<1>9. ASSUME NEW t \in Thread, Local(t) PROVE BodiesOnce' /\ RingsOnce'
  BY <1>8, <1>9, LocalFacts
<1>10. ASSUME NEW t \in Thread, WriteAll(t) PROVE BodiesOnce' /\ RingsOnce'
  <2>1. /\ conn \in 1..Len(conns) /\ cur[t] \in Batch /\ ring' = ring
        /\ Len(conns') = Len(conns)
        /\ \A j \in 1..Len(conns) : j # conn => conns'[j] = conns[j]
        /\ \/ /\ written' = written
              /\ conns'[conn].wire = Append(conns[conn].wire, <<"len", cur[t]>>)
           \/ /\ written' = [written EXCEPT ![cur[t]] = conn]
              /\ conns'[conn].wire = Append(conns[conn].wire, <<"body", cur[t]>>)
    BY <1>10, WriteFacts
  <2>2. written[cur[t]] = 0
    BY <2>1, InjectorAssumption DEF OneShipper
  <2>3. ~InRings(ring, cur[t])
    BY <2>1, <2>2 DEF RingsOnce
  <2>4. /\ OneBody(Append(conns[conn].wire, <<"len", cur[t]>>), conn, ring, written)
        /\ OneBody(Append(conns[conn].wire, <<"body", cur[t]>>), conn, ring,
                   [written EXCEPT ![cur[t]] = conn])
    BY <1>1, <1>2, <1>4, <2>1, <2>2, <2>3, OneBodyAppend
  <2>5. OneBody(conns'[conn].wire, conn, ring', written')
    BY <2>1, <2>4
  <2>6. \A i \in 1..Len(conns') : OneBody(conns'[i].wire, i, ring', written')
    BY <1>5, <2>1, <2>5
  <2>7. QED BY <1>7, <2>1, <2>6 DEF BodiesOnce
<1>11. CASE Dials
  <2>1. /\ ring' = ring /\ \A i \in 1..Len(conns) : conns'[i] = conns[i]
        /\ conns'[Len(conns) + 1].wire = <<>>
        /\ \A i \in 1..Len(conns') : i \in 1..Len(conns) \/ i = Len(conns) + 1
    BY <1>11, DialFacts, DialsFacts
  <2>2. QED BY <1>8, <2>1
<1>12. CASE InitializeInjection /\ UNCHANGED <<conn, conns>>
  BY <1>8, <1>12 DEF InitializeInjection
<1>13. CASE (\E a \in Agent : AgentStep(a)) \/ (\E i \in 1..MaxConns : Accept(i))
  <2>1. ring' = ring /\ Len(conns') = Len(conns) /\ \A i \in 1..Len(conns) : Settled(i)
    BY <1>13, AgentFacts
  <2>2. QED BY <1>8, <2>1 DEF Settled
<1>14. ASSUME NEW i \in 1..MaxConns, HandleConn(i) PROVE BodiesOnce' /\ RingsOnce'
  <2>1. /\ i \in 1..Len(conns) /\ Len(conns') = Len(conns) /\ written' = written
        /\ \A j \in 1..Len(conns) : j # i => conns'[j] = conns[j]
        /\ \/ Settled(i) /\ ring' = ring
           \/ /\ conns[i].wire # <<>> /\ conns[i].wire \in Seq(Piece)
              /\ conns'[i].wire = Tail(conns[i].wire)
              /\ \/ ring' = ring
                 \/ \E b \in Batch :
                      /\ Head(conns[i].wire) = <<"body", b>> /\ conns[i].agent \in Agent
                      /\ ring' = [ring EXCEPT ![conns[i].agent] = Append(@, b)]
    BY <1>14, HandleFacts
  <2>2. CASE Settled(i) /\ ring' = ring
    BY <1>8, <2>1, <2>2 DEF Settled
  <2>3. CASE /\ conns[i].wire # <<>> /\ conns'[i].wire = Tail(conns[i].wire) /\ ring' = ring
    <3>1. OneBody(Tail(conns[i].wire), i, ring', written')
      BY <1>1, <1>2, <1>5, <2>1, <2>3, OneBodyTail
    <3>2. \A j \in 1..Len(conns') : OneBody(conns'[j].wire, j, ring', written')
      BY <1>5, <2>1, <2>3, <3>1
    <3>3. QED BY <1>7, <2>3, <3>2 DEF BodiesOnce
  <2>4. ASSUME NEW b \in Batch, NEW a \in Agent, conns[i].wire # <<>>, conns'[i].wire = Tail(conns[i].wire),
               Head(conns[i].wire) = <<"body", b>>, ring' = [ring EXCEPT ![a] = Append(@, b)]
        PROVE  BodiesOnce' /\ RingsOnce'
    <3>1. /\ \A x : InRings(ring', x) <=> InRings(ring, x) \/ x = b
          /\ Len(ring[a]) \in Nat /\ Len(ring'[a]) = Len(ring[a]) + 1
          /\ ring'[a][Len(ring[a]) + 1] = b
          /\ \A k \in 1..Len(ring[a]) : ring'[a][k] = ring[a][k]
          /\ \A k \in 1..Len(ring'[a]) : k \in 1..Len(ring[a]) \/ k = Len(ring[a]) + 1
          /\ \A e \in Agent : e # a => ring'[e] = ring[e]
      BY <2>4, RingPush
    <3>2. written[b] = i /\ ~InRings(ring, b)
      <4>1. Head(conns[i].wire) = conns[i].wire[1] /\ 1 \in 1..Len(conns[i].wire)
        BY <1>2, <2>1, <2>4, TakePiece
      <4>2. conns[i].wire[1][1] = "body" /\ conns[i].wire[1][2] = b
        BY <2>4, <4>1
      <4>3. QED BY <1>4, <2>1, <4>1, <4>2 DEF OneBody
    <3>3. OneBody(Tail(conns[i].wire), i, ring', written')
      BY <1>1, <1>2, <1>5, <2>1, <2>4, <3>1, OneBodyTail
    <3>4. ASSUME NEW j \in 1..Len(conns), j # i
          PROVE  OneBody(conns[j].wire, j, ring', written')
      <4>1. ASSUME NEW k \in 1..Len(conns[j].wire), conns[j].wire[k][1] = "body"
            PROVE  ~InRings(ring', conns[j].wire[k][2])
        <5>1. written[conns[j].wire[k][2]] = j /\ ~InRings(ring, conns[j].wire[k][2])
          BY <1>4, <4>1 DEF OneBody
        <5>2. conns[j].wire[k][2] # b
          BY <3>2, <3>4, <5>1
        <5>3. QED BY <3>1, <5>1, <5>2
      <4>2. QED BY <1>5, <4>1 DEF OneBody
    <3>5. \A j \in 1..Len(conns') : OneBody(conns'[j].wire, j, ring', written')
      BY <2>1, <2>4, <3>3, <3>4
    <3>6. \A x \in Batch : InRings(ring', x) => written'[x] > 0
      BY <1>1, <2>1, <3>1, <3>2 DEF RingsOnce
    <3>7. ASSUME NEW d \in Agent, NEW e \in Agent, NEW k \in 1..Len(ring'[d]), NEW m \in 1..Len(ring'[e]),
                 ring'[d][k] = ring'[e][m]
          PROVE  d = e /\ k = m
      <4>1. ASSUME NEW c \in Agent, NEW n \in 1..Len(ring'[c])
            PROVE  \/ n \in 1..Len(ring[c]) /\ ring'[c][n] = ring[c][n] /\ ring'[c][n] # b
                   \/ c = a /\ n = Len(ring[a]) + 1 /\ ring'[c][n] = b
        <5>1. \/ n \in 1..Len(ring[c]) /\ ring'[c][n] = ring[c][n]
              \/ c = a /\ n = Len(ring[a]) + 1 /\ ring'[c][n] = b
          BY <3>1
        <5>2. n \in 1..Len(ring[c]) => ring[c][n] # b
          BY <3>2 DEF InRings
        <5>3. QED BY <5>1, <5>2
      <4>2. QED BY <3>7, <4>1 DEF RingsOnce
    <3>8. QED BY <3>5, <3>6, <3>7 DEF BodiesOnce, RingsOnce
  <2>5. QED BY <2>1, <2>2, <2>3, <2>4
<1>15. QED BY <1>9, <1>10, <1>11, <1>12, <1>13, <1>14, NextCases


----------------------------------------------------------------------------
(* What WrittenArrives says of the batch b and its connection c. *)
Arrives(c, r, b) ==
  \/ c.state = "closed"
  \/ \E k \in 1..Len(c.wire) : c.wire[k] = <<"body", b>>
  \/ \E k \in 1..Len(r[c.agent]) : r[c.agent][k] = b

(* A written batch stays on its way until it is in the ring or the agent    *)
(* closes its connection.                                                   *)
LEMMA ArrivesStep ==
  ASSUME Types, Guarded, OneShipper, AllFramed, WrittenArrives, Next
  PROVE  WrittenArrives'
<1>1. /\ Len(conns) \in Nat /\ \A i \in 1..Len(conns) : conns[i] \in Conn
      /\ \A b \in Batch : written[b] \in Int /\ (written[b] > 0 => written[b] \in 1..Len(conns))
  BY DEF Types
<1>2. \A i \in 1..Len(conns) : conns[i].wire \in Seq(Piece) /\ conns[i].agent \in Agent
  BY <1>1, ConnFields
<1>3. \A i \in 1..Len(conns) : /\ DOMAIN conns[i].wire = 1..Len(conns[i].wire)
                               /\ DOMAIN ring[conns[i].agent] = 1..Len(ring[conns[i].agent])
  BY <1>2 DEF Types
<1>4. \A b \in Batch : written[b] > 0 => Arrives(conns[written[b]], ring, b)
  BY <1>1, <1>3 DEF WrittenArrives, Arrives
<1>5. Types'
  BY TypesStep
<1>6. ASSUME \A b \in Batch : written'[b] > 0 => Arrives(conns'[written'[b]], ring', b)
      PROVE  WrittenArrives'
  <2>1. /\ \A i \in 1..Len(conns') : conns'[i] \in Conn
        /\ \A b \in Batch : written'[b] > 0 => written'[b] \in 1..Len(conns')
    BY <1>5 DEF Types
  <2>2. \A i \in 1..Len(conns') : conns'[i].wire \in Seq(Piece) /\ conns'[i].agent \in Agent
    BY <2>1, ConnFields
  <2>3. \A i \in 1..Len(conns') : /\ DOMAIN conns'[i].wire = 1..Len(conns'[i].wire)
                                  /\ DOMAIN ring'[conns'[i].agent] = 1..Len(ring'[conns'[i].agent])
    BY <1>5, <2>2 DEF Types
  <2>4. QED BY <1>6, <2>1, <2>3 DEF WrittenArrives, Arrives
<1>7. ASSUME \A b \in Batch : written'[b] > 0 => written'[b] = written[b],
             \A i \in 1..Len(conns), b \in Batch : Arrives(conns[i], ring, b) => Arrives(conns'[i], ring', b)
      PROVE  WrittenArrives'
  <2>1. \A b \in Batch : written'[b] > 0 => Arrives(conns'[written'[b]], ring', b)
    BY <1>1, <1>4, <1>7
  <2>2. QED BY <1>6, <2>1
<1>8. ASSUME NEW t \in Thread, Local(t) PROVE WrittenArrives'
  <2>1. UNCHANGED <<conns, ring>>
    BY <1>8, LocalFacts
  <2>2. written' = written \/ \E b \in Batch : written' = [written EXCEPT ![b] = 0]
    BY <1>8, LocalFacts
  <2>3. \A b \in Batch : written'[b] > 0 => written'[b] = written[b]
    BY <2>2 DEF Types
  <2>4. QED BY <1>7, <2>1, <2>3
<1>9. ASSUME NEW t \in Thread, WriteAll(t) PROVE WrittenArrives'
  <2>1. /\ conn \in 1..Len(conns) /\ cur[t] \in Batch /\ ring' = ring
        /\ conns[conn].wire \in Seq(Piece)
        /\ \A j \in 1..Len(conns) : /\ j # conn => conns'[j] = conns[j]
                                    /\ conns'[j].state = conns[j].state
                                    /\ conns'[j].agent = conns[j].agent
        /\ \/ /\ written' = written
              /\ conns'[conn].wire = Append(conns[conn].wire, <<"len", cur[t]>>)
           \/ /\ written' = [written EXCEPT ![cur[t]] = conn]
              /\ conns'[conn].wire = Append(conns[conn].wire, <<"body", cur[t]>>)
    BY <1>9, WriteFacts
  <2>2. PICK kind \in {"len", "body"} : conns'[conn].wire = Append(conns[conn].wire, <<kind, cur[t]>>)
    BY <2>1
  <2>3. <<kind, cur[t]>> \in Piece
    BY <2>1, <2>2 DEF Piece
  <2>4. /\ \A k \in 1..Len(conns[conn].wire) :
             k \in 1..Len(conns'[conn].wire) /\ conns'[conn].wire[k] = conns[conn].wire[k]
        /\ Len(conns[conn].wire) + 1 \in 1..Len(conns'[conn].wire)
        /\ conns'[conn].wire[Len(conns[conn].wire) + 1] = <<kind, cur[t]>>
    BY <2>1, <2>2, <2>3, AppendPiece
  <2>5. \A i \in 1..Len(conns), b \in Batch : Arrives(conns[i], ring, b) => Arrives(conns'[i], ring', b)
    BY <2>1, <2>4 DEF Arrives
  <2>6. CASE written' = written
    BY <1>7, <2>5, <2>6
  <2>7. CASE /\ written' = [written EXCEPT ![cur[t]] = conn]
             /\ conns'[conn].wire = Append(conns[conn].wire, <<"body", cur[t]>>)
    <3>1. Arrives(conns'[conn], ring', cur[t])
      <4>1. <<"body", cur[t]>> \in Piece
        BY <2>1 DEF Piece
      <4>2. conns'[conn].wire[Len(conns[conn].wire) + 1] = <<"body", cur[t]>>
        BY <2>1, <2>7, <4>1, AppendPiece
      <4>3. QED BY <2>4, <4>2 DEF Arrives
    <3>2. ASSUME NEW b \in Batch, written'[b] > 0 PROVE Arrives(conns'[written'[b]], ring', b)
      <4>1. CASE b = cur[t] BY <2>1, <2>7, <3>1, <4>1 DEF Types
      <4>2. CASE b # cur[t]
        <5>1. written'[b] = written[b]
          BY <2>7, <4>2 DEF Types
        <5>2. QED BY <1>1, <1>4, <2>5, <3>2, <5>1
      <4>3. QED BY <4>1, <4>2
    <3>3. QED BY <1>6, <3>2
  <2>8. QED BY <2>1, <2>6, <2>7
<1>10. CASE Dials
  <2>1. UNCHANGED <<written, ring>> /\ \A i \in 1..Len(conns) : conns'[i] = conns[i]
    BY <1>10, DialFacts, DialsFacts
  <2>2. QED BY <1>7, <2>1
<1>11. CASE InitializeInjection /\ UNCHANGED <<conn, conns>>
  BY <1>7, <1>11 DEF InitializeInjection
<1>12. CASE (\E a \in Agent : AgentStep(a)) \/ (\E i \in 1..MaxConns : Accept(i))
  <2>1. UNCHANGED <<written, ring>> /\ \A i \in 1..Len(conns) : Settled(i)
    BY <1>12, AgentFacts
  <2>2. \A i \in 1..Len(conns), b \in Batch : Arrives(conns[i], ring, b) => Arrives(conns'[i], ring', b)
    BY <2>1 DEF Settled, Arrives
  <2>3. QED BY <1>7, <2>1, <2>2
<1>13. ASSUME NEW i \in 1..MaxConns, HandleConn(i) PROVE WrittenArrives'
  <2>1. /\ i \in 1..Len(conns) /\ written' = written
        /\ \A j \in 1..Len(conns) : j # i => conns'[j] = conns[j]
        /\ \/ Settled(i) /\ ring' = ring
           \/ /\ conns[i].wire # <<>> /\ conns[i].wire \in Seq(Piece)
              /\ conns'[i].agent = conns[i].agent
              /\ conns'[i].wire = Tail(conns[i].wire)
              /\ \/ Head(conns[i].wire)[1] = "len" /\ ring' = ring
                 \/ \E b \in Batch :
                      /\ Head(conns[i].wire) = <<"body", b>> /\ conns[i].agent \in Agent
                      /\ ring' = [ring EXCEPT ![conns[i].agent] = Append(@, b)]
    BY <1>13, HandleFacts
  <2>2. CASE Settled(i) /\ ring' = ring
    <3>1. \A j \in 1..Len(conns), b \in Batch : Arrives(conns[j], ring, b) => Arrives(conns'[j], ring', b)
      <4> TAKE j \in 1..Len(conns), b \in Batch
      <4>1. CASE j # i BY <2>1, <2>2, <4>1
      <4>2. CASE j = i BY <2>2, <4>2 DEF Settled, Arrives
      <4>3. QED BY <4>1, <4>2
    <3>2. QED BY <1>7, <2>1, <3>1
  <2>3. ASSUME /\ conns[i].wire # <<>> /\ conns[i].wire \in Seq(Piece)
               /\ conns'[i].agent = conns[i].agent /\ conns'[i].wire = Tail(conns[i].wire),
               \/ Head(conns[i].wire)[1] = "len" /\ ring' = ring
               \/ \E b \in Batch :
                    /\ Head(conns[i].wire) = <<"body", b>> /\ conns[i].agent \in Agent
                    /\ ring' = [ring EXCEPT ![conns[i].agent] = Append(@, b)]
        PROVE  WrittenArrives'
    <3> DEFINE w == conns[i].wire
               a == conns[i].agent
    <3>1. /\ Head(w) = w[1] /\ Len(w) \in Nat /\ Len(w) >= 1 /\ Len(Tail(w)) = Len(w) - 1
          /\ \A k \in 1..Len(w) - 1 : Tail(w)[k] = w[k + 1]
      BY <2>3, TakePiece
    <3>2. \A k \in 1..Len(w) : k = 1 \/ (k - 1 \in 1..Len(Tail(w)) /\ Tail(w)[k - 1] = w[k])
      BY <3>1
    <3>3. a \in Agent
      BY <1>2, <2>1
    <3>4. ASSUME NEW b \in Batch, w[1] = <<"body", b>>
          PROVE  \E k \in 1..Len(ring'[a]) : ring'[a][k] = b
      <4>1. w[1][1] # "len" /\ w[1][2] = b
        BY <3>4
      <4>2. PICK x \in Batch : w[1] = <<"body", x>> /\ ring' = [ring EXCEPT ![a] = Append(@, x)]
        BY <2>3, <3>1, <4>1
      <4>3. x = b
        BY <4>1, <4>2
      <4>4. /\ Len(ring[a]) \in Nat /\ Len(ring'[a]) = Len(ring[a]) + 1 /\ ring'[a][Len(ring[a]) + 1] = b
        BY <3>3, <4>2, <4>3, RingPush
      <4>5. Len(ring[a]) + 1 \in 1..Len(ring'[a])
        BY <4>4
      <4>6. QED BY <4>4, <4>5
    <3>5. ASSUME NEW e \in Agent, NEW k \in 1..Len(ring[e])
          PROVE  k \in 1..Len(ring'[e]) /\ ring'[e][k] = ring[e][k]
      <4>1. CASE ring' = ring BY <4>1
      <4>2. ASSUME NEW x \in Batch, ring' = [ring EXCEPT ![a] = Append(@, x)]
            PROVE  k \in 1..Len(ring'[e]) /\ ring'[e][k] = ring[e][k]
        <5>1. /\ Len(ring[a]) \in Nat /\ Len(ring'[a]) = Len(ring[a]) + 1
              /\ \A m \in 1..Len(ring[a]) : ring'[a][m] = ring[a][m]
              /\ \A c \in Agent : c # a => ring'[c] = ring[c]
          BY <3>3, <4>2, RingPush
        <5>2. CASE e = a BY <5>1, <5>2
        <5>3. CASE e # a BY <5>1, <5>3
        <5>4. QED BY <5>2, <5>3
      <4>3. QED BY <2>3, <4>1, <4>2
    <3>6. ASSUME NEW j \in 1..Len(conns), NEW b \in Batch, Arrives(conns[j], ring, b),
                 conns'[j].state # "closed"
          PROVE  Arrives(conns'[j], ring', b)
      <4>1. conns[j].state # "closed" /\ conns'[j].agent = conns[j].agent /\ conns[j].agent \in Agent
        <5>1. conns[i].state # "closed"
          BY <1>13 DEF HandleConn
        <5>2. QED BY <1>2, <2>1, <2>3, <3>6, <5>1
      <4>2. CASE \E k \in 1..Len(ring[conns[j].agent]) : ring[conns[j].agent][k] = b
        BY <3>5, <4>1, <4>2 DEF Arrives
      <4>3. ASSUME NEW k \in 1..Len(conns[j].wire), conns[j].wire[k] = <<"body", b>>
            PROVE  Arrives(conns'[j], ring', b)
        <5>1. CASE j # i BY <2>1, <4>3, <5>1 DEF Arrives
        <5>2. CASE j = i /\ k = 1 BY <3>4, <4>1, <4>3, <5>2 DEF Arrives
        <5>3. CASE j = i /\ k # 1
          <6>1. k - 1 \in 1..Len(conns'[j].wire) /\ conns'[j].wire[k - 1] = <<"body", b>>
            BY <2>3, <3>2, <4>3, <5>3
          <6>2. QED BY <6>1 DEF Arrives
        <5>4. QED BY <5>1, <5>2, <5>3
      <4>4. QED BY <3>6, <4>1, <4>2, <4>3 DEF Arrives
    <3>7. \A j \in 1..Len(conns), b \in Batch : Arrives(conns[j], ring, b) => Arrives(conns'[j], ring', b)
      BY <3>6 DEF Arrives
    <3>8. QED BY <1>7, <2>1, <3>7
  <2>4. QED BY <2>1, <2>2, <2>3
<1>14. QED BY <1>8, <1>9, <1>10, <1>11, <1>12, <1>13, NextCases


----------------------------------------------------------------------------
(* The counter of dropped batches. *)

(* A batch is given up only where the counter goes up, or after it went up  *)
(* at the first failed write.                                               *)
LEMMA DropsStep ==
  ASSUME Types, Guarded, OneShipper, AllFramed, Cardinality(GivenUp) <= dropped, Next
  PROVE  Cardinality(GivenUp') <= dropped'
<1>1. IsFiniteSet(GivenUp) /\ Cardinality(GivenUp) \in Nat /\ dropped \in Nat
  <2>1. GivenUp \subseteq Batch
    BY DEF GivenUp
  <2>2. QED BY <2>1, InjectorAssumption, FS_Subset, FS_CardinalityType DEF Types
<1>2. ASSUME GivenUp' \subseteq GivenUp, dropped' = dropped \/ dropped' = dropped + 1
      PROVE  Cardinality(GivenUp') <= dropped'
  <2>1. Cardinality(GivenUp') <= Cardinality(GivenUp) /\ Cardinality(GivenUp') \in Nat
    BY <1>1, <1>2, FS_Subset, FS_CardinalityType
  <2>2. QED BY <1>1, <1>2, <2>1
<1>3. ASSUME NEW b, GivenUp' \subseteq GivenUp \cup {b}, dropped' = dropped + 1
      PROVE  Cardinality(GivenUp') <= dropped'
  <2>1. /\ IsFiniteSet(GivenUp \cup {b}) /\ Cardinality(GivenUp \cup {b}) \in Nat
        /\ Cardinality(GivenUp \cup {b}) <= Cardinality(GivenUp) + 1
    <3>1. IsFiniteSet(GivenUp \cup {b})
      BY <1>1, FS_AddElement
    <3>2. /\ Cardinality(GivenUp \cup {b}) = Cardinality(GivenUp)
             \/ Cardinality(GivenUp \cup {b}) = Cardinality(GivenUp) + 1
      BY <1>1, FS_AddElement
    <3>3. QED BY <1>1, <3>1, <3>2
  <2>2. Cardinality(GivenUp') <= Cardinality(GivenUp \cup {b}) /\ Cardinality(GivenUp') \in Nat
    BY <1>3, <2>1, FS_Subset, FS_CardinalityType
  <2>3. QED BY <1>1, <1>3, <2>1, <2>2
<1>4. CASE UNCHANGED <<written, cur, pc, dropped>>
  <2>1. GivenUp' = GivenUp
    BY <1>4 DEF GivenUp
  <2>2. QED BY <1>2, <1>4, <2>1
<1>5. ASSUME NEW t \in Thread, Local(t) PROVE Cardinality(GivenUp') <= dropped'
  <2>1. ASSUME NEW b \in Batch, pc[t] = "idle", written[b] = -1, dropped' = dropped,
               pc' = [pc EXCEPT ![t] = "lock"], cur' = [cur EXCEPT ![t] = b],
               written' = [written EXCEPT ![b] = 0]
        PROVE  Cardinality(GivenUp') <= dropped'
    <3>1. cur'[t] = b /\ pc'[t] = "lock" /\ cur[t] = NoBatch
      BY <2>1 DEF Types, Guarded
    <3>2. ASSUME NEW x \in GivenUp' PROVE x \in GivenUp
      <4>1. x # b
        BY <3>1 DEF GivenUp
      <4>2. x \in Batch /\ written[x] = 0
        BY <2>1, <4>1 DEF GivenUp, Types
      <4>3. ASSUME NEW u \in Thread, cur[u] = x PROVE pc[u] \in {"redial", "rewrite"}
        <5>1. u # t
          BY <3>1, <4>2, <4>3, InjectorAssumption
        <5>2. cur'[u] = x /\ pc'[u] = pc[u]
          BY <2>1, <4>3, <5>1 DEF Types
        <5>3. QED BY <5>2 DEF GivenUp
      <4>4. QED BY <4>2, <4>3 DEF GivenUp
    <3>3. QED BY <1>2, <2>1, <3>2
  <2>2. CASE /\ pc[t] = "lock" /\ pc' = [pc EXCEPT ![t] = IF conn = 0 THEN "dial" ELSE "write"]
             /\ UNCHANGED <<cur, written, dropped>>
    <3>1. GivenUp' \subseteq GivenUp
      BY <2>2 DEF GivenUp, Types
    <3>2. QED BY <1>2, <2>2, <3>1
  <2>3. CASE /\ pc[t] \in {"dial", "redial", "rewrite"} /\ Return(t) /\ written' = written
             /\ pc[t] = "dial" => dropped' = dropped + 1
             /\ pc[t] # "dial" => dropped' = dropped
    <3>1. ASSUME NEW x \in GivenUp', x # cur[t] PROVE x \in GivenUp
      BY <2>3, <3>1 DEF GivenUp, Types, Return
    <3>2. CASE pc[t] = "dial"
      <4>1. GivenUp' \subseteq GivenUp \cup {cur[t]}
        BY <3>1
      <4>2. QED BY <1>3, <2>3, <3>2, <4>1
    <3>3. CASE pc[t] # "dial"
      <4>1. cur[t] \in Batch /\ written[cur[t]] = 0
        BY <2>3 DEF Guarded, Types, OneShipper
      <4>2. \A u \in Thread : cur[u] = cur[t] => u = t
        BY <4>1, InjectorAssumption DEF OneShipper
      <4>3. cur[t] \in GivenUp
        BY <2>3, <3>3, <4>1, <4>2 DEF GivenUp
      <4>4. QED BY <1>2, <2>3, <3>1, <3>3, <4>3
    <3>4. QED BY <3>2, <3>3
  <2>4. CASE /\ pc[t] = "write" /\ dropped' = dropped + 1
             /\ pc' = [pc EXCEPT ![t] = "redial"] /\ UNCHANGED <<cur, written>>
    <3>1. ASSUME NEW x \in GivenUp', x # cur[t] PROVE x \in GivenUp
      BY <2>4, <3>1 DEF GivenUp, Types
    <3>2. GivenUp' \subseteq GivenUp \cup {cur[t]}
      BY <3>1
    <3>3. QED BY <1>3, <2>4, <3>2
  <2>5. QED BY <1>5, <2>1, <2>2, <2>3, <2>4, LocalFacts
<1>6. ASSUME NEW t \in Thread, WriteAll(t) PROVE Cardinality(GivenUp') <= dropped'
  <2>1. /\ conn \in 1..Len(conns) /\ cur[t] \in Batch /\ dropped' = dropped
        /\ \/ UNCHANGED <<lock, pc, cur, written>>
           \/ Return(t) /\ written' = [written EXCEPT ![cur[t]] = conn]
    BY <1>6, WriteFacts
  <2>2. CASE Return(t) /\ written' = [written EXCEPT ![cur[t]] = conn]
    <3>1. written'[cur[t]] # 0
      BY <2>1, <2>2 DEF Types
    <3>2. ASSUME NEW x \in GivenUp' PROVE x \in GivenUp
      <4>1. x # cur[t] /\ x \in Batch
        BY <3>1 DEF GivenUp
      <4>2. written[x] = 0
        BY <2>2, <4>1 DEF GivenUp, Types
      <4>3. QED BY <2>2, <4>1, <4>2 DEF GivenUp, Types, Return
    <3>3. QED BY <1>2, <2>1, <3>2
  <2>3. QED BY <1>4, <2>1, <2>2
<1>7. CASE Dials
  <2>1. UNCHANGED <<written, cur, dropped>>
    BY <1>7, DialsFacts
  <2>2. ASSUME NEW t \in Thread, pc[t] \in {"dial", "redial"},
               pc' = [pc EXCEPT ![t] = IF pc[t] = "dial" THEN "write" ELSE "rewrite"]
        PROVE  GivenUp' \subseteq GivenUp
    BY <2>1, <2>2 DEF GivenUp, Types
  <2>3. QED BY <1>2, <1>4, <1>7, <2>1, <2>2, DialsFacts
<1>8. CASE InitializeInjection
  BY <1>4, <1>8 DEF InitializeInjection
<1>9. CASE (\E a \in Agent : AgentStep(a)) \/ (\E i \in 1..MaxConns : Accept(i))
  BY <1>4, <1>9, AgentFacts
<1>10. ASSUME NEW i \in 1..MaxConns, HandleConn(i) PROVE Cardinality(GivenUp') <= dropped'
  BY <1>4, <1>10, HandleFacts
<1>11. QED BY <1>5, <1>6, <1>7, <1>8, <1>9, <1>10, NextCases

----------------------------------------------------------------------------
(* IInv is inductive. *)
LEMMA NextIInv == IInv /\ [Next]_vars => IInv'
<1> SUFFICES ASSUME IInv, [Next]_vars PROVE IInv'
  OBVIOUS
<1>1. CASE Next
  <2>1. /\ Types /\ Guarded /\ OneShipper /\ AllFramed /\ BodiesOnce /\ RingsOnce
        /\ WrittenArrives /\ Cardinality(GivenUp) <= dropped
    BY DEF IInv
  <2>2. Types' /\ Guarded' /\ OneShipper' /\ AllFramed'
    BY <1>1, <2>1, TypesStep, GuardedStep, OneShipperStep, FramedStep
  <2>3. BodiesOnce' /\ RingsOnce' /\ WrittenArrives'
    BY <1>1, <2>1, BodiesStep, ArrivesStep
  <2>4. Cardinality(GivenUp') <= dropped'
    BY <1>1, <2>1, DropsStep
  <2>5. QED BY <2>2, <2>3, <2>4 DEF IInv
<1>2. CASE UNCHANGED vars
  <2>1. Types' /\ Guarded' /\ OneShipper' /\ WrittenArrives'
    BY <1>2 DEF IInv, vars, process, Types, Guarded, OneShipper, WrittenArrives
  <2>2. AllFramed' /\ BodiesOnce' /\ RingsOnce'
    BY <1>2 DEF IInv, vars, process, AllFramed, Owed, BodiesOnce, RingsOnce
  <2>3. Cardinality(GivenUp') <= dropped'
    <3>1. GivenUp' = GivenUp /\ dropped' = dropped
      BY <1>2 DEF vars, process, GivenUp
    <3>2. QED BY <3>1 DEF IInv
  <2>4. QED BY <2>1, <2>2, <2>3 DEF IInv
<1>3. QED BY <1>1, <1>2

(* The invariant behind the three results below: one thread at a time       *)
(* writes, lengths and bodies alternate on every connection, and a body is  *)
(* written, read and pushed once.                                           *)
THEOREM InjectorInvariant == Spec => []IInv
BY InitIInv, NextIInv, PTL DEF Spec

(* A batch that ship() wholly wrote is under way or in the agent's ring     *)
(* unless the agent closed its connection (lib.rs: the GLOBAL mutex is held *)
(* across the two writes; cupti.rs: handle_conn reads length, then body).   *)
THEOREM InjectorWrittenArrives == Spec => []WrittenArrives
<1>1. IInv => WrittenArrives
  BY DEF IInv
<1>2. QED BY <1>1, InjectorInvariant, PTL

(* No batch is pushed twice into the event rings of this host's agents: the *)
(* second attempt of ship() follows a write that left no whole frame.       *)
THEOREM InjectorDeliveredOnce == Spec => []DeliveredOnce
<1>1. IInv => DeliveredOnce
  <2> SUFFICES ASSUME IInv, NEW b \in Batch
               PROVE  Cardinality({p \in Agent \X (1..Cardinality(Batch) + 1) :
                        p[2] \in DOMAIN ring[p[1]] /\ ring[p[1]][p[2]] = b}) <= 1
    BY DEF DeliveredOnce
  <2> DEFINE P == {p \in Agent \X (1..Cardinality(Batch) + 1) :
                     p[2] \in DOMAIN ring[p[1]] /\ ring[p[1]][p[2]] = b}
  <2>1. \A a \in Agent : DOMAIN ring[a] = 1..Len(ring[a])
    BY DEF IInv, Types
  <2>2. ASSUME NEW p \in P, NEW q \in P PROVE p = q
    <3>1. /\ p[1] \in Agent /\ p[2] \in 1..Len(ring[p[1]]) /\ ring[p[1]][p[2]] = b
          /\ q[1] \in Agent /\ q[2] \in 1..Len(ring[q[1]]) /\ ring[q[1]][q[2]] = b
          /\ p = <<p[1], p[2]>> /\ q = <<q[1], q[2]>>
      BY <2>1
    <3>2. p[1] = q[1] /\ p[2] = q[2]
      BY <3>1 DEF IInv, RingsOnce
    <3>3. QED BY <3>1, <3>2
  <2>3. P = {} \/ \E p : P = {p}
    <3> HIDE DEF P
    <3>1. QED BY <2>2
  <2>4. Cardinality(P) \in {0, 1}
    <3> HIDE DEF P
    <3>1. QED BY <2>3, FS_EmptySet, FS_Singleton
  <2>5. QED BY <2>4
<1>2. QED BY <1>1, InjectorInvariant, PTL

(* DROPPED_BATCHES counts at least the batches that ship() gave up: the     *)
(* second attempt, which counts nothing, follows a failure that counted.    *)
THEOREM InjectorDropsCounted == Spec => []DropsCounted
<1>1. IInv => DropsCounted
  <2> SUFFICES ASSUME IInv PROVE DropsCounted
    OBVIOUS
  <2> DEFINE D == {b \in Batch : written[b] = 0 /\ \A t \in Thread : cur[t] # b}
  <2>1. D \subseteq GivenUp /\ GivenUp \subseteq Batch
    BY DEF GivenUp
  <2> HIDE DEF D
  <2>2. IsFiniteSet(GivenUp)
    BY <2>1, InjectorAssumption, FS_Subset
  <2>3. /\ Cardinality(D) <= Cardinality(GivenUp) /\ Cardinality(D) \in Nat
        /\ Cardinality(GivenUp) \in Nat
    BY <2>1, <2>2, FS_Subset, FS_CardinalityType
  <2>4. Cardinality(GivenUp) <= dropped /\ dropped \in Nat
    BY DEF IInv, Types
  <2>5. Cardinality(D) <= dropped
    BY <2>3, <2>4
  <2>6. QED BY <2>5 DEF DropsCounted, D
<1>2. QED BY <1>1, InjectorInvariant, PTL
=============================================================================
