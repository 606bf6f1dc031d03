-------------------------- MODULE DataInputProofs --------------------------
(***************************************************************************)
(* Proofs about DataInput, for any inputs, graphs, pulls and values.       *)
(***************************************************************************)
EXTENDS DataInput, SequenceTheorems, TLAPS

USE InputsAssumption, SourceAssumption, WiringAssumption, BoundsAssumption

Queue   == {q \in Seq(Values) : Len(q) <= QueueSize}
Buffers == [Graphs -> [Inputs -> Buffer]]

-----------------------------------------------------------------------------
(* Types *)

LEMMA KeepFacts ==
  ASSUME NEW q \in Queue, NEW n \in Values
  PROVE  /\ Keep(q, n) \in Queue
         /\ Len(Keep(q, n)) > 0
         /\ Keep(q, n)[Len(Keep(q, n))] = n
         /\ \A k \in 1 .. Len(Keep(q, n)) - 1 :
              \E d \in {0, 1} : k + d \in 1 .. Len(q) /\ Keep(q, n)[k] = q[k + d]
                                /\ (d = 0 <=> Len(q) < QueueSize)
  <1>1. q \in Seq(Values) /\ Len(q) \in Nat /\ Len(q) <= QueueSize
    BY DEF Queue
  <1>2. CASE Len(q) < QueueSize
    <2>1. Keep(q, n) = Append(q, n) /\ Append(q, n) \in Seq(Values)
          /\ Len(Append(q, n)) = Len(q) + 1
      BY <1>1, <1>2 DEF Keep
    <2> QED
      BY <1>1, <1>2, <2>1 DEF Queue
  <1>3. CASE ~(Len(q) < QueueSize)
    <2>1. Len(q) = QueueSize /\ q # <<>> /\ Tail(q) \in Seq(Values) /\ Len(Tail(q)) = Len(q) - 1
          /\ \A k \in 1 .. Len(Tail(q)) : Tail(q)[k] = q[k + 1]
      BY <1>1, <1>3
    <2>2. Keep(q, n) = Append(Tail(q), n) /\ Append(Tail(q), n) \in Seq(Values)
          /\ Len(Append(Tail(q), n)) = Len(q)
      BY <1>3, <2>1 DEF Keep
    <2>3. \A k \in 1 .. Len(q) - 1 : Append(Tail(q), n)[k] = q[k + 1] /\ k + 1 \in 1 .. Len(q)
      BY <1>1, <2>1
    <2> QED
      BY <1>1, <1>3, <2>1, <2>2, <2>3 DEF Queue
  <1> QED
    BY <1>2, <1>3

LEMMA DeliveredType ==
  ASSUME TypeOK, NEW T \in SUBSET Inputs, NEW n \in Values, NEW c \in Ctx
  PROVE  Delivered(T, n, c) \in Buffers
  <1>1. \A i \in Inputs : bufs[graph][i] \in Buffer /\ bufs[graph][i].queue \in Queue
    BY DEF TypeOK, Buffer, Queue
  <1>2. \A i \in Inputs : Take(bufs[graph][i], n, c) \in Buffer
    BY <1>1, KeepFacts DEF Take, Buffer, Queue, Values
  <1>3. [i \in Inputs |-> IF i \in T THEN Take(bufs[graph][i], n, c) ELSE bufs[graph][i]]
          \in [Inputs -> Buffer]
    BY <1>1, <1>2
  <1> QED
    BY <1>3 DEF Delivered, TypeOK, Buffers

LEMMA AnswerType ==
  ASSUME NEW b \in Buffer, NEW fifo \in BOOLEAN
  PROVE  /\ Answer(b, fifo) \in 0 .. MaxValues
         /\ Rest(b, fifo) \in Queue
  <1>1. b.queue \in Seq(Values) /\ Len(b.queue) \in Nat /\ Len(b.queue) <= QueueSize
        /\ b.seen \in 0 .. MaxValues
    BY DEF Buffer
  <1>2. <<>> \in Queue
    BY DEF Queue
  <1>3. CASE b.queue = <<>>
    BY <1>1, <1>2, <1>3 DEF Answer, Rest
  <1>4. CASE b.queue # <<>>
    <2>1. Head(b.queue) \in Values /\ Tail(b.queue) \in Seq(Values)
          /\ Len(Tail(b.queue)) = Len(b.queue) - 1
      BY <1>1, <1>4
    <2> QED
      BY <1>1, <1>2, <2>1 DEF Answer, Rest, Queue, Values
  <1> QED
    BY <1>3, <1>4

LEMMA ReturnType ==
  ASSUME TypeOK, NEW p \in Pullers, NEW i \in Inputs, NEW g \in Graphs, NEW fifo \in BOOLEAN,
         NEW bs \in Buffers, Return(p, i, g, fifo, bs)
  PROVE  /\ pull' \in [Pullers -> Waiting \cup {Idle}]
         /\ bufs' \in Buffers
         /\ given' \in [Inputs -> Seq(Values)]
         /\ blind' \in SUBSET Inputs
  <1>1. bs[g][i] \in Buffer /\ bs[g] \in [Inputs -> Buffer]
    BY DEF Buffers
  <1>2. Answer(bs[g][i], fifo) \in 0 .. MaxValues /\ Rest(bs[g][i], fifo) \in Queue
    BY <1>1, AnswerType
  <1>3. pull' \in [Pullers -> Waiting \cup {Idle}]
    BY DEF Return, TypeOK
  <1>4. bufs' = [bs EXCEPT ![g][i].queue = Rest(bs[g][i], fifo)]
    BY DEF Return
  <1>5. [bs[g][i] EXCEPT !.queue = Rest(bs[g][i], fifo)] \in Buffer
    BY <1>1, <1>2 DEF Buffer, Queue
  <1>6. bufs' \in Buffers
    BY <1>1, <1>4, <1>5 DEF Buffers
  <1>7. given[i] \in Seq(Values)
    BY DEF TypeOK
  <1>8. given' = given \/ \E v \in Values : given' = [given EXCEPT ![i] = Append(given[i], v)]
    BY <1>2 DEF Return, Values
  <1>9. given' \in [Inputs -> Seq(Values)]
    <2>1. given \in [Inputs -> Seq(Values)]
      BY DEF TypeOK
    <2>2. CASE given' = given
      BY <2>1, <2>2
    <2>3. ASSUME NEW v \in Values, given' = [given EXCEPT ![i] = Append(given[i], v)]
          PROVE  given' \in [Inputs -> Seq(Values)]
      <3>1. Append(given[i], v) \in Seq(Values)
        BY <1>7
      <3> QED
        BY <2>1, <2>3, <3>1
    <2> QED
      BY <1>8, <2>2, <2>3
  <1>a. blind' \in SUBSET Inputs
    BY DEF Return, TypeOK
  <1> QED
    BY <1>3, <1>6, <1>9, <1>a

-----------------------------------------------------------------------------
(***************************************************************************)
(* The inductive invariant.  Values are numbered as they come, so a queue  *)
(* is sorted, its values are at most the newest seen, and what pulls have  *)
(* returned is at most what is left: Good, for the buffer b of an input,   *)
(* what was returned gv, and the newest value m.                           *)
(***************************************************************************)
Good(b, gv, m) ==
  /\ b.seen <= m
  /\ \A k \in 1 .. Len(b.queue) : b.queue[k] <= b.seen
  /\ \A j, k \in 1 .. Len(b.queue) : j < k => b.queue[j] <= b.queue[k]
  /\ \A j \in 1 .. Len(gv) : gv[j] <= b.seen /\ \A k \in 1 .. Len(b.queue) : gv[j] <= b.queue[k]
  /\ \A j, k \in 1 .. Len(gv) : j < k => gv[j] <= gv[k]

(* What the buffer of input i holds belongs there, by the origins o, when   *)
(* src feeds the inputs of graph g.                                        *)
Own(b, i, src, o, g) ==
  /\ b.seen # 0 => Belongs(o[b.seen], i, src, g)
  /\ \A k \in 1 .. Len(b.queue) : Belongs(o[b.queue[k]], i, src, g)

(* What waits for on_data is sorted and not older than what was called.    *)
CallsSorted ==
  \A i \in Inputs :
    /\ handed[i] <= last
    /\ \A k \in 1 .. Len(pending[i]) : handed[i] <= pending[i][k] /\ pending[i][k] <= last
    /\ \A j, k \in 1 .. Len(pending[i]) : j < k => pending[i][j] <= pending[i][k]

(* A pull of the deployed graph knows what feeds its input.                *)
PullsKnow ==
  \A p \in Pullers :
    pull[p] # Idle =>
      /\ pull[p].of <= graph
      /\ pull[p].of = graph => source[pull[p].input] = pull[p].from

IInv ==
  /\ TypeOK
  /\ \A i \in Inputs : Good(bufs[graph][i], given[i], last)
  /\ \A i \in Inputs : Own(bufs[graph][i], i, source, origin, graph)
  /\ CallsSorted
  /\ WaitingIsFlushed
  /\ PullsKnow

CallStep ==
  \A i \in Inputs :
    /\ handed'[i] >= handed[i]
    /\ active /\ pending'[i] = <<>> => \A k \in 1 .. Len(pending[i]) : handed'[i] >= pending[i][k]

LEMMA FreshFacts ==
  ASSUME NEW known \in BOOLEAN, NEW m \in Nat, NEW i, NEW src, NEW o, NEW g
  PROVE  /\ Fresh(known) \in Buffer
         /\ Good(Fresh(known), <<>>, m)
         /\ Own(Fresh(known), i, src, o, g)
  <1>1. <<>> \in Seq(Values) /\ Len(<<>>) = 0
    OBVIOUS
  <1> QED
    BY <1>1 DEF Fresh, Buffer, Ctx, Good, Own

LEMMA GoodMore ==
  ASSUME NEW b, b.seen \in Nat, NEW gv, NEW m \in Nat, Good(b, gv, m)
  PROVE  Good(b, gv, m + 1)
  BY DEF Good

LEMMA TakeGood ==
  ASSUME NEW b \in Buffer, NEW gv \in Seq(Values), NEW m \in Nat, Good(b, gv, m),
         m + 1 \in Values, NEW c \in Ctx
  PROVE  Good(Take(b, m + 1, c), gv, m + 1)
  <1> DEFINE q == Keep(b.queue, m + 1)
  <1>1. b.queue \in Queue /\ b.seen \in Nat
    BY DEF Buffer, Queue
  <1>2. /\ q \in Queue /\ Len(q) > 0 /\ q[Len(q)] = m + 1
        /\ \A k \in 1 .. Len(q) - 1 :
             \E d \in {0, 1} : k + d \in 1 .. Len(b.queue) /\ q[k] = b.queue[k + d]
                               /\ (d = 0 <=> Len(b.queue) < QueueSize)
    <2> SUFFICES ASSUME NEW n \in Values
                 PROVE  /\ Keep(b.queue, n) \in Queue
                        /\ Len(Keep(b.queue, n)) > 0
                        /\ Keep(b.queue, n)[Len(Keep(b.queue, n))] = n
                        /\ \A k \in 1 .. Len(Keep(b.queue, n)) - 1 :
                             \E d \in {0, 1} :
                               k + d \in 1 .. Len(b.queue) /\ Keep(b.queue, n)[k] = b.queue[k + d]
                               /\ (d = 0 <=> Len(b.queue) < QueueSize)
      OBVIOUS
    <2> DEFINE p == b.queue
    <2>1. p \in Queue
      BY <1>1
    <2> HIDE DEF p
    <2>2. /\ Keep(p, n) \in Queue
          /\ Len(Keep(p, n)) > 0
          /\ Keep(p, n)[Len(Keep(p, n))] = n
          /\ \A k \in 1 .. Len(Keep(p, n)) - 1 :
               \E d \in {0, 1} : k + d \in 1 .. Len(p) /\ Keep(p, n)[k] = p[k + d]
                                 /\ (d = 0 <=> Len(p) < QueueSize)
      BY <2>1, KeepFacts
    <2> QED
      BY <2>2 DEF p
  <1>3. Take(b, m + 1, c).queue = q /\ Take(b, m + 1, c).seen = m + 1
    BY DEF Take
  <1>4. Len(q) \in Nat /\ Len(b.queue) \in Nat /\ Len(gv) \in Nat
        /\ (\A k \in 1 .. Len(b.queue) : b.queue[k] \in Nat)
        /\ (\A k \in 1 .. Len(gv) : gv[k] \in Nat)
    <2> HIDE DEF q
    <2>1. q \in Seq(Values) /\ b.queue \in Seq(Values)
      BY <1>1, <1>2 DEF Queue
    <2>2. \A k \in 1 .. Len(b.queue) : b.queue[k] \in Nat
      BY <2>1 DEF Values
    <2>3. \A k \in 1 .. Len(gv) : gv[k] \in Nat
      BY DEF Values
    <2> QED
      BY <2>1, <2>2, <2>3
  <1> HIDE DEF q
  <1>5. \A k \in 1 .. Len(q) : k = Len(q) \/ k \in 1 .. Len(q) - 1
    BY <1>4
  <1>6. \A k \in 1 .. Len(q) - 1 : q[k] <= b.seen /\ q[k] \in Nat
    BY <1>2, <1>4 DEF Good
  <1>7. \A k \in 1 .. Len(q) : q[k] <= m + 1
    <2>1. b.seen <= m /\ b.seen \in Nat
      BY <1>1 DEF Good
    <2>2. q[Len(q)] <= m + 1
      BY <1>2
    <2>3. \A k \in 1 .. Len(q) - 1 : q[k] <= m + 1
      BY <1>6, <2>1
    <2> QED
      BY <1>5, <2>2, <2>3
  <1>8. ASSUME NEW j \in 1 .. Len(q), NEW k \in 1 .. Len(q), j < k
        PROVE  q[j] <= q[k]
    <2>1. j \in 1 .. Len(q) - 1
      BY <1>4, <1>8
    <2>2. CASE k = Len(q)
      <3>1. q[j] <= m + 1
        BY <1>7
      <3>2. q[k] = m + 1
        BY <1>2, <2>2
      <3> QED
        BY <3>1, <3>2
    <2>3. CASE k \in 1 .. Len(q) - 1
      <3>1. PICK d \in {0, 1} : j + d \in 1 .. Len(b.queue) /\ q[j] = b.queue[j + d]
                                /\ (d = 0 <=> Len(b.queue) < QueueSize)
        BY <1>2, <2>1
      <3>2. k + d \in 1 .. Len(b.queue) /\ q[k] = b.queue[k + d]
        BY <1>2, <2>3, <3>1
      <3> QED
        BY <1>8, <3>1, <3>2 DEF Good
    <2> QED
      BY <1>5, <2>2, <2>3
  <1>9. ASSUME NEW j \in 1 .. Len(gv)
        PROVE  gv[j] <= m + 1 /\ \A k \in 1 .. Len(q) : gv[j] <= q[k]
    <2>1. gv[j] <= b.seen /\ \A k \in 1 .. Len(b.queue) : gv[j] <= b.queue[k]
      BY DEF Good
    <2>2. gv[j] <= m + 1
      BY <1>1, <1>4, <2>1 DEF Good
    <2>3. \A k \in 1 .. Len(q) - 1 : gv[j] <= q[k]
      BY <1>2, <2>1
    <2> QED
      BY <1>2, <1>5, <2>2, <2>3
  <1> QED
    BY <1>3, <1>7, <1>8, <1>9 DEF Good

LEMMA PopGood ==
  ASSUME NEW b \in Buffer, NEW gv \in Seq(Values), NEW m \in Nat, Good(b, gv, m),
         NEW fifo \in BOOLEAN
  PROVE  /\ Good([b EXCEPT !.queue = Rest(b, fifo)], gv, m)
         /\ Answer(b, fifo) # 0 =>
              Good([b EXCEPT !.queue = Rest(b, fifo)], Append(gv, Answer(b, fifo)), m)
  <1> DEFINE r  == [b EXCEPT !.queue = Rest(b, fifo)]
             v  == Answer(b, fifo)
             g2 == Append(gv, v)
  <1>1. b.queue \in Seq(Values) /\ Len(b.queue) \in Nat /\ b.seen \in 0 .. MaxValues
    BY DEF Buffer
  <1>2. r.seen = b.seen /\ r.queue = Rest(b, fifo)
    BY DEF Buffer
  <1>3. \/ Len(Rest(b, fifo)) = 0
        \/ /\ fifo /\ b.queue # <<>> /\ Len(b.queue) > 0
           /\ Len(Rest(b, fifo)) = Len(b.queue) - 1
           /\ \A k \in 1 .. Len(Rest(b, fifo)) :
                k + 1 \in 1 .. Len(b.queue) /\ Rest(b, fifo)[k] = b.queue[k + 1]
           /\ v = b.queue[1] /\ 1 \in 1 .. Len(b.queue)
    BY <1>1 DEF Rest, Answer
  <1>4. \A k \in 1 .. Len(b.queue) : b.queue[k] \in Nat
    BY <1>1 DEF Values
  <1>5. \/ v = b.seen
        \/ v = 0
        \/ b.queue # <<>> /\ v = b.queue[1] /\ 1 \in 1 .. Len(b.queue)
    BY <1>1 DEF Answer
  <1>6. Good(r, gv, m)
    <2>1. CASE Len(Rest(b, fifo)) = 0
      BY <1>2, <2>1 DEF Good
    <2>2. CASE Len(Rest(b, fifo)) # 0
      <3>1. \A k \in 1 .. Len(r.queue) : k + 1 \in 1 .. Len(b.queue) /\ r.queue[k] = b.queue[k + 1]
        BY <1>2, <1>3, <2>2
      <3>2. \A k \in 1 .. Len(r.queue) : r.queue[k] <= r.seen
        BY <1>2, <3>1 DEF Good
      <3>3. \A j, k \in 1 .. Len(r.queue) : j < k => r.queue[j] <= r.queue[k]
        <4> SUFFICES ASSUME NEW j \in 1 .. Len(r.queue), NEW k \in 1 .. Len(r.queue), j < k
                     PROVE  r.queue[j] <= r.queue[k]
          OBVIOUS
        <4>1. j + 1 < k + 1 /\ j + 1 \in 1 .. Len(b.queue) /\ k + 1 \in 1 .. Len(b.queue)
          BY <3>1
        <4> QED
          BY <3>1, <4>1 DEF Good
      <3>4. \A j \in 1 .. Len(gv) : gv[j] <= r.seen /\ \A k \in 1 .. Len(r.queue) : gv[j] <= r.queue[k]
        BY <1>2, <3>1 DEF Good
      <3> QED
        BY <1>2, <3>2, <3>3, <3>4 DEF Good
    <2> QED
      BY <2>1, <2>2
  <1>7. ASSUME v # 0 PROVE Good(r, g2, m)
    <2>1. v \in Values
      BY <1>7, AnswerType DEF Values
    <2>2. g2 \in Seq(Values) /\ Len(g2) = Len(gv) + 1 /\ Len(gv) \in Nat
          /\ g2[Len(gv) + 1] = v /\ \A j \in 1 .. Len(gv) : g2[j] = gv[j] /\ gv[j] \in Nat
      BY <2>1 DEF Values
    <2>3. v <= r.seen
      BY <1>1, <1>2, <1>5, <1>7 DEF Good
    <2>4. \A k \in 1 .. Len(r.queue) : v <= r.queue[k]
      <3>1. CASE Len(Rest(b, fifo)) = 0
        BY <1>2, <3>1
      <3>2. CASE Len(Rest(b, fifo)) # 0
        <4>1. /\ v = b.queue[1] /\ 1 \in 1 .. Len(b.queue) /\ Len(r.queue) \in Nat
              /\ \A k \in 1 .. Len(r.queue) : k + 1 \in 1 .. Len(b.queue) /\ r.queue[k] = b.queue[k + 1]
          BY <1>1, <1>2, <1>3, <3>2
        <4> HIDE DEF r, v
        <4>2. ASSUME NEW k \in 1 .. Len(r.queue)
              PROVE  v <= r.queue[k]
          <5>1. 1 < k + 1 /\ k + 1 \in 1 .. Len(b.queue) /\ r.queue[k] = b.queue[k + 1]
            BY <4>1
          <5>2. \A j, n \in 1 .. Len(b.queue) : j < n => b.queue[j] <= b.queue[n]
            BY DEF Good
          <5>3. b.queue[1] <= b.queue[k + 1]
            BY <4>1, <5>1, <5>2
          <5> QED
            BY <4>1, <5>1, <5>3
        <4> QED
          BY <4>2
      <3> QED
        BY <3>1, <3>2
    <2>5. \A j \in 1 .. Len(gv) : gv[j] <= v
      BY <1>5, <1>7 DEF Good
    <2> HIDE DEF g2, v, r
    <2>6. \A j \in 1 .. Len(g2) : j = Len(gv) + 1 \/ j \in 1 .. Len(gv)
      BY <2>2
    <2>7. \A j \in 1 .. Len(g2) : g2[j] <= r.seen /\ \A k \in 1 .. Len(r.queue) : g2[j] <= r.queue[k]
      BY <1>6, <2>2, <2>3, <2>4, <2>6 DEF Good
    <2>8. \A j, k \in 1 .. Len(g2) : j < k => g2[j] <= g2[k]
      BY <1>6, <2>2, <2>5, <2>6 DEF Good
    <2> QED
      BY <1>6, <2>7, <2>8 DEF Good
  <1> QED
    BY <1>6, <1>7

-----------------------------------------------------------------------------
(* The steps *)

LEMMA InitIInv == Init => IInv
  <1> SUFFICES ASSUME Init PROVE IInv
    OBVIOUS
  <1>1. <<>> \in Seq(Values) /\ Len(<<>>) = 0 /\ 1 \in Graphs /\ graph = 1
        /\ 0 \in 0 .. MaxGraphs /\ 0 \in 0 .. MaxValues
    BY DEF Init, Graphs
  <1>2. source \in [Inputs -> Sources \cup {NoSource}]
    BY DEF Init, Sources
  <1>3. \A i \in Inputs : FreshBuffers(source)[i] = Fresh(source[i] \in Remotes)
        /\ (source[i] \in Remotes) \in BOOLEAN
    BY DEF FreshBuffers
  <1>4. FreshBuffers(source) \in [Inputs -> Buffer] /\ [i \in Inputs |-> Fresh(FALSE)] \in [Inputs -> Buffer]
    BY <1>3, FreshFacts DEF FreshBuffers
  <1>5. bufs \in Buffers /\ bufs[graph] = FreshBuffers(source)
    BY <1>1, <1>4 DEF Init, Buffers
  <1>6. TypeOK
    BY <1>1, <1>2, <1>5 DEF Init, TypeOK, Buffers, Origin, Nowhere
  <1>7. \A i \in Inputs : Good(bufs[graph][i], given[i], last) /\ Own(bufs[graph][i], i, source, origin, graph)
    <2> SUFFICES ASSUME NEW i \in Inputs
                 PROVE  Good(bufs[graph][i], given[i], last) /\ Own(bufs[graph][i], i, source, origin, graph)
      OBVIOUS
    <2>1. PICK known \in BOOLEAN : bufs[graph][i] = Fresh(known)
      BY <1>3, <1>5
    <2>2. given[i] = <<>> /\ last = 0 /\ 0 \in Nat
      BY DEF Init
    <2> QED
      BY <2>1, <2>2, FreshFacts
  <1>8. CallsSorted /\ WaitingIsFlushed /\ PullsKnow
    BY <1>1 DEF Init, CallsSorted, WaitingIsFlushed, PullsKnow
  <1> QED
    BY <1>6, <1>7, <1>8 DEF IInv

(* The new value is queued for on_data.                                    *)
LEMMA EnqueueFacts ==
  ASSUME IInv, last < MaxValues, NEW T \in SUBSET Inputs, Enqueue(T, last + 1),
         last' = last + 1
  PROVE  /\ pending' \in [Inputs -> Seq(Values)] /\ flushing' \in BOOLEAN
         /\ handed' \in [Inputs -> 0 .. MaxValues]
         /\ CallsSorted' /\ WaitingIsFlushed' /\ CallStep
  <1>1. last \in Nat /\ last + 1 \in Values
    BY DEF IInv, TypeOK, Values
  <1>5. \A i \in Inputs : pending[i] \in Seq(Values) /\ Append(pending[i], last + 1) \in Seq(Values)
    BY <1>1 DEF IInv, TypeOK
  <1>6. /\ pending' \in [Inputs -> Seq(Values)] /\ flushing' \in BOOLEAN /\ handed' = handed
        /\ \A i \in Inputs : pending'[i] = IF i \in T THEN Append(pending[i], last + 1) ELSE pending[i]
    BY <1>5 DEF IInv, TypeOK, Enqueue
  <1>7. CallsSorted'
    <2> SUFFICES ASSUME NEW i \in Inputs
                 PROVE  /\ handed'[i] <= last'
                        /\ \A k \in 1 .. Len(pending'[i]) : handed'[i] <= pending'[i][k] /\ pending'[i][k] <= last'
                        /\ \A j, k \in 1 .. Len(pending'[i]) : j < k => pending'[i][j] <= pending'[i][k]
      BY DEF CallsSorted
    <2>1. /\ handed[i] <= last /\ handed[i] \in Nat
          /\ \A k \in 1 .. Len(pending[i]) : handed[i] <= pending[i][k] /\ pending[i][k] <= last
          /\ \A j, k \in 1 .. Len(pending[i]) : j < k => pending[i][j] <= pending[i][k]
      BY DEF IInv, TypeOK, CallsSorted
    <2>2. \A k \in 1 .. Len(pending[i]) : pending[i][k] \in Nat
      BY <1>5 DEF Values
    <2>0. last \in Nat /\ last' = last + 1 /\ handed'[i] = handed[i]
      BY <1>1, <1>6
    <2>3. CASE i \notin T
      <3>1. pending'[i] = pending[i]
        BY <1>6, <2>3
      <3> QED
        BY <2>0, <2>1, <2>2, <3>1
    <2>4. CASE i \in T
      <3> DEFINE q == pending'[i]
      <3>1. q = Append(pending[i], last + 1)
        BY <1>6, <2>4
      <3>2. Len(q) = Len(pending[i]) + 1 /\ Len(pending[i]) \in Nat /\ q[Len(pending[i]) + 1] = last + 1
            /\ \A k \in 1 .. Len(pending[i]) : q[k] = pending[i][k]
        BY <1>5, <3>1
      <3> HIDE DEF q
      <3>3. \A k \in 1 .. Len(q) : k = Len(pending[i]) + 1 \/ k \in 1 .. Len(pending[i])
        BY <3>2
      <3>4. \A k \in 1 .. Len(q) : handed[i] <= q[k] /\ q[k] <= last + 1
        BY <2>0, <2>1, <2>2, <3>2, <3>3
      <3>5. \A j, k \in 1 .. Len(q) : j < k => q[j] <= q[k]
        BY <2>0, <2>1, <2>2, <3>2, <3>3, <3>4
      <3>6. q = pending'[i]
        BY DEF q
      <3> QED
        BY <1>1, <1>6, <2>1, <3>4, <3>5, <3>6
    <2> QED
      BY <2>3, <2>4
  <1>8. WaitingIsFlushed'
    BY <1>6 DEF WaitingIsFlushed, IInv, Enqueue
  <1>9. CallStep
    <2> SUFFICES ASSUME NEW i \in Inputs
                 PROVE  handed'[i] >= handed[i] /\ (pending'[i] = <<>> => Len(pending[i]) = 0)
      BY DEF CallStep
    <2>1. handed'[i] = handed[i] /\ handed[i] \in Nat
      BY <1>6 DEF IInv, TypeOK
    <2>2. Append(pending[i], last + 1) # <<>>
      BY <1>1, <1>5, AppendProperties
    <2> QED
      BY <1>5, <1>6, <2>1, <2>2
  <1>a. handed' \in [Inputs -> 0 .. MaxValues]
    BY <1>6 DEF IInv, TypeOK
  <1> QED
    BY <1>6, <1>7, <1>8, <1>9, <1>a

(* A new value that comes from o is delivered to the inputs T.             *)
LEMMA DeliveredFacts ==
  ASSUME IInv, last < MaxValues, NEW T \in SUBSET Inputs, NEW c \in Ctx, NEW o \in Origin,
         \A i \in T : Belongs(o, i, source, graph),
         Enqueue(T, last + 1), Record(T, o)
  PROVE  /\ Delivered(T, last + 1, c) \in Buffers
         /\ pending' \in [Inputs -> Seq(Values)] /\ flushing' \in BOOLEAN
         /\ last' \in 0 .. MaxValues /\ origin' \in [Values -> Origin]
         /\ taken' \in [Inputs -> SUBSET Values] /\ refused' \in SUBSET Inputs
         /\ handed' \in [Inputs -> 0 .. MaxValues]
         /\ CallsSorted' /\ WaitingIsFlushed' /\ CallStep
         /\ \A i \in Inputs : Good(Delivered(T, last + 1, c)[graph][i], given[i], last')
         /\ \A i \in Inputs : Own(Delivered(T, last + 1, c)[graph][i], i, source, origin', graph)
  <1> DEFINE bs == Delivered(T, last + 1, c)
  <1>1. last \in Nat /\ last + 1 \in Values /\ last' = last + 1 /\ last' \in 0 .. MaxValues
        /\ graph \in Graphs
    BY DEF IInv, TypeOK, Values, Record
  <1>2. bs \in Buffers
    BY <1>1, DeliveredType DEF IInv
  <1>3. origin' = [origin EXCEPT ![last + 1] = o]
    BY <1>1 DEF Record
  <1>4. /\ origin' \in [Values -> Origin] /\ refused' \in SUBSET Inputs
        /\ taken' \in [Inputs -> SUBSET Values]
    BY <1>1, <1>3 DEF IInv, TypeOK, Record
  <1>5. /\ pending' \in [Inputs -> Seq(Values)] /\ flushing' \in BOOLEAN
        /\ handed' \in [Inputs -> 0 .. MaxValues]
        /\ CallsSorted' /\ WaitingIsFlushed' /\ CallStep
    BY <1>1, EnqueueFacts
  <1>a. \A i \in Inputs : bs[graph][i] = IF i \in T THEN Take(bufs[graph][i], last + 1, c) ELSE bufs[graph][i]
    BY <1>1 DEF Delivered, IInv, TypeOK
  <1>b. \A i \in Inputs : /\ bufs[graph][i] \in Buffer /\ given[i] \in Seq(Values)
                          /\ Good(bufs[graph][i], given[i], last)
    BY <1>1 DEF IInv, TypeOK
  <1> HIDE DEF bs
  <1>c. ASSUME NEW i \in Inputs PROVE Good(bs[graph][i], given[i], last')
    <2>1. CASE i \in T
      BY <1>1, <1>a, <1>b, <2>1, TakeGood
    <2>2. CASE i \notin T
      <3>1. bufs[graph][i].seen \in Nat
        BY <1>b DEF Buffer
      <3>2. Good(bufs[graph][i], given[i], last + 1)
        BY <1>1, <1>b, <3>1, GoodMore
      <3> QED
        BY <1>1, <1>a, <2>2, <3>2
    <2> QED
      BY <2>1, <2>2
  <1>d. ASSUME NEW i \in Inputs
        PROVE  Own(bs[graph][i], i, source, origin', graph)
    <2> DEFINE b == bufs[graph][i]
    <2>1. b \in Buffer /\ Good(b, given[i], last) /\ Own(b, i, source, origin, graph)
      BY <1>b DEF IInv
    <2>2. b.queue \in Queue /\ b.seen \in 0 .. MaxValues /\ b.seen <= last
          /\ Len(b.queue) \in Nat
      BY <2>1 DEF Buffer, Queue, Good
    <2>3. \A k \in 1 .. Len(b.queue) : b.queue[k] \in Values /\ b.queue[k] <= last
      <3>1. b.queue \in Seq(Values)
        BY <2>2 DEF Queue
      <3>2. \A k \in 1 .. Len(b.queue) : b.queue[k] \in Values /\ b.queue[k] \in Nat
        BY <3>1 DEF Values
      <3>3. \A k \in 1 .. Len(b.queue) : b.queue[k] <= b.seen
        BY <2>1 DEF Good
      <3>4. b.seen \in Nat
        BY <2>2
      <3> HIDE DEF b
      <3> QED
        BY <1>1, <2>2, <3>2, <3>3, <3>4
    <2> HIDE DEF b
    <2>4. \A n \in Values : n <= last => origin'[n] = origin[n]
      BY <1>1, <1>3 DEF IInv, TypeOK, Values
    <2>5. CASE i \notin T
      <3>1. bs[graph][i] = b
        BY <1>a, <2>5 DEF b
      <3>2. b.seen # 0 => b.seen \in Values
        BY <2>2 DEF Values
      <3> QED
        BY <2>1, <2>2, <2>3, <2>4, <3>1, <3>2 DEF Own
    <2>6. CASE i \in T
      <3>1. bs[graph][i].seen = last + 1 /\ bs[graph][i].queue = Keep(b.queue, last + 1)
        <4>1. bs[graph][i] = Take(b, last + 1, c)
          BY <1>a, <2>6 DEF b
        <4> QED
          BY <4>1 DEF Take
      <3>2. Belongs(origin'[last + 1], i, source, graph)
        BY <1>1, <1>3, <2>6 DEF IInv, TypeOK
      <3>3. \A k \in 1 .. Len(Keep(b.queue, last + 1)) :
              Belongs(origin'[Keep(b.queue, last + 1)[k]], i, source, graph)
        <4> DEFINE q == Keep(b.queue, last + 1)
        <4>1. /\ q \in Queue /\ Len(q) > 0 /\ q[Len(q)] = last + 1
              /\ \A k \in 1 .. Len(q) - 1 :
                   \E d \in {0, 1} : k + d \in 1 .. Len(b.queue) /\ q[k] = b.queue[k + d]
          BY <1>1, <2>2, KeepFacts
        <4> HIDE DEF q
        <4>2. Len(q) \in Nat
          BY <4>1 DEF Queue
        <4>3. \A k \in 1 .. Len(q) : k = Len(q) \/ k \in 1 .. Len(q) - 1
          BY <4>2
        <4>4. ASSUME NEW k \in 1 .. Len(q)
              PROVE  Belongs(origin'[q[k]], i, source, graph)
          <5>1. CASE k = Len(q)
            BY <3>2, <4>1, <5>1
          <5>2. CASE k \in 1 .. Len(q) - 1
            <6>1. PICK n \in 1 .. Len(b.queue) : q[k] = b.queue[n]
              BY <4>1, <5>2
            <6>2. /\ origin'[b.queue[n]] = origin[b.queue[n]]
                  /\ Belongs(origin[b.queue[n]], i, source, graph)
              BY <2>1, <2>3, <2>4 DEF Own
            <6> QED
              BY <6>1, <6>2
          <5> QED
            BY <4>3, <5>1, <5>2
        <4> QED
          BY <4>4 DEF q
      <3> QED
        BY <3>1, <3>2, <3>3 DEF Own
    <2> QED
      BY <2>5, <2>6
  <1> QED
    BY <1>1, <1>2, <1>4, <1>5, <1>c, <1>d DEF bs

(* A pull returns from the buffers bs.                                     *)
LEMMA ReturnGood ==
  ASSUME TypeOK, NEW p \in Pullers, NEW i \in Inputs, NEW g \in Graphs, NEW fifo \in BOOLEAN,
         NEW bs \in Buffers, last' \in Nat, Return(p, i, g, fifo, bs),
         \A x \in Inputs : Good(bs[graph][x], given[x], last')
  PROVE  /\ \A x \in Inputs : Good(bufs'[graph][x], given'[x], last')
         /\ \A x \in Inputs : Own(bs[graph][x], x, source, origin', graph) =>
                                Own(bufs'[graph][x], x, source, origin', graph)
  <1> DEFINE b == bs[g][i]
             r == [b EXCEPT !.queue = Rest(b, fifo)]
  <1>1. b \in Buffer /\ graph \in Graphs /\ \A x \in Inputs : given[x] \in Seq(Values)
    BY DEF Buffers, TypeOK
  <1>2. /\ bufs' = [bs EXCEPT ![g][i].queue = Rest(b, fifo)]
        /\ bufs'[g][i] = r
        /\ \A x \in Inputs : x # i \/ g # graph => bufs'[graph][x] = bs[graph][x]
    BY <1>1 DEF Return, Buffers
  <1>3. /\ g # graph => given' = given
        /\ g = graph => given' = given \/ (Answer(b, fifo) # 0
                          /\ given' = [given EXCEPT ![i] = Append(given[i], Answer(b, fifo))])
    BY DEF Return
  <1>4. ASSUME g = graph
        PROVE  Good(r, given[i], last')
               /\ (Answer(b, fifo) # 0 => Good(r, Append(given[i], Answer(b, fifo)), last'))
    <2>1. Good(b, given[i], last')
      BY <1>4
    <2> HIDE DEF b
    <2>2. \A m \in Nat : Good(b, given[i], m) => Good([b EXCEPT !.queue = Rest(b, fifo)], given[i], m)
            /\ (Answer(b, fifo) # 0 =>
                  Good([b EXCEPT !.queue = Rest(b, fifo)], Append(given[i], Answer(b, fifo)), m))
      BY <1>1, PopGood
    <2> QED
      BY <2>1, <2>2
  <1>5. r.seen = b.seen /\ r.queue = Rest(b, fifo)
    BY <1>1 DEF Buffer
  <1>6. Own(b, i, source, origin', graph) => Own(r, i, source, origin', graph)
    <2>1. b.queue \in Seq(Values)
      BY <1>1 DEF Buffer
    <2>2. CASE Rest(b, fifo) = <<>>
      BY <1>5, <2>2 DEF Own
    <2>3. CASE Rest(b, fifo) # <<>>
      <3>1. Rest(b, fifo) = Tail(b.queue) /\ b.queue # <<>>
        BY <2>3 DEF Rest
      <3>2. \A k \in 1 .. Len(Tail(b.queue)) : Tail(b.queue)[k] = b.queue[k + 1] /\ k + 1 \in 1 .. Len(b.queue)
        BY <2>1, <3>1
      <3> QED
        BY <1>5, <3>1, <3>2 DEF Own
    <2> QED
      BY <2>2, <2>3
  <1> HIDE DEF b, r
  <1>7. ASSUME NEW x \in Inputs PROVE Good(bufs'[graph][x], given'[x], last')
    <2>1. CASE x = i /\ g = graph
      BY <1>2, <1>3, <1>4, <2>1 DEF TypeOK
    <2>2. CASE ~(x = i /\ g = graph)
      <3>1. given'[x] = given[x]
        BY <1>3, <2>2 DEF TypeOK
      <3> QED
        BY <1>2, <2>2, <3>1
    <2> QED
      BY <2>1, <2>2
  <1>8. ASSUME NEW x \in Inputs, Own(bs[graph][x], x, source, origin', graph)
        PROVE  Own(bufs'[graph][x], x, source, origin', graph)
    BY <1>2, <1>6, <1>8 DEF b
  <1> QED
    BY <1>7, <1>8

LEMMA EmitIInv ==
  ASSUME IInv, NEW s \in Sources, Emit(s)
  PROVE  IInv' /\ CallStep
  <1>1. PICK old \in SUBSET Targets(s) :
          /\ bufs' = Delivered(Targets(s) \ old, last + 1, NoCtx)
          /\ Enqueue(Targets(s) \ old, last + 1)
          /\ Record(Targets(s) \ old, [graph |-> graph, port |-> s, asked |-> {}])
          /\ gaps' = gaps \cup Overflowing(Targets(s) \ old)
    BY DEF Emit
  <1> DEFINE T == Targets(s) \ old
             o == [graph |-> graph, port |-> s, asked |-> {}]
  <1>2. /\ T \in SUBSET Inputs /\ NoCtx \in Ctx /\ o \in Origin
        /\ \A i \in T : Belongs(o, i, source, graph)
    BY DEF Targets, Sources, IInv, TypeOK, Ctx, Origin, Graphs, Belongs
  <1>3. last < MaxValues /\ UNCHANGED <<active, graph, source, pull, given, blind>>
    BY DEF Emit
  <1>4. Enqueue(T, last + 1) /\ Record(T, o) /\ bufs' = Delivered(T, last + 1, NoCtx)
    BY <1>1
  <1> HIDE DEF T, o
  <1>8. gaps' \in SUBSET Inputs
    BY <1>1 DEF Overflowing, Targets, IInv, TypeOK
  <1>5. /\ bufs' \in Buffers
        /\ pending' \in [Inputs -> Seq(Values)] /\ flushing' \in BOOLEAN
        /\ last' \in 0 .. MaxValues /\ origin' \in [Values -> Origin]
        /\ taken' \in [Inputs -> SUBSET Values] /\ refused' \in SUBSET Inputs
        /\ handed' \in [Inputs -> 0 .. MaxValues]
        /\ CallsSorted' /\ WaitingIsFlushed' /\ CallStep
        /\ \A i \in Inputs : Good(bufs'[graph][i], given[i], last')
        /\ \A i \in Inputs : Own(bufs'[graph][i], i, source, origin', graph)
    BY <1>2, <1>3, <1>4, DeliveredFacts
  <1>6. TypeOK'
    BY <1>3, <1>5, <1>8 DEF IInv, TypeOK, Buffers
  <1>7. PullsKnow'
    BY <1>3 DEF IInv, PullsKnow
  <1> QED
    BY <1>3, <1>5, <1>6, <1>7 DEF IInv

LEMMA ComputedIInv ==
  ASSUME IInv, NEW p \in Pullers, Computed(p)
  PROVE  IInv' /\ CallStep
  <1> DEFINE w  == pull[p]
             T  == Takers(w)
             o  == [graph |-> w.of, port |-> w.from,
                    asked |-> IF w.of = graph THEN {} ELSE {w.input}]
             bs == Delivered(T, last + 1, w.ctx)
  <1>1. w \in Waiting /\ last < MaxValues
    BY DEF Computed, IInv, TypeOK
  <1>2. /\ w.input \in Inputs /\ w.from \in Locals /\ w.ctx \in Ctx /\ w.of \in Graphs /\ w.fifo \in BOOLEAN
        /\ w = pull[p] /\ w # Idle
    BY <1>1 DEF Waiting, Computed
  <1>3. /\ Return(p, w.input, w.of, w.fifo, bs)
        /\ gaps' = gaps \cup Overflowing(T)
        /\ Enqueue(T, last + 1) /\ Record(T, o)
        /\ UNCHANGED <<active, graph, source>>
    BY DEF Computed
  <1>4. T \in SUBSET Inputs
    BY <1>2 DEF Takers, Targets
  <1>5. o \in Origin /\ \A i \in T : Belongs(o, i, source, graph)
    <2>1. /\ w.of <= graph /\ w.of \in Graphs /\ graph \in Graphs
          /\ w.of = graph => w.input \in Targets(w.from)
      BY <1>2 DEF IInv, TypeOK, PullsKnow, Targets
    <2>2. o \in Origin
      BY <1>2, <2>1 DEF Origin, Sources, Graphs
    <2>3. /\ o.graph = w.of /\ o.port = w.from
          /\ w.of # graph => o.asked = {w.input}
      OBVIOUS
    <2>4. w.of = graph \/ w.of < graph
      BY <2>1 DEF Graphs
    <2>5. ASSUME NEW i \in T, i \in Targets(w.from)
          PROVE  Belongs(o, i, source, graph)
      BY <2>3, <2>4, <2>5 DEF Belongs, Targets
    <2>6. ASSUME NEW i \in T, i \notin Targets(w.from)
          PROVE  Belongs(o, i, source, graph)
      <3>1. Targets(w.from) = {} /\ i = w.input
        BY <2>6 DEF Takers
      <3>2. w.of < graph
        BY <2>1, <2>4, <3>1
      <3> QED
        BY <2>1, <2>3, <3>1, <3>2 DEF Belongs, Targets, Graphs
    <2> QED
      BY <2>2, <2>5, <2>6
  <1> HIDE DEF w, T, o, bs
  <1>6. /\ bs \in Buffers
        /\ pending' \in [Inputs -> Seq(Values)] /\ flushing' \in BOOLEAN
        /\ last' \in 0 .. MaxValues /\ origin' \in [Values -> Origin]
        /\ taken' \in [Inputs -> SUBSET Values] /\ refused' \in SUBSET Inputs
        /\ handed' \in [Inputs -> 0 .. MaxValues]
        /\ CallsSorted' /\ WaitingIsFlushed' /\ CallStep
        /\ \A i \in Inputs : Good(bs[graph][i], given[i], last')
        /\ \A i \in Inputs : Own(bs[graph][i], i, source, origin', graph)
    BY <1>1, <1>2, <1>3, <1>4, <1>5, DeliveredFacts DEF bs
  <1>7. TypeOK /\ last' \in Nat
    BY <1>6 DEF IInv
  <1>8. /\ pull' \in [Pullers -> Waiting \cup {Idle}]
        /\ bufs' \in Buffers
        /\ given' \in [Inputs -> Seq(Values)]
        /\ blind' \in SUBSET Inputs
    BY <1>2, <1>3, <1>6, <1>7, ReturnType
  <1>f. /\ Return(p, w.input, w.of, w.fifo, bs) /\ bs \in Buffers
        /\ \A x \in Inputs : Good(bs[graph][x], given[x], last')
    BY <1>3, <1>6
  <1>9. \A x \in Inputs : Good(bufs'[graph][x], given'[x], last')
    BY <1>2, <1>7, <1>f, ReturnGood
  <1>a. \A x \in Inputs : Own(bs[graph][x], x, source, origin', graph) =>
                            Own(bufs'[graph][x], x, source, origin', graph)
    BY <1>2, <1>7, <1>f, ReturnGood
  <1>c. \A x \in Inputs : Own(bufs'[graph][x], x, source, origin', graph)
    BY <1>6, <1>a
  <1>d. TypeOK'
    BY <1>3, <1>4, <1>6, <1>8 DEF IInv, TypeOK, Buffers, Overflowing
  <1>e. PullsKnow'
    <2>1. pull' = [pull EXCEPT ![p] = Idle]
      BY <1>3 DEF Return
    <2> QED
      BY <1>3, <2>1 DEF IInv, TypeOK, PullsKnow
  <1> QED
    BY <1>3, <1>6, <1>9, <1>c, <1>d, <1>e DEF IInv

(* Nothing is delivered: what waits for on_data stays.                     *)
LEMMA QuietCalls ==
  ASSUME IInv, UNCHANGED <<calls, last>>
  PROVE  CallsSorted' /\ WaitingIsFlushed' /\ CallStep
  <1>1. UNCHANGED <<pending, flushing, handed, last>>
    BY DEF calls
  <1>2. CallsSorted' /\ WaitingIsFlushed'
    BY <1>1 DEF IInv, CallsSorted, WaitingIsFlushed
  <1>3. CallStep
    <2> SUFFICES ASSUME NEW i \in Inputs
                 PROVE  handed'[i] >= handed[i] /\ (pending'[i] = <<>> => Len(pending[i]) = 0)
      BY DEF CallStep
    <2>1. handed'[i] = handed[i] /\ handed[i] \in Nat
      BY <1>1 DEF IInv, TypeOK
    <2>2. Len(<<>>) = 0
      OBVIOUS
    <2> QED
      BY <1>1, <2>1, <2>2
  <1> QED
    BY <1>2, <1>3

(* A pull returns that computed nothing.                                   *)
LEMMA ReturnIInv ==
  ASSUME IInv, NEW p \in Pullers, NEW i \in Inputs, NEW g \in Graphs, NEW fifo \in BOOLEAN,
         Return(p, i, g, fifo, bufs),
         UNCHANGED <<active, graph, source, calls, values, gaps, refused>>
  PROVE  IInv' /\ CallStep
  <1>1. /\ TypeOK /\ bufs \in Buffers /\ last' = last /\ origin' = origin /\ last' \in Nat
        /\ UNCHANGED <<active, graph, source, pending, flushing, handed, last, origin, taken, gaps,
                       refused>>
    BY DEF IInv, TypeOK, Buffers, calls, values
  <1>2. \A x \in Inputs : Good(bufs[graph][x], given[x], last')
    BY <1>1 DEF IInv
  <1>3. /\ pull' \in [Pullers -> Waiting \cup {Idle}] /\ bufs' \in Buffers
        /\ given' \in [Inputs -> Seq(Values)] /\ blind' \in SUBSET Inputs
    BY <1>1, ReturnType
  <1>4. \A x \in Inputs : Good(bufs'[graph][x], given'[x], last')
    BY <1>1, <1>2, ReturnGood
  <1>5. \A x \in Inputs : Own(bufs[graph][x], x, source, origin', graph) =>
                            Own(bufs'[graph][x], x, source, origin', graph)
    BY <1>1, <1>2, ReturnGood
  <1>6. \A x \in Inputs : Own(bufs'[graph][x], x, source, origin', graph)
    BY <1>1, <1>5 DEF IInv
  <1>7. TypeOK'
    BY <1>1, <1>3 DEF TypeOK, Buffers
  <1>8. PullsKnow'
    <2>1. pull' = [pull EXCEPT ![p] = Idle]
      BY DEF Return
    <2> QED
      BY <1>1, <2>1 DEF IInv, TypeOK, PullsKnow
  <1> QED
    BY <1>1, <1>4, <1>6, <1>7, <1>8, QuietCalls DEF IInv

LEMMA PullIInv ==
  ASSUME IInv, NEW p \in Pullers, NEW i \in Inputs, NEW c \in Contexts, Pull(p, i, c)
  PROVE  IInv' /\ CallStep
  <1> DEFINE b == bufs[graph][i]
             need == b.queue = <<>> /\ (c = NoCtx \/ b.ctx # c) /\ source[i] \in Locals
  <1>1. UNCHANGED <<active, graph, source, calls, values, gaps, refused>>
    BY DEF Pull
  <1>2. graph \in Graphs /\ Fifo(b, i) \in BOOLEAN
    BY DEF IInv, TypeOK, Fifo, Buffer
  <1>3. CASE need
    <2>1. /\ pull' = [pull EXCEPT ![p] = [input |-> i, from |-> source[i], ctx |-> c,
                                          of |-> graph, fifo |-> Fifo(b, i)]]
          /\ UNCHANGED <<bufs, given, blind>> /\ source[i] \in Locals
      BY <1>3 DEF Pull
    <2>2. UNCHANGED <<pending, flushing, handed, last, origin, taken>>
      BY <1>1 DEF calls, values
    <2>3. [input |-> i, from |-> source[i], ctx |-> c, of |-> graph, fifo |-> Fifo(b, i)] \in Waiting
      BY <1>2, <2>1 DEF Waiting, Ctx
    <2>4. TypeOK'
      BY <1>1, <2>1, <2>2, <2>3 DEF IInv, TypeOK
    <2>5. PullsKnow'
      <3> SUFFICES ASSUME NEW x \in Pullers, pull'[x] # Idle
                   PROVE  /\ pull'[x].of <= graph
                          /\ pull'[x].of = graph => source[pull'[x].input] = pull'[x].from
        BY <1>1 DEF PullsKnow
      <3>1. CASE x = p
        <4>1. pull'[x] = [input |-> i, from |-> source[i], ctx |-> c, of |-> graph, fifo |-> Fifo(b, i)]
          BY <2>1, <3>1 DEF IInv, TypeOK
        <4>2. graph <= graph
          BY <1>2 DEF Graphs
        <4> QED
          BY <4>1, <4>2
      <3>2. CASE x # p
        BY <2>1, <3>2 DEF IInv, TypeOK, PullsKnow
      <3> QED
        BY <3>1, <3>2
    <2>6. /\ \A x \in Inputs : Good(bufs'[graph'][x], given'[x], last')
          /\ \A x \in Inputs : Own(bufs'[graph'][x], x, source', origin', graph')
      BY <1>1, <2>1, <2>2 DEF IInv
    <2> QED
      BY <1>1, <2>2, <2>4, <2>5, <2>6, QuietCalls DEF IInv
  <1>4. CASE ~need
    <2>1. Return(p, i, graph, Fifo(b, i), bufs)
      BY <1>4 DEF Pull
    <2> HIDE DEF b, need
    <2> QED
      BY <1>1, <1>2, <2>1, ReturnIInv
  <1> QED
    BY <1>3, <1>4

LEMMA PullInVainIInv ==
  ASSUME IInv, NEW p \in Pullers, PullInVain(p)
  PROVE  IInv' /\ CallStep
  <1>1. pull[p] \in Waiting
    BY DEF PullInVain, IInv, TypeOK
  <1>2. pull[p].input \in Inputs /\ pull[p].of \in Graphs /\ pull[p].fifo \in BOOLEAN
    BY <1>1 DEF Waiting
  <1>3. Return(p, pull[p].input, pull[p].of, pull[p].fifo, bufs)
        /\ UNCHANGED <<active, graph, source, calls, values, gaps, refused>>
    BY DEF PullInVain
  <1> QED
    BY <1>2, <1>3, ReturnIInv

(* The flush task empties the queue; the last value of an input is its newest. *)
LEMMA FlushIInv ==
  ASSUME IInv, Flush
  PROVE  IInv' /\ CallStep
  <1>1. /\ pending' = [i \in Inputs |-> <<>>]
        /\ UNCHANGED <<active, graph, source, bufs, pull, last, origin, taken, given, gaps, blind,
                       refused>>
        /\ flushing' \in BOOLEAN
        /\ \/ /\ active
              /\ handed' = [i \in Inputs |-> IF pending[i] = <<>> THEN handed[i]
                                             ELSE Coalesced(pending[i])]
           \/ ~active /\ handed' = handed
    BY DEF Flush, buffers, values
  <1>2. <<>> \in Seq(Values) /\ Len(<<>>) = 0
    OBVIOUS
  <1>3. ASSUME NEW i \in Inputs
        PROVE  /\ handed'[i] \in 0 .. MaxValues /\ handed'[i] <= last /\ handed'[i] >= handed[i]
               /\ active => \A k \in 1 .. Len(pending[i]) : handed'[i] >= pending[i][k]
    <2>1. /\ pending[i] \in Seq(Values) /\ Len(pending[i]) \in Nat
          /\ handed[i] \in 0 .. MaxValues /\ handed[i] <= last /\ last \in Nat
          /\ \A k \in 1 .. Len(pending[i]) : handed[i] <= pending[i][k] /\ pending[i][k] <= last
          /\ \A j, k \in 1 .. Len(pending[i]) : j < k => pending[i][j] <= pending[i][k]
      BY DEF IInv, TypeOK, CallsSorted
    <2>2. CASE pending[i] = <<>> \/ ~active
      <3>1. handed'[i] = handed[i]
        BY <1>1, <2>2
      <3>2. active => Len(pending[i]) = 0
        BY <1>2, <2>2
      <3> QED
        BY <2>1, <3>1, <3>2
    <2>3. CASE pending[i] # <<>> /\ active
      <3>1. Len(pending[i]) \in 1 .. Len(pending[i])
        BY <2>1, <2>3
      <3>2. handed'[i] = pending[i][Len(pending[i])] /\ pending[i][Len(pending[i])] \in Values
        BY <1>1, <2>1, <2>3, <3>1 DEF Coalesced
      <3>3. handed'[i] \in 0 .. MaxValues /\ handed'[i] <= last /\ handed'[i] >= handed[i]
        BY <2>1, <3>1, <3>2 DEF Values
      <3>4. \A k \in 1 .. Len(pending[i]) : handed'[i] >= pending[i][k]
        <4> SUFFICES ASSUME NEW k \in 1 .. Len(pending[i]) PROVE pending[i][k] <= handed'[i]
          BY <2>1, <3>3 DEF Values
        <4>1. CASE k < Len(pending[i])
          BY <2>1, <3>1, <3>2, <4>1
        <4>2. CASE k = Len(pending[i])
          BY <3>2, <3>3, <4>2
        <4> QED
          BY <2>1, <4>1, <4>2
      <3> QED
        BY <3>3, <3>4
    <2> QED
      BY <2>2, <2>3
  <1>4. handed' \in [Inputs -> 0 .. MaxValues]
    <2>1. handed' = [i \in Inputs |-> handed'[i]]
      BY <1>1 DEF IInv, TypeOK
    <2> QED
      BY <1>3, <2>1
  <1>5. TypeOK'
    BY <1>1, <1>2, <1>4 DEF IInv, TypeOK
  <1>6. CallsSorted' /\ WaitingIsFlushed' /\ CallStep
    BY <1>1, <1>2, <1>3 DEF CallsSorted, WaitingIsFlushed, CallStep
  <1>7. PullsKnow'
    BY <1>1 DEF IInv, PullsKnow
  <1> QED
    BY <1>1, <1>5, <1>6, <1>7 DEF IInv

LEMMA DeployIInv ==
  ASSUME IInv, Deploy
  PROVE  IInv' /\ CallStep
  <1>1. /\ graph < MaxGraphs /\ graph' = graph + 1
        /\ given' = [i \in Inputs |-> <<>>] /\ taken' = [i \in Inputs |-> {}]
        /\ gaps' = {} /\ blind' = {} /\ refused' = {}
        /\ origin' = [n \in Values |-> Nowhere]
        /\ UNCHANGED <<active, pending, flushing, handed, pull, last>>
    BY DEF Deploy, calls
  <1>2. PICK src \in Wirings : Replace(src)
    BY DEF Deploy
  <1>3. graph' \in Graphs /\ graph \in Graphs /\ graph' # graph /\ last \in Nat /\ last' = last
    BY <1>1 DEF IInv, TypeOK, Graphs
  <1>4. source' = src /\ src \in [Inputs -> Sources \cup {NoSource}]
    BY <1>2 DEF Replace, Sources
  <1>5. \A i \in Inputs : FreshBuffers(src)[i] = Fresh(src[i] \in Remotes)
                          /\ (src[i] \in Remotes) \in BOOLEAN
    BY DEF FreshBuffers
  <1>6. FreshBuffers(src) \in [Inputs -> Buffer] /\ Unused \in [Inputs -> Buffer]
    BY <1>3, <1>5, FreshFacts DEF FreshBuffers, Unused
  <1>7. bufs' \in Buffers /\ bufs'[graph'] = FreshBuffers(src)
    BY <1>2, <1>3, <1>6 DEF Replace, Buffers, IInv, TypeOK
  <1>8. <<>> \in Seq(Values)
    OBVIOUS
  <1>9. TypeOK'
    BY <1>1, <1>3, <1>4, <1>7, <1>8 DEF IInv, TypeOK, Buffers, Origin, Nowhere
  <1>a. ASSUME NEW i \in Inputs
        PROVE  Good(bufs'[graph'][i], given'[i], last') /\ Own(bufs'[graph'][i], i, source', origin', graph')
    <2>1. PICK known \in BOOLEAN : bufs'[graph'][i] = Fresh(known)
      BY <1>5, <1>7
    <2>2. given'[i] = <<>>
      BY <1>1
    <2>3. Good(Fresh(known), <<>>, last)
      BY <1>3, FreshFacts
    <2>4. Own(Fresh(known), i, source', origin', graph')
      BY <1>8 DEF Fresh, Own
    <2> QED
      BY <1>3, <2>1, <2>2, <2>3, <2>4
  <1>b. PullsKnow'
    <2> SUFFICES ASSUME NEW p \in Pullers, pull[p] # Idle
                 PROVE  pull[p].of <= graph' /\ pull[p].of # graph'
      BY <1>1 DEF PullsKnow
    <2>1. pull[p].of \in Graphs /\ pull[p].of <= graph
      BY DEF IInv, TypeOK, PullsKnow, Waiting
    <2> QED
      BY <1>1, <1>3, <2>1 DEF Graphs
  <1> QED
    BY <1>1, <1>3, <1>9, <1>a, <1>b, QuietCalls DEF IInv, calls

LEMMA OtherIInv ==
  ASSUME IInv,
         (\E i \in Inputs : PullStale(i)) \/ Toggle \/ UNCHANGED vars
  PROVE  IInv' /\ CallStep
  <1>1. /\ active' \in BOOLEAN /\ refused' \in SUBSET Inputs
        /\ UNCHANGED <<graph, source, bufs, pending, flushing, handed, pull, last, origin, taken, given,
                       gaps, blind>>
    <2>1. (~active) \in BOOLEAN
      OBVIOUS
    <2> QED
      BY <2>1 DEF PullStale, Toggle, vars, buffers, calls, values, IInv, TypeOK
  <1>2. TypeOK' /\ PullsKnow'
    BY <1>1 DEF IInv, TypeOK, PullsKnow
  <1> QED
    BY <1>1, <1>2, QuietCalls DEF IInv, calls

LEMMA StepIInv == IInv /\ [Next]_vars => IInv' /\ [CallStep]_vars
  <1> SUFFICES ASSUME IInv, [Next]_vars PROVE IInv' /\ CallStep
    OBVIOUS
  <1>1. CASE \E s \in Sources : Emit(s)
    BY <1>1, EmitIInv
  <1>2. CASE \E p \in Pullers, i \in Inputs, c \in Contexts : Pull(p, i, c)
    BY <1>2, PullIInv
  <1>3. CASE \E p \in Pullers : PullInVain(p) \/ Computed(p)
    BY <1>3, PullInVainIInv, ComputedIInv
  <1>4. CASE Flush \/ Deploy
    BY <1>4, FlushIInv, DeployIInv
  <1> QED
    BY <1>1, <1>2, <1>3, <1>4, OtherIInv DEF Next

(* The inductive invariant holds in every reachable state.                 *)
THEOREM Invariance == Spec => []IInv
  BY InitIInv, StepIInv, PTL DEF Spec

(* Every reachable state is well-typed; in particular no input buffer grows *)
(* beyond its queueSize (code: buffer_input).                              *)
THEOREM TypeCorrect == Spec => []TypeOK
  <1>1. IInv => TypeOK
    BY DEF IInv
  <1> QED
    BY <1>1, Invariance, PTL

(***************************************************************************)
(* A buffer of the deployed graph holds only what the port that feeds its  *)
(* input now has emitted.  The exception is what a pull of this very input *)
(* asked for in an older graph, and only if the port it asked feeds no     *)
(* input now (code: replace_routes, compute_and_buffer_for_input with      *)
(* force_buffer_target, _fanout_local_routes).                             *)
(***************************************************************************)
THEOREM DataFollowsRoutes == Spec => []BuffersFollowRoutes
  <1>1. IInv => BuffersFollowRoutes
    BY DEF IInv, BuffersFollowRoutes, Own
  <1> QED
    BY <1>1, Invariance, PTL

(* Pulls of an input never return an older value after a newer one, however *)
(* pulls, emissions and computations overlap (code: pull_data, which reads  *)
(* the buffer after the computation it awaits).                            *)
THEOREM PullsForward == Spec => []NeverBackwards
  <1>1. IInv => NeverBackwards
    BY DEF IInv, NeverBackwards, Good
  <1> QED
    BY <1>1, Invariance, PTL

(* No value waits for on_data without a flush task (code:                  *)
(* _enqueue_on_data_callback, _flush_on_data_push_queue).                  *)
THEOREM NothingLeftWaiting == Spec => []WaitingIsFlushed
  <1>1. IInv => WaitingIsFlushed
    BY DEF IInv
  <1> QED
    BY <1>1, Invariance, PTL

(* on_data is called with ever newer values and skips a value only for a    *)
(* newer one (code: the coalescing in _flush_on_data_push_queue).          *)
THEOREM CallsInOrder == Spec => CallbackOrder
  <1>1. IInv /\ [Next]_vars =>
          [\A i \in Inputs :
             /\ handed'[i] >= handed[i]
             /\ active /\ pending'[i] = <<>> => \A k \in 1 .. Len(pending[i]) : handed'[i] >= pending[i][k]]_vars
    BY StepIInv DEF CallStep
  <1> QED
    BY <1>1, Invariance, PTL DEF Spec, CallbackOrder

-----------------------------------------------------------------------------
(***************************************************************************)
(* Frame by frame: what the pulls of an input have returned, gv, and what  *)
(* is left in its buffer b are values it took, tk, in order; all of them   *)
(* until its queue overflows.  Along with IInv this is inductive: a new    *)
(* value is newer than all of them, a pull moves one from the queue to     *)
(* what was returned, and a full queue loses its oldest.                   *)
(***************************************************************************)
Part(s, tk, all) ==
  /\ {s[k] : k \in 1 .. Len(s)} \subseteq tk
  /\ all => tk \subseteq {s[k] : k \in 1 .. Len(s)}
  /\ \A j, k \in 1 .. Len(s) : j < k => s[j] < s[k]

Frame(b, gv, tk, all) == Part(gv \o b.queue, tk, all)

FInv == \A i \in Queued \ blind : Frame(bufs[graph][i], given[i], taken[i], i \notin gaps)

LEMMA PartAppend ==
  ASSUME NEW s \in Seq(Values), NEW tk, NEW all, Part(s, tk, all), NEW n \in Values,
         \A k \in 1 .. Len(s) : s[k] < n
  PROVE  Part(Append(s, n), tk \cup {n}, all)
  <1> DEFINE t == Append(s, n)
  <1>1. /\ Len(s) \in Nat /\ Len(t) = Len(s) + 1 /\ t[Len(s) + 1] = n
        /\ \A k \in 1 .. Len(s) : t[k] = s[k] /\ k \in 1 .. Len(t)
    BY AppendProperties
  <1> HIDE DEF t
  <1>2. \A k \in 1 .. Len(t) : k \in 1 .. Len(s) \/ k = Len(s) + 1
    BY <1>1
  <1>3. Len(s) + 1 \in 1 .. Len(t)
    BY <1>1
  <1>4. {t[k] : k \in 1 .. Len(t)} = {s[k] : k \in 1 .. Len(s)} \cup {n}
    BY <1>1, <1>2, <1>3
  <1>5. ASSUME NEW j \in 1 .. Len(t), NEW k \in 1 .. Len(t), j < k PROVE t[j] < t[k]
    <2>1. j \in 1 .. Len(s)
      BY <1>1, <1>5
    <2> QED
      BY <1>1, <1>2, <1>5, <2>1 DEF Part
  <1>6. {s[k] : k \in 1 .. Len(s)} \subseteq tk /\ (all => tk \subseteq {s[k] : k \in 1 .. Len(s)})
    BY DEF Part
  <1>7. Part(t, tk \cup {n}, all)
    BY <1>4, <1>5, <1>6 DEF Part
  <1> QED
    BY <1>7 DEF t

(* A full queue loses its oldest value.                                    *)
LEMMA PartTail ==
  ASSUME NEW gv \in Seq(Values), NEW q \in Seq(Values), q # <<>>, NEW tk, NEW all,
         Part(gv \o q, tk, all)
  PROVE  Part(gv \o Tail(q), tk, FALSE)
  <1> DEFINE s == gv \o q
             u == Tail(q)
             t == gv \o u
             On(k) == IF k <= Len(gv) THEN k ELSE k + 1
  <1>1. /\ u \in Seq(Values) /\ Len(q) \in Nat /\ Len(u) = Len(q) - 1 /\ Len(u) \in Nat
        /\ \A k \in 1 .. Len(u) : u[k] = q[k + 1]
    BY HeadTailProperties, LenProperties
  <1> HIDE DEF u
  <1>2. /\ Len(gv) \in Nat /\ Len(s) = Len(gv) + Len(q)
        /\ \A k \in 1 .. Len(gv) + Len(q) : s[k] = IF k <= Len(gv) THEN gv[k] ELSE q[k - Len(gv)]
    BY ConcatProperties, LenProperties
  <1> HIDE DEF s
  <1>3. /\ Len(t) = Len(gv) + Len(u)
        /\ \A k \in 1 .. Len(gv) + Len(u) : t[k] = IF k <= Len(gv) THEN gv[k] ELSE u[k - Len(gv)]
    <2>1. u \in Seq(Values)
      BY <1>1
    <2> QED
      BY <2>1, ConcatProperties
  <1> HIDE DEF t
  <1>4. ASSUME NEW k \in 1 .. Len(t) PROVE On(k) \in 1 .. Len(s) /\ t[k] = s[On(k)]
    <2>1. CASE k <= Len(gv)
      <3>1. k \in 1 .. Len(gv) + Len(u) /\ k \in 1 .. Len(gv) + Len(q) /\ k \in 1 .. Len(s)
        BY <1>1, <1>2, <1>3, <2>1
      <3> QED
        BY <1>2, <1>3, <2>1, <3>1
    <2>2. CASE ~(k <= Len(gv))
      <3>1. k \in Nat /\ k <= Len(gv) + Len(u) /\ k \in 1 .. Len(gv) + Len(u)
        BY <1>1, <1>2, <1>3
      <3>2. k - Len(gv) \in 1 .. Len(u)
        BY <1>1, <1>2, <2>2, <3>1
      <3>3. t[k] = u[k - Len(gv)]
        BY <1>3, <2>2, <3>1
      <3>4. k - Len(gv) \in 1 .. Len(u) /\ t[k] = u[k - Len(gv)]
        BY <3>2, <3>3
      <3>5. u[k - Len(gv)] = q[(k - Len(gv)) + 1]
        BY <1>1, <3>4
      <3>6. /\ k + 1 \in 1 .. Len(gv) + Len(q) /\ ~(k + 1 <= Len(gv))
            /\ (k + 1) - Len(gv) = (k - Len(gv)) + 1
        BY <1>1, <1>2, <1>3, <2>2
      <3>7. s[k + 1] = q[(k - Len(gv)) + 1]
        BY <1>2, <3>6
      <3> QED
        BY <1>2, <2>2, <3>4, <3>5, <3>6, <3>7
    <2> QED
      BY <2>1, <2>2
  <1>5. \A j, k \in 1 .. Len(t) : j < k => On(j) < On(k)
    BY <1>1, <1>2, <1>3
  <1> HIDE DEF On
  <1>6. /\ {s[k] : k \in 1 .. Len(s)} \subseteq tk
        /\ \A j, k \in 1 .. Len(s) : j < k => s[j] < s[k]
    BY DEF Part, s
  <1>7. {t[k] : k \in 1 .. Len(t)} \subseteq tk
    BY <1>4, <1>6
  <1>8. \A j, k \in 1 .. Len(t) : j < k => t[j] < t[k]
    BY <1>4, <1>5, <1>6
  <1>9. Part(t, tk, FALSE)
    BY <1>7, <1>8 DEF Part
  <1> QED
    BY <1>9 DEF t, u

LEMMA AppendAfter ==
  ASSUME NEW s \in Seq(Values), NEW t \in Seq(Values), NEW v \in Values
  PROVE  s \o Append(t, v) = Append(s \o t, v)
  <1> DEFINE u == <<v>>
             w == s \o t
  <1>1. u \in Seq(Values) /\ w \in Seq(Values)
    OBVIOUS
  <1>2. Append(t, v) = t \o u
    BY AppendIsConcat
  <1> HIDE DEF w
  <1>3. Append(w, v) = w \o u
    BY <1>1, AppendIsConcat
  <1> HIDE DEF u
  <1>4. (s \o t) \o u = s \o (t \o u)
    BY <1>1, ConcatAssociative
  <1> QED
    BY <1>2, <1>3, <1>4 DEF w


(* A value newer than all of them is appended to the queue.                *)
LEMMA PartNewest ==
  ASSUME NEW gv \in Seq(Values), NEW q \in Seq(Values), NEW m \in Nat, m + 1 \in Values,
         NEW tk, NEW all, Part(gv \o q, tk, all),
         \A k \in 1 .. Len(q) : q[k] <= m, \A k \in 1 .. Len(gv) : gv[k] <= m
  PROVE  Part(gv \o Append(q, m + 1), tk \cup {m + 1}, all)
  <1> DEFINE s == gv \o q
  <1>1. \A k \in 1 .. Len(q) : q[k] \in Nat
    BY DEF Values
  <1>2. \A k \in 1 .. Len(gv) : gv[k] \in Nat
    BY DEF Values
  <1>3. /\ \A k \in 1 .. Len(q) : q[k] <= m /\ q[k] \in Nat
        /\ \A k \in 1 .. Len(gv) : gv[k] <= m /\ gv[k] \in Nat
    BY <1>1, <1>2
  <1>4. Part(s, tk, all)
    OBVIOUS
  <1>5. /\ s \in Seq(Values) /\ Len(s) = Len(gv) + Len(q) /\ Len(gv) \in Nat /\ Len(q) \in Nat
        /\ \A k \in 1 .. Len(gv) + Len(q) : s[k] = IF k <= Len(gv) THEN gv[k] ELSE q[k - Len(gv)]
    BY ConcatProperties, LenProperties
  <1> HIDE DEF s
  <1>6. ASSUME NEW k \in 1 .. Len(s) PROVE s[k] < m + 1
    <2>1. CASE k <= Len(gv)
      <3>1. k \in 1 .. Len(gv) /\ s[k] = gv[k]
        BY <1>5, <2>1
      <3>2. gv[k] <= m /\ gv[k] \in Nat
        BY <1>3, <3>1
      <3> QED
        BY <3>1, <3>2
    <2>2. CASE ~(k <= Len(gv))
      <3>1. k - Len(gv) \in 1 .. Len(q) /\ s[k] = q[k - Len(gv)]
        BY <1>5, <2>2
      <3>2. q[k - Len(gv)] <= m /\ q[k - Len(gv)] \in Nat
        BY <1>3, <3>1
      <3> QED
        BY <3>1, <3>2
    <2> QED
      BY <2>1, <2>2
  <1>7. Part(Append(s, m + 1), tk \cup {m + 1}, all)
    BY <1>4, <1>5, <1>6, PartAppend
  <1>8. gv \o Append(q, m + 1) = Append(s, m + 1)
    BY AppendAfter DEF s
  <1> QED
    BY <1>7, <1>8

(* An input takes a value, and loses its oldest if its queue is full.      *)
LEMMA FrameTake ==
  ASSUME NEW b \in Buffer, NEW gv \in Seq(Values), NEW m \in Nat, Good(b, gv, m),
         m + 1 \in Values, NEW c, NEW tk, NEW all, Frame(b, gv, tk, all)
  PROVE  Frame(Take(b, m + 1, c), gv, tk \cup {m + 1}, all /\ Len(b.queue) # QueueSize)
  <1> DEFINE q == b.queue
  <1>1. q \in Seq(Values) /\ Len(q) \in Nat /\ Len(q) <= QueueSize /\ b.seen \in Nat
    BY DEF Buffer
  <1>2. Take(b, m + 1, c).queue = Keep(q, m + 1)
    BY DEF Take
  <1>3. (\A k \in 1 .. Len(q) : q[k] <= m) /\ (\A k \in 1 .. Len(gv) : gv[k] <= m)
    <2>1. \A k \in 1 .. Len(q) : q[k] <= b.seen
      BY DEF Good
    <2>2. b.seen <= m /\ \A k \in 1 .. Len(gv) : gv[k] <= b.seen
      BY DEF Good
    <2> HIDE DEF q
    <2>3. \A k \in 1 .. Len(q) : q[k] \in Nat
      BY <1>1 DEF Values
    <2>4. \A k \in 1 .. Len(gv) : gv[k] \in Nat
      BY DEF Values
    <2> QED
      BY <1>1, <2>1, <2>2, <2>3, <2>4
  <1>4. Part(gv \o q, tk, all)
    BY DEF Frame
  <1> HIDE DEF q
  <1>5. CASE Len(q) < QueueSize
    <2>1. Keep(q, m + 1) = Append(q, m + 1)
      BY <1>5 DEF Keep
    <2>2. Part(gv \o Append(q, m + 1), tk \cup {m + 1}, all)
      BY <1>1, <1>3, <1>4, PartNewest
    <2> DEFINE w == gv \o Append(q, m + 1)
    <2>3. Part(w, tk \cup {m + 1}, all /\ Len(b.queue) # QueueSize)
      <3>1. Part(w, tk \cup {m + 1}, all)
        BY <2>2
      <3> HIDE DEF w
      <3> QED
        BY <3>1 DEF Part
    <2> QED
      BY <1>2, <2>1, <2>3 DEF Frame
  <1>6. CASE ~(Len(q) < QueueSize)
    <2> DEFINE u == Tail(q)
    <2>1. Len(q) = QueueSize /\ q # <<>> /\ Keep(q, m + 1) = Append(u, m + 1)
      BY <1>1, <1>6, BoundsAssumption DEF Keep
    <2>2. /\ u \in Seq(Values) /\ Len(u) \in Nat /\ Len(u) = Len(q) - 1
          /\ \A k \in 1 .. Len(u) : u[k] = q[k + 1]
      BY <1>1, <2>1, HeadTailProperties
    <2>3. Part(gv \o u, tk, FALSE)
      BY <1>1, <1>4, <2>1, PartTail
    <2> HIDE DEF u
    <2>4. ASSUME NEW k \in 1 .. Len(u) PROVE u[k] <= m
      <3>1. k + 1 \in 1 .. Len(q) /\ u[k] = q[k + 1]
        BY <1>1, <2>2
      <3> QED
        BY <1>3, <3>1
    <2>5. Part(gv \o Append(u, m + 1), tk \cup {m + 1}, FALSE)
      BY <1>3, <2>2, <2>3, <2>4, PartNewest
    <2>6. b.queue = q
      BY DEF q
    <2>7. (all /\ Len(b.queue) # QueueSize) = FALSE
      BY <2>1, <2>6
    <2> QED
      BY <1>2, <2>1, <2>5, <2>7 DEF Frame
  <1> QED
    BY <1>5, <1>6

(* A pull moves the oldest value of the queue.                             *)
LEMMA MoveHead ==
  ASSUME NEW gv \in Seq(Values), NEW q \in Seq(Values), q # <<>>
  PROVE  Append(gv, Head(q)) \o Tail(q) = gv \o q
  <1> DEFINE h == Head(q)
             t == Tail(q)
  <1>1. h \in Values /\ t \in Seq(Values) /\ <<h>> \in Seq(Values)
    OBVIOUS
  <1>2. <<h>> \o t = q
    <2>1. /\ Len(q) \in Nat /\ Len(q) > 0 /\ Len(t) = Len(q) - 1 /\ h = q[1]
          /\ \A i \in 1 .. Len(t) : t[i] = q[i + 1]
      BY HeadTailProperties
    <2>2. /\ <<h>> \o t \in Seq(Values) /\ Len(<<h>>) = 1 /\ <<h>>[1] = h
          /\ Len(<<h>> \o t) = Len(<<h>>) + Len(t)
          /\ \A i \in 1 .. Len(<<h>>) + Len(t) :
               (<<h>> \o t)[i] = IF i <= Len(<<h>>) THEN <<h>>[i] ELSE t[i - Len(<<h>>)]
      BY <1>1, ConcatProperties
    <2> HIDE DEF h, t
    <2>3. Len(<<h>> \o t) = Len(q)
      BY <2>1, <2>2
    <2>4. ASSUME NEW i \in 1 .. Len(q) PROVE (<<h>> \o t)[i] = q[i]
      <3>1. CASE i = 1
        BY <2>1, <2>2, <3>1
      <3>2. CASE i # 1
        <4>1. i - 1 \in 1 .. Len(t) /\ t[i - 1] = q[i]
          BY <2>1, <3>2
        <4> QED
          BY <2>1, <2>2, <3>2, <4>1
      <3> QED
        BY <3>1, <3>2
    <2> QED
      BY <2>2, <2>3, <2>4, SeqEqual
  <1> HIDE DEF h, t
  <1>3. Append(gv, h) = gv \o <<h>>
    BY <1>1, AppendIsConcat
  <1>4. (gv \o <<h>>) \o t = gv \o (<<h>> \o t)
    BY <1>1, ConcatAssociative
  <1>5. Append(gv, h) \o t = gv \o q
    BY <1>2, <1>3, <1>4
  <1> QED
    BY <1>5 DEF h, t

LEMMA FrameReturn ==
  ASSUME TypeOK, NEW p \in Pullers, NEW i \in Inputs, NEW g \in Graphs, NEW fifo \in BOOLEAN,
         NEW bs \in Buffers, Return(p, i, g, fifo, bs),
         NEW x \in Queued \ blind', NEW tk, NEW all, Frame(bs[graph][x], given[x], tk, all)
  PROVE  Frame(bufs'[graph][x], given'[x], tk, all)
  <1> DEFINE b == bs[g][i]
             v == Answer(b, fifo)
             gv == given[i]
  <1>1. /\ b \in Buffer /\ b.queue \in Seq(Values) /\ graph \in Graphs /\ gv \in Seq(Values)
        /\ given \in [Inputs -> Seq(Values)] /\ x \in Inputs
    <2>1. b \in Buffer
      BY DEF Buffers
    <2>2. b.queue \in Seq(Values)
      BY <2>1 DEF Buffer
    <2> HIDE DEF b
    <2> QED
      BY <2>1, <2>2 DEF TypeOK
  <1>2. /\ bufs'[g][i].queue = Rest(b, fifo)
        /\ x # i \/ g # graph => bufs'[graph][x] = bs[graph][x]
    <2>1. bufs' = [bs EXCEPT ![g][i].queue = Rest(b, fifo)]
      BY DEF Return
    <2> QED
      BY <1>1, <2>1 DEF Buffers, Buffer
  <1>3. /\ g # graph => given' = given
        /\ x # i => given'[x] = given[x]
        /\ g = graph => given' = IF v = 0 \/ ((gv # <<>> /\ gv[Len(gv)] = v) /\ ~fifo) THEN given
                                 ELSE [given EXCEPT ![i] = Append(gv, v)]
        /\ g = graph => blind' = blind \cup
              IF i \in Queued /\ ~fifo /\ b.queue # <<v>> THEN {i} ELSE {}
    BY <1>1 DEF Return
  <1> HIDE DEF b, gv
  <1>4. CASE x # i \/ g # graph
    BY <1>2, <1>3, <1>4
  <1>5. CASE x = i /\ g = graph
    <2>1. Part(gv \o b.queue, tk, all)
      BY <1>5 DEF Frame, b, gv
    <2>2. CASE fifo /\ b.queue = <<>>
      <3>1. v = 0 /\ Rest(b, fifo) = <<>>
        BY <2>2 DEF Answer, Rest
      <3> QED
        BY <1>2, <1>3, <1>5, <2>1, <2>2, <3>1 DEF Frame, gv
    <2>3. CASE fifo /\ b.queue # <<>>
      <3>1. v = Head(b.queue) /\ Rest(b, fifo) = Tail(b.queue) /\ v \in Values /\ v # 0
        BY <1>1, <2>3 DEF Answer, Rest, Values
      <3>2. given'[i] = Append(gv, Head(b.queue))
        BY <1>1, <1>3, <1>5, <2>3, <3>1 DEF gv
      <3>3. Append(gv, Head(b.queue)) \o Tail(b.queue) = gv \o b.queue
        BY <1>1, <2>3, MoveHead
      <3> QED
        BY <1>2, <1>5, <2>1, <3>1, <3>2, <3>3 DEF Frame
    <2>4. CASE ~fifo
      <3>1. b.queue = <<v>> /\ Rest(b, fifo) = <<>>
        BY <1>3, <1>5, <2>4 DEF Rest
      <3>2. v \in Values /\ v # 0
        <4>1. Len(<<v>>) = 1 /\ <<v>>[1] = v
          OBVIOUS
        <4>2. b.queue[1] \in Values
          BY <1>1, <3>1, <4>1, ElementOfSeq
        <4> QED
          BY <3>1, <4>1, <4>2 DEF Values
      <3> HIDE DEF v
      <3>3. gv \o b.queue = Append(gv, v) /\ Append(gv, v) \in Seq(Values)
        BY <1>1, <3>1, <3>2, AppendIsConcat, AppendProperties
      <3>4. ~(gv # <<>> /\ gv[Len(gv)] = v)
        <4> SUFFICES ASSUME gv # <<>>, gv[Len(gv)] = v PROVE FALSE
          OBVIOUS
        <4>1. Len(gv) \in Nat /\ Len(gv) > 0
          BY <1>1
        <4>2. /\ Len(Append(gv, v)) = Len(gv) + 1
              /\ Append(gv, v)[Len(gv)] = v /\ Append(gv, v)[Len(gv) + 1] = v
          BY <1>1, <3>2, <4>1, AppendProperties
        <4>3. Len(gv) < Len(gv) + 1 /\ Len(gv) \in 1 .. Len(gv) + 1 /\ Len(gv) + 1 \in 1 .. Len(gv) + 1
          BY <4>1
        <4>4. v < v
          BY <2>1, <3>3, <4>2, <4>3 DEF Part
        <4> QED
          BY <3>2, <4>4 DEF Values
      <3>5. given'[i] = Append(gv, v)
        BY <1>1, <1>3, <1>5, <3>2, <3>4
      <3>6. Append(gv, v) \o <<>> = Append(gv, v)
        BY <3>3, ConcatEmptySeq
      <3> QED
        BY <1>2, <1>5, <2>1, <3>1, <3>3, <3>5, <3>6 DEF Frame
    <2> QED
      BY <2>2, <2>3, <2>4
  <1> QED
    BY <1>4, <1>5

(* A new value is delivered to the inputs T.                               *)
LEMMA FrameDelivered ==
  ASSUME IInv, FInv, last < MaxValues, NEW T \in SUBSET Inputs, NEW c, NEW o, Record(T, o),
         NEW x \in Queued \ blind
  PROVE  Frame(Delivered(T, last + 1, c)[graph][x], given[x], taken'[x],
               x \notin gaps \cup Overflowing(T))
  <1>1. /\ last \in Nat /\ last + 1 \in Values /\ graph \in Graphs /\ x \in Inputs
        /\ bufs[graph][x] \in Buffer /\ given[x] \in Seq(Values)
        /\ Good(bufs[graph][x], given[x], last)
        /\ Frame(bufs[graph][x], given[x], taken[x], x \notin gaps)
    BY DEF IInv, TypeOK, Values, FInv
  <1>2. /\ taken'[x] = IF x \in T THEN taken[x] \cup {last + 1} ELSE taken[x]
        /\ Delivered(T, last + 1, c)[graph][x] =
             IF x \in T THEN Take(bufs[graph][x], last + 1, c) ELSE bufs[graph][x]
    BY <1>1 DEF Record, Delivered, IInv, TypeOK
  <1>3. x \in Overflowing(T) <=> x \in T /\ Len(bufs[graph][x].queue) = QueueSize
    BY DEF Overflowing
  <1>4. CASE x \in T
    <2>1. Frame(Take(bufs[graph][x], last + 1, c), given[x], taken[x] \cup {last + 1},
                x \notin gaps /\ Len(bufs[graph][x].queue) # QueueSize)
      BY <1>1, FrameTake
    <2>2. (x \notin gaps /\ Len(bufs[graph][x].queue) # QueueSize)
            = (x \notin gaps \cup Overflowing(T))
      BY <1>3, <1>4
    <2> QED
      BY <1>2, <1>4, <2>1, <2>2
  <1>5. CASE x \notin T
    <2>1. (x \notin gaps) = (x \notin gaps \cup Overflowing(T))
      BY <1>3, <1>5
    <2> QED
      BY <1>1, <1>2, <1>5, <2>1
  <1> QED
    BY <1>4, <1>5

LEMMA InitFInv == Init => FInv
  <1> SUFFICES ASSUME Init, NEW i \in Queued
               PROVE  Frame(bufs[graph][i], given[i], taken[i], i \notin gaps)
    BY DEF FInv
  <1>1. i \in Inputs /\ graph \in Graphs
    BY DEF Init, Graphs
  <1>2. bufs[graph][i].queue = <<>> /\ given[i] = <<>> /\ taken[i] = {}
    BY <1>1 DEF Init, FreshBuffers, Fresh
  <1>3. Len(<<>> \o <<>>) = 0
    OBVIOUS
  <1> QED
    BY <1>2, <1>3 DEF Frame, Part

LEMMA StepFInv == IInv /\ FInv /\ [Next]_vars => FInv'
  <1> SUFFICES ASSUME IInv, FInv, [Next]_vars PROVE FInv'
    OBVIOUS
  <1>1. /\ TypeOK /\ graph \in Graphs /\ bufs \in Buffers
        /\ \A i \in Inputs : Fifo(bufs[graph][i], i) \in BOOLEAN
    BY DEF IInv, TypeOK, Buffers, Fifo, Buffer
  <1>2. ASSUME NEW s \in Sources, Emit(s) PROVE FInv'
    <2>1. PICK old \in SUBSET Targets(s) :
            /\ bufs' = Delivered(Targets(s) \ old, last + 1, NoCtx)
            /\ \E o : Record(Targets(s) \ old, o)
            /\ gaps' = gaps \cup Overflowing(Targets(s) \ old)
      BY <1>2 DEF Emit
    <2>2. /\ last < MaxValues /\ UNCHANGED <<graph, given, blind>>
          /\ Targets(s) \ old \in SUBSET Inputs
      BY <1>2 DEF Emit, Targets
    <2> QED
      BY <2>1, <2>2, FrameDelivered DEF FInv
  <1>3. ASSUME NEW p \in Pullers, NEW i \in Inputs, NEW g \in Graphs, NEW fifo \in BOOLEAN,
               Return(p, i, g, fifo, bufs), UNCHANGED <<graph, taken, gaps>>
        PROVE  FInv'
    <2>1. blind \subseteq blind'
      BY <1>3 DEF Return
    <2>2. ASSUME NEW x \in Queued \ blind'
          PROVE  Frame(bufs'[graph][x], given'[x], taken[x], x \notin gaps)
      <3>1. Frame(bufs[graph][x], given[x], taken[x], x \notin gaps)
        BY <2>1 DEF FInv
      <3> QED
        BY <1>1, <1>3, <3>1, FrameReturn
    <2> QED
      BY <1>3, <2>2 DEF FInv
  <1>4. ASSUME NEW p \in Pullers, NEW i \in Inputs, NEW c \in Contexts, Pull(p, i, c) PROVE FInv'
    <2>1. UNCHANGED <<graph, taken, gaps>>
      BY <1>4 DEF Pull, values
    <2>2. Return(p, i, graph, Fifo(bufs[graph][i], i), bufs) \/ UNCHANGED <<bufs, given, blind>>
      BY <1>4 DEF Pull
    <2> QED
      BY <1>1, <1>3, <2>1, <2>2 DEF FInv
  <1>5. ASSUME NEW p \in Pullers, PullInVain(p) PROVE FInv'
    <2>1. /\ pull[p].input \in Inputs /\ pull[p].of \in Graphs /\ pull[p].fifo \in BOOLEAN
      BY <1>1, <1>5 DEF PullInVain, TypeOK, Waiting
    <2>2. Return(p, pull[p].input, pull[p].of, pull[p].fifo, bufs) /\ UNCHANGED <<graph, taken, gaps>>
      BY <1>5 DEF PullInVain, values
    <2> QED
      BY <1>3, <2>1, <2>2
  <1>6. ASSUME NEW p \in Pullers, Computed(p) PROVE FInv'
    <2> DEFINE w  == pull[p]
               T  == Takers(w)
               bs == Delivered(T, last + 1, w.ctx)
    <2>1. /\ w \in Waiting /\ last < MaxValues /\ Return(p, w.input, w.of, w.fifo, bs)
          /\ gaps' = gaps \cup Overflowing(T) /\ UNCHANGED graph
          /\ \E o : Record(T, o)
      BY <1>1, <1>6 DEF Computed, TypeOK
    <2>2. /\ w.input \in Inputs /\ w.ctx \in Ctx /\ w.of \in Graphs /\ w.fifo \in BOOLEAN
          /\ T \in SUBSET Inputs /\ last + 1 \in Values
      BY <1>1, <2>1 DEF Waiting, Takers, Targets, TypeOK, Values
    <2> HIDE DEF w, T
    <2>3. bs \in Buffers /\ blind \subseteq blind'
      BY <1>1, <2>1, <2>2, DeliveredType DEF Return
    <2>4. ASSUME NEW x \in Queued \ blind'
          PROVE  Frame(bufs'[graph][x], given'[x], taken'[x], x \notin gaps')
      <3>1. Frame(bs[graph][x], given[x], taken'[x], x \notin gaps')
        BY <2>1, <2>2, <2>3, <2>4, FrameDelivered
      <3> HIDE DEF bs
      <3>2. Return(p, w.input, w.of, w.fifo, bs) /\ bs \in Buffers /\ TypeOK /\ x \in Queued \ blind'
        BY <1>1, <2>1, <2>3, <2>4
      <3>3. \A i \in Inputs, g \in Graphs, fifo \in BOOLEAN, cs \in Buffers :
               \A tk, all : Return(p, i, g, fifo, cs) /\ Frame(cs[graph][x], given[x], tk, all)
                             => Frame(bufs'[graph][x], given'[x], tk, all)
        BY <3>2, FrameReturn
      <3>4. \A tk, all : Frame(bs[graph][x], given[x], tk, all)
                           => Frame(bufs'[graph][x], given'[x], tk, all)
        BY <2>2, <3>2, <3>3
      <3> QED
        BY <3>1, <3>4
    <2> QED
      BY <2>1, <2>4 DEF FInv
  <1>7. ASSUME Deploy PROVE FInv'
    <2> SUFFICES ASSUME NEW i \in Queued
                 PROVE  Frame(bufs'[graph'][i], given'[i], taken'[i], i \notin gaps')
      BY DEF FInv
    <2>1. i \in Inputs /\ graph' \in Graphs /\ given'[i] = <<>> /\ taken'[i] = {}
      BY <1>1, <1>7 DEF Deploy, Graphs
    <2>2. bufs'[graph'][i].queue = <<>>
      BY <1>7, <2>1 DEF Deploy, Replace, FreshBuffers, Fresh
    <2>3. Len(<<>> \o <<>>) = 0
      OBVIOUS
    <2> QED
      BY <2>1, <2>2, <2>3 DEF Frame, Part
  <1>8. CASE (\E i \in Inputs : PullStale(i)) \/ Toggle \/ Flush \/ UNCHANGED vars
    BY <1>8 DEF PullStale, Toggle, Flush, vars, buffers, values, FInv
  <1> QED
    BY <1>2, <1>4, <1>5, <1>6, <1>7, <1>8 DEF Next

(* An input with the strategy "queue" is pulled frame by frame, each value  *)
(* once and in order, and none left out as long as its queue does not       *)
(* overflow; unless a pull took it for another one (code: buffer_input,     *)
(* pull_data).                                                              *)
THEOREM PulledFrameByFrame == Spec => []FrameByFrame
  <1>1. FInv => FrameByFrame
    BY DEF FInv, Frame, Part, FrameByFrame
  <1> QED
    BY <1>1, Invariance, InitFInv, StepFInv, PTL DEF Spec
=============================================================================
