-------------------------- MODULE DeployQueueProofs --------------------------
(***************************************************************************)
(* Proofs about DeployQueue, which hold of every service that implements   *)
(* it.                                                                     *)
(***************************************************************************)
EXTENDS DeployQueue, SequenceTheorems, TLAPS

-----------------------------------------------------------------------------
(* Sequences *)

LEMMA TailFacts ==
  ASSUME NEW T, NEW q \in Seq(T), q # <<>>
  PROVE  /\ Tail(q) \in Seq(T) /\ Len(q) \in Nat \ {0} /\ Len(Tail(q)) = Len(q) - 1
         /\ 1 \in DOMAIN q /\ Head(q) = q[1]
         /\ \A k \in DOMAIN Tail(q) : k + 1 \in DOMAIN q /\ Tail(q)[k] = q[k + 1]
         /\ \A k \in DOMAIN q : k # 1 => k - 1 \in DOMAIN Tail(q) /\ Tail(q)[k - 1] = q[k]
         /\ Len(q) # 1 => Tail(q) # <<>> /\ Tail(q)[Len(Tail(q))] = q[Len(q)]
         /\ Len(q) = 1 => Tail(q) = <<>>
  <1>1. Tail(q) \in Seq(T) /\ Len(q) \in Nat \ {0} /\ Len(Tail(q)) = Len(q) - 1
        /\ 1 \in DOMAIN q /\ Head(q) = q[1]
        /\ \A k \in DOMAIN Tail(q) : k + 1 \in DOMAIN q /\ Tail(q)[k] = q[k + 1]
    OBVIOUS
  <1>2. ASSUME NEW k \in DOMAIN q, k # 1
        PROVE  k - 1 \in DOMAIN Tail(q) /\ Tail(q)[k - 1] = q[k]
    <2>1. k \in 1 .. Len(q) /\ k - 1 \in 1 .. Len(Tail(q)) /\ k - 1 \in DOMAIN Tail(q)
      BY <1>1, <1>2
    <2>2. Tail(q)[k - 1] = q[(k - 1) + 1] /\ (k - 1) + 1 = k
      BY <1>1, <2>1
    <2> QED
      BY <2>1, <2>2
  <1>3. Len(q) # 1 => Tail(q) # <<>> /\ Tail(q)[Len(Tail(q))] = q[Len(q)]
    <2>1. SUFFICES ASSUME Len(q) # 1
                   PROVE  Tail(q) # <<>> /\ Tail(q)[Len(Tail(q))] = q[Len(q)]
      OBVIOUS
    <2>2. Len(q) \in DOMAIN q
      BY <1>1
    <2>3. Tail(q)[Len(q) - 1] = q[Len(q)]
      BY <1>2, <2>1, <2>2
    <2>4. Len(Tail(q)) # 0
      BY <1>1, <2>1
    <2>5. Len(<<>>) = 0
      OBVIOUS
    <2>6. Tail(q) # <<>>
      BY <2>4, <2>5, Zenon
    <2> QED
      BY <1>1, <2>3, <2>6
  <1>4. Len(q) = 1 => Tail(q) = <<>>
    BY <1>1
  <1> QED
    BY <1>1, <1>2, <1>3, <1>4

LEMMA AppendFacts ==
  ASSUME NEW q \in Seq(Graphs), NEW g \in Graphs
  PROVE  /\ Append(q, g) \in Seq(Graphs)
         /\ Append(q, g) # <<>>
         /\ q # <<>> => Head(Append(q, g)) = Head(q)
  <1>1. Append(q, g) # <<>> /\ Append(q, g) \in Seq(Graphs)
        /\ \A k \in 1 .. Len(q) : Append(q, g)[k] = q[k]
    BY AppendProperties
  <1>2. q # <<>> => 1 \in 1 .. Len(q) /\ Head(q) = q[1] /\ Head(Append(q, g)) = Append(q, g)[1]
    BY <1>1
  <1> QED
    BY <1>1, <1>2

LEMMA AppendAt ==
  ASSUME NEW T, NEW q \in Seq(T), NEW g \in T
  PROVE  /\ Len(q) \in Nat /\ Len(Append(q, g)) = Len(q) + 1
         /\ \A k \in DOMAIN Append(q, g) : k \in DOMAIN q \/ k = Len(q) + 1
         /\ \A k \in DOMAIN q : k \in DOMAIN Append(q, g) /\ k # Len(q) + 1 /\ Append(q, g)[k] = q[k]
         /\ Len(q) + 1 \in DOMAIN Append(q, g) /\ Append(q, g)[Len(q) + 1] = g
  <1>1. /\ Append(q, g) \in Seq(T) /\ Len(q) \in Nat /\ Len(Append(q, g)) = Len(q) + 1
        /\ \A k \in 1 .. Len(q) : Append(q, g)[k] = q[k]
        /\ Append(q, g)[Len(q) + 1] = g
    BY AppendProperties
  <1>2. DOMAIN q = 1 .. Len(q) /\ DOMAIN Append(q, g) = 1 .. Len(q) + 1
    BY <1>1
  <1> QED
    BY <1>1, <1>2

-----------------------------------------------------------------------------
(* The line *)

\* The graph at the head is done: its entry goes, and with it those who waited.
LEMMA DequeueInLine ==
  ASSUME TypeOK, InLine, queue # <<>>, Dequeue
  PROVE  /\ InLine'
         /\ \A g \in Graphs : g # Head(queue) => waiting'[g] = waiting[g]
         /\ waiting'[Head(queue)] = {}
  <1> USE DEF Dequeue
  <1>1. queue \in Seq(Graphs) /\ waiting \in [Graphs -> SUBSET Reqs]
    BY DEF TypeOK
  <1>2. /\ 1 \in DOMAIN queue /\ Head(queue) = queue[1]
        /\ \A k \in DOMAIN queue' : k \in Nat /\ k + 1 \in DOMAIN queue /\ queue'[k] = queue[k + 1]
        /\ \A k \in DOMAIN queue : k # 1 => k - 1 \in DOMAIN queue' /\ queue'[k - 1] = queue[k]
        /\ \A k \in DOMAIN queue : queue[k] \in Graphs
    <2>1. Tail(queue) \in Seq(Graphs)
      BY <1>1, TailFacts
    <2> QED
      BY <1>1, <2>1, TailFacts
  <1>3. /\ \A g \in Graphs : g # Head(queue) => waiting'[g] = waiting[g]
        /\ waiting'[Head(queue)] = {}
    BY <1>1, <1>2
  <1>4. \A i, j \in DOMAIN queue' : queue'[i] = queue'[j] => i = j
    <2> SUFFICES ASSUME NEW i \in DOMAIN queue', NEW j \in DOMAIN queue', queue'[i] = queue'[j]
                 PROVE  i = j
      OBVIOUS
    <2>1. i + 1 = j + 1
      BY <1>2 DEF InLine
    <2> QED
      BY <1>2, <2>1
  <1>5. \A i \in DOMAIN queue' : waiting'[queue'[i]] # {}
    <2> SUFFICES ASSUME NEW i \in DOMAIN queue'
                 PROVE  waiting'[queue'[i]] # {}
      OBVIOUS
    <2>1. i \in Nat /\ i + 1 \in DOMAIN queue /\ queue'[i] = queue[i + 1] /\ i + 1 # 1
      <3>1. i \in Nat /\ i + 1 \in DOMAIN queue /\ queue'[i] = queue[i + 1]
        BY <1>2
      <3>2. i # 0
        BY <1>1, <1>2, TailFacts
      <3> QED
        BY <3>1, <3>2
    <2>2. queue[i + 1] # Head(queue)
      BY <1>2, <2>1 DEF InLine
    <2> QED
      BY <1>2, <1>3, <2>1, <2>2 DEF InLine
  <1>6. \A g \in Graphs : waiting'[g] # {} => \E i \in DOMAIN queue' : queue'[i] = g
    <2> SUFFICES ASSUME NEW g \in Graphs, waiting'[g] # {}
                 PROVE  \E i \in DOMAIN queue' : queue'[i] = g
      OBVIOUS
    <2>1. g # Head(queue) /\ waiting[g] # {}
      BY <1>3
    <2>2. PICK k \in DOMAIN queue : queue[k] = g
      BY <2>1 DEF InLine
    <2> QED
      BY <1>2, <2>1, <2>2
  <1> QED
    BY <1>3, <1>4, <1>5, <1>6 DEF InLine

\* A request joins the entry of its graph, or starts one at the end.
LEMMA EnqueueInLine ==
  ASSUME TypeOK, InLine, NEW r \in Reqs, NEW g \in Graphs, Enqueue(r, g)
  PROVE  /\ InLine'
         /\ queue' # <<>>
         /\ \A i \in DOMAIN queue' : (i \in DOMAIN queue /\ queue'[i] = queue[i]) \/ queue'[i] = g
  <1> USE DEF Enqueue
  <1>1. queue \in Seq(Graphs) /\ waiting \in [Graphs -> SUBSET Reqs]
    BY DEF TypeOK
  <1>2. \A h \in Graphs : waiting'[h] = IF h = g THEN waiting[h] \cup {r} ELSE waiting[h]
    BY <1>1
  <1>3. \A i \in DOMAIN queue : queue[i] \in Graphs
    BY <1>1
  <1>4. CASE waiting[g] = {}
    <2>1. queue' = Append(queue, g)
      BY <1>4
    <2>2. /\ Len(queue) \in Nat
          /\ \A k \in DOMAIN queue' : k \in DOMAIN queue \/ k = Len(queue) + 1
          /\ \A k \in DOMAIN queue : k \in DOMAIN queue' /\ k # Len(queue) + 1 /\ queue'[k] = queue[k]
          /\ Len(queue) + 1 \in DOMAIN queue' /\ queue'[Len(queue) + 1] = g
      BY <1>1, <2>1, AppendAt
    <2>3. \A i \in DOMAIN queue : queue[i] # g
      BY <1>4 DEF InLine
    <2>4. queue' # <<>>
      BY <1>1, <2>1, AppendFacts
    <2>5. \A i, j \in DOMAIN queue' : queue'[i] = queue'[j] => i = j
      BY <2>2, <2>3 DEF InLine
    <2>6. ASSUME NEW i \in DOMAIN queue'
          PROVE  waiting'[queue'[i]] # {}
      <3>1. CASE queue'[i] = g
        <4>1. r \in waiting'[g]
          BY <1>2
        <4> QED
          BY <3>1, <4>1
      <3>2. CASE i \in DOMAIN queue
        <4>1. queue'[i] = queue[i] /\ queue[i] \in Graphs /\ waiting[queue[i]] # {}
          BY <1>3, <2>2, <3>2 DEF InLine
        <4> QED
          BY <1>2, <4>1
      <3> QED
        BY <2>2, <3>1, <3>2
    <2>7. \A h \in Graphs : waiting'[h] # {} => \E i \in DOMAIN queue' : queue'[i] = h
      <3> SUFFICES ASSUME NEW h \in Graphs, waiting'[h] # {}
                   PROVE  \E i \in DOMAIN queue' : queue'[i] = h
        OBVIOUS
      <3>1. CASE h = g
        BY <2>2, <3>1
      <3>2. CASE h # g
        <4>1. PICK k \in DOMAIN queue : queue[k] = h
          BY <1>2, <3>2 DEF InLine
        <4> QED
          BY <2>2, <4>1
      <3> QED
        BY <3>1, <3>2
    <2> QED
      BY <2>2, <2>4, <2>5, <2>6, <2>7 DEF InLine
  <1>5. CASE waiting[g] # {}
    <2>1. queue' = queue
      BY <1>5
    <2>2. PICK k \in DOMAIN queue : queue[k] = g
      BY <1>5 DEF InLine
    <2>3. queue # <<>>
      BY <1>1, <2>2
    <2> QED
      BY <1>2, <1>3, <1>5, <2>1, <2>3 DEF InLine
  <1> QED
    BY <1>4, <1>5

LEMMA NobodyYet ==
  ASSUME queue = <<>>, waiting = [g \in Graphs |-> {}]
  PROVE  InLine
  <1>1. DOMAIN queue = {}
    OBVIOUS
  <1> QED
    BY <1>1 DEF InLine

LEMMA EnqueueTypes ==
  ASSUME TypeOK, NEW r \in Reqs, NEW g \in Graphs, Enqueue(r, g)
  PROVE  TypeOK' /\ (queue # <<>> => queue' # <<>> /\ Head(queue') = Head(queue))
  <1>1. /\ queue \in Seq(Graphs) /\ waiting \in [Graphs -> SUBSET Reqs]
        /\ queue' \in {queue, Append(queue, g)}
        /\ waiting' = [waiting EXCEPT ![g] = @ \cup {r}]
    BY DEF TypeOK, Enqueue
  <1>2. queue' \in Seq(Graphs) /\ (queue # <<>> => queue' # <<>> /\ Head(queue') = Head(queue))
    BY <1>1, AppendFacts
  <1>3. waiting' \in [Graphs -> SUBSET Reqs]
    BY <1>1
  <1> QED
    BY <1>2, <1>3 DEF TypeOK, Enqueue

QueueInv == TypeOK /\ InLine /\ HeadIsReported

LEMMA InitQueueInv == Init => QueueInv
  <1> SUFFICES ASSUME Init PROVE QueueInv
    OBVIOUS
  <1>1. InLine
    BY NobodyYet DEF Init
  <1>2. TypeOK
    BY DEF Init, TypeOK
  <1> QED
    BY <1>1, <1>2 DEF Init, QueueInv, HeadIsReported, Wired

LEMMA StepQueueInv == QueueInv /\ [Next]_queueVars => QueueInv'
  <1> SUFFICES ASSUME QueueInv, [Next]_queueVars PROVE QueueInv'
    OBVIOUS
  <1> USE DEF QueueInv, HeadIsReported, Wired
  <1>1. ASSUME NEW r \in Reqs, NEW g \in Graphs, Enqueue(r, g) PROVE QueueInv'
    BY <1>1, EnqueueInLine, EnqueueTypes DEF Enqueue
  <1>2. CASE Apply \/ PutConfig
    <2>1. queue \in Seq(Graphs) /\ queue # <<>> /\ Head(queue) \in Graphs
      BY <1>2 DEF Apply, PutConfig, TypeOK
    <2>2. UNCHANGED <<up, queue, waiting>>
      BY <1>2 DEF Apply, PutConfig
    <2>3. InLine'
      BY <2>2 DEF InLine
    <2> QED
      BY <1>2, <2>1, <2>2, <2>3 DEF Apply, PutConfig, TypeOK
  <1>3. CASE ApplyFails \/ InstallFails \/ Answer
    <2>1. queue # <<>> /\ Dequeue
      BY <1>3 DEF ApplyFails, InstallFails, Answer
    <2>2. InLine'
      BY <2>1, DequeueInLine
    <2>3. TypeOK' /\ ~Wired'
      <3>1. queue \in Seq(Graphs) /\ Tail(queue) \in Seq(Graphs) /\ Head(queue) \in Graphs
        BY <2>1 DEF TypeOK
      <3> QED
        BY <1>3, <2>1, <3>1 DEF ApplyFails, InstallFails, Answer, Dequeue, TypeOK
    <2> QED
      BY <2>2, <2>3
  <1>4. CASE Leave
    <2>1. InLine'
      <3>1. DOMAIN queue' = {}
        BY <1>4 DEF Leave
      <3> QED
        BY <1>4, <3>1 DEF Leave, InLine
    <2>2. <<>> \in Seq(Graphs) /\ [g \in Graphs |-> {}] \in [Graphs -> SUBSET Reqs]
      OBVIOUS
    <2> QED
      BY <1>4, <2>1, <2>2 DEF Leave, TypeOK
  <1>5. CASE Restart \/ UNCHANGED queueVars
    BY <1>5 DEF Restart, queueVars, TypeOK, InLine
  <1> QED
    BY <1>1, <1>2, <1>3, <1>4, <1>5 DEF Next

\* No graph has two turns, nobody waits without one, and none is taken for
\* nobody; in its turn a graph that was installed is the one reported.
THEOREM LineKept == Spec => [](TypeOK /\ InLine /\ HeadIsReported)
  BY InitQueueInv, StepQueueInv, PTL DEF Spec, QueueInv
=============================================================================
