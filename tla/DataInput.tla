------------------------------ MODULE DataInput ------------------------------
(***************************************************************************)
(* DataRouter, seen from the inputs of one service: emitted and received   *)
(* values go to the input buffers and to the queue of on_data callbacks,   *)
(* pull_data reads a buffer after asking the node upstream to compute, and *)
(* a deployment replaces routes and buffers under the pulls in flight.     *)
(*                                                                         *)
(* A value is the number of its emission, across all ports.  A step is     *)
(* what the event loop runs between two awaits.  A buffer belongs to the   *)
(* graph that was deployed when it was made; a pull keeps the one it found.*)
(* Every input has at most one edge, as validation demands, and its node   *)
(* is registered.  Delivery mode is "callback", which buffers as well.     *)
(*                                                                         *)
(* origin, taken, given, handed, gaps and blind are history.               *)
(***************************************************************************)
EXTENDS Naturals, Sequences, FiniteSets

CONSTANTS
  Inputs,     \* input ports of the service
  Queued,     \* inputs whose edge has the strategy "queue"
  Timed,      \* inputs whose edge has a timeoutMs
  Locals,     \* output ports of this service that feed inputs
  Remotes,    \* output ports of other services
  NoSource,   \* an input without an edge
  Wirings,    \* the graphs to deploy: what feeds each input
  Pullers,    \* tasks that call pull_data
  Contexts,   \* what pulls give as ctx_id, NoCtx included if they give none
  NoCtx,      \* ctx_id = None
  QueueSize,  \* queueSize of the edges
  MaxValues,  \* bound: values emitted
  MaxGraphs   \* bound: graphs deployed

ASSUME InputsAssumption == Queued \subseteq Inputs /\ Timed \subseteq Inputs
ASSUME SourceAssumption == NoSource \notin Locals \cup Remotes /\ Locals \cap Remotes = {}
ASSUME WiringAssumption == Wirings \subseteq [Inputs -> Locals \cup Remotes \cup {NoSource}]
ASSUME BoundsAssumption == QueueSize \in Nat \ {0} /\ MaxValues \in Nat /\ MaxGraphs \in Nat \ {0}

VARIABLES
  active,    \* bus._active
  graph,     \* number of the deployed graph
  source,    \* _intra_data_in and _cross_in_by_key: what feeds an input
  bufs,      \* _inputs, of every graph
  pending,   \* _on_data_push_queue, by input
  flushing,  \* _on_data_flush_task is alive
  pull,      \* what each puller is doing
  last,      \* values emitted so far
  origin,    \* history: where the values taken in this graph come from
  taken,     \* history: the values an input took in this graph
  given,     \* history: the values pulls of an input returned in this graph
  handed,    \* history: the newest value given to on_data
  gaps,      \* history: inputs whose queue has overflowed
  blind,     \* history: queued inputs pulled as if their edge were not
  refused    \* inputs whose sample a pull found too old

buffers == <<active, graph, source, bufs>>
calls   == <<pending, flushing, handed>>
values  == <<last, origin, taken>>
vars    == <<buffers, calls, pull, values, given, gaps, blind, refused>>

Sources == Locals \cup Remotes
Values  == 1 .. MaxValues
Ctx     == Contexts \cup {NoCtx}
Graphs  == 1 .. MaxGraphs

\* An InputBuffer: whether its edge is known, and what it holds.
Buffer == [known : BOOLEAN, queue : {q \in Seq(Values) : Len(q) <= QueueSize},
           seen : 0 .. MaxValues, ctx : Ctx]

\* Where a value comes from: the port and its graph, and the input whose pull
\* asked for it, if a deployment overtook that pull.
Origin == [graph : 0 .. MaxGraphs, port : Sources \cup {NoSource}, asked : SUBSET Inputs]
Nowhere == [graph |-> 0, port |-> NoSource, asked |-> {}]

\* A pull that waits for compute_output, and one that does not.
Waiting == [input : Inputs, from : Locals, ctx : Ctx, of : Graphs, fifo : BOOLEAN]
Idle    == <<>>

TypeOK ==
  /\ active \in BOOLEAN
  /\ graph \in Graphs
  /\ source \in [Inputs -> Sources \cup {NoSource}]
  /\ bufs \in [Graphs -> [Inputs -> Buffer]]
  /\ pending \in [Inputs -> Seq(Values)]
  /\ flushing \in BOOLEAN
  /\ pull \in [Pullers -> Waiting \cup {Idle}]
  /\ last \in 0 .. MaxValues
  /\ origin \in [Values -> Origin]
  /\ taken \in [Inputs -> SUBSET Values]
  /\ given \in [Inputs -> Seq(Values)]
  /\ handed \in [Inputs -> 0 .. MaxValues]
  /\ gaps \subseteq Inputs /\ blind \subseteq Inputs /\ refused \subseteq Inputs

\* A buffer as _ensure_input_buffer makes it, with or without an edge.
Fresh(known) ==
  [known |-> known, queue |-> <<>>, seen |-> 0, ctx |-> NoCtx]

\* replace_routes makes the buffers of the edges from other services at once.
FreshBuffers(src) == [i \in Inputs |-> Fresh(src[i] \in Remotes)]

Init ==
  /\ active = TRUE
  /\ graph = 1
  /\ source \in Wirings
  /\ bufs = [g \in Graphs |-> IF g = 1 THEN FreshBuffers(source) ELSE [i \in Inputs |-> Fresh(FALSE)]]
  /\ pending = [i \in Inputs |-> <<>>] /\ flushing = FALSE
  /\ pull = [p \in Pullers |-> Idle]
  /\ last = 0
  /\ origin = [n \in Values |-> Nowhere]
  /\ taken = [i \in Inputs |-> {}]
  /\ given = [i \in Inputs |-> <<>>]
  /\ handed = [i \in Inputs |-> 0]
  /\ gaps = {} /\ blind = {} /\ refused = {}

-----------------------------------------------------------------------------
(* Delivery *)

\* Mistake: the queue is not bounded.
KeepAll(q, n) == Append(q, n)

\* Mistake: a value is dropped one value too early.
KeepFewer(q, n) ==
  IF Len(q) + 1 < QueueSize \/ q = <<>> THEN Append(q, n) ELSE Append(Tail(q), n)

\* The queue keeps the newest values.
Keep(q, n) ==
  IF Len(q) < QueueSize THEN Append(q, n) ELSE Append(Tail(q), n)

\* buffer_input, which also tells the buffer its edge.
Take(b, n, c) ==
  [known |-> TRUE, queue |-> Keep(b.queue, n), seen |-> n, ctx |-> c]

\* _deliver_local_input for the inputs T: the buffers after it.
Delivered(T, n, c) ==
  [bufs EXCEPT ![graph] = [i \in Inputs |-> IF i \in T THEN Take(@[i], n, c) ELSE @[i]]]

\* Mistake: no task is started.
EnqueueOnly(T, n) ==
  /\ pending' = [i \in Inputs |-> IF i \in T THEN Append(pending[i], n) ELSE pending[i]]
  /\ UNCHANGED <<flushing, handed>>

\* _enqueue_on_data_callback: queue a callback for each of them, and start the
\* task that flushes unless it is alive.
Enqueue(T, n) ==
  /\ pending' = [i \in Inputs |-> IF i \in T THEN Append(pending[i], n) ELSE pending[i]]
  /\ flushing' = (flushing \/ T # {})
  /\ UNCHANGED handed

\* A value that comes from o is taken by the inputs T: it is fresh.
Record(T, o) ==
  /\ last' = last + 1
  /\ origin' = [origin EXCEPT ![last'] = o]
  /\ taken' = [i \in Inputs |-> IF i \in T THEN taken[i] \cup {last'} ELSE taken[i]]
  /\ refused' = refused \ T

\* Inputs of T whose queue is full: they lose a value.
Overflowing(T) == {i \in T : Len(bufs[graph][i].queue) = QueueSize}

\* The inputs a port feeds.
Targets(s) == {i \in Inputs : source[i] = s}

\* emit_data of a local node, or a message from another service, whose sample
\* may be too old for some of the edges.
Emit(s) ==
  /\ active
  /\ last < MaxValues
  /\ Targets(s) # {}
  /\ \E old \in SUBSET (IF s \in Remotes THEN Targets(s) \cap Timed ELSE {}) :
       LET T == Targets(s) \ old
       IN  /\ bufs' = Delivered(T, last + 1, NoCtx)
           /\ Enqueue(T, last + 1)
           /\ Record(T, [graph |-> graph, port |-> s, asked |-> {}])
           /\ gaps' = gaps \cup Overflowing(T)
  /\ UNCHANGED <<active, graph, source, pull, given, blind>>

-----------------------------------------------------------------------------
(* pull_data *)

\* The strategy is that of the edge, if the buffer knows one.
Fifo(b, i) == b.known /\ i \in Queued

\* What a pull returns: the oldest value of the queue, or the newest seen.
Answer(b, fifo) ==
  IF ~fifo THEN b.seen ELSE IF b.queue = <<>> THEN 0 ELSE Head(b.queue)

\* Mistake: a latest pull leaves what is queued.
RestKept(b, fifo) ==
  IF fifo /\ b.queue # <<>> THEN Tail(b.queue) ELSE b.queue

\* What it leaves in the queue.
Rest(b, fifo) ==
  IF fifo /\ b.queue # <<>> THEN Tail(b.queue) ELSE <<>>

\* A pull of the input i that found its buffer in the graph g returns; bs are
\* the buffers then.
Return(p, i, g, fifo, bs) ==
  LET b == bs[g][i]
      v == Answer(b, fifo)
      again == given[i] # <<>> /\ given[i][Len(given[i])] = v
  IN  /\ pull' = [pull EXCEPT ![p] = Idle]
      /\ bufs' = [bs EXCEPT ![g][i].queue = Rest(b, fifo)]
      /\ IF g = graph
         THEN /\ given' = IF v = 0 \/ (again /\ ~fifo) THEN given
                          ELSE [given EXCEPT ![i] = Append(@, v)]
              /\ blind' = blind \cup
                   IF i \in Queued /\ ~fifo /\ b.queue # <<v>> THEN {i} ELSE {}
         ELSE UNCHANGED <<given, blind>>

\* The newest sample is too old: no value, and none until a newer sample comes.
PullStale(i) ==
  /\ active
  /\ i \in Timed /\ bufs[graph][i].seen # 0
  /\ refused' = refused \cup {i}
  /\ UNCHANGED <<buffers, calls, pull, values, given, gaps, blind>>

\* The node upstream is asked when nothing is queued and the newest value is
\* not of the caller's context.
Pull(p, i, c) ==
  /\ active
  /\ pull[p] = Idle
  /\ i \notin refused
  /\ LET b == bufs[graph][i]
     IN  IF b.queue = <<>> /\ (c = NoCtx \/ b.ctx # c) /\ source[i] \in Locals
         THEN /\ pull' = [pull EXCEPT ![p] = [input |-> i, from |-> source[i], ctx |-> c,
                                              of |-> graph, fifo |-> Fifo(b, i)]]
              /\ UNCHANGED <<bufs, given, blind>>
         ELSE Return(p, i, graph, Fifo(b, i), bufs)
  /\ UNCHANGED <<active, graph, source, calls, values, gaps, refused>>

\* Mistake: the input of the pull takes the value in any case.
TakersAndCaller(w) == IF ~active THEN {} ELSE Targets(w.from) \cup {w.input}

\* The inputs that take what a pull computed: those the port feeds now, or
\* none of these being there, the input of the pull.
Takers(w) ==
  IF ~active THEN {} ELSE IF Targets(w.from) # {} THEN Targets(w.from) ELSE {w.input}

\* compute_output returned no value, or raised.
PullInVain(p) ==
  /\ pull[p] # Idle
  /\ LET w == pull[p] IN Return(p, w.input, w.of, w.fifo, bufs)
  /\ UNCHANGED <<active, graph, source, calls, values, gaps, refused>>

\* compute_output returned a value: it is delivered under the routes of now.
Computed(p) ==
  /\ pull[p] # Idle
  /\ last < MaxValues
  /\ LET w == pull[p]
         T == Takers(w)
     IN  /\ Return(p, w.input, w.of, w.fifo, Delivered(T, last + 1, w.ctx))
         /\ gaps' = gaps \cup Overflowing(T)
         /\ Enqueue(T, last + 1)
         /\ Record(T, [graph |-> w.of, port |-> w.from,
                        asked |-> IF w.of = graph THEN {} ELSE {w.input}])
  /\ UNCHANGED <<active, graph, source>>

-----------------------------------------------------------------------------
(* on_data *)

\* Mistake: the oldest value of an input is called.
Oldest(q) == Head(q)

\* Of a batch the newest value of an input is called.
Coalesced(q) == q[Len(q)]

\* _flush_on_data_push_queue: what waits is given to the nodes, the newest
\* value of each input; or dropped, when the bus is inactive.
Flush ==
  /\ flushing
  /\ IF active
     THEN /\ flushing' = (\E i \in Inputs : pending[i] # <<>>)
          /\ handed' = [i \in Inputs |-> IF pending[i] = <<>> THEN handed[i]
                                         ELSE Coalesced(pending[i])]
     ELSE flushing' = FALSE /\ UNCHANGED handed
  /\ pending' = [i \in Inputs |-> <<>>]
  /\ UNCHANGED <<buffers, pull, values, given, gaps, blind, refused>>

-----------------------------------------------------------------------------
(* The service *)

\* Buffers of an older graph live on while a pull refers to them.
Held(g) == \E p \in Pullers : pull[p] # Idle /\ pull[p].of = g
Unused  == [i \in Inputs |-> Fresh(FALSE)]

\* replace_routes: new routes and empty buffers.
Replace(src) ==
  /\ source' = src
  /\ bufs' = [g \in Graphs |-> IF g = graph' THEN FreshBuffers(src)
                               ELSE IF Held(g) THEN bufs[g] ELSE Unused]

Deploy ==
  /\ graph < MaxGraphs
  /\ graph' = graph + 1
  /\ \E src \in Wirings : Replace(src)
  /\ given' = [i \in Inputs |-> <<>>] /\ taken' = [i \in Inputs |-> {}]
  /\ origin' = [n \in Values |-> Nowhere]
  /\ gaps' = {} /\ blind' = {} /\ refused' = {}
  /\ UNCHANGED <<active, calls, pull, last>>

Toggle ==
  /\ active' = ~active
  /\ UNCHANGED <<graph, source, bufs, calls, pull, values, given, gaps, blind, refused>>

Next ==
  \/ \E s \in Sources : Emit(s)
  \/ \E i \in Inputs : PullStale(i)
  \/ \E p \in Pullers, i \in Inputs, c \in Contexts : Pull(p, i, c)
  \/ \E p \in Pullers : PullInVain(p) \/ Computed(p)
  \/ Flush
  \/ Deploy
  \/ Toggle

Spec == Init /\ [][Next]_vars

-----------------------------------------------------------------------------
(* Properties *)

\* The input i may hold a value that comes from o, when src feeds the inputs of
\* the graph g.
Belongs(o, i, src, g) ==
  /\ o.graph = g \/ (o.graph < g /\ o.asked # {})
  /\ \/ o.port = src[i]
     \/ o.graph < g /\ o.asked = {i} /\ \A j \in Inputs : src[j] # o.port

\* A buffer of the deployed graph holds what the port that feeds its input now
\* has emitted; what a node of an older graph has computed since only because a
\* deployment overtook the pull that asked for it.  From another port it holds
\* only what such a pull of this very input asked for, and then this port feeds
\* no input now.
BuffersFollowRoutes ==
  \A i \in Inputs :
    LET b == bufs[graph][i]
    IN  /\ b.seen # 0 => Belongs(origin[b.seen], i, source, graph)
        /\ \A k \in 1 .. Len(b.queue) : Belongs(origin[b.queue[k]], i, source, graph)

\* What pulls of an input return never goes back to an older value, however
\* pulls, emissions and computations overlap.
NeverBackwards ==
  \A i \in Inputs : \A j, k \in 1 .. Len(given[i]) : j < k => given[i][j] <= given[i][k]

\* An input with the strategy "queue" is pulled frame by frame: what pulls
\* have returned and what waits are values the input took in this graph, each
\* once and in order, and none is left out unless the queue has overflowed.
\* The exception is a pull that began before the buffer knew its edge.
FrameByFrame ==
  \A i \in Queued \ blind :
    LET s == given[i] \o bufs[graph][i].queue
    IN  /\ {s[k] : k \in 1 .. Len(s)} \subseteq taken[i]
        /\ i \notin gaps => taken[i] \subseteq {s[k] : k \in 1 .. Len(s)}
        /\ \A j, k \in 1 .. Len(s) : j < k => s[j] < s[k]

\* A value never waits for on_data without a task that will hand it on.
WaitingIsFlushed == (\E i \in Inputs : pending[i] # <<>>) => flushing

\* on_data is called with ever newer values, and no value leaves the queue of
\* an active service uncalled, except in favour of a newer one.
CallbackOrder ==
  [][\A i \in Inputs :
       /\ handed'[i] >= handed[i]
       /\ active /\ pending'[i] = <<>> => \A k \in 1 .. Len(pending[i]) : handed'[i] >= pending[i][k]
    ]_vars
=============================================================================
