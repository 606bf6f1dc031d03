----------------------------- MODULE DeployQueue -----------------------------
(***************************************************************************)
(* A service seen from the wire: graphs stand in line, one is applied at a *)
(* time, and whoever waits for a graph is answered when it is done.        *)
(* RungraphDeploy implements it with workers, a lock and in-flight         *)
(* aliases; DeployClient is a client of it.  A request for the graph that  *)
(* is reported already may be answered without a step here.                *)
(***************************************************************************)
EXTENDS Naturals, Sequences

CONSTANTS Reqs, Graphs, NoGraph

VARIABLES
  up,          \* the service runs
  fingerprint, \* the graph it reports
  queue,       \* graphs being applied (the first) or waiting for their turn
  waiting,     \* the requests each graph in the queue will answer
  stage        \* how far the first one is: "apply", "put" or "settle"

queueVars == <<up, fingerprint, queue, waiting, stage>>

TypeOK ==
  /\ up \in BOOLEAN
  /\ fingerprint \in Graphs \cup {NoGraph}
  /\ queue \in Seq(Graphs)
  /\ waiting \in [Graphs -> SUBSET Reqs]
  /\ stage \in {"apply", "put", "settle"}

\* The graph at the head of the queue is installed, its fingerprint set.
Wired == stage # "apply"

\* A service may start with the graph it had before.
Init ==
  /\ up = TRUE
  /\ fingerprint \in Graphs \cup {NoGraph}
  /\ queue = <<>>
  /\ waiting = [g \in Graphs |-> {}]
  /\ stage = "apply"

\* The graph is in line already and the request joins it there, or it goes to
\* the end of the line.
Enqueue(r, g) ==
  /\ up
  /\ queue' = IF waiting[g] = {} THEN Append(queue, g) ELSE queue
  /\ waiting' = [waiting EXCEPT ![g] = @ \cup {r}]
  /\ UNCHANGED <<up, fingerprint, stage>>

\* The fingerprint moves to the graph at the head.
Apply ==
  /\ up /\ queue # <<>> /\ ~Wired
  /\ stage' = "put"
  /\ fingerprint' = Head(queue)
  /\ UNCHANGED <<up, queue, waiting>>

\* The graph at the head has had its turn.
Dequeue ==
  /\ queue' = Tail(queue)
  /\ waiting' = [waiting EXCEPT ![Head(queue)] = {}]

\* It is not applied, and those who wait for it are told so.
ApplyFails ==
  /\ up /\ queue # <<>> /\ ~Wired
  /\ Dequeue
  /\ UNCHANGED <<up, fingerprint, stage>>

\* It is installed and reported, but what follows raises at once: those who
\* wait for it are told it failed.
InstallFails ==
  /\ up /\ queue # <<>> /\ ~Wired
  /\ fingerprint' = Head(queue)
  /\ Dequeue
  /\ UNCHANGED <<up, stage>>

\* The retained config sample is replaced.
PutConfig ==
  /\ up /\ stage = "put"
  /\ stage' = "settle"
  /\ UNCHANGED <<up, fingerprint, queue, waiting>>

\* Those who wait for it are told "applied", or "failed" if the put raised.
Answer ==
  /\ up /\ stage = "settle"
  /\ stage' = "apply"
  /\ Dequeue
  /\ UNCHANGED <<up, fingerprint>>

\* The service ends, or begins to stop, with all it knew.
Leave ==
  /\ up
  /\ up' = FALSE
  /\ fingerprint' = NoGraph
  /\ queue' = <<>>
  /\ waiting' = [g \in Graphs |-> {}]
  /\ stage' = "apply"

\* It is started again.
Restart ==
  /\ ~up
  /\ up' = TRUE
  /\ UNCHANGED <<fingerprint, queue, waiting, stage>>

Next ==
  \/ \E r \in Reqs, g \in Graphs : Enqueue(r, g)
  \/ Apply \/ ApplyFails \/ InstallFails \/ PutConfig \/ Answer
  \/ Leave \/ Restart

Spec == Init /\ [][Next]_queueVars

-----------------------------------------------------------------------------
(* Properties *)

\* A graph stands in line once, and for as long as somebody waits for it: no
\* turn is taken for nobody, and nobody waits for a graph without a turn.
InLine ==
  /\ \A i, j \in DOMAIN queue : queue[i] = queue[j] => i = j
  /\ \A i \in DOMAIN queue : waiting[queue[i]] # {}
  /\ \A g \in Graphs : waiting[g] # {} => \E i \in DOMAIN queue : queue[i] = g

\* From the moment a graph is installed until those who wait are told, the
\* service reports that graph.
HeadIsReported == Wired => up /\ queue # <<>> /\ fingerprint = Head(queue)
==============================================================================
