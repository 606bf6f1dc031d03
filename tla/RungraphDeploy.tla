--------------------------- MODULE RungraphDeploy ---------------------------
(***************************************************************************)
(* Deployment of rungraphs on one ServiceBus: submit_rungraph, the apply   *)
(* workers that share _rungraph_apply_lock, the status publications that   *)
(* run as tasks of their own, and stop().                                  *)
(*                                                                         *)
(* A graph stands for its deploy fingerprint: two graphs are the same      *)
(* value exactly when build_rungraph_deploy_fingerprint gives the same     *)
(* string.  A step is what the event loop runs between two awaits.         *)
(*                                                                         *)
(* An attempt is one call of submit_rungraph for a request id; the pair    *)
(* <<req, attempt>> names the task that call may create.  attempt, final,  *)
(* told and newest are history variables: the code does not keep them.     *)
(***************************************************************************)
EXTENDS Naturals, Sequences, FiniteSets

CONSTANTS
  Reqs,         \* request ids
  Graphs,       \* rungraphs, up to their fingerprint
  NoGraph,      \* the empty fingerprint, and _graph = None
  MaxAttempts,  \* bound: submissions of one request id
  Failures      \* which failures the environment may cause

ASSUME NoGraphAssumption  == NoGraph \notin Graphs
ASSUME AttemptsAssumption == MaxAttempts \in Nat
ASSUME FailuresAssumption == Failures \subseteq {"validate", "wire", "encode", "put", "publish"}

VARIABLES
  life,         \* "running", "gathering" and "draining" (inside stop), "closed"
  reqFp,        \* _rungraph_req_fingerprints
  aliases,      \* _rungraph_inflight_aliases; {} where there is no entry
  pc,           \* where the apply worker of a task is
  locked,       \* _rungraph_apply_lock
  waiters,      \* the FIFO of tasks waiting for that lock
  snapshot,     \* the aliases the lock's holder found when it got the lock
  graph,        \* _graph and the route tables built from it
  fingerprint,  \* _rungraph_fingerprint
  kv,           \* the retained config/rungraph sample
  pubs,         \* status publications scheduled and not yet done
  status,       \* the retained per-request status
  attempt,      \* history: submissions made with each request id
  final,        \* history: the last attempt of a request given a final status
  told,         \* history: that final status
  newest        \* history: graph of the worker created last, rejected ones aside

deployVars == <<reqFp, aliases, pc, locked, waiters, snapshot>>
busVars    == <<graph, fingerprint, kv>>
history    == <<attempt, final, told, newest>>
vars       == <<life, deployVars, busVars, pubs, status, history>>

Tasks      == Reqs \X (1 .. MaxAttempts)
FinalPhase == {"applied", "failed"}
Phase      == {"accepted", "applying"} \cup FinalPhase
Status     == [req : Reqs, attempt : 1 .. MaxAttempts, phase : Phase]
NoStatus   == [phase |-> "none"]
Applying   == {"validate", "wire", "persist", "settle"}
Critical   == Applying \cup {"unwind"}
Live       == Applying \cup {"queued"}

GraphOf(t) == reqFp[t[1]]

TypeOK ==
  /\ life \in {"running", "gathering", "draining", "closed"}
  /\ reqFp \in [Reqs -> Graphs \cup {NoGraph}]
  /\ aliases \in [Graphs -> SUBSET Reqs]
  /\ pc \in [Tasks -> {"none", "done"} \cup {"queued"} \cup Critical]
  /\ locked \in BOOLEAN
  /\ waiters \in Seq(Tasks)
  /\ snapshot \in SUBSET Reqs
  /\ graph \in Graphs \cup {NoGraph}
  /\ fingerprint \in Graphs \cup {NoGraph}
  /\ kv \in Graphs \cup {NoGraph}
  /\ pubs \in SUBSET Status
  /\ status \in [Reqs -> Status \cup {NoStatus}]
  /\ attempt \in [Reqs -> 0 .. MaxAttempts]
  /\ final \in [Reqs -> 0 .. MaxAttempts]
  /\ told \in [Reqs -> FinalPhase \cup {"none"}]
  /\ newest \in Graphs \cup {NoGraph}

Init ==
  /\ life = "running"
  /\ reqFp = [r \in Reqs |-> NoGraph]
  /\ aliases = [g \in Graphs |-> {}]
  /\ pc = [t \in Tasks |-> "none"]
  /\ locked = FALSE
  /\ waiters = <<>>
  /\ snapshot = {}
  /\ graph = NoGraph
  /\ fingerprint = NoGraph
  /\ kv = NoGraph
  /\ pubs = {}
  /\ status = [r \in Reqs |-> NoStatus]
  /\ attempt = [r \in Reqs |-> 0]
  /\ final = [r \in Reqs |-> 0]
  /\ told = [r \in Reqs |-> "none"]
  /\ newest = NoGraph

-----------------------------------------------------------------------------
(* Status publications *)

Pub(r, n, phase) == [req |-> r, attempt |-> n, phase |-> phase]

\* One publication per alias, under the alias's latest attempt.
PubsFor(S, phase) == {Pub(r, attempt[r], phase) : r \in S}

\* The history once every alias in S has been given that final status.
FinalFor(S, phase) ==
  /\ final' = [r \in Reqs |-> IF r \in S THEN attempt[r] ELSE final[r]]
  /\ told' = [r \in Reqs |-> IF r \in S THEN phase ELSE told[r]]

\* The per-request retained_put of a publication task.  The tasks run
\* concurrently and each first waits for its put to the service-wide key, so
\* the per-request puts happen in any order.
Publish(p) ==
  /\ p \in pubs
  /\ pubs' = pubs \ {p}
  /\ status' = [status EXCEPT ![p.req] = p]
  /\ UNCHANGED <<life, deployVars, busVars, history>>

\* That put fails or times out: the failure is logged and swallowed.
PublishFails(p) ==
  /\ "publish" \in Failures
  /\ p \in pubs
  /\ pubs' = pubs \ {p}
  /\ UNCHANGED <<life, deployVars, busVars, status, history>>

-----------------------------------------------------------------------------
(* submit_rungraph *)

\* The id is new, or was used for the same fingerprint (else ValueError).
MaySubmit(r, g) ==
  /\ life # "closed"
  /\ attempt[r] < MaxAttempts
  /\ reqFp[r] \in {NoGraph, g}

\* Mistake: compares with the graph last installed, applied or not.
ShortCircuitsOnGraph(g, force) == ~force /\ graph = g

ShortCircuits(g, force) == ~force /\ fingerprint = g

\* The target is already the applied fingerprint.
SubmitAlreadyApplied(r, g, force) ==
  /\ MaySubmit(r, g)
  /\ ShortCircuits(g, force)
  /\ reqFp' = [reqFp EXCEPT ![r] = g]
  /\ attempt' = [attempt EXCEPT ![r] = @ + 1]
  /\ final' = [final EXCEPT ![r] = attempt'[r]]
  /\ told' = [told EXCEPT ![r] = "applied"]
  /\ pubs' = pubs \cup {Pub(r, attempt'[r], "applied")}
  /\ UNCHANGED <<life, aliases, pc, locked, waiters, snapshot, busVars, status, newest>>

\* The target is in flight: the request becomes an alias of that worker.
SubmitAlias(r, g, force) ==
  /\ MaySubmit(r, g)
  /\ ~ShortCircuits(g, force)
  /\ aliases[g] # {}
  /\ reqFp' = [reqFp EXCEPT ![r] = g]
  /\ attempt' = [attempt EXCEPT ![r] = @ + 1]
  /\ aliases' = [aliases EXCEPT ![g] = @ \cup {r}]
  /\ pubs' = pubs \cup {Pub(r, attempt'[r], "accepted")}
  /\ UNCHANGED <<life, pc, locked, waiters, snapshot, busVars, status, final, told, newest>>

\* Otherwise a worker is created; it queues for the lock in creation order.
SubmitNew(r, g, force) ==
  /\ MaySubmit(r, g)
  /\ ~ShortCircuits(g, force)
  /\ aliases[g] = {}
  /\ reqFp' = [reqFp EXCEPT ![r] = g]
  /\ attempt' = [attempt EXCEPT ![r] = @ + 1]
  /\ aliases' = [aliases EXCEPT ![g] = {r}]
  /\ pubs' = pubs \cup {Pub(r, attempt'[r], "accepted")}
  /\ pc' = [pc EXCEPT ![<<r, attempt'[r]>>] = "queued"]
  /\ waiters' = Append(waiters, <<r, attempt'[r]>>)
  /\ newest' = g
  /\ UNCHANGED <<life, locked, snapshot, busVars, status, final, told>>

-----------------------------------------------------------------------------
(* _rungraph_apply_worker *)

\* Mistake: the waiter that came last gets the lock.
LastWaiter(t) ==
  /\ waiters # <<>> /\ waiters[Len(waiters)] = t
  /\ waiters' = SubSeq(waiters, 1, Len(waiters) - 1)

\* asyncio.Lock wakes its waiters in the order they came.
FirstWaiter(t) ==
  /\ waiters # <<>> /\ Head(waiters) = t
  /\ waiters' = Tail(waiters)

\* The worker gets the lock and reports "applying" to the aliases so far.
Acquire(t) ==
  /\ pc[t] = "queued"
  /\ ~locked
  /\ FirstWaiter(t)
  /\ locked' = TRUE
  /\ pc' = [pc EXCEPT ![t] = "validate"]
  /\ snapshot' = aliases[GraphOf(t)]
  /\ pubs' = pubs \cup PubsFor(aliases[GraphOf(t)], "applying")
  /\ UNCHANGED <<life, reqFp, aliases, busVars, status, history>>

\* Mistake: answers only the aliases there were when the worker began.
SnapshotOnly(t) == snapshot

\* What popping the worker's entry yields: the entry, or else its snapshot.
Popped(t) == IF aliases[GraphOf(t)] # {} THEN aliases[GraphOf(t)] ELSE snapshot

\* The worker leaves, its aliases popped and given their final status.
LeaveLine(t, phase) ==
  /\ pc' = [pc EXCEPT ![t] = "done"]
  /\ locked' = FALSE
  /\ aliases' = [aliases EXCEPT ![GraphOf(t)] = {}]
  /\ pubs' = pubs \cup PubsFor(Popped(t), phase)
  /\ FinalFor(Popped(t), phase)
  /\ UNCHANGED <<life, reqFp, waiters, snapshot, status, attempt>>

\* It changes nothing of what the bus runs when it does so.
Leave(t, phase) == LeaveLine(t, phase) /\ UNCHANGED busVars

\* Mistake: a phase that no reader of the status knows.
RejectOddly(t) ==
  /\ "validate" \in Failures
  /\ pc[t] = "validate"
  /\ Leave(t, "rejected")
  /\ newest' = newest

\* apply_rungraph rejects the graph before it changes anything: what runs is
\* then still the newest, unless more workers wait.
Reject(t) ==
  /\ "validate" \in Failures
  /\ pc[t] = "validate"
  /\ Leave(t, "failed")
  /\ newest' = IF waiters = <<>> THEN graph ELSE newest

\* The graph, the access map and the route tables are replaced.
Install(t) ==
  /\ pc[t] = "validate"
  /\ graph' = GraphOf(t)
  /\ pc' = [pc EXCEPT ![t] = "wire"]
  /\ UNCHANGED <<life, reqFp, aliases, locked, waiters, snapshot, fingerprint, kv, pubs, status, history>>

\* A subscription or a watch raises after the graph was replaced.
WireFails(t) ==
  /\ "wire" \in Failures
  /\ pc[t] = "wire"
  /\ Leave(t, "failed")
  /\ newest' = newest

\* Mistake: the lock covers apply_rungraph but not what follows it.
WiredUnlocks(t) ==
  /\ pc[t] = "wire"
  /\ fingerprint' = GraphOf(t)
  /\ pc' = [pc EXCEPT ![t] = "persist"]
  /\ locked' = FALSE
  /\ UNCHANGED <<life, reqFp, aliases, waiters, snapshot, graph, kv, pubs, status, history>>

\* apply_rungraph returned True: the fingerprint moves.
Wired(t) ==
  /\ pc[t] = "wire"
  /\ fingerprint' = GraphOf(t)
  /\ pc' = [pc EXCEPT ![t] = "persist"]
  /\ UNCHANGED <<life, reqFp, aliases, locked, waiters, snapshot, graph, kv, pubs, status, history>>

\* The fingerprint moved, and encoding the graph raises before any await: who
\* waits is told "failed" of the graph that runs and is reported.
EncodeFails(t) ==
  /\ "encode" \in Failures
  /\ pc[t] = "wire"
  /\ fingerprint' = GraphOf(t)
  /\ LeaveLine(t, "failed")
  /\ UNCHANGED <<graph, kv, newest>>

\* retained_put records the sample that queries are answered from.
Persist(t) ==
  /\ pc[t] = "persist"
  /\ kv' = GraphOf(t)
  /\ pc' = [pc EXCEPT ![t] = "settle"]
  /\ UNCHANGED <<life, reqFp, aliases, locked, waiters, snapshot, graph, fingerprint, pubs, status, history>>

\* The put returned, or failed in a way that is logged: the apply succeeded.
Complete(t) ==
  /\ pc[t] = "settle"
  /\ Leave(t, "applied")
  /\ newest' = newest

\* The put raised what set_rungraph does not catch (a ZError): the graph runs,
\* is reported and recorded, and who waits is told "failed".
PutRaises(t) ==
  /\ "put" \in Failures
  /\ pc[t] = "settle"
  /\ Leave(t, "failed")
  /\ newest' = newest

-----------------------------------------------------------------------------
(* stop *)

\* Every tracked task is cancelled.  Publications and workers waiting for the
\* lock end where they are; the worker inside set_rungraph pops its aliases
\* and goes on to publish "failed" to them, holding the lock.
StopBegin ==
  /\ life = "running"
  /\ life' = "gathering"
  /\ waiters' = <<>>
  /\ LET holder == {t \in Tasks : pc[t] \in Applying}
         popped == UNION {Popped(t) : t \in holder}
     IN /\ pc' = [t \in Tasks |->
                    IF pc[t] \in Applying THEN "unwind"
                    ELSE IF pc[t] = "queued" THEN "done" ELSE pc[t]]
        /\ aliases' = [g \in Graphs |->
                         IF \E t \in holder : GraphOf(t) = g THEN {} ELSE aliases[g]]
        /\ pubs' = PubsFor(popped, "failed")
        /\ FinalFor(popped, "failed")
  /\ UNCHANGED <<reqFp, locked, snapshot, busVars, status, attempt, newest>>

\* The cancelled worker has published to the last alias and releases the lock.
Unwound(t) ==
  /\ pc[t] = "unwind"
  /\ \A p \in pubs : GraphOf(<<p.req, p.attempt>>) # GraphOf(t) \/ p.phase # "failed"
  /\ pc' = [pc EXCEPT ![t] = "done"]
  /\ locked' = FALSE
  /\ UNCHANGED <<life, reqFp, aliases, waiters, snapshot, busVars, pubs, status, history>>

\* gather() returned; tasks created meanwhile are forgotten, not awaited.
StopGathered ==
  /\ life = "gathering"
  /\ \A t \in Tasks : pc[t] # "unwind"
  /\ life' = "draining"
  /\ aliases' = [g \in Graphs |-> {}]
  /\ UNCHANGED <<reqFp, pc, locked, waiters, snapshot, busVars, pubs, status, history>>

\* The control endpoints are gone: nobody submits any more.
StopClose ==
  /\ life = "draining"
  /\ life' = "closed"
  /\ UNCHANGED <<deployVars, busVars, pubs, status, history>>

Worker(t) ==
  \/ Acquire(t) \/ Reject(t) \/ Install(t) \/ WireFails(t)
  \/ Wired(t) \/ EncodeFails(t) \/ Persist(t) \/ Complete(t) \/ PutRaises(t) \/ Unwound(t)

Submit ==
  \E r \in Reqs, g \in Graphs, force \in BOOLEAN :
    SubmitAlreadyApplied(r, g, force) \/ SubmitAlias(r, g, force) \/ SubmitNew(r, g, force)

Next ==
  \/ Submit
  \/ \E t \in Tasks : Worker(t)
  \/ \E p \in pubs : Publish(p) \/ PublishFails(p)
  \/ StopBegin \/ StopGathered \/ StopClose

\* Tasks of the event loop run when they can: hooks and puts are assumed to
\* return (a status put gives up after one second).  Nobody has to submit or
\* to stop the bus, but a stop that began goes on.
Fairness ==
  /\ \A t \in Tasks : WF_vars(Worker(t))
  /\ WF_vars(\E p \in pubs : Publish(p))
  /\ WF_vars(StopGathered) /\ WF_vars(StopClose)

Spec     == Init /\ [][Next]_vars
FairSpec == Spec /\ Fairness

-----------------------------------------------------------------------------
(* Properties *)

\* At most one worker is inside set_rungraph, and then the lock is held: two
\* applies would interleave their route tables and subscriptions.
ApplyExclusive ==
  /\ \A t, u \in Tasks : pc[t] \in Critical /\ pc[u] \in Critical => t = u
  /\ locked <=> \E t \in Tasks : pc[t] \in Critical

\* A graph with an in-flight entry has a worker that will pop it.  Without one
\* every later submission of that graph would be accepted and never applied.
AliasesHaveWorker ==
  life # "gathering" =>
    \A g \in Graphs : aliases[g] # {} =>
      \E t \in Tasks : pc[t] \in Live /\ GraphOf(t) = g

\* And on a running bus one worker only, which finds its entry when it leaves:
\* no graph is applied twice for one round of requests, and a worker never has
\* to answer from what it noted when it began.
OneWorkerEach ==
  life = "running" =>
    /\ \A t, u \in Tasks : pc[t] \in Live /\ pc[u] \in Live /\ GraphOf(t) = GraphOf(u) => t = u
    /\ \A t \in Tasks : pc[t] \in Live => aliases[GraphOf(t)] # {}

\* The requests that were accepted and wait for their final status.
Owed == {r \in Reqs : final[r] < attempt[r]}

\* While the bus runs, a request that waits for its final status is an alias
\* of its own graph, so the worker that pops that entry answers it; an alias
\* never sits in the entry of another graph.
OwedIsInFlight ==
  /\ \A g \in Graphs : \A r \in aliases[g] : reqFp[r] = g
  /\ life = "running" => \A r \in Owed : r \in aliases[reqFp[r]]

\* An "applied" answer is given only to requests for the graph whose
\* fingerprint the bus has at that moment.
AppliedIsHonest ==
  [][\A p \in pubs' \ pubs : p.phase = "applied" => fingerprint' = reqFp'[p.req]]_vars

\* Applies take the lock in the order the graphs were submitted, so once all
\* is quiet the bus runs the graph of the newest worker that was not rejected.
NewestWins ==
  (life = "running" /\ \A t \in Tasks : pc[t] \notin Live) => graph = newest

\* Seen from outside, all of this is DeployPromise.
Promise == INSTANCE DeployPromise WITH
  open <- life = "running", want <- reqFp, owed <- Owed, running <- fingerprint

KeepsPromise == Promise!Spec

\* The tasks in line: the one inside set_rungraph, then those that wait for
\* the lock.
Holder      == CHOOSE t \in Tasks : pc[t] \in Critical
Line        == IF locked THEN <<Holder>> \o waiters ELSE waiters
GraphsOf(s) == [i \in DOMAIN s |-> GraphOf(s[i])]

\* What a client of the bus may see of it: nothing, once it stops.
Running  == life = "running"
Reported == IF Running THEN fingerprint ELSE NoGraph
Standing == IF Running THEN GraphsOf(Line) ELSE <<>>
Awaiting == IF Running THEN aliases ELSE [g \in Graphs |-> {}]
Stage    == IF Running /\ \E t \in Tasks : pc[t] = "persist" THEN "put"
            ELSE IF Running /\ \E t \in Tasks : pc[t] = "settle" THEN "settle"
            ELSE "apply"

\* Workers, the lock and the in-flight entries together are one queue of
\* graphs: a graph has one turn for all who ask for it, the turns come in the
\* order the graphs were first asked for, and each ends with the answer to all
\* who asked until then.
Queue == INSTANCE DeployQueue WITH
  up <- Running, fingerprint <- Reported, queue <- Standing, waiting <- Awaiting, stage <- Stage

ServesInTurn == Queue!Spec

\* While the bus runs, nobody waits for nothing: a request that is owed an
\* answer has a turn of its graph in the line, and the first task in the line
\* can go on, for it is inside set_rungraph or the lock is free for it.
TurnComes ==
  Running =>
    /\ \A r \in Owed : \E i \in DOMAIN Line : GraphOf(Line[i]) = reqFp[r]
    /\ Line # <<>> => IF locked THEN pc[Line[1]] \in Applying ELSE pc[Line[1]] = "queued"

\* What set_rungraph's docstring calls its invariant: with no apply in
\* progress the retained config is the graph the bus runs.
KvIsRunning ==
  (life = "running" /\ \A t \in Tasks : pc[t] \notin Critical) => kv = graph

\* While nobody stops the bus every submission is given a final status.
EverySubmissionAnswered ==
  \A r \in Reqs : \A n \in 1 .. MaxAttempts :
    attempt[r] >= n ~> (final[r] >= n \/ life # "running")
=============================================================================
