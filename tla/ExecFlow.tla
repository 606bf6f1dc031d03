------------------------------ MODULE ExecFlow ------------------------------
(***************************************************************************)
(* ExecFlowExecutor: the trigger queue and its worker, the entrypoint and  *)
(* its contexts, apply_rungraph and set_active, called by the engine's     *)
(* rungraph and lifecycle hooks.                                           *)
(*                                                                         *)
(* Graphs and triggers are numbered in the order they come; every graph    *)
(* has the same entrypoint and an exec route for every trigger.  A step is *)
(* what the event loop runs between two awaits.  Two kinds of controllers  *)
(* call the executor: one deployer, since deployments hold the apply lock, *)
(* and the togglers, the calls of apply_active, which no lock keeps apart. *)
(*                                                                         *)
(* deaf, begun, mishap and the routes noted in the queue are history.      *)
(***************************************************************************)
EXTENDS Naturals, Sequences

CONSTANTS
  Workers,      \* bound: trigger worker tasks that exist at the same time
  NoWorker,     \* _trigger_worker_task = None
  Togglers,     \* concurrent calls of apply_active
  Deployer,     \* the task inside on_rungraph
  MaxTriggers,  \* bound: triggers fired
  MaxGraphs,    \* bound: graphs deployed
  MaxContexts,  \* bound: entrypoint contexts that exist at the same time
  Failures      \* what node code may do

\* on_exec raises what no handler catches, awaits something when its worker is
\* cancelled, swallows that cancellation; an entrypoint cannot be started,
\* creates its tasks only after an await, raises when it is stopped.
KindsOfFailure == {"crash", "cleanup", "swallow", "start", "late", "stop"}

ASSUME NoWorkerAssumption == NoWorker \notin Workers
ASSUME DeployerAssumption == Deployer \notin Togglers
ASSUME BoundsAssumption   == MaxTriggers \in Nat /\ MaxGraphs \in Nat /\ MaxContexts \in Nat
ASSUME FailuresAssumption == Failures \subseteq KindsOfFailure

VARIABLES
  bus,        \* bus.active
  active,     \* _active of the executor
  graph,      \* _graph; 0 for None
  routes,     \* the graph _exec_out was built from
  ctx,        \* the context in _entrypoint_ctx_by_node_id; 0 without one
  live,       \* contexts whose tasks run and that nobody has begun to stop
  mine,       \* the context whose start a controller awaits; 0 without one
  queue,      \* _trigger_queue; of each trigger its number, and the routes then
  task,       \* _trigger_worker_task
  wstate,     \* where each worker task is
  on,         \* the trigger a worker has taken; 0 without one
  deaf,       \* history: live workers that swallowed their cancellation
  pc,         \* where each controller is
  waitFor,    \* the worker a controller awaits
  fired,      \* triggers fired so far: _trigger_seq
  begun,      \* history: the trigger propagated last
  mishap      \* history: the worst that has happened; 0 before anything has

switches   == <<bus, active, graph, routes>>
sourceVars == <<ctx, live, mine>>
workerVars == <<task, wstate, on, deaf>>
ctlVars    == <<pc, waitFor>>
vars       == <<switches, sourceVars, queue, workerVars, ctlVars, fired, begun, mishap>>

Controllers == Togglers \cup {Deployer}
Triggers    == 1 .. MaxTriggers
Contexts    == 1 .. MaxContexts
Dead        == {"done", "crashed"}
Alive       == {"waiting", "running"}

\* Mishaps, from slight to bad: an entrypoint could not be started, or calls of
\* apply_active overlapped; a context runs on that the executor does not know;
\* a worker crashed, or an entrypoint raised when it was stopped.
Rough == 1
Stray == 2
Abort == 3

TypeOK ==
  /\ bus \in BOOLEAN /\ active \in BOOLEAN
  /\ graph \in 0 .. MaxGraphs /\ routes \in 0 .. MaxGraphs
  /\ ctx \in 0 .. MaxContexts /\ live \in SUBSET Contexts
  /\ mine \in [Controllers -> 0 .. MaxContexts]
  /\ queue \in Seq([seq : Triggers, under : 0 .. MaxGraphs])
  /\ task \in Workers \cup {NoWorker}
  /\ wstate \in [Workers -> Alive \cup Dead \cup {"unwinding"}]
  /\ on \in [Workers -> 0 .. MaxTriggers]
  /\ deaf \in SUBSET Workers
  /\ pc \in [Controllers -> {"idle", "turnOn", "turnOff", "cancel", "sources", "start",
                             "failing", "undoSources", "undoCancel"}]
  /\ waitFor \in [Controllers -> Workers \cup {NoWorker}]
  /\ fired \in 0 .. MaxTriggers
  /\ begun \in 0 .. MaxTriggers
  /\ mishap \in 0 .. Abort

Init ==
  /\ bus = TRUE /\ active = TRUE
  /\ graph = 0 /\ routes = 0
  /\ ctx = 0 /\ live = {}
  /\ mine = [k \in Controllers |-> 0]
  /\ queue = <<>>
  /\ task = NoWorker
  /\ wstate = [w \in Workers |-> "done"]
  /\ on = [w \in Workers |-> 0]
  /\ deaf = {}
  /\ pc = [k \in Controllers |-> "idle"]
  /\ waitFor = [k \in Controllers |-> NoWorker]
  /\ fired = 0
  /\ begun = 0
  /\ mishap = 0

Happens(m) == mishap' = IF m > mishap THEN m ELSE mishap

-----------------------------------------------------------------------------
(* Triggers and the worker *)

HasWorker == task # NoWorker /\ wstate[task] \notin Dead

\* A worker task that is over and that nobody refers to any more.
Over(w) == wstate[w] \in Dead /\ w # task /\ \A k \in Controllers : waitFor[k] # w

\* The place of such a task is taken by a new one; whose place is immaterial.
Free(w) == Over(w) /\ w = CHOOSE v \in Workers : Over(v)

\* Mistake: a new worker whether or not the current one is alive.
StartAnother ==
  \E w \in Workers : /\ Free(w)
                     /\ task' = w
                     /\ wstate' = [wstate EXCEPT ![w] = "waiting"]

\* _start_trigger_worker: a new task unless the current one is alive.
StartWorker ==
  IF HasWorker
  THEN UNCHANGED <<task, wstate>>
  ELSE \E w \in Workers : /\ Free(w)
                          /\ task' = w
                          /\ wstate' = [wstate EXCEPT ![w] = "waiting"]

\* trigger_exec_nowait, called by an entrypoint or any other node, or
\* trigger_exec, whose caller then waits until the trigger has left.
Fire ==
  /\ active
  /\ routes # 0
  /\ fired < MaxTriggers
  /\ fired' = fired + 1
  /\ queue' = Append(queue, [seq |-> fired', under |-> routes])
  /\ StartWorker
  /\ UNCHANGED <<switches, sourceVars, on, deaf, ctlVars, begun, mishap>>

\* The worker takes the oldest trigger; it drops it if nothing is active.
Take(w) ==
  /\ wstate[w] = "waiting"
  /\ queue # <<>>
  /\ queue' = Tail(queue)
  /\ IF active /\ bus
     THEN /\ wstate' = [wstate EXCEPT ![w] = "running"]
          /\ on' = [on EXCEPT ![w] = Head(queue).seq]
          /\ begun' = Head(queue).seq
     ELSE UNCHANGED <<wstate, on, begun>>
  /\ UNCHANGED <<switches, sourceVars, task, deaf, ctlVars, fired, mishap>>

\* Worker w leaves the propagation it is in.
Leaves(w, s) ==
  /\ wstate' = [wstate EXCEPT ![w] = s]
  /\ on' = [on EXCEPT ![w] = 0]
  /\ UNCHANGED <<switches, sourceVars, task, ctlVars, fired, begun>>

\* The propagation ended; errors of on_exec are reported and count as an end.
Finish(w) ==
  /\ wstate[w] = "running"
  /\ Leaves(w, "waiting")
  /\ UNCHANGED <<queue, deaf, mishap>>

\* Mistake: the trigger whose propagation raised is queued for a retry.
CrashRetries(w) ==
  /\ "crash" \in Failures
  /\ wstate[w] = "running"
  /\ Leaves(w, "waiting")
  /\ queue' = Append(queue, [seq |-> on[w], under |-> routes])
  /\ UNCHANGED <<deaf, mishap>>

\* on_exec raised something outside _EXEC_CALLBACK_ERRORS: the task ends.
Crash(w) ==
  /\ "crash" \in Failures
  /\ wstate[w] \in {"running", "unwinding"}
  /\ Leaves(w, "crashed")
  /\ deaf' = deaf \ {w}
  /\ Happens(Abort)
  /\ UNCHANGED queue

\* Mistake: a cancelled task counts as something else than done.
UnwoundCancelled(w) ==
  /\ wstate[w] = "unwinding"
  /\ Leaves(w, "cancelled")
  /\ UNCHANGED <<queue, deaf, mishap>>

\* on_exec has finished what it awaited when it was cancelled.
Unwound(w) ==
  /\ wstate[w] = "unwinding"
  /\ Leaves(w, "done")
  /\ UNCHANGED <<queue, deaf, mishap>>

\* on_exec returned, or raised an error that is caught and reported, instead
\* of passing on the cancellation: the worker takes the next trigger.
Swallow(w) ==
  /\ "swallow" \in Failures
  /\ wstate[w] = "unwinding"
  /\ Leaves(w, "waiting")
  /\ deaf' = deaf \cup {w}
  /\ UNCHANGED <<queue, mishap>>

-----------------------------------------------------------------------------
(* Steps that apply_rungraph and set_active share *)

\* Controller k goes to p, where it awaits worker w.
Awaits(k, p, w) ==
  /\ pc' = [pc EXCEPT ![k] = p]
  /\ waitFor' = [waitFor EXCEPT ![k] = w]

Goes(k, p) == Awaits(k, p, NoWorker)

\* The operation of k is over; it leaves worker t to the executor.
Ends(k, t) ==
  /\ task' = t
  /\ Goes(k, "idle")
  /\ UNCHANGED <<wstate, on, deaf>>

\* Mistake: the pending triggers stay.
NotDrained == UNCHANGED queue

\* The pending triggers are dropped.
Drained == queue' = <<>>

\* _stop_trigger_worker cancels a live worker and awaits it.  A cancelled
\* worker ends at once, unless the on_exec it is in awaits something first.
Cancel(k, next) ==
  /\ HasWorker
  /\ task' = NoWorker
  /\ \E s \in {"done"} \cup (IF "cleanup" \in Failures /\ wstate[task] = "running"
                             THEN {"unwinding"} ELSE {}) :
       /\ wstate' = [wstate EXCEPT ![task] = s]
       /\ on' = IF s = "done" THEN [on EXCEPT ![task] = 0] ELSE on
  /\ Awaits(k, next, task)
  /\ UNCHANGED deaf

\* A worker that was created just now is cancelled before it has run.
CancelUnborn(k) ==
  /\ ~HasWorker
  /\ task' = NoWorker
  /\ \E w \in Workers : /\ Free(w)
                        /\ wstate' = [wstate EXCEPT ![w] = "done"]
                        /\ Awaits(k, "undoCancel", w)
  /\ UNCHANGED <<on, deaf>>

\* The worker has crashed: its error is raised when it is awaited.
Crashed == task # NoWorker /\ wstate[task] = "crashed"

\* _stop_entrypoint forgets the context, then stops the node and the tasks.
StopEntrypoint(k, next) ==
  /\ ctx # 0
  /\ ctx' = 0
  /\ live' = live \ {ctx}
  /\ Goes(k, next)
  /\ UNCHANGED mine

\* A context that nobody uses.
Fresh(c) == c \notin live /\ c # ctx /\ \A k \in Controllers : mine[k] # c

\* start_entrypoint: a new context, unless the node has one.
StartEntrypoint(k) ==
  IF ctx # 0
  THEN Goes(k, "idle") /\ UNCHANGED sourceVars
  ELSE \E c \in Contexts : /\ Fresh(c) /\ \A d \in 1 .. c - 1 : ~Fresh(d)
                           /\ ctx' = c
                           /\ live' = live \cup {c}
                           /\ mine' = [mine EXCEPT ![k] = c]
                           /\ Goes(k, "start")

\* _start_entrypoints_for_graph finds the node unregistered (KeyError, which
\* nobody handles) or no entrypoint (ValueError, which is undone).
RefuseStart(k) ==
  /\ "start" \in Failures
  /\ Happens(Rough)
  /\ \/ StartWorker /\ Goes(k, "idle") /\ UNCHANGED <<sourceVars, on, deaf>>
     \/ StartWorker /\ StopEntrypoint(k, "undoSources") /\ UNCHANGED <<on, deaf>>
     \/ ctx = 0 /\ (Cancel(k, "undoCancel") \/ CancelUnborn(k)) /\ UNCHANGED sourceVars

\* Mistake: entrypoints without a worker.
StartSourcesOnly(k) ==
  StartEntrypoint(k) /\ UNCHANGED <<workerVars, mishap>>

\* The worker and then the entrypoint are started, unless they run already.
Start(k) ==
  \/ StartWorker /\ StartEntrypoint(k) /\ UNCHANGED <<on, deaf, mishap>>
  \/ RefuseStart(k)

\* After the entrypoint stopped: drain, and for a deployment new routes.
AfterSources(k, t) ==
  /\ Drained
  /\ routes' = IF k = Deployer THEN graph' ELSE routes
  /\ IF k = Deployer /\ active
     THEN Start(k)
     ELSE Ends(k, t) /\ UNCHANGED <<sourceVars, mishap>>

\* After the worker stopped: stop_all_entrypoints, which awaits if there is
\* one.  The worker there is now is t.
AfterWorker(k, t) ==
  IF ctx # 0
  THEN /\ StopEntrypoint(k, "sources")
       /\ task' = t
       /\ UNCHANGED <<routes, queue, wstate, on, deaf, mishap>>
  ELSE AfterSources(k, t)

\* _stop_trigger_worker and what follows.  The error of a crashed worker is
\* logged, or (outside _TRIGGER_WORKER_STOP_ERRORS) ends the operation here.
StopWorker(k) ==
  \/ Cancel(k, "cancel") /\ UNCHANGED <<routes, sourceVars, queue, mishap>>
  \/ (task = NoWorker \/ Crashed) /\ AfterWorker(k, NoWorker)
  \/ Crashed /\ Ends(k, NoWorker) /\ UNCHANGED <<routes, sourceVars, queue, mishap>>

\* How undoing a start ends: the worker is stopped and then the queue drained,
\* unless the error of a crashed worker ends it.
UndoWorker(k) ==
  \/ Cancel(k, "undoCancel") /\ UNCHANGED queue
  \/ (task = NoWorker \/ Crashed) /\ Drained /\ Ends(k, NoWorker)
  \/ Crashed /\ UNCHANGED queue /\ Ends(k, NoWorker)

-----------------------------------------------------------------------------
(* apply_rungraph and set_active *)

\* apply_rungraph is called with the next graph.
Deploy ==
  /\ pc[Deployer] = "idle"
  /\ graph < MaxGraphs
  /\ graph' = graph + 1
  /\ StopWorker(Deployer)
  /\ UNCHANGED <<bus, active, fired, begun>>

\* apply_active: bus.active changes and the hooks are called.  Which of the
\* idle togglers makes the call is immaterial.
Toggle(k) ==
  /\ pc[k] = "idle"
  /\ k = CHOOSE j \in Togglers : pc[j] = "idle"
  /\ bus' = ~bus
  /\ Goes(k, IF bus THEN "turnOff" ELSE "turnOn")
  /\ Happens(IF \A j \in Togglers : pc[j] = "idle" THEN 0 ELSE Rough)
  /\ UNCHANGED <<active, graph, routes, sourceVars, queue, workerVars, fired, begun>>

\* The hook calls set_active, which has nothing to do.
SetActiveSame(k) ==
  /\ \/ pc[k] = "turnOff" /\ ~active
     \/ pc[k] = "turnOn" /\ (active \/ graph = 0)
  /\ active' = (pc[k] = "turnOn")
  /\ Goes(k, "idle")
  /\ UNCHANGED <<bus, graph, routes, sourceVars, queue, workerVars, fired, begun,
                 mishap>>

\* set_active(False)
Deactivate(k) ==
  /\ pc[k] = "turnOff" /\ active
  /\ active' = FALSE
  /\ StopWorker(k)
  /\ UNCHANGED <<bus, graph, fired, begun>>

\* set_active(True)
Activate(k) ==
  /\ pc[k] = "turnOn" /\ ~active /\ graph # 0
  /\ active' = TRUE
  /\ Start(k)
  /\ UNCHANGED <<bus, graph, routes, queue, fired, begun>>

\* The cancelled worker ended; an error it crashed with is logged, or ends the
\* operation.
WorkerStopped(k) ==
  /\ pc[k] = "cancel"
  /\ UNCHANGED <<bus, active, graph, fired, begun>>
  /\ \/ wstate[waitFor[k]] \in Dead /\ AfterWorker(k, task)
     \/ /\ wstate[waitFor[k]] = "crashed"
        /\ Ends(k, task)
        /\ UNCHANGED <<routes, sourceVars, queue, mishap>>

\* The entrypoint stopped.
SourcesStopped(k) ==
  /\ pc[k] = "sources"
  /\ UNCHANGED <<bus, active, graph, fired, begun>>
  /\ AfterSources(k, task)

\* stop_entrypoint raised something outside _ENTRYPOINT_LIFECYCLE_ERRORS.
StopFails(k) ==
  /\ "stop" \in Failures
  /\ pc[k] \in {"sources", "undoSources"}
  /\ Goes(k, "idle")
  /\ Happens(Abort)
  /\ UNCHANGED <<switches, sourceVars, queue, workerVars, fired, begun>>

\* The start that k awaits is over.
StartOver(k) ==
  /\ pc[k] = "start"
  /\ mine' = [mine EXCEPT ![k] = 0]
  /\ Goes(k, "idle")
  /\ UNCHANGED <<switches, ctx, queue, workerVars, fired, begun>>

\* The entrypoint started.
Started(k) == StartOver(k) /\ UNCHANGED <<live, mishap>>

\* It started after its context was stopped: nobody will cancel the tasks it
\* creates now.
StartedLate(k) ==
  /\ "late" \in Failures
  /\ StartOver(k)
  /\ mine[k] \notin live
  /\ live' = live \cup {mine[k]}
  /\ Happens(Stray)

\* It raised something outside _ENTRYPOINT_LIFECYCLE_ERRORS, which nobody
\* handles: its context stays.
StartRaises(k) ==
  /\ "start" \in Failures
  /\ StartOver(k)
  /\ Happens(Rough)
  /\ UNCHANGED live

\* It raised one of _ENTRYPOINT_LIFECYCLE_ERRORS: the tasks of its context are
\* cancelled and awaited.
StartFails(k) ==
  /\ "start" \in Failures
  /\ pc[k] = "start"
  /\ Goes(k, "failing")
  /\ live' = live \ {mine[k]}
  /\ Happens(Rough)
  /\ UNCHANGED <<switches, ctx, mine, queue, workerVars, fired, begun>>

\* Then the context registered for the node is forgotten, whosever it is, and
\* the worker is stopped.
StartUndone(k) ==
  /\ pc[k] = "failing"
  /\ ctx' = 0
  /\ mine' = [mine EXCEPT ![k] = 0]
  /\ Happens(IF ctx \in live THEN Stray ELSE 0)
  /\ UndoWorker(k)
  /\ UNCHANGED <<switches, live, fired, begun>>

\* The entrypoint there was when a start was refused has stopped.
SourcesUndone(k) ==
  /\ pc[k] = "undoSources"
  /\ UndoWorker(k)
  /\ UNCHANGED <<switches, sourceVars, fired, begun, mishap>>

\* The worker that undoing a start awaits has ended.
Undone(k) ==
  /\ pc[k] = "undoCancel"
  /\ \/ wstate[waitFor[k]] \in Dead /\ Drained
     \/ wstate[waitFor[k]] = "crashed" /\ UNCHANGED queue
  /\ Goes(k, "idle")
  /\ UNCHANGED <<switches, sourceVars, workerVars, fired, begun, mishap>>

Worker(w) == Take(w) \/ Finish(w) \/ Unwound(w) \/ Swallow(w)

Control(k) ==
  \/ SetActiveSame(k) \/ Deactivate(k) \/ Activate(k) \/ WorkerStopped(k)
  \/ SourcesStopped(k) \/ StopFails(k)
  \/ Started(k) \/ StartedLate(k) \/ StartRaises(k) \/ StartFails(k)
  \/ StartUndone(k) \/ SourcesUndone(k) \/ Undone(k)

Next ==
  \/ Fire
  \/ \E w \in Workers : Worker(w) \/ Crash(w)
  \/ Deploy
  \/ \E k \in Togglers : Toggle(k)
  \/ \E k \in Controllers : Control(k)

\* on_exec, start_entrypoint and stop_entrypoint return, so a worker and an
\* operation that began go on; nobody has to fire, deploy or toggle.
Spec     == Init /\ [][Next]_vars
FairSpec == Spec /\ (\A w \in Workers : WF_vars(Worker(w)))
                 /\ (\A k \in Controllers : WF_vars(Control(k)))

-----------------------------------------------------------------------------
(* Properties *)

Idle == \A k \in Controllers : pc[k] = "idle"

\* An operation waits for worker w, which it has cancelled.
Awaited(w) == \E k \in Controllers : pc[k] \in {"cancel", "undoCancel"} /\ waitFor[k] = w

\* However deployments, toggles and triggers overlap, a worker that is alive is
\* the one the executor knows, or one whose on_exec swallowed the cancellation,
\* and then the operation that cancelled it still waits for it.
NoStrayWorker ==
  \A w \in Workers : wstate[w] \in Alive => w = task \/ (w \in deaf /\ Awaited(w))

\* No trigger waits in the queue that was fired under other routes.
QueueIsCurrent == \A i \in DOMAIN queue : queue[i].under = routes

\* Triggers are propagated in the order they were fired.
FifoOrder == [][begun' # begun => begun' > begun]_vars

\* With no operation in progress an inactive executor is at rest: no trigger
\* waits, every worker has ended and no entrypoint is registered; however calls
\* of apply_active overlap, entrypoints fail to start and on_exec answers its
\* cancellation, but not after an error ended an operation half-way.  Nor does
\* any context run, unless a start has left a stray one behind.
InactiveIsQuiet ==
  Idle /\ ~active /\ mishap < Abort =>
    /\ queue = <<>> /\ ctx = 0
    /\ \A w \in Workers : wstate[w] \in Dead
    /\ mishap < Stray => live = {}

\* With no operation in progress an active executor that has a graph runs it:
\* the worker and exactly one context of the entrypoint, the registered one,
\* are there, and the executor is active because the bus is.
ActiveIsRunning ==
  Idle /\ mishap = 0 =>
    /\ active = bus
    /\ active /\ graph # 0 => routes = graph /\ HasWorker /\ ctx # 0 /\ live = {ctx}

\* Every trigger leaves the executor, since it ran or was dropped: of those that
\* are fired, which are bounded, again and again none is left; unless an error
\* ended a worker or an operation.
TriggersLeave ==
  []<>(mishap = Abort \/ (queue = <<>> /\ \A w \in Workers : on[w] = 0))

\* Nothing waits for nobody.  A trigger in the queue has a live worker that
\* will take it or an operation that has yet to drain the queue, unless an error
\* ended one; the worker that an operation awaits has ended, is ending, or
\* swallowed its cancellation.
NobodyWaitsInVain ==
  /\ queue # <<>> /\ mishap < Abort =>
       \/ \E w \in Workers : wstate[w] \in Alive
       \/ \E k \in Controllers :
            pc[k] \in {"cancel", "sources", "failing", "undoSources", "undoCancel"}
  /\ \A k \in Controllers : pc[k] \in {"cancel", "undoCancel"} =>
       /\ waitFor[k] # NoWorker
       /\ wstate[waitFor[k]] \in Dead \cup {"unwinding"} \/ waitFor[k] \in deaf

\* Two triggers are propagated at the same time only while an operation still
\* waits for the worker of one of them, which it has cancelled.
SerializedButForCleanup ==
  \A v, w \in Workers : on[v] # 0 /\ on[w] # 0 => v = w \/ Awaited(v) \/ Awaited(w)

\* ExecFlowExecutor's docstring: trigger delivery is serialized.  Counts an
\* on_exec that is still running though its worker was cancelled.
Serialized ==
  \A v, w \in Workers : on[v] # 0 /\ on[w] # 0 => v = w
=============================================================================
