# F8Studio: a verification project for the runtime

F8Studio runs graphs of nodes that are spread over several processes, its
*services*. Every Python service holds one `ServiceBus` (`packages/f8pysdk`): it
is given a *rungraph*, routes data, state and exec signals between its nodes
along the graph's edges, and talks to other services over zenoh. This directory
holds TLA+ models of the parts of that runtime where order and failure matter,
the TLC runs that check them on small instances, and TLAPS proofs of their
central invariants for all instances.

Nearly all of the modelled code is asyncio code on one event loop per process.
The granularity is the same in every module: **one action is what the loop runs
between two awaits** (an await that cannot yield, such as an uncontended
`asyncio.Lock`, is no boundary). Where the code leaves the loop
(`asyncio.to_thread(publisher.put)`), the thread's work is an action too.
`ServiceProcess` has real threads, the Qt thread, the event loop's and the stop
workers; there an action ends also where another thread may come between two
accesses to what they share.

Paths below are relative to `src/packages/f8pysdk/f8pysdk/` unless they begin
with `f8py...` or `docs`.

## 1. Inventory

| component | state it keeps | operations | talks to | hard because |
|---|---|---|---|---|
| rungraph deployment: `service_bus/runtime.py`, `workflow/rungraph.py` | applied graph and fingerprint, in-flight aliases, apply lock, request fingerprints, retained config | `submit_rungraph`, `_rungraph_apply_worker`, `set_rungraph`, `apply_rungraph`, status publications, `stop` | Studio (requests, retained statuses), every other component of the bus through the rungraph hooks | concurrent workers, joining requests, failure half way, cancellation by `stop` |
| command gateway: `service_bus/internal/command.py` | bindings, one dispatch state per command | `dispatch_hidden_input`, `invoke`, `write_output`, `refresh_bindings` | state plane (hidden input and output fields), nodes | latest-pending loop across awaits, cancelled callers, nodes registered anew |
| exec flow executor: `executors/exec_flow.py`; `f8pyengine/pyengine_service.py` | active flag, routes, entrypoints, trigger queue, worker task | `trigger_exec(_nowait)`, `apply_rungraph`, `set_active` | lifecycle and rungraph hooks, node code | awaits in the middle of switching graphs or stopping the worker |
| state plane: `service_bus/state/*` | value and time stamp of each field, time stamp of the last remote sample, retained samples | `publish_state`, intra-service fan-out, `on_remote_state_retained`, `sync_cross_state_watches` | transport, nodes, state plane of other services | puts in threads, several writers, time stamps of equal milliseconds |
| data plane: `service_bus/data/*` | input buffers, queue of `on_data` callbacks, subscriptions | `emit_data`, `pull_data`, `replace_routes`, the flush task | transport, nodes | pull computes upstream nodes across awaits, routes replaced meanwhile |
| lifecycle: `service_bus/workflow/lifecycle.py` | `active`, termination event, background tasks | `start`, `stop`, `apply_active` | hooks of engine and executor | overlapping toggles, stop at any time |
| control endpoints: `service_bus/internal/micro.py`, `control_endpoints.py` | none of their own | decode requests, call the bus, encode replies | Studio, tools | none: sequential |
| node host, registry: `host.py`, `registry.py`, `nodes.py` | node objects | build nodes for a graph, register and detach them | bus, gateway | nodes change under running calls |
| transport: `zenoh_transport.py` | session, publishers, `_retained` | publish, retained put, get and watch, query | zenoh | threads, lost sessions |
| deployment client: `f8pystudio/bridge/rungraph_deployer.py`, `rungraph_deploy_evidence.py`, `rungraph_deploy_flow.py` | one coroutine and one evidence task per call | `deploy_runtime_graph`: probe, check, requests, evidence | transport; the service's control endpoint and statuses | retries of what may have been done, late requests, a service that restarts meanwhile |
| service processes: `service_runtime_tools/deploy/process_manager.py`, `supervised_child.py`; `f8pystudio/bridge/process_action_scheduler.py`, `service_lifecycle_controller.py`, `process_lifecycle.py` | tracked processes, pending stops and restarts, stop workers, liveliness caches | start, stop, restart, redeploy, reclaim | operating system, liveliness tokens | three kinds of threads, exits at any time, kills that fail |
| studio bridge: the rest of `f8pystudio/bridge/*` | remote watches, session, deploy state | install the editor's own graph, watch remote state | deployment client, its own bus | two writers of one bus |
| C++ runtime: `f8cppsdk`, `f8cppengine` | the same as the bus, with threads | the same | the same | a second implementation |
| the rest: validation and fingerprint, inventory, monitoring, codec, media transports, operators, media and machine-learning services, Studio's editor, asset cloud, schemas, scripts | | | | data transformation, user interface, devices |

What makes each modelled component correct:

* **Deployment.** Applies never overlap. Every accepted request is given a
  final status, "applied" only for the graph the bus runs at that moment. Newer
  graphs win. No graph becomes undeployable (an in-flight entry without a
  worker would swallow every later request for it).
* **Deployment client.** A reported success is true, of the instance the caller
  meant. What an earlier call left on the wire does not undo a later call.
  Every call returns.
* **Command gateway.** A command runs in one loop at a time; while it is busy
  the newest value is kept and run next; no value is run after a newer one.
* **Exec flow.** One worker; triggers in the order they were fired, only along
  the routes they were fired under; an inactive executor is at rest, an active
  one runs its graph.
* **State plane.** A follower never goes back to an older sample; when all is
  quiet fields agree along the edges; no value is swallowed on the way.
* **Data plane.** Nothing of an old graph reaches the buffers of a new one;
  pulls never go back; a queued input is read frame by frame; a value that
  waits for `on_data` is called or overtaken.
* **Service processes.** A service has one process; a pending stop is looked at
  until it ends; a restart waits for the old process.

## 2. Modules

| module | models | abstract or composed with |
|---|---|---|
| `RungraphDeploy` | deployment on one bus, with `stop` | implements `DeployPromise` and `DeployQueue` |
| `DeployPromise` | what a service promises to those who deploy to it | - |
| `DeployQueue` | a service as those who call it see it: a queue of graphs | - |
| `DeployClient` | the editor's calls, the wire, and a service that crashes | its service is `DeployQueue` |
| `CommandDispatch` | `dispatch_hidden_input` for one command | - |
| `ExecFlow` | trigger queue, worker, `apply_rungraph`, `set_active` | driven by a deployer and by calls of `apply_active` |
| `StateSync` | `publish_state` and the watches of several services on one graph | - |
| `DataInput` | input buffers, `pull_data`, the `on_data` queue, `replace_routes` | - |
| `ServiceProcess` | one service's process: manager, scheduler, stop workers, lifecycle controller | - |
| `...Proofs` | the theorems on the module it is named after | - |
| `MC...` | model values, graph shapes and plans for TLC | - |

Definitions whose comment begins with "Mistake:" are plausible bugs in the
definition that follows them. They belong to no specification: each is put in
the place of its neighbour to see that a property notices the difference.

### RungraphDeploy

A graph *is* its deploy fingerprint: two graphs are the same model value
exactly when `build_rungraph_deploy_fingerprint` gives them the same string.

| variable | code |
|---|---|
| `life` | how far `stop` has come: `running`; `gathering` (awaiting the cancelled tasks); `draining` (control endpoints still there); `closed` |
| `reqFp`, `aliases` | `_rungraph_req_fingerprints`, `_rungraph_inflight_aliases` |
| `locked`, `waiters` | `_rungraph_apply_lock` and its FIFO |
| `pc`, `snapshot` | where each worker task is; the aliases the lock's holder found |
| `graph`, `fingerprint`, `kv` | `_graph`, `_rungraph_fingerprint`, the retained `config/rungraph` sample |
| `pubs`, `status` | publication tasks not yet done; the retained status of each request |
| `attempt`, `final`, `told`, `newest` | history: submissions, answers, graph of the newest worker that was not rejected |

`submit_rungraph` has no await, so it is one action, split by its outcome:
`SubmitAlreadyApplied` (the fingerprint matches and `force` is not set),
`SubmitAlias` (the graph is in flight), `SubmitNew`. A worker goes through
`Acquire`, then `Reject` (validation raises before anything changed) or
`Install` (graph and routes replaced), then `WireFails` (a subscription or a
watch raises) or `Wired`, which sets the fingerprint, `Persist` (the config is
put) and `Complete`. `EncodeFails` and `PutRaises` are errors after the
fingerprint moved, of the encoding and of a put that raises what
`rungraph.py:280` does not catch: the requests are told "failed" although the
bus runs and reports the graph, and whoever submits it again is told "applied".
Leaving pops the aliases of its graph and schedules a final status for each.
Publications are tasks of their own and take effect in any order (`Publish`) or
not at all (`PublishFails`). `StopBegin`, `Unwound`, `StopGathered` and
`StopClose` are `stop`: it cancels every tracked task, awaits them once,
forgets whatever was created meanwhile, and only then takes the endpoints down.

### DeployPromise

The same service without locks, workers and samples. Requests are *owed* an
answer; the service may `Switch` only to a graph somebody asked for; `Answer`
tells everybody who waits for a graph how it went (`Says`), nobody of another
graph, and "applied" only while the service runs it. "failed" may be said of any
graph, even of the one that runs. `Close` may tell those who wait for
one graph "failed", and `LeftOver` covers tasks that survive the stop. The
refinement mapping (`Promise` in `RungraphDeploy`) takes `owed` to be the
requests whose newest attempt has no final status, and `running` to be
`_rungraph_fingerprint`.

### DeployQueue

What a client may see of a bus: the graphs in line (`queue`), the requests each
of them will answer (`waiting`), how far the first one is (`stage`), and the
fingerprint reported. `Enqueue` is `submit_rungraph` for a graph that is not
reported already; `Apply`, `PutConfig` and `Answer` are the steps of the worker
that holds the lock, `ApplyFails` a worker that raises before the fingerprint
moves and `InstallFails` one that raises right after. `Leave` and `Restart`
are the process ending and coming back. `RungraphDeploy` implements it (`Queue`
and `ServesInTurn` there): the queue is the graph of the worker inside
`set_rungraph` and those of `waiters` behind it, `waiting` is
`_rungraph_inflight_aliases`, and a bus that stops shows nothing any more.

### DeployClient

Calls of `deploy_runtime_graph` to one service, each made once. A call's
request id is the call itself.

| variable | code |
|---|---|
| `pc` | where the coroutine is: `probe` (`_wait_control_endpoint_ready`), `check` (`_status_endpoint_has_target`), `send`, `ack` (inside `transport.request`), `await` (the evidence task) |
| `want`, `force`, `expect`, `sent`, `result` | the graph, `force_apply`, `expected_runtime_instance_id`, attempts made, what the call returned |
| `evidence` | the `_wait_target_evidence` task: what it found, and whether it still stops its watches |
| `inbox`, `mail`, `config`, `reply` | requests, "applied" statuses, config samples and answers to status queries on the wire |
| `up`, `inst`, `fingerprint`, `queue`, `waiting`, `stage` | the service: alive, `_runtime_instance_id`, `_rungraph_fingerprint`, the graphs in line for the apply lock, their aliases, how far the first one is |
| `had`, `late`, `last`, `borrowed` | history, see below |

The coroutine and its evidence task are two processes that meet at `Finish`.
The task knows its result before it ends, since it awaits the end of its
watches (`Decided`, `StopWatches`), so a call may make one more request in
between. `StatusAnswered` is the service's answer to a status query; it may be
out of date when the call sees it (`CheckFinds`, `PollFinds`) or come too late.
An empty `runtimeInstanceId`, after which a forced call would accept any
instance, is left out: `micro.py:215` always sends the id, which
`runtime.py:197` makes. `Send` may lose the request; `AckTimesOut` may strike
while the request is on its way, after it was accepted, or never, so a request
may be handled after its call gave up, or twice. A reply is heard only while
its attempt is awaited. A status or sample may arrive at any time after it was
sent or not before the deadline, which is how it gets lost. `Crash` takes the
fingerprint, the queue, the requests and the statuses retained for watches to
come; `Restart` is a new instance with the same service id.

The service is an instance of `DeployQueue` (`Service`): the service's actions
are the steps of that module by construction, and add what goes over the wire.
Statuses other than "applied" are left out, since a call only uses them to word
its error.

### CommandDispatch

One command of one node id. A value is the number of its arrival. `cur` is the
dispatch state in `_dispatch_states`; a loop keeps the object it started with
(`held`) even when `refresh_bindings` drops it, so `running`, `pending` and
`latest` are indexed by dispatch state. `DispatchFirst` starts a loop,
`DispatchBusy` leaves a value for it, `HandlerReturns`, `HandlerFails` and
`OutputDone` end an invocation, the last two followed by the loop's next look
at `pending` (`LoopEnd`). `OutputFails` is a writeback that raises: `invoke`
catches and reports it and the loop goes on, the output not being written
(`unanswered` notes the value). `Register` and `Detach` stand for the node
registry. `Cancelled` is `CancelledError` in the caller, which the loop's
`except Exception` does not catch.

### ExecFlow

Graphs and triggers are numbered in the order they come. `Fire` is
`trigger_exec_nowait` and `trigger_exec` up to its wait for the trigger to
leave; `Take`, `Finish`, `Crash`, `Unwound` and `Swallow` are the worker.
Controllers are the calls that may be awaiting inside the executor: one
`Deployer`, since deployments hold the apply lock, and `Togglers`, the calls of
`apply_active`, which no lock keeps apart. One entrypoint stands for all of a
graph's.

| variable | code |
|---|---|
| `bus`, `active`, `graph`, `routes` | `bus.active`; `_active`, `_graph`, `_exec_out` of the executor |
| `ctx`, `live`, `mine` | the context registered in `_entrypoint_ctx_by_node_id`; the contexts whose tasks run; the context each controller is starting |
| `queue`, `task`, `wstate`, `on` | `_trigger_queue`, `_trigger_worker_task`, what each worker task does and with which trigger |
| `pc`, `waitFor` | what each controller awaits: the worker it cancelled (`cancel`, `undoCancel`), the entrypoint's stop (`sources`, `undoSources`), its start (`start`), the end of its tasks after a start that failed (`failing`) |
| `deaf`, `begun`, `mishap` | history, see below |

`Failures` lists what node code may do. `crash`: `on_exec` raises what the
executor does not catch. `cleanup`: a cancelled `on_exec` awaits something
before it ends. `swallow`: it then returns, or raises an error that is caught
(`exec_flow.py:522`), so the cancellation is lost, the worker takes the next
trigger and the operation that cancelled it waits on. `start`: an entrypoint is
not registered or is no entrypoint (`RefuseStart`), or `start_entrypoint`
raises; what the executor catches is undone (`StartFails`, `StartUndone`), where
line 375 forgets whichever context is registered, and what it does not catch is
not (`StartRaises`). `late`: the entrypoint makes its tasks only after an await,
by which time its context may have been stopped (`StartedLate`). `stop`:
`stop_entrypoint` raises what is not caught (`StopFails`). The entrypoints of
`f8pyengine` (`tick`, `udp_in`, `state_trigger`, `lovense`) await nothing in
`start_entrypoint`, so `late` stands for entrypoints that others write.

### StateSync

Fields of all services on one deployed graph. `Fan` holds the state edges
within a service in route order, `Peer` the field of another service that a
field follows; validation allows a field one upstream at most
(`SingleUpstream`). A task is a writer or the pump of a watch, named by the
field it feeds. `todo` is the stack of fields a task still has to publish: the
recursion of `publish_state` through `_route_intra_state_edges`, innermost
first. `publish_state` is `Reject`, `Dedupe`, `Put` (the sample is recorded as
retained and handed to a thread), `Send` (the thread puts it on the wire;
threads are not ordered), `PutFails`, `Deliver` (cache set, `on_state` called)
and `FanOut`. A watch is `SkipOld`, `Receive`, `Check`, after which the sample
runs through `publish_state` as a write of the following field, and the time
stamp is recorded when that returns.

### DataInput

Inputs of one service under the deliveries of its own nodes and of other
services. A value is the number of its emission. A buffer belongs to the graph
it was made under, since a pull keeps the object it found (`pull[p].of`) while
`Deploy` replaces routes and buffers. `origin` is history: the graph and the
port each value came from, and the inputs that had asked for it by a pull which
a deployment overtook. `Emit` is `emit_data` or a message from
another service, whose sample may be too old for a timed edge. `Pull` returns
at once or waits for `compute_output` of the node upstream; `Computed` delivers
the result under the routes of that moment, `PullInVain` returns without one.
`Flush` is the flush task: of a batch it calls `on_data` with the newest value
of each input, and drops the batch when the bus is inactive.

### ServiceProcess

One service, POSIX, supervision mode `studio_owned`. `proc` is what the
operating system runs (`orphan`: the service outlived its supervisor), `entry`
what the manager tracks, `tokens`, `seen` and `fresh` what the caches know,
`action`, `future`, `timer` and `ui` the scheduler on the Qt thread, `job` a
stop once in each thread that may run it, `task` the coroutines of starts,
restarts and redeployments. `Look` and `Drop` are the two halves of
`is_running`, which polls a process and then pops whatever is tracked.
`QueryFails` is a liveliness query that fails, whereupon whoever asked gives
up; `PollTooEarly` covers a poll that finds its future cancelled, which changes
nothing. `Terminate` kills in one step; the code skips the studio's own process
group and lets a supervisor end when its child is gone. Deadlines are open:
what waits for one may go on at any time.

## 3. Runs

| run | module, cfg | checks | bounds and why they are enough |
|---|---|---|---|
| `deploy` | `RungraphDeploy_runs` | `TypeOK`, `ApplyExclusive`, `TurnComes`, `NewestWins`, `KeepsPromise`, `ServesInTurn`, `EverySubmissionAnswered` | two requests for two graphs (one applied while the other joins it or queues behind it), every failure, `stop` anywhere; every safety property of the run is also proved for any number of requests and attempts |
| `deploy_kv` | `RungraphDeploy_kv` | `KvIsRunning`: **violated** | as above, only wiring fails |
| `client` | `DeployClient_runs` | `TypeOK`, `SuccessIsHonest`, `LastCallWins`, `CallsEnd` | two calls with two requests each, two instances of the service; three plans: forced meets unforced for another graph, which the service has from before, and for the same; one graph cannot be decoded |
| `command` | `CommandDispatch_runs` | `TypeOK`, `OneLoop`, `NewestIsKept`, `RunsInOrder`, `OutputAnswersLatest`, `EveryValueRuns` | three callers, four values, two registrations (two dispatch states alive at once), failing handlers and writebacks, cancelled callers |
| `command_cancel` | `CommandDispatch_cancel` | `KeepsLatest`: **violated** | cancellation |
| `exec` | `ExecFlow_runs` | `TypeOK`, `NoStrayWorker`, `QueueIsCurrent`, `InactiveIsQuiet`, `ActiveIsRunning`, `FifoOrder`, `TriggersLeave` | two worker tasks at a time (one known, one being awaited), two overlapping toggles and a deployment, two contexts at a time, two graphs, two triggers, every failure; the theorems hold for any number of each |
| `exec_serial` | `ExecFlow_serial` | `Serialized`: **violated** | slow cancellation |
| `state` | `StateSync_runs` | `TypeOK`, `StoreMatchesCache`, `DownstreamAgrees`, `AppliedInOrder`, `ValuesArrive` | two writers, three writes, a field followed by another service's field with a fan-out, rejections and failing puts |
| `state_lww` | `StateSync_lww` | `ObserversConverge`: **violated** | two writers, no failure |
| `data` | `DataInput_runs` | `TypeOK`, `BuffersFollowRoutes`, `NeverBackwards`, `FrameByFrame`, `WaitingIsFlushed`, `CallbackOrder` | two inputs (one queued, one timed), a local and a remote port in three wirings (an input without a source among them), two pulls at a time, queues of two, three values (so that a queue overflows), a redeployment from any wiring to any |
| `process` | `ServiceProcess_runs` | `TypeOK`, `OneAlive`, `PendingIsPolled`, `LeftIsOrphan`, `PendingEnds` | three requests of any kind, two coroutines, two stop workers, two processes (the old and its successor) |
| `process_reclaim` | `ServiceProcess_reclaim` | `ReclaimEnds`: **violated** | as above |

`CHECK_DEADLOCK FALSE` is set everywhere: once the bounded submissions, values,
triggers or writes are used up and all tasks are done, the system rests.

Bounds named in guards: `MaxAttempts`, `MaxCalls`, `MaxNodes`, `MaxTriggers`,
`MaxGraphs`, `MaxContexts`, `MaxWrites`, `MaxValues`, `MaxProcs`,
`MaxRequests`, `MaxInst`, and `Workers`, the number of worker tasks that exist
at the same time (a task that is over and no longer referred to is reused).
`MaxSends` is no bound but the code's `request_attempts`. No run has a state
constraint.

### Preconditions and the history they rest on

Where the code keeps a promise only under a condition, the condition is a
history variable, so that one run has all behaviours and the property says when
it holds. None is the negation of what the property claims: each names an event
that happened earlier.

* `NewestWins`: `newest` falls back to the graph installed when a rejected
  worker leaves nobody waiting.
* `OutputAnswersLatest` and `EveryValueRuns` hold while the node was not
  registered anew and no loop was cancelled (`Undisturbed`); the output of the
  value run last may be missing because its handler raised or its writeback
  failed (`unanswered`). `NewestIsKept` excepts a cancelled loop alone
  (`Abandoned`).
* `InactiveIsQuiet` and `ActiveIsRunning` speak of moments without an operation
  in progress. `mishap` is the worst that has happened: `Rough`, an entrypoint
  that was refused or failed to start, or overlapping toggles; `Stray`, a
  context that runs on without being registered; `Abort`, an error that ended a
  worker or an operation half-way. `ActiveIsRunning` excepts all three.
  `InactiveIsQuiet` excepts only `Abort`: however toggles overlap, starts fail
  and cancellations are answered, an inactive executor has no trigger, no live
  worker and no registered context; that no context runs at all excepts
  `Stray`.
* `NoStrayWorker` excepts a worker that swallowed its cancellation (`deaf`), and
  only while the operation that cancelled it waits for it.
* `TriggersLeave` says that again and again no trigger is queued or being
  propagated. Triggers are bounded, so each leaves; unless an error ended a
  worker or an operation (`Abort`).
* `StoreMatchesCache`, `DownstreamAgrees` and `ValuesArrive` speak of fields
  with one writer (`SoleWriter`: one writer so far, of fields that no edge
  leads to); `missed` are fields whose last publication was rejected or failed,
  which the code does not roll back.
* `BuffersFollowRoutes` says that a buffer holds values of the port that feeds
  its input now. What a pull asked for under an older graph is delivered to the
  inputs the port feeds by then; only if there are none, to the pull's own
  input (`Takers`). The property allows it there if the input had asked for it
  (`asked` in `origin`) and no port feeds the input now. `FrameByFrame` excepts
  a pull that found a buffer without its edge (`blind`), which acts as a pull
  of the latest value, and lets values be left out where a queue overflowed
  (`gaps`).
* `OneAlive` excepts a process that was tracked when the start looked for
  others (`hidden`), `LeftIsOrphan` one that a thread dropped for its
  predecessor (`slips`), `PendingIsPolled` and `PendingEnds` a cancel of the
  event loop's thread in the middle of a scheduling (`crossed`).
* `SuccessIsHonest`: a call is right if the service had its graph during the
  call, a forced call if the instance it probed applied it during the call
  (`had`), or if its request joined an apply that was over but for the answer
  (`late`): `submit_rungraph` adds a forced request to the aliases in flight
  and no second apply is made for it.
* `LastCallWins` is about a call made while no other was open (`last`) on a
  service that did not crash since. Two cases are excepted (`borrowed`). A call
  may be content with the fingerprint it sees while another graph is under way:
  it returns success, sends nothing, and the service goes on to that graph. And
  a call may join the apply of its graph in flight while another graph is
  queued behind it: `submit_rungraph` adds it to the aliases of the older
  entry, it is answered "applied" with them, and the graph queued in between is
  installed over it. That takes three calls, two of which gave up with their
  requests still on the wire (A, then B, then A again), so the run with two
  calls does not meet it; the attempt to prove the property did.

### Fairness

Weak fairness goes to what runs by itself once it was started; an event loop
runs every ready task, threads run, timers strike. The awaits in question are
puts with a time-out or calls of node code that is assumed to return.

* `RungraphDeploy`: workers, publications and the rest of a `stop` that began.
* `CommandDispatch`, `ExecFlow`, `StateSync`: the loop of a command; the exec
  worker and the operations under way, which node code lets go on in one of the
  ways `Failures` allows; publications and pumps.
* `ServiceProcess`: Qt thread, coroutines, stop workers, expiry of tokens and
  caches. `StopProcess` and `Terminate` of a worker are strongly fair: the
  scheduler tries a stop again every second until it succeeds, and an attempt
  that fails each time for ever would be a process that cannot be killed. A
  process never has to exit by itself.
* `DeployClient`: the coroutine and the evidence task of each call. Its
  deadline is fair by itself: it is looked at in every round of the evidence
  loop, so polls that find nothing cannot put it off. Nothing is assumed of the
  service or of the wire: `CallsEnd` holds if neither ever answers.
* `DataInput` has safety properties only and no fairness.

Nothing is assumed of those who submit, write, trigger, toggle, stop or ask,
and no failure is fair.

### What the violated runs show

* `deploy_kv`: `apply_rungraph` replaces `bus._graph` before it wires routes
  and watches. If wiring raises, the bus is left with the new graph, while
  `_rungraph_fingerprint` and the retained config keep the old one, against
  what `set_rungraph`'s docstring calls its invariant. Resubmitting the old
  graph is then answered "applied" without anything being done.
* `command_cancel`: a caller cancelled inside the dispatch loop leaves
  `running` set. Every later value is marked pending and never run. A redeploy
  cancels the exec worker whose node wrote the field.
* `exec_serial`: `_stop_trigger_worker` forgets the task before awaiting it. A
  trigger fired while the cancelled `on_exec` cleans up starts the next worker,
  so two propagations overlap, against the docstring's "serialized".
* `state_lww`: the cache is set in the order puts return, the wire carries
  samples in the order threads put them. With two writers, the owner's value
  and the followers' may differ for good, against the deep dive's "observers
  converge".
* `process_reclaim`: `reclaim_service` schedules the fall-back kill and then
  calls `unmanage_service`, which cancels it. A service that does not act on
  the terminate command keeps running, against `stop_service`'s "Poll for
  graceful exit, then fall back to local kill-tree".

### Also seen while modelling

These have no run of their own, either because no text in the repository
promises otherwise or because another run shows the same cause.

* The retained status of a request may end with an earlier phase than the last
  one: publication tasks overtake each other (`runtime.py:888`). Someone who
  watches sees every phase; someone who reads the key late may see "applying".
* `stop` answers only those who wait for the graph being applied; requests that
  were queued for the lock get no final status.
* A request may be told "failed" although the bus runs its graph and reports it
  (`EncodeFails`, `PutRaises`); submitted again, it is told "applied".
* A deployment may return success although the service is about to replace its
  graph (`borrowed` above), and a forced one although no apply began during the
  call (`late`).
* `_retained_config_sample` asks for what the session itself has put, so with
  zenoh it never yields evidence; the watch does.
* Two overlapping calls of `apply_active` (`lifecycle.py:140`) may leave the
  executor with the older flag, or active without its entrypoint. So may an
  entrypoint that is not registered: `KeyError` (`exec_flow.py:351`) is not
  among the errors `apply_rungraph` recovers from, the executor stays active
  with its worker and starts nothing. `_sync_exec_nodes` of `f8pyengine` may
  unregister nodes before the graph is applied.
* When a start fails while toggles overlap, the undo forgets whichever context
  is registered (`exec_flow.py:375`); another toggle's runs on (`Stray`) until
  its own tasks end.
* An `on_exec` that swallows its cancellation (`exec_flow.py:522`) leaves
  `_stop_trigger_worker` waiting for as long as that worker lives, and with it a
  deployment that holds the apply lock. The deaf worker meanwhile takes triggers
  beside the new one.
* `_stop_trigger_worker` (`exec_flow.py:414`) and a watch's unsubscription
  (`zenoh_transport.py:70`) catch `CancelledError`; a worker of the bus that
  `stop` cancels just there runs on. `RungraphDeploy` has it end, as everywhere
  else.
* After `refresh_bindings` dropped a dispatch state, the loop of the old one
  may run a value after the new one has run a newer one. `RunsInOrder` is
  stated per dispatch state for that reason.
* A propagation that is under way when a deployment cancels its worker goes on
  until its next await; with a slow cleanup it ends under the new graph.
* A pulled input with `timeoutMs` whose newest sample is too old stays silent
  until something is emitted: `pull_data` returns before it asks the node
  upstream (`service_bus/data/router.py:447`).
* `manager.stop` kills the supervisor 0.4 s before the supervisor's own grace
  ends, so a service may be left without a supervisor and the stop reported as
  done; the next start finds it by its command line.

## 4. Proofs

`tlapm` checks every theorem for all values of the constants that satisfy the
modules' named assumptions. Each is an invariance argument: type correctness
first, then a strengthening that is inductive, proved action by action.

**RungraphDeployProofs.** `TypeCorrect`; `ApplyIsExclusive`;
`AliasesAlwaysHaveWorker`; `OwedAlwaysInFlight`; `AppliedHonest`;
`PromiseKept`, the refinement of `DeployPromise`; `NewestIsInstalled`
(`NewestWins`). `ApplyExclusive` is inductive with types alone, since a worker
becomes critical only by taking a free lock. For the aliases one needs in
addition that a task exists only for an attempt that was made and whose request
is bound to a graph (`TasksSubmitted`, `RequestsBound`), and that the lock's
holder knows what it holds (`HolderKnows`: its snapshot has requests of its own
graph only, and the fingerprint is its graph's from `Persist` on). Then popping
an entry answers exactly those who wait for that graph, which is the step
`Answer` of the promise. For `NewestWins` the FIFO of the lock has to be known:
every queued worker is in `waiters` (`WaitersQueued`), and `newest` is the
graph of its last element, or of the holder, or the one installed
(`NewestKnown`). `WorkersAreSingle` (`OneWorkerEach`, which no run repeats)
says that on a running bus a graph in flight has one worker, and that a worker
finds its entry when it leaves, so the snapshot that `pop` falls back to is
never used. The failures after the fingerprint moved are `Answer` with "failed"
of the promise, and `InstallFails` or `Answer` of the queue. `TurnsKept`
(`ServesInTurn`) is the refinement of `DeployQueue`: a submission appends to
the queue because the new task is last in `waiters`; `Acquire` is a stutter,
since the task moves from the head of `waiters` to the place before it; each
further step of the lock's holder is the queue's step of that name.
`BusKeepsLine` takes what `DeployQueueProofs` proves of every such service back
to the bus: its line has no graph twice and nobody waits without a turn. With
it `TurnAlwaysComes` (`TurnComes`) is the safety half of
`EverySubmissionAnswered`: while the bus runs, whoever is owed an answer has a
task in the line, and its first task can go on: the lock is held by it or is
free. What is left to TLC is that tasks which can go on do. The run submits
each request id once; the theorems hold for any number of resubmissions.

**DeployQueueProofs.** `LineKept`: a graph has one turn for as long as somebody
waits for it (`InLine`), and the graph whose turn it is is reported from its
installation until all are told (`HeadIsReported`). Its lemmas on the queue are
used, instantiated, in `DeployClientProofs`.

**DeployClientProofs.** `TypeCorrect`; `SuccessAlwaysHonest`
(`SuccessIsHonest`), for any calls, plans, number of requests and crashes.
`Known` says what follows from how far a call has come: before its probe is
answered it has sent nothing and is mailed nothing; a forced call past it knows
an instance; a call waits only for its own graph. `Sound` says that whatever it
sees or may yet see is right: a fingerprint that matches, an "applied" status
from an instance it accepts, a config sample. The case that matters is the
apply that is done and not yet answered: its waiters are right because they
were there when it happened, or are `late`. `LastCallPrevails` (`LastCallWins`)
is about what earlier calls left behind. A call made while no other is open
sends its requests after theirs, and both the wire and the queue keep the
order: so nothing on the wire follows a request of the last call (`Latest`),
whoever finds its own graph last in the queue has nothing behind it (`InLine`
of `DeployQueue`: a graph is in the queue once, for as long as somebody waits),
and what convinces the call, a status, a sample or a fingerprint, is `Settled`:
neither a request nor a graph in the queue will put another graph in its place.
The client's steps move the service only as `DeployQueue` does, since they are
written with its actions. With `TurnsKept` this ties the client to the bus: for
as long as a bus runs, the service the client's theorems are about may be one
made of workers, a lock and in-flight entries. That a bus which ended comes
back (`Restart`), perhaps with a graph (`Init`), is the client's model alone.

**CommandDispatchProofs.** `TypeCorrect`; `AlwaysOneLoop`; `LatestAlwaysKept`;
`RunsForward`; `LatestIsAnswered` (`OutputAnswersLatest`), while `Undisturbed`
and unless the last run raised or its writeback failed.
The strengthening says that nobody holds a dispatch state that is not made yet
(`Created`), that a dispatch state was last run with a value no newer than its
latest, and older when it is pending (`Ordered`), and that a caller is inside
`invoke` or `write_output` exactly while it holds a dispatch state (`InLoop`).
For the last one there is one dispatch state at most, which remembers the
newest arrival (`Single`). `NewestAlwaysKept` (`NewestIsKept`) needs no such
calm: however often the node comes and goes, the newest value written to the
node of now was run last, or a loop of its dispatch state has it pending.
`LoopsEndUpToDate` (`EndsUpToDate`) is the step where it could go wrong: a loop
that ends has run the newest value, or its node is gone. Both rest on `KInv`: a
loop's value is the last one its dispatch state was run with (`RunIsArg`), and
while nothing is pending that is the newest (`UpToDate`).

**ExecFlowProofs.** `TypeCorrect`; `NeverAStrayWorker` (`NoStrayWorker`);
`QueueAlwaysCurrent` (`QueueIsCurrent`); `TriggersInOrder` (`FifoOrder`), for
any number of toggles, workers and contexts and any failures of node code. The
invariant `IInv` has three parts. Workers (`WorkersKnown`): a cancelled worker
that has not ended is awaited by some operation (`EndsAwaited`), whom an
operation awaits is over, ending or deaf (`AwaitedEnds`), and a worker task is
used again only when nobody refers to it. Contexts (`SourcesKnown`): only the
registered one runs, until a start leaves another behind. The queue
(`QueueOrder`): sorted, newer than the trigger propagated last, and no newer
than the last one fired. `Places` says where an operation can be. All steps of
the controllers share one lemma (`SteppedIInv`): an operation drains the queue
whenever it changes the routes, and starts a worker only when none is alive.
`QuietWhenInactive` (`InactiveIsQuiet`) rests on `RestInv`: an inactive
executor has no worker, and while it still has a context or triggers some
`set_active` has yet to stop or drain them (`StopGoesOn`); each step of an
operation is `Tidy`. `RunsWhenActive` (`ActiveIsRunning`) rests on `Orderly`:
without a mishap at most one toggle is in progress, nothing is undone, the
executor follows the bus, and an active one has the routes of its graph, a
context and a worker, except while a deployment replaces them; each step is
`Neat`. `NobodyWaits` (`NobodyWaitsInVain`) is the safety half of
`TriggersLeave`: a trigger in the queue has a live worker or an operation that
will drain it, unless an error ended one, and the worker an operation awaits
has ended, is ending or swallowed its cancellation. The docstring's
"serialized", which the run `exec_serial` refutes, is true up to its cause:
`SerializedOtherwise` says that two triggers are propagated at once only while
an operation still awaits the worker of one of them, which it cancelled
(`SerializedButForCleanup`), and `SerializedWithoutCleanup` that `Serialized`
itself holds if no `on_exec` outlasts its cancellation.

**StateSyncProofs.** `TypeCorrect`; `AppliedForward` (the property
`AppliedInOrder`), for any graph of state edges, any number of writers and any
failures. `lastTs` is read when a sample is received and written when its
publication returns, so it may fall behind `applied` in between; the invariant
says when: only after the delivery to the pump's own field (`Delivered`), and
then the sample it works on is as new as `applied`. That a pump publishes its
own field only once rests on `SingleUpstream`: fan-outs lead to fields that
follow nothing (`FanIsLocal`). `NewcomersSeeTheCache` (`StoreMatchesCache`) and
`EdgesCarryValues` (`EdgesAgree`, for the two ends of one edge) need more of
the graph: a field has one upstream at most, within the service too
(`SingleFan`, which `rungraph_validation.py` checks), so that with one writer
two tasks never publish the same field. Then what a task puts on a field is
what the retained sample has until it is delivered (`PutIsRetained`,
`DeliveredIsCached`, `StoreFollows`), and a field agrees with those its fan-out
leads to unless a task has them on its way (`OnWayAgrees`, `FanAgrees`). Across
services one follows the newest sample for a follower, wherever it is: in the
writer's put, on the wire, in the follower's pump or in its cache. The wire is
sorted and behind its writer (`OrderInv`), so no sample is ever skipped as old
(`NoneSkipped`), and a sample taken for a duplicate is one (`PeerAgrees`).
`ValuesCarryDownstream` (`DownstreamAgrees`) carries this to every field a
value leads to, over any number of edges. `Downstream` is a closure, the
intersection of all sets that the edges do not leave; so the proof needs no
induction on paths, only that the fields with the value of the first are such a
set. `NewsIsUnderWay` (`BehindHasNews`) speaks of the time between: a field
behind the one it follows has a sample on its way, which is the safety half of
`ValuesArrive`.

**DataInputProofs.** `TypeCorrect`; `DataFollowsRoutes` (`BuffersFollowRoutes`);
`PullsForward` (`NeverBackwards`); `NothingLeftWaiting` (`WaitingIsFlushed`);
`CallsInOrder` (`CallbackOrder`), for any inputs, wirings and number of pulls.
Values are numbered by emission, so all rests on buffers and queues being
sorted and older than the next value, and on what was given being no newer than
what the buffer holds; the work is in the step where a pull of one graph
delivers under the routes of another. There `DataFollowsRoutes` needs that the
inputs that take the value (`Takers`) are those its port feeds now, or the one
that asked, and that every value in a buffer of the deployed graph keeps where
it came from (`Own`). `PulledFrameByFrame` (`FrameByFrame`)
adds that what was given, followed by the queue, is a sorted list of values
taken, and of all of them until the queue overflows (`Frame`): appending to the
queue keeps that, moving its head to the given ones keeps it, and a full queue
that drops its head keeps the order (`PartTail`), so that even then no frame is
given twice.

**ServiceProcessProofs.** `TypeCorrect`; `PendingPolled` (`PendingIsPolled`);
`OneProcess` (`OneAlive`); `Tracked` (`TrackedUnlessSlipped`, which no run
repeats); `RestartWhenDown` (`LeftIsOrphan`), for any number of threads,
coroutines, processes and requests. `OneAlive` needs that the event loop's
sections exclude one another and that between the look for other processes and
`Popen` only processes in `hidden` can be alive; `LeftIsOrphan` follows from it
and from processes only moving onward (`Onward`).

Only model-checked: everything under fairness (`EverySubmissionAnswered`,
`CallsEnd`, `EveryValueRuns`, `TriggersLeave`, `ValuesArrive`, `PendingEnds`),
since liveness is out of the prover's reach. Every other property of a passing
run is a theorem. Some properties are in no run and stated for a theorem alone:
the steps to those of a run (`AliasesHaveWorker`, `OwedIsInFlight`,
`OneWorkerEach`, `AppliedIsHonest`, `LatestIsKept`, `EdgesAgree`,
`TrackedUnlessSlipped`), and what says more of a property of a run, or of one
that fails (`EndsUpToDate`, `NobodyWaitsInVain`, `SerializedButForCleanup`,
`BehindHasNews`).

## 5. Not modelled

* **Cross-state watches during redeployment** (`sync_cross_state_watches`, the
  initial sync): `StateSync` starts when watches are up. Planned.
* **Direct calls of `set_rungraph`** by the editor's own bus
  (`f8pystudio/bridge/studio_runtime_flow.py:43`) take no lock. Nothing is
  submitted to that bus, so only two overlapping compilations could interleave;
  that depends on the editor's task handling.
* **The status waiter** (`service_runtime_tools/deploy/readiness.py`) is used
  by tests only; the editor has the tracker that `DeployClient` models.
* **Details of the modelled planes.** `StateSync`: time stamps given by the
  caller, a clock that goes back, and the fan-out of a field whose node has been
  unregistered, which ends at once. `DataInput`: the context of a local
  emission, and the cap of the buffer dictionary.
* **Detached supervision and Windows** in the process manager;
  several services at once (their states are disjoint).
* **The C++ runtime** is a second implementation with threads; the models here
  say nothing of it.
* **Pure functions** over graphs (validation, fingerprint, route building):
  data transformations; the models take their results as inputs.
* **Transport, codecs, media, operators, user interface, tools**: external
  libraries, numeric code, devices and widgets. They are most of the
  repository's lines.

## 6. Plan

1. *Done*: deployment with its promise, its client and proofs; command
   dispatch, exec flow, state plane, data plane and service processes with
   proofs.
2. `StateSync` with redeployments: watches that come and go, initial sync.
3. `ExecFlow` composed with `RungraphDeploy`: the hooks called with the apply
   lock held.
4. `DeployQueue` with restarts of the bus: `RungraphDeploy` begins with an empty
   fingerprint and ends with its `stop`.
5. The C++ service bus and executor.
