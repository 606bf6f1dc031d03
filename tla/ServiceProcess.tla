--------------------------- MODULE ServiceProcess ---------------------------
(***************************************************************************)
(* The process of one service that the studio started: the manager that    *)
(* tracks it, the scheduler of pending stops and restarts, the lifecycle   *)
(* controller that starts, stops, restarts, redeploys and reclaims, and    *)
(* the caches that say whether the service runs.                           *)
(*                                                                         *)
(* Three kinds of threads share this state: the Qt thread Ui (requests,    *)
(* timer polls, refreshes), the event loop's thread Loop (a task runs      *)
(* alone between two awaits, but only among tasks), and the Workers that   *)
(* stop processes.  Deadlines are left open: what waits for one may go on  *)
(* at any moment.  Supervision mode is studio_owned, on a POSIX system.    *)
(*                                                                         *)
(* slips, hidden, crossed, left and reclaimed are history.                 *)
(***************************************************************************)
EXTENDS Naturals, FiniteSets

CONSTANTS
  Ui, Loop,    \* the Qt thread and the event loop's thread
  Workers,     \* threads of the scheduler's executor
  Tasks,       \* coroutines submitted to the event loop
  None,        \* no process, no worker
  MaxProcs,    \* bound: processes started
  MaxRequests  \* bound: requests of the user

Threads  == Workers \cup {Ui, Loop}
Stoppers == Workers \cup {Loop}
Procs    == 1 .. MaxProcs

ASSUME ThreadsAssumption == Ui # Loop /\ {Ui, Loop, None} \cap Workers = {}
ASSUME ProcsAssumption == MaxProcs \in Nat \ {0} /\ None \notin Procs
ASSUME RequestsAssumption == MaxRequests \in Nat

VARIABLES
  proc,      \* what the system runs of each process
  entry,     \* manager._procs: the process tracked for the service
  cleaning,  \* threads that saw the tracked process exited and will drop it
  tokens,    \* liveliness tokens of runtime instances
  seen,      \* _service_liveliness_instances_by_service
  fresh,     \* _service_alive_cache says alive, less than 0.9 s ago
  action,    \* scheduler._actions
  future,    \* scheduler._stop_futures: the worker that runs the stop
  timer,     \* scheduler._timers has a timer
  ui,        \* what the Qt thread does, and the action it holds
  job,       \* _stop_process_once_worker in each thread that may run it
  task,      \* what each coroutine does
  asked,     \* requests of the user so far
  slips,     \* history: live processes dropped from the manager
  hidden,    \* history: live processes a start missed, for they were tracked
  crossed,   \* history: a cancel of Loop fell into an update of Ui
  left,      \* history: processes alive when a restart took them for stopped
  reclaimed  \* history: processes tracked when the service was reclaimed

system    == <<proc, tokens>>
manager   == <<entry, cleaning, slips>>
caches    == <<seen, fresh>>
scheduler == <<action, future, timer, ui>>
history   == <<hidden, crossed, left, reclaimed>>
vars == <<system, manager, caches, scheduler, job, task, asked, history>>

Actions == {"none", "stop", "restart"}
Jobs    == [at : {"idle", "begin", "wait", "drop", "check", "terminate", "done"},
            of : Procs \cup {None}, ok : BOOLEAN, stopped : BOOLEAN]
Steps   == {"idle", "guard", "signal", "redeploy", "cancel", "waiting", "stopping",
            "settle", "ensure", "query", "status", "start", "track"}

NoJob == [at |-> "idle", of |-> None, ok |-> FALSE, stopped |-> FALSE]

TypeOK ==
  /\ proc \in [Procs -> {"unborn", "up", "orphan", "gone"}]
  /\ entry \in Procs \cup {None} /\ cleaning \subseteq Threads
  /\ tokens \subseteq Procs /\ seen \subseteq Procs /\ fresh \in BOOLEAN
  /\ action \in Actions /\ future \in Workers \cup {None} /\ timer \in BOOLEAN
  /\ ui \in [at : {"idle", "arm", "poll", "after"}, act : Actions]
  /\ job \in [Stoppers -> Jobs]
  /\ task \in [Tasks -> [at : Steps, of : Procs \cup {None}]]
  /\ asked \in 0 .. MaxRequests
  /\ slips \subseteq Procs /\ hidden \subseteq Procs /\ left \subseteq Procs
  /\ reclaimed \subseteq Procs /\ crossed \in BOOLEAN

Init ==
  /\ proc = [p \in Procs |-> "unborn"] /\ entry = None /\ cleaning = {}
  /\ tokens = {} /\ seen = {} /\ fresh = FALSE
  /\ action = "none" /\ future = None /\ timer = FALSE
  /\ ui = [at |-> "idle", act |-> "none"]
  /\ job = [w \in Stoppers |-> NoJob]
  /\ task = [t \in Tasks |-> [at |-> "idle", of |-> None]]
  /\ asked = 0 /\ slips = {} /\ hidden = {} /\ crossed = FALSE /\ left = {} /\ reclaimed = {}

-----------------------------------------------------------------------------
(* The processes, and what is known of them *)

\* The supervisor runs, or only the service it started: its command line
\* names the service too.
Up(p)    == p # None /\ proc[p] = "up"
Alive    == {p \in Procs : proc[p] \in {"up", "orphan"}}
InFlight == {task[t].of : t \in {u \in Tasks : task[u].at = "track"}}

\* A thread that asks is_running first drops a tracked process that exited:
\* its handler goes on from here.
Reaped(h) == h \notin cleaning /\ (entry = None \/ Up(entry))
Running   == Up(entry) \/ seen # {} \/ fresh

\* is_running polls the process outside the lock ...
Look(h) ==
  /\ h \notin cleaning /\ entry # None /\ ~Up(entry)
  /\ cleaning' = cleaning \cup {h}
  /\ UNCHANGED <<system, entry, slips, caches, scheduler, job, task, asked, history>>

\* ... and _cleanup_entry pops whatever is tracked by then.
Popped ==
  /\ entry' = None
  /\ slips' = slips \cup {p \in {entry} : Up(p)}

Drop(h) ==
  /\ h \in cleaning /\ Popped
  /\ cleaning' = cleaning \ {h}
  /\ UNCHANGED <<system, caches, scheduler, job, task, asked, history>>

\* A process exits, asked to or not; one that has a token loses it later.
Exit(p) ==
  /\ p \in Alive
  /\ proc' = [proc EXCEPT ![p] = "gone"]
  /\ UNCHANGED <<tokens, manager, caches, scheduler, job, task, asked, history>>

\* _on_zenoh_service_liveliness
Appear(p) ==
  /\ p \in Alive \ tokens
  /\ tokens' = tokens \cup {p} /\ seen' = seen \cup {p} /\ fresh' = TRUE
  /\ UNCHANGED <<proc, manager, scheduler, job, task, asked, history>>

Vanish(p) ==
  /\ p \in tokens \ Alive
  /\ tokens' = tokens \ {p} /\ seen' = seen \ {p}
  /\ fresh' = (seen' # {})
  /\ UNCHANGED <<proc, manager, scheduler, job, task, asked, history>>

Fade ==
  /\ fresh /\ fresh' = FALSE
  /\ UNCHANGED <<system, manager, seen, scheduler, job, task, asked, history>>

-----------------------------------------------------------------------------
(* Stopping once: _stop_process_once_worker *)

Job(w, fields) == job' = [job EXCEPT ![w] = fields]
Done(w, stopped) == Job(w, [job[w] EXCEPT !.at = "done", !.stopped = stopped])
Stops(w, at) == job[w].at = at

\* manager.stop keeps the process it finds tracked, if any.
BeginStop(w) ==
  /\ Stops(w, "begin")
  /\ Job(w, [NoJob EXCEPT !.at = IF entry = None THEN "check" ELSE "wait",
                          !.of = entry, !.ok = entry = None])
  /\ UNCHANGED <<system, manager, caches, scheduler, task, asked, history>>

\* It exits when asked, or is killed.  A supervisor that is killed before its
\* own grace is over leaves the service behind.
StopProcess(w) ==
  /\ Stops(w, "wait")
  /\ \/ ~Up(job[w].of) /\ UNCHANGED proc
     \/ Up(job[w].of) /\ \E end \in {"gone", "orphan"} : proc' = [proc EXCEPT ![job[w].of] = end]
  /\ Job(w, [job[w] EXCEPT !.at = "drop", !.ok = TRUE])
  /\ UNCHANGED <<tokens, manager, caches, scheduler, task, asked, history>>

\* None of the waits sees it exit.
StopInVain(w) ==
  /\ Stops(w, "wait") /\ Up(job[w].of)
  /\ Job(w, [job[w] EXCEPT !.at = "check"])
  /\ UNCHANGED <<system, manager, caches, scheduler, task, asked, history>>

DropStopped(w) ==
  /\ Stops(w, "drop") /\ Popped
  /\ Done(w, TRUE)
  /\ UNCHANGED <<system, cleaning, caches, scheduler, task, asked, history>>

CheckStopped(w) ==
  /\ Stops(w, "check") /\ Reaped(w)
  /\ IF Running THEN Job(w, [job[w] EXCEPT !.at = "terminate"]) ELSE Done(w, TRUE)
  /\ UNCHANGED <<system, manager, caches, scheduler, task, asked, history>>

\* terminate_service_processes_by_service_id goes by command line.
Killed == [p \in Procs |-> IF p \in Alive THEN "gone" ELSE proc[p]]

Terminate(w) ==
  /\ Stops(w, "terminate")
  /\ \/ Alive # {} /\ proc' = Killed /\ Done(w, TRUE)
     \/ Alive = {} /\ Reaped(w) /\ UNCHANGED proc /\ Done(w, ~Running)
  /\ UNCHANGED <<tokens, manager, caches, scheduler, task, asked, history>>

TerminateInVain(w) ==
  /\ Stops(w, "terminate") /\ Alive # {} /\ Reaped(w)
  /\ Done(w, job[w].ok /\ ~Running)
  /\ UNCHANGED <<system, manager, caches, scheduler, task, asked, history>>

\* The future was cancelled: it is too late for the worker, which runs on and
\* hands its result to nobody.
Abandoned(w) ==
  /\ w \in Workers /\ Stops(w, "done") /\ future # w
  /\ Job(w, NoJob)
  /\ UNCHANGED <<system, manager, caches, scheduler, task, asked, history>>

-----------------------------------------------------------------------------
(* The scheduler, on the Qt thread *)

Cancelled == action' = "none" /\ future' = None /\ timer' = FALSE

Submit(t, at) ==
  /\ task[t].at = "idle"
  /\ task' = [task EXCEPT ![t].at = at]

\* _cache_stopped_service
ForgetCaches == seen' = {} /\ fresh' = FALSE

\* A cancel on Loop is halfway: it took the action and not yet the timer.
Halfway == \E t \in Tasks : task[t].at = "cancel"

\* Mistake: no timer is made, for it is taken to be there.
ScheduleUnarmed(act) ==
  /\ action' = act
  /\ ui' = [at |-> "poll", act |-> "none"]
  /\ crossed' = (crossed \/ Halfway)
  /\ UNCHANGED <<future, timer>>

Schedule(act) ==
  /\ action' = act
  /\ ui' = [at |-> "arm", act |-> "none"]
  /\ crossed' = (crossed \/ Halfway)
  /\ UNCHANGED <<future, timer>>

Arm ==
  /\ ui.at = "arm"
  /\ timer' = TRUE /\ ui' = [ui EXCEPT !.at = "poll"]
  /\ UNCHANGED <<system, manager, caches, action, future, job, task, asked, history>>

\* _poll is called by the timer, and once by schedule_*.
Polls == ui.at = "poll" \/ (ui.at = "idle" /\ timer)
Polled == ui' = [at |-> "idle", act |-> "none"]

PollNothing ==
  /\ Polls /\ action = "none"
  /\ Cancelled /\ Polled
  /\ UNCHANGED <<system, manager, caches, job, task, asked, history>>

\* The worker is not done, its future was cancelled, or the deadline is ahead.
PollTooEarly ==
  /\ ui.at = "poll"
  /\ \/ action = "none"
     \/ future # None /\ job[future].at # "done"
     \/ future = None /\ Reaped(Ui) /\ Running
  /\ Polled
  /\ UNCHANGED <<system, manager, caches, action, future, timer, job, task, asked, history>>

\* The scheduler takes the service for stopped; a restart launches it again.
EndAction(act) ==
  /\ Cancelled
  /\ IF act = "restart"
     THEN /\ \E t \in Tasks : Submit(t, "ensure")
          /\ left' = left \cup (Alive \ InFlight)
     ELSE UNCHANGED <<task, left>>

PollStopped ==
  /\ Polls /\ action # "none" /\ future = None
  /\ Reaped(Ui) /\ ~Running
  /\ EndAction(action) /\ Polled
  /\ UNCHANGED <<system, manager, caches, job, asked, hidden, crossed, reclaimed>>

PollDeadline(w) ==
  /\ Polls /\ action # "none" /\ future = None
  /\ Reaped(Ui) /\ Running
  /\ Stops(w, "idle")
  /\ future' = w /\ Job(w, [NoJob EXCEPT !.at = "begin"]) /\ Polled
  /\ UNCHANGED <<system, manager, caches, action, timer, task, asked, history>>

\* Mistake: the future that is done stays in the scheduler.
PollResultKept(w) ==
  /\ Polls /\ action # "none" /\ future = w /\ Stops(w, "done")
  /\ UNCHANGED future
  /\ IF job[w].stopped THEN ForgetCaches ELSE UNCHANGED caches
  /\ ui' = [at |-> "after", act |-> action]
  /\ Job(w, NoJob)
  /\ UNCHANGED <<system, manager, action, timer, task, asked, history>>

PollResult(w) ==
  /\ Polls /\ action # "none" /\ future = w /\ Stops(w, "done")
  /\ future' = None
  /\ IF job[w].stopped THEN ForgetCaches ELSE UNCHANGED caches
  /\ ui' = [at |-> "after", act |-> action]
  /\ Job(w, NoJob)
  /\ UNCHANGED <<system, manager, action, timer, task, asked, history>>

\* Mistake: the worker is trusted to have stopped the process.
AfterWorkerTrusted ==
  /\ ui.at = "after" /\ Reaped(Ui)
  /\ EndAction(ui.act) /\ Polled
  /\ UNCHANGED <<system, manager, caches, job, asked, hidden, crossed, reclaimed>>

\* _handle_stop_after_worker puts back the action the poll has read.
AfterWorker ==
  /\ ui.at = "after" /\ Reaped(Ui)
  /\ IF Running
     THEN /\ action' = ui.act
          /\ crossed' = (crossed \/ Halfway \/ action = "none")
          /\ UNCHANGED <<future, timer, task, left>>
     ELSE EndAction(ui.act) /\ UNCHANGED crossed
  /\ Polled
  /\ UNCHANGED <<system, manager, caches, job, asked, hidden, reclaimed>>

-----------------------------------------------------------------------------
(* Requests, on the Qt thread *)

Asks == ui.at = "idle" /\ asked < MaxRequests /\ asked' = asked + 1

StartService(t) ==
  /\ Asks /\ Submit(t, "ensure")
  /\ UNCHANGED <<system, manager, caches, scheduler, job, history>>

\* A service that does not run yet is not stopped later either.
StopService ==
  /\ Asks /\ Reaped(Ui) /\ Running
  /\ Schedule("stop")
  /\ UNCHANGED <<system, manager, caches, job, task, hidden, left, reclaimed>>

RestartService(t) ==
  /\ Asks /\ Reaped(Ui)
  /\ Submit(t, IF Running THEN "guard" ELSE "ensure")
  /\ UNCHANGED <<system, manager, caches, scheduler, job, history>>

RestartAfterGuard(t) ==
  /\ ui.at = "idle" /\ Ui \notin cleaning /\ task[t].at = "signal"
  /\ task' = [task EXCEPT ![t].at = "idle"]
  /\ Schedule("restart")
  /\ UNCHANGED <<system, manager, caches, job, asked, hidden, left, reclaimed>>

RedeployService(t) ==
  /\ Asks /\ Submit(t, "redeploy")
  /\ UNCHANGED <<system, manager, caches, scheduler, job, history>>

\* reclaim_service stops and unmanages: the cancel of unmanage_service takes
\* the stop just scheduled, and only the terminate command remains.
ReclaimService ==
  /\ Asks /\ Reaped(Ui)
  /\ Cancelled /\ ForgetCaches /\ UNCHANGED ui
  /\ reclaimed' = reclaimed \cup ({entry} \cap Alive)
  /\ UNCHANGED <<system, manager, job, task, hidden, crossed, left>>

-----------------------------------------------------------------------------
(* Coroutines, on the event loop's thread *)

\* Inside a section without an await no other coroutine runs.
Section == {"cancel", "stopping", "start", "track"}
Turn(t, at) ==
  /\ task[t].at = at /\ Loop \notin cleaning
  /\ \A u \in Tasks \ {t} : task[u].at \notin Section

Step(t, at) == task' = [task EXCEPT ![t].at = at]
Return(t)   == task' = [task EXCEPT ![t] = [at |-> "idle", of |-> None]]

Guard(t) ==
  /\ Turn(t, "guard")
  /\ IF Cardinality(tokens) > 1 THEN Return(t) /\ fresh' = TRUE
                                ELSE Step(t, "signal") /\ UNCHANGED fresh
  /\ seen' = tokens
  /\ UNCHANGED <<system, manager, scheduler, job, asked, history>>

\* restart_service_and_deploy cancels what is pending from this thread.
Redeploy(t) ==
  /\ Turn(t, "redeploy")
  /\ seen' = tokens
  /\ \/ Cardinality(tokens) > 1 /\ Return(t) /\ fresh' = TRUE /\ UNCHANGED scheduler
     \/ /\ Cardinality(tokens) <= 1 /\ Step(t, "cancel")
        /\ action' = "none" /\ future' = None
        /\ UNCHANGED <<timer, ui, fresh>>
  /\ UNCHANGED <<system, manager, job, asked, history>>

CancelTimer(t) ==
  /\ Turn(t, "cancel")
  /\ timer' = FALSE /\ Step(t, "waiting")
  /\ UNCHANGED <<system, manager, caches, action, future, ui, job, asked, history>>

StopsByItself(t) ==
  /\ Turn(t, "waiting") /\ Reaped(Loop) /\ ~Running
  /\ Step(t, "ensure")
  /\ UNCHANGED <<system, manager, caches, scheduler, job, asked, history>>

\* Mistake: the scheduler's future is taken for the stop on this thread.
StopHereScheduled(t) ==
  /\ Turn(t, "waiting") /\ Reaped(Loop) /\ Running
  /\ Step(t, "stopping") /\ Job(Loop, [NoJob EXCEPT !.at = "begin"])
  /\ future' = Loop
  /\ UNCHANGED <<system, manager, caches, action, timer, ui, asked, history>>

\* It did not by its deadline: the stop runs on the loop's own thread.
StopHere(t) ==
  /\ Turn(t, "waiting") /\ Reaped(Loop) /\ Running
  /\ Step(t, "stopping") /\ Job(Loop, [NoJob EXCEPT !.at = "begin"])
  /\ UNCHANGED <<system, manager, caches, scheduler, asked, history>>

StoppedHere(t) ==
  /\ Turn(t, "stopping") /\ Stops(Loop, "done")
  /\ IF job[Loop].stopped THEN ForgetCaches ELSE UNCHANGED caches
  /\ Step(t, "settle") /\ Job(Loop, NoJob)
  /\ UNCHANGED <<system, manager, scheduler, asked, history>>

Settle(t) ==
  /\ Turn(t, "settle") /\ Reaped(Loop)
  /\ \/ ~Running /\ Step(t, "ensure")
     \/ Running /\ Return(t)
  /\ UNCHANGED <<system, manager, caches, scheduler, job, asked, history>>

\* ensure_service_available
Ensure(t) ==
  /\ Turn(t, "ensure") /\ Reaped(Loop)
  /\ Step(t, IF Up(entry) THEN "status" ELSE "query")
  /\ UNCHANGED <<system, manager, caches, scheduler, job, asked, history>>

\* A tracked service is used as it is, or the deployment is blocked.  One of
\* another class or protocol is not cached as alive.
ReuseTracked(t) ==
  /\ Turn(t, "status")
  /\ Return(t)
  /\ fresh' = TRUE \/ UNCHANGED fresh
  /\ UNCHANGED <<system, manager, seen, scheduler, job, asked, history>>

\* Processes that nobody tracks are stopped before the service is started.
Untracked == IF entry = None THEN Alive ELSE {}
GoOn(t)    == task' = [task EXCEPT ![t] = [at |-> "start", of |-> entry]]
CleanUp(t) == proc' = Killed /\ fresh' = FALSE /\ GoOn(t)
Block(t)   == Return(t) /\ fresh' = TRUE /\ UNCHANGED proc

\* Mistake: the service is started beside them.
CollideNot(t) == GoOn(t) /\ UNCHANGED <<proc, fresh>>

Collide(t) == CleanUp(t) \/ Block(t)

QueryInstances(t) ==
  /\ Turn(t, "query")
  /\ seen' = tokens
  /\ \/ Cardinality(tokens) > 1 /\ Block(t)
     \/ \* Its status tells whether it can be used.
        /\ Cardinality(tokens) = 1
        /\ \/ tokens \subseteq Alive /\ Return(t) /\ fresh' = TRUE /\ UNCHANGED proc
           \/ Untracked # {} /\ CleanUp(t)
           \/ Block(t)
           \/ Return(t) /\ UNCHANGED <<proc, fresh>>   \* of another class
     \/ tokens = {} /\ Untracked # {} /\ Collide(t)
     \/ tokens = {} /\ Untracked = {} /\ GoOn(t) /\ UNCHANGED <<proc, fresh>>
  /\ UNCHANGED <<tokens, manager, scheduler, job, asked, history>>

\* The liveliness query fails: whoever asked gives up.
QueryFails(t) ==
  /\ \E at \in {"guard", "redeploy", "query", "status"} : Turn(t, at)
  /\ Return(t)
  /\ UNCHANGED <<system, manager, caches, scheduler, job, asked, history>>

\* manager.start: a process that is up by now is left alone.
Start(t) ==
  /\ Turn(t, "start") /\ Reaped(Loop)
  /\ \/ Return(t) /\ UNCHANGED <<proc, hidden>>     \* that, or Popen raises
     \/ /\ ~Up(entry)
        /\ hidden' = hidden \cup ({task[t].of} \cap Alive)
        /\ \E p \in Procs :
             /\ proc[p] = "unborn" /\ \A q \in 1 .. p - 1 : proc[q] # "unborn"
             /\ proc' = [proc EXCEPT ![p] = "up"]
             /\ task' = [task EXCEPT ![t] = [at |-> "track", of |-> p]]
  /\ UNCHANGED <<tokens, manager, caches, scheduler, job, asked, crossed, left, reclaimed>>

Track(t) ==
  /\ Turn(t, "track")
  /\ entry' = task[t].of /\ Return(t)
  /\ UNCHANGED <<system, cleaning, slips, caches, scheduler, job, asked, history>>

-----------------------------------------------------------------------------
\* is_running is called by whoever's handler asks for it, and any time by Ui.
Asking(h) ==
  \/ h = Ui
  \/ h \in Stoppers /\ job[h].at \in {"check", "terminate"}
  \/ h = Loop /\ \E t \in Tasks : Turn(t, "waiting") \/ Turn(t, "settle") \/ Turn(t, "ensure") \/ Turn(t, "start")

Looks(h) == Asking(h) /\ Look(h)

World ==
  \/ \E p \in Procs : Exit(p) \/ Appear(p) \/ Vanish(p)
  \/ Fade
Request ==
  \/ StopService \/ ReclaimService
  \/ \E t \in Tasks : StartService(t) \/ RestartService(t) \/ RedeployService(t)
Stopping(w) ==
  \/ BeginStop(w) \/ StopProcess(w) \/ StopInVain(w) \/ DropStopped(w)
  \/ CheckStopped(w) \/ Terminate(w) \/ TerminateInVain(w) \/ Abandoned(w)
Scheduler ==
  \/ Arm \/ PollNothing \/ PollTooEarly \/ PollStopped \/ AfterWorker
  \/ \E w \in Workers : PollDeadline(w) \/ PollResult(w)
  \/ \E t \in Tasks : RestartAfterGuard(t)
Coroutine(t) ==
  \/ Guard(t) \/ Redeploy(t) \/ CancelTimer(t) \/ StopsByItself(t) \/ StopHere(t)
  \/ StoppedHere(t) \/ Settle(t) \/ Ensure(t) \/ ReuseTracked(t) \/ QueryInstances(t)
  \/ QueryFails(t) \/ Start(t) \/ Track(t)

Next ==
  \/ World \/ Request \/ Scheduler
  \/ \E h \in Threads : Looks(h) \/ Drop(h)
  \/ \E w \in Stoppers : Stopping(w)
  \/ \E t \in Tasks : Coroutine(t)

Spec == Init /\ [][Next]_vars

\* Threads run, timers fire and coroutines are resumed; tokens of the dead
\* and fresh answers expire; a stop that is tried again and again succeeds.
\* Nothing makes the user ask, or a process exit by itself.
FairSpec ==
  /\ Spec
  /\ WF_vars(Scheduler) /\ WF_vars(Fade)
  /\ \A p \in Procs : WF_vars(Vanish(p))
  /\ \A h \in Threads : WF_vars(Looks(h)) /\ WF_vars(Drop(h))
  /\ \A w \in Stoppers : WF_vars(Stopping(w))
  /\ \A w \in Workers : SF_vars(StopProcess(w)) /\ SF_vars(Terminate(w))
  /\ \A t \in Tasks : WF_vars(Coroutine(t))

-----------------------------------------------------------------------------
(* Properties *)

\* Whatever threads do at the same time, a service has one process.  A second
\* one is started only beside a process that was tracked when the start
\* looked for others (external_processes then reports none) and was dropped,
\* or left behind by its supervisor, before the start went on.
OneAlive == \A p, q \in Alive : p = q \/ p \in hidden \/ q \in hidden

\* The manager tracks what runs, from Popen on, but for the processes that a
\* thread dropped because it had seen their predecessor exit.
TrackedUnlessSlipped ==
  \A p \in Procs : Up(p) => p = entry \/ p \in slips \cup InFlight

\* A pending stop or restart has a timer that will look at it again, unless a
\* cancel on the event loop's thread fell into the scheduling.
PendingIsPolled == action # "none" => timer \/ crossed \/ ui.at = "arm"

\* A restart launches the service again when the old process is down, a
\* child that its supervisor left behind and a slip aside.
LeftIsOrphan == \A p \in left : Up(p) => p \in slips

\* Every pending stop and restart comes to an end: the process exits, or the
\* worker's attempts, repeated until one succeeds, bring it down.
PendingEnds == action # "none" ~> (action = "none" \/ crossed)

\* What stop_service says of every stop (service_lifecycle_controller.py:766):
\* "Poll for graceful exit, then fall back to local kill-tree."  So a process
\* that reclaim_service stops is gone sooner or later.
ReclaimEnds == \A p \in Procs : (p \in reclaimed) ~> (proc[p] = "gone")
=============================================================================
