------------------------ MODULE ServiceProcessProofs ------------------------
(* Theorems about ServiceProcess, for any number of threads, coroutines,   *)
(* processes and requests.                                                 *)
EXTENDS ServiceProcess, TLAPS

USE DEF vars, system, manager, caches, scheduler, history

-----------------------------------------------------------------------------
(* Types *)

TaskType == task' \in [Tasks -> [at : Steps, of : Procs \cup {None}]]
JobType  == job' \in [Stoppers -> Jobs]

\* What moves a coroutine or a stop keeps its type.
LEMMA TaskMoves ==
  ASSUME TypeOK, NEW t \in Tasks, NEW at \in Steps, Step(t, at) \/ Return(t) \/ Submit(t, at)
  PROVE  TaskType
  <1>1. CASE Step(t, at)
    BY <1>1 DEF Step, TypeOK, TaskType
  <1>2. CASE Return(t)
    BY <1>2 DEF Return, TypeOK, TaskType, Steps
  <1>3. CASE Submit(t, at)
    BY <1>3 DEF Submit, TypeOK, TaskType
  <1> QED BY <1>1, <1>2, <1>3

LEMMA JobMoves ==
  ASSUME TypeOK, NEW w \in Stoppers, NEW j \in Jobs, Job(w, j)
  PROVE  JobType
  BY DEF Job, TypeOK, JobType

LEMMA DropType ==
  ASSUME NEW j \in Jobs
  PROVE  [j EXCEPT !.at = "drop", !.ok = TRUE] \in Jobs
  BY DEF Jobs

LEMMA DoneMoves ==
  ASSUME TypeOK, NEW w \in Stoppers, NEW b \in BOOLEAN, Done(w, b)
  PROVE  JobType
  <1>1. job[w] \in Jobs
    BY DEF TypeOK
  <1>2. [job[w] EXCEPT !.at = "done", !.stopped = b] \in Jobs
    BY <1>1 DEF Jobs
  <1> QED BY <1>2, JobMoves DEF Done

LEMMA Typing == TypeOK /\ [Next]_vars => TypeOK'
<1> USE ThreadsAssumption, ProcsAssumption, RequestsAssumption
<1> SUFFICES ASSUME TypeOK, [Next]_vars PROVE TypeOK'
  OBVIOUS
<1>j. \A w \in Stoppers : job[w] \in Jobs
  BY DEF TypeOK
<1>n. NoJob \in Jobs /\ [NoJob EXCEPT !.at = "begin"] \in Jobs
  BY DEF NoJob, Jobs
<1>a. Alive \subseteq Procs /\ Running \in BOOLEAN /\ \A p \in Procs \cup {None} : Up(p) \in BOOLEAN
  BY DEF Alive, Running, Up
<1>s. {"idle", "guard", "signal", "redeploy", "cancel", "waiting", "stopping",
       "settle", "ensure", "query", "status", "start", "track"} = Steps
  BY DEF Steps
<1> USE DEF TypeOK, TaskType, JobType, Actions
<1>1. CASE World
  <2>1. ASSUME NEW p \in Procs, Exit(p) PROVE TypeOK'
    BY <2>1 DEF Exit
  <2>2. ASSUME NEW p \in Procs, Appear(p) PROVE TypeOK'
    BY <2>2 DEF Appear
  <2>3. ASSUME NEW p \in Procs, Vanish(p) PROVE TypeOK'
    BY <2>3 DEF Vanish
  <2>4. CASE Fade
    BY <2>4 DEF Fade
  <2> QED BY <1>1, <2>1, <2>2, <2>3, <2>4 DEF World
<1>2. CASE Request
  <2>1. CASE StopService
    BY <2>1 DEF StopService, Asks, Schedule
  <2>2. CASE ReclaimService
    <3>1. reclaimed' \subseteq Procs
      BY <2>2, <1>a DEF ReclaimService
    <3>2. action' \in Actions /\ future' \in Workers \cup {None} /\ timer' \in BOOLEAN
      BY <2>2 DEF ReclaimService, Cancelled
    <3>3. asked' \in 0 .. MaxRequests
      BY <2>2 DEF ReclaimService, Asks
    <3>4. seen' = {} /\ fresh' = FALSE
      BY <2>2 DEF ReclaimService, ForgetCaches
    <3> QED BY <2>2, <3>1, <3>2, <3>3, <3>4 DEF ReclaimService
  <2>3. ASSUME NEW t \in Tasks, StartService(t) PROVE TypeOK'
    <3>1. TaskType
      BY <2>3, <1>s, TaskMoves DEF StartService
    <3> QED BY <2>3, <3>1 DEF StartService, Asks
  <2>4. ASSUME NEW t \in Tasks, RestartService(t) PROVE TypeOK'
    <3>1. PICK at \in Steps : Submit(t, at)
      BY <2>4, <1>s DEF RestartService
    <3>2. TaskType
      BY <3>1, TaskMoves
    <3> QED BY <2>4, <3>2 DEF RestartService, Asks
  <2>5. ASSUME NEW t \in Tasks, RedeployService(t) PROVE TypeOK'
    <3>1. TaskType
      BY <2>5, <1>s, TaskMoves DEF RedeployService
    <3> QED BY <2>5, <3>1 DEF RedeployService, Asks
  <2> QED BY <1>2, <2>1, <2>2, <2>3, <2>4, <2>5 DEF Request
<1>3. CASE Scheduler
  <2>0. ASSUME NEW act \in Actions, EndAction(act)
        PROVE  TaskType /\ left' \subseteq Procs /\ action' \in Actions
               /\ future' \in Workers \cup {None} /\ timer' \in BOOLEAN
    <3>1. CASE act = "restart"
      <4>1. PICK t \in Tasks : Submit(t, "ensure")
        BY <2>0, <3>1 DEF EndAction
      <4>2. TaskType
        BY <4>1, <1>s, TaskMoves
      <4> QED BY <2>0, <3>1, <4>2, <1>a DEF EndAction, Cancelled
    <3>2. CASE act # "restart"
      BY <2>0, <3>2 DEF EndAction, Cancelled
    <3> QED BY <3>1, <3>2
  <2>1. CASE Arm
    BY <2>1 DEF Arm
  <2>2. CASE PollNothing
    BY <2>2 DEF PollNothing, Cancelled, Polled
  <2>3. CASE PollTooEarly
    BY <2>3 DEF PollTooEarly, Polled
  <2>4. CASE PollStopped
    <3>1. EndAction(action) /\ action \in Actions
      BY <2>4 DEF PollStopped
    <3> QED BY <2>4, <3>1, <2>0 DEF PollStopped, Polled
  <2>5. CASE AfterWorker
    <3>1. CASE Running
      BY <2>5, <3>1 DEF AfterWorker, Polled, Halfway
    <3>2. CASE ~Running
      <4>1. EndAction(ui.act) /\ ui.act \in Actions
        BY <2>5, <3>2 DEF AfterWorker
      <4> QED BY <2>5, <3>2, <4>1, <2>0 DEF AfterWorker, Polled
    <3> QED BY <3>1, <3>2
  <2>6. ASSUME NEW w \in Workers, PollDeadline(w) PROVE TypeOK'
    <3>1. JobType
      BY <2>6, <1>n, JobMoves DEF PollDeadline, Stoppers
    <3> QED BY <2>6, <3>1 DEF PollDeadline, Polled
  <2>7. ASSUME NEW w \in Workers, PollResult(w) PROVE TypeOK'
    <3>1. JobType
      BY <2>7, <1>n, JobMoves DEF PollResult, Stoppers
    <3> QED BY <2>7, <3>1 DEF PollResult, ForgetCaches
  <2>8. ASSUME NEW t \in Tasks, RestartAfterGuard(t) PROVE TypeOK'
    <3>1. TaskType
      BY <2>8, <1>s, TaskMoves DEF RestartAfterGuard, Step
    <3> QED BY <2>8, <3>1 DEF RestartAfterGuard, Schedule
  <2> QED BY <1>3, <2>1, <2>2, <2>3, <2>4, <2>5, <2>6, <2>7, <2>8 DEF Scheduler
<1>p. ASSUME Popped PROVE entry' \in Procs \cup {None} /\ slips' \subseteq Procs
  <2>1. {p \in {entry} : Up(p)} \subseteq Procs
    BY DEF Up
  <2> QED BY <1>p, <2>1 DEF Popped
<1>4. ASSUME NEW h \in Threads, Looks(h) \/ Drop(h) PROVE TypeOK'
  <2>1. CASE Looks(h)
    BY <2>1 DEF Looks, Look
  <2>2. CASE Drop(h)
    BY <2>2, <1>p DEF Drop
  <2> QED BY <1>4, <2>1, <2>2
<1>5. ASSUME NEW w \in Stoppers, Stopping(w) PROVE TypeOK'
  <2>1. CASE BeginStop(w)
    <3>1. JobType
      <4>1. [NoJob EXCEPT !.at = IF entry = None THEN "check" ELSE "wait",
                          !.of = entry, !.ok = entry = None] \in Jobs
        BY DEF NoJob, Jobs
      <4> QED BY <4>1, <2>1, JobMoves DEF BeginStop
    <3> QED BY <2>1, <3>1 DEF BeginStop
  <2>2. CASE StopProcess(w)
    <3>1. proc' \in [Procs -> {"unborn", "up", "orphan", "gone"}]
      BY <2>2 DEF StopProcess, Up
    <3>2. [job[w] EXCEPT !.at = "drop", !.ok = TRUE] \in Jobs
      BY <1>j, DropType
    <3>3. JobType
      BY <2>2, <3>2, JobMoves DEF StopProcess
    <3> QED BY <2>2, <3>1, <3>3 DEF StopProcess
  <2>3. CASE StopInVain(w)
    <3>1. [job[w] EXCEPT !.at = "check"] \in Jobs
      BY <1>j DEF Jobs
    <3>2. JobType
      BY <2>3, <3>1, JobMoves DEF StopInVain
    <3> QED BY <2>3, <3>2 DEF StopInVain
  <2>4. CASE DropStopped(w)
    <3>1. JobType
      BY <2>4, DoneMoves DEF DropStopped
    <3> QED BY <2>4, <3>1, <1>p DEF DropStopped
  <2>5. CASE CheckStopped(w)
    <3>1. [job[w] EXCEPT !.at = "terminate"] \in Jobs
      BY <1>j DEF Jobs
    <3>2. JobType
      BY <2>5, <3>1, JobMoves, DoneMoves DEF CheckStopped
    <3> QED BY <2>5, <3>2 DEF CheckStopped
  <2>6. CASE Terminate(w)
    <3>1. proc' \in [Procs -> {"unborn", "up", "orphan", "gone"}]
      BY <2>6 DEF Terminate, Killed
    <3>2. PICK b \in BOOLEAN : Done(w, b)
      BY <2>6, <1>a DEF Terminate
    <3>3. JobType
      BY <3>2, DoneMoves
    <3> QED BY <2>6, <3>1, <3>3 DEF Terminate
  <2>7. CASE TerminateInVain(w)
    <3>1. (job[w].ok /\ ~Running) \in BOOLEAN
      BY <1>a, <1>j DEF Jobs
    <3>2. JobType
      BY <2>7, <3>1, DoneMoves DEF TerminateInVain
    <3> QED BY <2>7, <3>2 DEF TerminateInVain
  <2>8. CASE Abandoned(w)
    <3>1. JobType
      BY <2>8, <1>n, JobMoves DEF Abandoned
    <3> QED BY <2>8, <3>1 DEF Abandoned
  <2> QED BY <1>5, <2>1, <2>2, <2>3, <2>4, <2>5, <2>6, <2>7, <2>8 DEF Stopping
<1>6. ASSUME NEW t \in Tasks, Coroutine(t) PROVE TypeOK'
  <2>1. CASE Guard(t)
    <3>1. TaskType
      <4>1. Step(t, "signal") \/ Return(t)
        BY <2>1 DEF Guard
      <4>2. "signal" \in Steps
        BY <1>s
      <4> QED BY <4>1, <4>2, TaskMoves
    <3>2. seen' = tokens /\ fresh' \in BOOLEAN
      BY <2>1 DEF Guard
    <3>3. UNCHANGED <<system, manager, scheduler, job, asked, history>>
      BY <2>1 DEF Guard
    <3> QED BY <3>1, <3>2, <3>3 DEF system, manager, scheduler, history
  <2>2. CASE Redeploy(t)
    <3>1. TaskType
      BY <2>2, <1>s, TaskMoves DEF Redeploy
    <3> QED BY <2>2, <3>1 DEF Redeploy
  <2>3. CASE CancelTimer(t)
    <3>1. TaskType
      BY <2>3, <1>s, TaskMoves DEF CancelTimer
    <3> QED BY <2>3, <3>1 DEF CancelTimer
  <2>4. CASE StopsByItself(t)
    <3>1. TaskType
      BY <2>4, <1>s, TaskMoves DEF StopsByItself
    <3> QED BY <2>4, <3>1 DEF StopsByItself
  <2>5. CASE StopHere(t)
    <3>1. TaskType
      BY <2>5, <1>s, TaskMoves DEF StopHere
    <3>2. JobType
      BY <2>5, <1>n, JobMoves DEF StopHere, Stoppers
    <3> QED BY <2>5, <3>1, <3>2 DEF StopHere
  <2>6. CASE StoppedHere(t)
    <3>1. TaskType
      BY <2>6, <1>s, TaskMoves DEF StoppedHere
    <3>2. JobType
      BY <2>6, <1>n, JobMoves DEF StoppedHere, Stoppers
    <3>3. seen' \subseteq Procs /\ fresh' \in BOOLEAN
      BY <2>6 DEF StoppedHere, ForgetCaches, caches
    <3> QED BY <2>6, <3>1, <3>2, <3>3 DEF StoppedHere
  <2>7. CASE Settle(t)
    <3>1. TaskType
      BY <2>7, <1>s, TaskMoves DEF Settle
    <3> QED BY <2>7, <3>1 DEF Settle
  <2>8. CASE Ensure(t)
    <3>1. PICK at \in Steps : Step(t, at)
      BY <2>8, <1>s DEF Ensure
    <3>2. TaskType
      BY <3>1, TaskMoves
    <3> QED BY <2>8, <3>2 DEF Ensure
  <2>9. CASE ReuseTracked(t)
    <3>1. TaskType
      BY <2>9, <1>s, TaskMoves DEF ReuseTracked
    <3>2. fresh' \in BOOLEAN
      BY <2>9 DEF ReuseTracked
    <3>3. UNCHANGED <<system, manager, seen, scheduler, job, asked, history>>
      BY <2>9 DEF ReuseTracked
    <3> QED BY <3>1, <3>2, <3>3
  <2>10. CASE QueryInstances(t)
    <3>1. proc' \in [Procs -> {"unborn", "up", "orphan", "gone"}] /\ fresh' \in BOOLEAN
      BY <2>10 DEF QueryInstances, Collide, CleanUp, Block, Killed
    <3>2. Return(t) \/ GoOn(t)
      BY <2>10 DEF QueryInstances, Collide, CleanUp, Block
    <3>3. CASE Return(t)
      <4>1. TaskType
        BY <3>3, <1>s, TaskMoves
      <4> QED BY <2>10, <3>1, <4>1 DEF QueryInstances
    <3>4. CASE GoOn(t)
      <4>1. TaskType
        BY <3>4 DEF GoOn, Steps
      <4> QED BY <2>10, <3>1, <4>1 DEF QueryInstances
    <3> QED BY <3>2, <3>3, <3>4
  <2>11. CASE Start(t)
    <3>1. CASE Return(t) /\ UNCHANGED <<proc, hidden>>
      <4>1. TaskType
        BY <3>1, <1>s, TaskMoves
      <4> QED BY <2>11, <3>1, <4>1 DEF Start
    <3>2. CASE ~(Return(t) /\ UNCHANGED <<proc, hidden>>)
      <4>1. PICK p \in Procs : /\ proc' = [proc EXCEPT ![p] = "up"]
                               /\ task' = [task EXCEPT ![t] = [at |-> "track", of |-> p]]
        BY <2>11, <3>2 DEF Start
      <4>2. TaskType
        BY <4>1 DEF Steps
      <4>3. hidden' \subseteq Procs
        BY <2>11, <3>2, <1>a DEF Start
      <4> QED BY <2>11, <4>1, <4>2, <4>3 DEF Start
    <3> QED BY <3>1, <3>2
  <2>12. CASE Track(t)
    <3>1. TaskType
      BY <2>12, <1>s, TaskMoves DEF Track
    <3> QED BY <2>12, <3>1 DEF Track
  <2>13. CASE QueryFails(t)
    <3>1. TaskType
      BY <2>13, <1>s, TaskMoves DEF QueryFails
    <3> QED BY <2>13, <3>1 DEF QueryFails
  <2> QED BY <1>6, <2>1, <2>2, <2>3, <2>4, <2>5, <2>6, <2>7, <2>8, <2>9, <2>10, <2>11, <2>12, <2>13
          DEF Coroutine
<1>7. CASE UNCHANGED vars
  BY <1>7
<1> QED BY <1>1, <1>2, <1>3, <1>4, <1>5, <1>6, <1>7 DEF Next

\* The studio's book-keeping of a service keeps its types, for any number of
\* threads and requests.
THEOREM TypeCorrect == Spec => []TypeOK
<1>1. Init => TypeOK
  <2> USE ThreadsAssumption, ProcsAssumption, RequestsAssumption
  <2> SUFFICES ASSUME Init PROVE TypeOK
    OBVIOUS
  <2>1. job \in [Stoppers -> Jobs]
    BY DEF Init, NoJob, Jobs
  <2>2. task \in [Tasks -> [at : Steps, of : Procs \cup {None}]]
    BY DEF Init, Steps
  <2>3. asked \in 0 .. MaxRequests
    BY DEF Init
  <2> QED BY <2>1, <2>2, <2>3 DEF Init, TypeOK, Actions
<1> QED BY <1>1, Typing, PTL DEF Spec

-----------------------------------------------------------------------------
(* A pending action is polled *)

\* A cancel that is halfway has left no action behind.
PolledInv ==
  /\ PendingIsPolled
  /\ Halfway => action = "none" \/ crossed

\* A coroutine gets to the middle of a cancel by a step of its own only.
LEMMA Otherwise ==
  ASSUME TypeOK, NEW t \in Tasks, NEW at \in Steps \ {"cancel"}, Step(t, at) \/ Return(t) \/ Submit(t, at) \/ GoOn(t)
  PROVE  Halfway' => Halfway
  BY DEF Step, Return, Submit, GoOn, Halfway, TypeOK, Steps

LEMMA PolledStep == TypeOK /\ PolledInv /\ [Next]_vars => PolledInv'
<1> SUFFICES ASSUME TypeOK, PolledInv, [Next]_vars PROVE PolledInv'
  OBVIOUS
<1>s. {"idle", "guard", "signal", "redeploy", "waiting", "stopping",
       "settle", "ensure", "query", "status", "start", "track"} \subseteq Steps \ {"cancel"}
  BY DEF Steps
<1>q. ASSUME UNCHANGED <<action, timer, ui, crossed>>, Halfway' => Halfway PROVE PolledInv'
  BY <1>q DEF PolledInv, PendingIsPolled
<1>e. ASSUME NEW act, EndAction(act), UNCHANGED crossed PROVE PolledInv'
  BY <1>e DEF EndAction, Cancelled, PolledInv, PendingIsPolled
<1>1. CASE World
  BY <1>1, <1>q DEF World, Exit, Appear, Vanish, Fade, Halfway
<1>2. CASE Request
  <2>1. CASE StopService
    BY <2>1 DEF StopService, Schedule, PolledInv, PendingIsPolled, Halfway
  <2>2. CASE ReclaimService
    BY <2>2 DEF ReclaimService, Cancelled, PolledInv, PendingIsPolled
  <2>3. ASSUME NEW t \in Tasks, StartService(t) \/ RestartService(t) \/ RedeployService(t) PROVE PolledInv'
    <3>1. PICK at \in Steps \ {"cancel"} : Submit(t, at)
      BY <2>3, <1>s DEF StartService, RestartService, RedeployService
    <3>2. Halfway' => Halfway
      BY <3>1, Otherwise
    <3> QED BY <2>3, <3>2, <1>q DEF StartService, RestartService, RedeployService
  <2> QED BY <1>2, <2>1, <2>2, <2>3 DEF Request
<1>3. CASE Scheduler
  <2>1. CASE Arm
    BY <2>1 DEF Arm, PolledInv, PendingIsPolled, Halfway
  <2>2. CASE PollNothing
    BY <2>2 DEF PollNothing, Cancelled, PolledInv, PendingIsPolled
  <2>3. CASE PollTooEarly
    BY <2>3 DEF PollTooEarly, Polled, PolledInv, PendingIsPolled, Halfway
  <2>4. CASE PollStopped
    BY <2>4, <1>e DEF PollStopped
  <2>5. CASE AfterWorker
    <3>1. CASE Running
      BY <2>5, <3>1 DEF AfterWorker, Polled, PolledInv, PendingIsPolled, Halfway
    <3>2. CASE ~Running
      BY <2>5, <3>2, <1>e DEF AfterWorker
    <3> QED BY <3>1, <3>2
  <2>6. ASSUME NEW w \in Workers, PollDeadline(w) \/ PollResult(w) PROVE PolledInv'
    BY <2>6 DEF PollDeadline, PollResult, Polls, Polled, PolledInv, PendingIsPolled, Halfway
  <2>7. ASSUME NEW t \in Tasks, RestartAfterGuard(t) PROVE PolledInv'
    <3>1. Halfway' => Halfway
      BY <2>7, <1>s, Otherwise DEF RestartAfterGuard, Step
    <3> QED BY <2>7, <3>1 DEF RestartAfterGuard, Schedule, PolledInv, PendingIsPolled
  <2> QED BY <1>3, <2>1, <2>2, <2>3, <2>4, <2>5, <2>6, <2>7 DEF Scheduler
<1>4. ASSUME NEW h \in Threads, Looks(h) \/ Drop(h) PROVE PolledInv'
  BY <1>4, <1>q DEF Looks, Look, Drop, Halfway
<1>5. ASSUME NEW w \in Stoppers, Stopping(w) PROVE PolledInv'
  <2>1. UNCHANGED <<action, timer, ui, crossed, task>>
    BY <1>5 DEF Stopping, BeginStop, StopProcess, StopInVain, DropStopped, CheckStopped,
                Terminate, TerminateInVain, Abandoned
  <2> QED BY <2>1, <1>q DEF Halfway
<1>6. ASSUME NEW t \in Tasks, Coroutine(t) PROVE PolledInv'
  <2>1. CASE Redeploy(t)
    <3>1. CASE Return(t) /\ UNCHANGED scheduler
      <4>1. Halfway' => Halfway
        BY <3>1, <1>s, Otherwise
      <4> QED BY <2>1, <3>1, <4>1, <1>q DEF Redeploy
    <3>2. CASE ~(Return(t) /\ UNCHANGED scheduler)
      BY <2>1, <3>2 DEF Redeploy, PolledInv, PendingIsPolled
    <3> QED BY <3>1, <3>2
  <2>2. CASE CancelTimer(t)
    <3>1. Halfway
      BY <2>2 DEF CancelTimer, Turn, Halfway
    <3> QED BY <2>2, <3>1 DEF CancelTimer, PolledInv, PendingIsPolled
  <2>3. CASE ~Redeploy(t) /\ ~CancelTimer(t)
    <3>1. UNCHANGED <<action, timer, ui, crossed>>
      BY <1>6, <2>3 DEF Coroutine, Guard, StopsByItself, StopHere, StoppedHere, Settle, Ensure,
                        ReuseTracked, QueryFails, QueryInstances, Start, Track
    <3>2. Halfway' => Halfway
      <4>1. CASE Start(t)
        BY <4>1 DEF Start, Return, Halfway, TypeOK
      <4>2. CASE ~Start(t)
        <5>1. \E at \in Steps \ {"cancel"} : Step(t, at) \/ Return(t) \/ GoOn(t)
          BY <1>6, <2>3, <4>2, <1>s DEF Coroutine, Guard, StopsByItself, StopHere, StoppedHere, Settle,
                     Ensure, ReuseTracked, QueryFails, QueryInstances, Collide, CleanUp, Block, Track
        <5> QED BY <5>1, Otherwise
      <4> QED BY <4>1, <4>2
    <3> QED BY <3>1, <3>2, <1>q
  <2> QED BY <2>1, <2>2, <2>3
<1>7. CASE UNCHANGED vars
  BY <1>7, <1>q DEF Halfway
<1> QED BY <1>1, <1>2, <1>3, <1>4, <1>5, <1>6, <1>7 DEF Next

\* No stop or restart is forgotten, unless a cancel of another thread fell
\* into its scheduling.
THEOREM PendingPolled == Spec => []PendingIsPolled
<1>1. Init => PolledInv
  BY DEF Init, PolledInv, PendingIsPolled, Halfway
<1>2. PolledInv => PendingIsPolled
  BY DEF PolledInv
<1> QED BY <1>1, <1>2, TypeCorrect, PolledStep, PTL DEF Spec

-----------------------------------------------------------------------------
(* One process *)

\* Coroutines exclude each other, and the one that starts a process knows of
\* every live process that is not already counted as missed: it was tracked
\* when the start looked for others.
Exclusion == \A t, u \in Tasks : task[t].at \in Section /\ task[u].at \in Section => t = u

OneInv ==
  /\ Exclusion
  /\ OneAlive
  /\ TrackedUnlessSlipped
  /\ entry # None => Alive \subseteq hidden \cup {entry}
  /\ \A t \in Tasks : task[t].at \in {"start", "track"} => Alive \subseteq hidden \cup {task[t].of}
  /\ \A t \in Tasks : task[t].at = "track" => entry = None

\* Steps that neither start nor track a process.
NoNewProcess ==
  /\ \A p \in Procs : proc'[p] = proc[p] \/ (p \in Alive /\ proc'[p] \in {"orphan", "gone"})
  /\ hidden' = hidden
  /\ slips \subseteq slips'
  /\ entry' = entry \/ (entry' = None /\ (Up(entry) => entry \in slips'))
  /\ \A t \in Tasks : \/ task'[t] = task[t]
                      \/ task[t].at # "track" /\ task'[t].at \notin {"start", "track"}

LEMMA Calm ==
  ASSUME OneInv, NoNewProcess, Exclusion'
  PROVE  OneInv'
  <1> USE ProcsAssumption DEF OneInv, NoNewProcess
  <1>1. Alive' \subseteq Alive
    BY DEF Alive
  <1>2. InFlight \subseteq InFlight'
    BY DEF InFlight
  <1>3. \A p \in Procs : Up(p)' => Up(p)
    BY DEF Up, Alive
  <1>4. OneAlive'
    BY <1>1 DEF OneAlive
  <1>5. TrackedUnlessSlipped'
    BY <1>2, <1>3 DEF TrackedUnlessSlipped
  <1>6. (entry # None => Alive \subseteq hidden \cup {entry})'
    BY <1>1
  <1>7. (\A t \in Tasks : task[t].at \in {"start", "track"} => Alive \subseteq hidden \cup {task[t].of})'
    BY <1>1
  <1>8. (\A t \in Tasks : task[t].at = "track" => entry = None)'
    OBVIOUS
  <1> QED BY <1>4, <1>5, <1>6, <1>7, <1>8

\* Of the threads, only coroutines enter a section; one that has the turn does
\* not find another in one.
LEMMA OutsideExcludes ==
  ASSUME Exclusion, \A t \in Tasks : task'[t] = task[t] \/ task'[t].at \notin Section
  PROVE  Exclusion'
  BY DEF Exclusion

LEMMA TurnExcludes ==
  ASSUME NEW t \in Tasks, \A u \in Tasks \ {t} : task[u].at \notin Section /\ task'[u] = task[u]
  PROVE  Exclusion'
  BY DEF Exclusion

LEMMA OneStep == TypeOK /\ OneInv /\ [Next]_vars => OneInv'
<1> USE ProcsAssumption
<1> SUFFICES ASSUME TypeOK, OneInv, [Next]_vars PROVE OneInv'
  OBVIOUS
<1>0. Exclusion
  BY DEF OneInv
<1>q. ASSUME NoNewProcess, \A t \in Tasks : task'[t] = task[t] \/ task'[t].at \notin Section PROVE OneInv'
  BY <1>q, <1>0, Calm, OutsideExcludes
<1>t. ASSUME NEW t \in Tasks, NEW at \in Steps \ Section, Submit(t, at)
      PROVE  \A u \in Tasks : task'[u] = task[u] \/ (task[u].at # "track" /\ task'[u].at \notin Section)
  BY <1>t DEF Submit, TypeOK, Section
<1>s. {"idle", "guard", "signal", "redeploy", "waiting", "settle", "ensure", "query", "status"} \subseteq Steps \ Section
  BY DEF Steps, Section
<1>u. ASSUME UNCHANGED <<proc, hidden, slips, entry>>,
             \A u \in Tasks : task'[u] = task[u] \/ (task[u].at # "track" /\ task'[u].at \notin Section)
      PROVE OneInv'
  BY <1>u, <1>q DEF NoNewProcess, Section
<1>e. ASSUME NEW act, EndAction(act)
      PROVE \A u \in Tasks : task'[u] = task[u] \/ (task[u].at # "track" /\ task'[u].at \notin Section)
  <2>1. CASE act = "restart"
    <3>1. PICK t \in Tasks : Submit(t, "ensure")
      BY <1>e, <2>1 DEF EndAction
    <3> QED BY <3>1, <1>t, <1>s
  <2>2. CASE act # "restart"
    BY <1>e, <2>2 DEF EndAction
  <2> QED BY <2>1, <2>2
<1>1. CASE World
  <2>1. ASSUME NEW p \in Procs, Exit(p) PROVE OneInv'
    BY <2>1, <1>q DEF Exit, NoNewProcess, TypeOK
  <2>2. CASE UNCHANGED <<proc, hidden, slips, entry, task>>
    BY <2>2, <1>u
  <2> QED BY <1>1, <2>1, <2>2 DEF World, Appear, Vanish, Fade
<1>2. CASE Request
  <2>1. CASE StopService \/ ReclaimService
    BY <2>1, <1>u DEF StopService, ReclaimService
  <2>2. ASSUME NEW t \in Tasks, StartService(t) \/ RestartService(t) \/ RedeployService(t) PROVE OneInv'
    <3>1. PICK at \in Steps \ Section : Submit(t, at)
      BY <2>2, <1>s DEF StartService, RestartService, RedeployService
    <3>2. \A u \in Tasks : task'[u] = task[u] \/ (task[u].at # "track" /\ task'[u].at \notin Section)
      BY <3>1, <1>t
    <3> QED BY <2>2, <3>2, <1>u DEF StartService, RestartService, RedeployService
  <2> QED BY <1>2, <2>1, <2>2 DEF Request
<1>3. CASE Scheduler
  <2>1. CASE Arm \/ PollNothing \/ PollTooEarly \/ \E w \in Workers : PollDeadline(w) \/ PollResult(w)
    BY <2>1, <1>u DEF Arm, PollNothing, PollTooEarly, PollDeadline, PollResult
  <2>2. CASE PollStopped
    <3>1. \A u \in Tasks : task'[u] = task[u] \/ (task[u].at # "track" /\ task'[u].at \notin Section)
      BY <2>2, <1>e DEF PollStopped
    <3> QED BY <2>2, <3>1, <1>u DEF PollStopped
  <2>3. CASE AfterWorker
    <3>1. CASE Running
      BY <2>3, <3>1, <1>u DEF AfterWorker
    <3>2. CASE ~Running
      <4>1. \A u \in Tasks : task'[u] = task[u] \/ (task[u].at # "track" /\ task'[u].at \notin Section)
        BY <2>3, <3>2, <1>e DEF AfterWorker
      <4> QED BY <2>3, <3>2, <4>1, <1>u DEF AfterWorker
    <3> QED BY <3>1, <3>2
  <2>4. ASSUME NEW t \in Tasks, RestartAfterGuard(t) PROVE OneInv'
    <3>1. \A u \in Tasks : task'[u] = task[u] \/ (task[u].at # "track" /\ task'[u].at \notin Section)
      BY <2>4 DEF RestartAfterGuard, TypeOK, Section
    <3> QED BY <2>4, <3>1, <1>u DEF RestartAfterGuard
  <2> QED BY <1>3, <2>1, <2>2, <2>3, <2>4 DEF Scheduler
<1>4. ASSUME NEW h \in Threads, Looks(h) \/ Drop(h) PROVE OneInv'
  <2>1. CASE Looks(h)
    BY <2>1, <1>u DEF Looks, Look
  <2>2. CASE Drop(h)
    BY <2>2, <1>q DEF Drop, Popped, NoNewProcess
  <2> QED BY <1>4, <2>1, <2>2
<1>5. ASSUME NEW w \in Stoppers, Stopping(w) PROVE OneInv'
  <2>1. CASE StopProcess(w)
    BY <2>1, <1>q DEF StopProcess, NoNewProcess, Up, Alive, TypeOK
  <2>2. CASE Terminate(w)
    BY <2>2, <1>q DEF Terminate, NoNewProcess, Killed
  <2>3. CASE DropStopped(w)
    BY <2>3, <1>q DEF DropStopped, Popped, NoNewProcess
  <2>4. CASE UNCHANGED <<proc, hidden, slips, entry, task>>
    BY <2>4, <1>u
  <2> QED BY <1>5, <2>1, <2>2, <2>3, <2>4
          DEF Stopping, BeginStop, StopInVain, CheckStopped, TerminateInVain, Abandoned
<1>6. ASSUME NEW t \in Tasks, Coroutine(t) PROVE OneInv'
  <2>1. \A u \in Tasks \ {t} : task[u].at \notin Section
    BY <1>6 DEF Coroutine, Guard, Redeploy, CancelTimer, StopsByItself, StopHere, StoppedHere,
                Settle, Ensure, ReuseTracked, QueryFails, QueryInstances, Start, Track, Turn
  <2>2. Exclusion'
    <3>1. \A u \in Tasks \ {t} : task'[u] = task[u]
      <4>1. CASE Start(t)
        BY <4>1 DEF Start, Return, TypeOK
      <4>2. CASE ~Start(t)
        <5>1. \E at : Step(t, at) \/ Return(t) \/ GoOn(t)
          BY <1>6, <4>2 DEF Coroutine, Guard, Redeploy, CancelTimer, StopsByItself, StopHere, StoppedHere,
             Settle, Ensure, ReuseTracked, QueryFails, QueryInstances, Collide, CleanUp, Block, Track
        <5> QED BY <5>1 DEF Step, Return, GoOn, TypeOK
      <4> QED BY <4>1, <4>2
    <3> QED BY <2>1, <3>1, TurnExcludes
  <2>3. CASE QueryInstances(t)
    <3>0. hidden' = hidden /\ slips' = slips /\ entry' = entry /\ task[t].at = "query"
      BY <2>3 DEF QueryInstances, Turn
    <3>1. CASE Return(t)
      <4>1. \A p \in Procs : proc'[p] = proc[p] \/ (p \in Alive /\ proc'[p] \in {"orphan", "gone"})
        BY <2>3 DEF QueryInstances, Collide, CleanUp, Block, Killed
      <4>2. NoNewProcess
        BY <3>0, <3>1, <4>1 DEF NoNewProcess, Return, TypeOK
      <4> QED BY <4>2, <2>2, Calm
    <3>2. CASE GoOn(t) /\ ~Return(t)
      <4>1. Alive' \subseteq hidden' \cup {entry}
        <5>1. CASE proc' = Killed
          BY <5>1 DEF Killed, Alive
        <5>2. CASE Untracked = {} /\ UNCHANGED proc
          BY <5>2, <3>0 DEF Untracked, Alive, OneInv
        <5> QED BY <2>3, <3>2, <5>1, <5>2 DEF QueryInstances, Collide, CleanUp, Block
      <4>2. \A u \in Tasks : task'[u] = IF u = t THEN [at |-> "start", of |-> entry] ELSE task[u]
        BY <3>2 DEF GoOn, TypeOK
      <4>3. \A p \in Procs : proc'[p] = proc[p] \/ (p \in Alive /\ proc'[p] \in {"orphan", "gone"})
        BY <2>3 DEF QueryInstances, Collide, CleanUp, Block, Killed
      <4>4. Alive' \subseteq Alive /\ \A p \in Procs : Up(p)' => Up(p)
        BY <4>3 DEF Alive, Up
      <4>5. InFlight' = InFlight
        BY <4>2, <3>0 DEF InFlight
      <4>6. OneAlive' /\ TrackedUnlessSlipped'
        BY <3>0, <4>4, <4>5 DEF OneInv, OneAlive, TrackedUnlessSlipped
      <4>7. (entry # None => Alive \subseteq hidden \cup {entry})'
        BY <3>0, <4>1
      <4>8. (\A u \in Tasks : task[u].at \in {"start", "track"} => Alive \subseteq hidden \cup {task[u].of})'
        BY <4>1, <4>2, <2>1 DEF Section
      <4>9. (\A u \in Tasks : task[u].at = "track" => entry = None)'
        BY <4>2, <2>1 DEF Section
      <4> QED BY <2>2, <4>6, <4>7, <4>8, <4>9 DEF OneInv
    <3> QED BY <2>3, <3>1, <3>2 DEF QueryInstances, Collide, CleanUp, Block
  <2>4. CASE Start(t)
    <3>1. CASE Return(t) /\ UNCHANGED <<proc, hidden>>
      <4>1. NoNewProcess
        BY <2>4, <3>1 DEF Start, Turn, NoNewProcess, Return, TypeOK
      <4> QED BY <4>1, <2>2, Calm
    <3>2. CASE ~(Return(t) /\ UNCHANGED <<proc, hidden>>)
      <4>1. PICK p \in Procs : /\ proc[p] = "unborn"
                               /\ proc' = [proc EXCEPT ![p] = "up"]
                               /\ task' = [task EXCEPT ![t] = [at |-> "track", of |-> p]]
        BY <2>4, <3>2 DEF Start
      <4>2. hidden' = hidden \cup ({task[t].of} \cap Alive) /\ entry = None /\ entry' = None
            /\ slips' = slips /\ task[t].at = "start"
        BY <2>4, <3>2 DEF Start, Reaped, Turn
      <4>3. Alive' = Alive \cup {p} /\ \A r \in Procs : Up(r)' => Up(r) \/ r = p
        BY <4>1 DEF Alive, Up, TypeOK
      <4>4. Alive \subseteq hidden'
        BY <4>2 DEF OneInv
      <4>5. \A u \in Tasks : task'[u] = IF u = t THEN [at |-> "track", of |-> p] ELSE task[u]
        BY <4>1 DEF TypeOK
      <4>6. OneAlive'
        BY <4>3, <4>4 DEF OneAlive
      <4>7. TrackedUnlessSlipped'
        <5>1. InFlight \cup {p} \subseteq InFlight'
          BY <4>2, <4>5 DEF InFlight
        <5> QED BY <5>1, <4>2, <4>3 DEF OneInv, TrackedUnlessSlipped
      <4>8. (\A u \in Tasks : task[u].at \in {"start", "track"} => Alive \subseteq hidden \cup {task[u].of})'
        BY <4>3, <4>4, <4>5, <2>1 DEF Section
      <4>9. (\A u \in Tasks : task[u].at = "track" => entry = None)'
        BY <4>2
      <4> QED BY <2>2, <4>2, <4>6, <4>7, <4>8, <4>9 DEF OneInv
    <3> QED BY <3>1, <3>2
  <2>5. CASE Track(t)
    <3>1. /\ task[t].at = "track" /\ entry = None /\ entry' = task[t].of
          /\ UNCHANGED <<proc, hidden, slips>>
      BY <2>5 DEF Track, Turn, OneInv
    <3>2. \A u \in Tasks : task'[u] = IF u = t THEN [at |-> "idle", of |-> None] ELSE task[u]
      BY <2>5 DEF Track, Return, TypeOK
    <3>3. Alive' = Alive /\ \A p \in Procs : Up(p)' = Up(p)
      BY <3>1 DEF Alive, Up
    <3>4. InFlight \subseteq InFlight' \cup {task[t].of}
      BY <3>2 DEF InFlight
    <3>5. TrackedUnlessSlipped'
      BY <3>1, <3>3, <3>4 DEF OneInv, TrackedUnlessSlipped
    <3>6. (entry # None => Alive \subseteq hidden \cup {entry})'
      BY <3>1, <3>3 DEF OneInv
    <3>7. OneAlive'
      BY <3>1, <3>3 DEF OneInv, OneAlive
    <3>8. \A u \in Tasks : task'[u].at \notin {"start", "track"}
      BY <3>2, <2>1 DEF Section
    <3> QED BY <2>2, <3>5, <3>6, <3>7, <3>8 DEF OneInv
  <2>6. CASE ~QueryInstances(t) /\ ~Start(t) /\ ~Track(t)
    <3>1. UNCHANGED <<proc, hidden, slips, entry>> /\ task[t].at # "track"
      BY <1>6, <2>6 DEF Coroutine, Guard, Redeploy, CancelTimer, StopsByItself, StopHere, StoppedHere,
             Settle, Ensure, ReuseTracked, QueryFails, Turn
    <3>2. \E at \in Steps \ {"start", "track"} : Step(t, at) \/ Return(t)
      <4>1. CASE QueryFails(t)
        BY <4>1 DEF QueryFails, Steps
      <4>2. CASE ~QueryFails(t)
        BY <1>6, <2>6, <4>2
           DEF Coroutine, Guard, Redeploy, CancelTimer, StopsByItself, StopHere, StoppedHere,
               Settle, Ensure, ReuseTracked, Steps
      <4> QED BY <4>1, <4>2
    <3>3. \A u \in Tasks : task'[u] = task[u] \/ (task[u].at # "track" /\ task'[u].at \notin {"start", "track"})
      BY <3>1, <3>2 DEF Step, Return, TypeOK
    <3>4. NoNewProcess
      BY <3>1, <3>3 DEF NoNewProcess
    <3> QED BY <3>4, <2>2, Calm
  <2> QED BY <2>3, <2>4, <2>5, <2>6
<1>7. CASE UNCHANGED vars
  BY <1>7, <1>u
<1> QED BY <1>1, <1>2, <1>3, <1>4, <1>5, <1>6, <1>7 DEF Next

LEMMA OneAlways == Spec => []OneInv
<1>1. Init => OneInv
  BY ProcsAssumption DEF Init, OneInv, Exclusion, OneAlive, TrackedUnlessSlipped, Alive, Up, Section
<1> QED BY <1>1, TypeCorrect, OneStep, PTL DEF Spec

\* However many requests overlap, two processes of the service live only when
\* the start of one missed the other because it was tracked at that moment.
THEOREM OneProcess == Spec => []OneAlive
<1>1. OneInv => OneAlive
  BY DEF OneInv
<1> QED BY <1>1, OneAlways, PTL

\* What the manager does not track slipped from it at a known step.
THEOREM Tracked == Spec => []TrackedUnlessSlipped
<1>1. OneInv => TrackedUnlessSlipped
  BY DEF OneInv
<1> QED BY <1>1, OneAlways, PTL

-----------------------------------------------------------------------------
(* What a restart takes for stopped *)

\* A process never comes back, so what a restart left is not one started later.
LeftInv ==
  /\ LeftIsOrphan
  /\ \A p \in left : proc[p] # "unborn"

Onward ==
  /\ slips \subseteq slips'
  /\ \A p \in Procs : proc[p] # "unborn" => proc'[p] # "unborn" /\ (Up(p)' => Up(p))

LEMMA MovesOnward == TypeOK /\ [Next]_vars => Onward
<1> USE ProcsAssumption DEF Onward, TypeOK
<1> SUFFICES ASSUME TypeOK, [Next]_vars PROVE Onward
  OBVIOUS
<1>q. ASSUME UNCHANGED <<proc, slips>> PROVE Onward
  BY <1>q DEF Up
<1>1. CASE World
  BY <1>1 DEF World, Exit, Appear, Vanish, Fade, Alive, Up
<1>2. CASE Request
  BY <1>2, <1>q DEF Request, StopService, ReclaimService, StartService, RestartService, RedeployService
<1>3. CASE Scheduler
  BY <1>3, <1>q DEF Scheduler, Arm, PollNothing, PollTooEarly, PollStopped, AfterWorker,
                    PollDeadline, PollResult, RestartAfterGuard
<1>4. ASSUME NEW h \in Threads, Looks(h) \/ Drop(h) PROVE Onward
  BY <1>4 DEF Looks, Look, Drop, Popped, Up
<1>5. ASSUME NEW w \in Stoppers, Stopping(w) PROVE Onward
  <2>1. CASE StopProcess(w)
    BY <2>1 DEF StopProcess, Up
  <2>2. CASE Terminate(w)
    BY <2>2 DEF Terminate, Killed, Alive, Up
  <2>3. CASE DropStopped(w)
    BY <2>3 DEF DropStopped, Popped, Up
  <2>4. CASE UNCHANGED <<proc, slips>>
    BY <2>4, <1>q
  <2> QED BY <1>5, <2>1, <2>2, <2>3, <2>4
          DEF Stopping, BeginStop, StopInVain, CheckStopped, TerminateInVain, Abandoned
<1>6. ASSUME NEW t \in Tasks, Coroutine(t) PROVE Onward
  <2>1. CASE QueryInstances(t)
    BY <2>1 DEF QueryInstances, Collide, CleanUp, Block, Killed, Alive, Up
  <2>2. CASE Start(t)
    BY <2>2 DEF Start, Up
  <2>3. CASE UNCHANGED <<proc, slips>>
    BY <2>3, <1>q
  <2> QED BY <1>6, <2>1, <2>2, <2>3 DEF Coroutine, Guard, Redeploy, CancelTimer, StopsByItself,
             StopHere, StoppedHere, Settle, Ensure, ReuseTracked, QueryFails, Track
<1>7. CASE UNCHANGED vars
  BY <1>7, <1>q
<1> QED BY <1>1, <1>2, <1>3, <1>4, <1>5, <1>6, <1>7 DEF Next

LEMMA LeftStep == TypeOK /\ OneInv /\ LeftInv /\ [Next]_vars => LeftInv'
<1> SUFFICES ASSUME TypeOK, OneInv, LeftInv, [Next]_vars PROVE LeftInv'
  OBVIOUS
<1>1. Onward /\ left \subseteq Procs
  BY MovesOnward DEF TypeOK
<1>2. CASE left' = left
  BY <1>1, <1>2 DEF LeftInv, LeftIsOrphan, Onward
<1>3. CASE \/ PollStopped /\ EndAction(action)
           \/ AfterWorker /\ ~Running /\ EndAction(ui.act)
  <2>1. ~Up(entry) /\ UNCHANGED <<proc, slips, entry>>
    BY <1>3 DEF PollStopped, AfterWorker, Running
  <2>2. left' = left \/ left' = left \cup (Alive \ InFlight)
    BY <1>3 DEF EndAction
  <2>3. \A p \in Alive \ InFlight : p \in Procs /\ proc[p] # "unborn" /\ (Up(p) => p \in slips)
    BY <2>1 DEF OneInv, TrackedUnlessSlipped, Alive
  <2> QED BY <2>1, <2>2, <2>3 DEF LeftInv, LeftIsOrphan, Up
<1> QED
  <2>1. left' = left \/ PollStopped \/ AfterWorker
    BY DEF Next, World, Exit, Appear, Vanish, Fade, Request, StopService, ReclaimService, StartService,
           RestartService, RedeployService, Scheduler, Arm, PollNothing, PollTooEarly, PollDeadline,
           PollResult, RestartAfterGuard, Looks, Look, Drop, Stopping, BeginStop, StopProcess, StopInVain,
           DropStopped, CheckStopped, Terminate, TerminateInVain, Abandoned, Coroutine, Guard, Redeploy,
           CancelTimer, StopsByItself, StopHere, StoppedHere, Settle, Ensure, ReuseTracked,
           QueryInstances, QueryFails, Start, Track
  <2>2. PollStopped => EndAction(action)
    BY DEF PollStopped
  <2>3. AfterWorker => left' = left \/ (~Running /\ EndAction(ui.act))
    BY DEF AfterWorker
  <2> QED BY <1>2, <1>3, <2>1, <2>2, <2>3

\* A restart launches the service again only when the process it stopped is
\* down, its supervisor at least.
THEOREM RestartWhenDown == Spec => []LeftIsOrphan
<1>1. Init => LeftInv
  BY DEF Init, LeftInv, LeftIsOrphan
<1>2. LeftInv => LeftIsOrphan
  BY DEF LeftInv
<1> QED BY <1>1, <1>2, TypeCorrect, OneAlways, LeftStep, PTL DEF Spec

=============================================================================
