--------------------------- MODULE ExecFlowProofs ---------------------------
(***************************************************************************)
(* Proofs about ExecFlow, for any number of overlapping toggles, workers,  *)
(* triggers, contexts and graphs, and any failures of node code.           *)
(***************************************************************************)
EXTENDS ExecFlow, SequenceTheorems, TLAPS

USE NoWorkerAssumption, DeployerAssumption, BoundsAssumption, FailuresAssumption

WState == Alive \cup Dead \cup {"unwinding"}
Waits  == {"cancel", "undoCancel"}
PC     == Waits \cup {"idle", "turnOn", "turnOff", "sources", "start", "failing", "undoSources"}
Items  == [seq : Triggers, under : 0 .. MaxGraphs]

(***************************************************************************)
(* The inductive invariant.  A trigger gets its number when it is queued,  *)
(* so the queue is sorted and newer than what was propagated.  A worker    *)
(* that is over is used again only when nobody refers to it, so whom an    *)
(* operation awaits stays cancelled; every worker that outlives its        *)
(* cancellation is one that an operation awaits; and the only context that *)
(* runs is the registered one, until a start leaves another behind.        *)
(***************************************************************************)
QueueOrder ==
  /\ begun <= fired
  /\ \A i \in 1 .. Len(queue) : begun < queue[i].seq /\ queue[i].seq <= fired
  /\ \A i, j \in 1 .. Len(queue) : i < j => queue[i].seq < queue[j].seq

KnownIsAlive  == task # NoWorker => wstate[task] \in Alive \cup {"crashed"}
EndsAwaited   == \A w \in Workers : wstate[w] = "unwinding" => Awaited(w)
DeafIsAlive   == \A w \in deaf : w # task /\ wstate[w] \in Alive
OnWhileBusy   == \A w \in Workers : on[w] # 0 => wstate[w] \in {"running", "unwinding"}
CrashIsMishap == mishap < Abort => \A w \in Workers : wstate[w] # "crashed"
NoCleanup     == "cleanup" \notin Failures =>
                   deaf = {} /\ \A w \in Workers : wstate[w] # "unwinding"
AwaitedEnds ==
  \A k \in Controllers : pc[k] \in Waits =>
    /\ waitFor[k] \in Workers \ {task}
    /\ wstate[waitFor[k]] \in Dead \cup {"unwinding"} \/ waitFor[k] \in deaf

WorkerTypes ==
  /\ task \in Workers \cup {NoWorker}
  /\ wstate \in [Workers -> WState]
  /\ on \in [Workers -> 0 .. MaxTriggers]
  /\ deaf \in SUBSET Workers
  /\ pc \in [Controllers -> PC]
  /\ waitFor \in [Controllers -> Workers \cup {NoWorker}]

WorkersKnown ==
  /\ WorkerTypes
  /\ KnownIsAlive /\ NoStrayWorker /\ EndsAwaited /\ DeafIsAlive
  /\ OnWhileBusy /\ NoCleanup /\ AwaitedEnds

SourceTypes ==
  /\ ctx \in 0 .. MaxContexts /\ live \in SUBSET Contexts
  /\ mine \in [Controllers -> 0 .. MaxContexts]
  /\ mishap \in 0 .. Abort

SourcesKnown ==
  /\ SourceTypes
  /\ mishap < Stray => live \subseteq {ctx}
  /\ mishap = 0 /\ ctx # 0 => ctx \in live

SwitchTypes ==
  /\ bus \in BOOLEAN /\ active \in BOOLEAN
  /\ graph \in 0 .. MaxGraphs /\ routes \in 0 .. MaxGraphs

QueueTypes ==
  /\ queue \in Seq(Items)
  /\ fired \in 0 .. MaxTriggers /\ begun \in 0 .. MaxTriggers

IInv ==
  /\ WorkersKnown
  /\ SourcesKnown
  /\ SwitchTypes
  /\ CrashIsMishap
  /\ QueueTypes /\ QueueOrder /\ QueueIsCurrent

Forward == begun' # begun => begun' > begun

LEMMA TypesTogether == WorkerTypes /\ SourceTypes /\ SwitchTypes /\ QueueTypes <=> TypeOK
  BY DEF WorkerTypes, SourceTypes, SwitchTypes, QueueTypes, TypeOK, WState, PC, Waits, Items

LEMMA InitIInv == Init => IInv
  <1> SUFFICES ASSUME Init PROVE IInv
    OBVIOUS
  <1>1. <<>> \in Seq(Items) /\ Len(<<>>) = 0 /\ DOMAIN <<>> = {}
    OBVIOUS
  <1>2. 0 \in 0 .. MaxGraphs /\ 0 \in 0 .. MaxTriggers /\ 0 \in 0 .. MaxContexts
    OBVIOUS
  <1>3. WorkersKnown /\ CrashIsMishap
    BY <1>2
       DEF Init, WorkersKnown, WorkerTypes, KnownIsAlive, NoStrayWorker, EndsAwaited, DeafIsAlive,
           OnWhileBusy, CrashIsMishap, NoCleanup, AwaitedEnds, Alive, Dead, WState, PC, Waits
  <1>4. SourcesKnown /\ SwitchTypes /\ QueueTypes
    BY <1>1, <1>2 DEF Init, SourcesKnown, SourceTypes, SwitchTypes, QueueTypes, Abort
  <1>5. QueueOrder /\ QueueIsCurrent
    BY <1>1 DEF Init, QueueOrder, QueueIsCurrent
  <1> QED
    BY <1>3, <1>4, <1>5 DEF IInv

LEMMA HappensFacts ==
  ASSUME SourceTypes, NEW m \in 0 .. Abort, Happens(m)
  PROVE  mishap' \in 0 .. Abort /\ mishap' >= mishap /\ mishap' >= m
  BY DEF SourceTypes, Happens, Abort

LEMMA FreeIsOver ==
  ASSUME NEW w, Free(w)
  PROVE  Over(w)
  BY DEF Free

-----------------------------------------------------------------------------
(***************************************************************************)
(* What an operation of controller k may do to the workers: leave them as  *)
(* they are, forgetting one that is over; start one; cancel the one there  *)
(* is and await it; cancel one that has not run.                           *)
(***************************************************************************)
Keeps ==
  /\ UNCHANGED <<wstate, on, deaf>>
  /\ task' = task \/ (task' = NoWorker /\ (task = NoWorker \/ Crashed))

Starts == StartWorker /\ UNCHANGED <<on, deaf>>

Moves(k) ==
  \/ (Keeps \/ Starts) /\ \E p \in PC \ Waits : Goes(k, p)
  \/ \E p \in Waits : Cancel(k, p)
  \/ CancelUnborn(k)

\* An operation goes on only when the worker it awaits has ended.
Patient(k) == pc[k] \in Waits => wstate[waitFor[k]] \in Dead

LEMMA StartWorkerCases ==
  ASSUME StartWorker
  PROVE  \/ HasWorker /\ UNCHANGED <<task, wstate>>
         \/ ~HasWorker /\ \E w \in Workers : /\ Over(w) /\ task' = w
                                             /\ wstate' = [wstate EXCEPT ![w] = "waiting"]
  BY FreeIsOver DEF StartWorker

(* The operation awaits no worker afterwards.                              *)
LEMMA GoesKnown ==
  ASSUME WorkersKnown, NEW k \in Controllers, Patient(k), Keeps \/ Starts,
         NEW p \in PC \ Waits, Goes(k, p)
  PROVE  WorkersKnown'
  <1>1. /\ pc' = [pc EXCEPT ![k] = p] /\ waitFor' = [waitFor EXCEPT ![k] = NoWorker]
        /\ UNCHANGED <<on, deaf>>
    BY DEF Goes, Awaits, Keeps, Starts
  <1>2. /\ pc' \in [Controllers -> PC] /\ waitFor' \in [Controllers -> Workers \cup {NoWorker}]
        /\ pc'[k] \notin Waits
        /\ \A j \in Controllers : j # k => pc'[j] = pc[j] /\ waitFor'[j] = waitFor[j]
    BY <1>1 DEF WorkersKnown, WorkerTypes
  <1>3. ASSUME NEW w, Awaited(w), wstate[w] \notin Dead
        PROVE  Awaited(w)'
    BY <1>2, <1>3 DEF Awaited, Patient, Waits
  <1>4. CASE Keeps
    <2>1. WorkerTypes' /\ wstate' = wstate /\ task' \in {task, NoWorker}
      BY <1>1, <1>2, <1>4 DEF Keeps, WorkersKnown, WorkerTypes
    <2>2. KnownIsAlive' /\ OnWhileBusy' /\ NoCleanup' /\ DeafIsAlive'
      BY <1>1, <2>1
         DEF WorkersKnown, KnownIsAlive, OnWhileBusy, NoCleanup, DeafIsAlive, WorkerTypes
    <2>3. NoStrayWorker'
      BY <1>1, <1>3, <1>4, <2>1
         DEF Keeps, Crashed, WorkersKnown, WorkerTypes, NoStrayWorker, Alive, Dead
    <2>4. EndsAwaited'
      BY <1>3, <2>1 DEF WorkersKnown, EndsAwaited, Dead
    <2>5. AwaitedEnds'
      BY <1>1, <1>2, <2>1 DEF WorkersKnown, AwaitedEnds
    <2> QED
      BY <2>1, <2>2, <2>3, <2>4, <2>5 DEF WorkersKnown
  <1>5. CASE Starts /\ ~HasWorker
    <2>1. PICK w \in Workers : Over(w) /\ task' = w /\ wstate' = [wstate EXCEPT ![w] = "waiting"]
      BY <1>5, StartWorkerCases DEF Starts
    <2>2. /\ wstate'[w] = "waiting" /\ \A v \in Workers : v # w => wstate'[v] = wstate[v]
          /\ wstate' \in [Workers -> WState] /\ wstate[w] \in Dead
          /\ \A j \in Controllers : waitFor[j] # w
      BY <2>1 DEF WorkersKnown, WorkerTypes, Over, WState, Alive
    <2>3. WorkerTypes'
      BY <1>1, <1>2, <2>1, <2>2 DEF WorkersKnown, WorkerTypes
    <2>4. KnownIsAlive'
      BY <2>1, <2>2 DEF KnownIsAlive, Alive
    <2>5. on' = on /\ on[w] = 0
      BY <1>1, <2>2 DEF WorkersKnown, OnWhileBusy, Dead
    <2>6. OnWhileBusy'
      BY <2>2, <2>5 DEF WorkersKnown, OnWhileBusy
    <2>7. w \notin deaf
      BY <2>2 DEF WorkersKnown, DeafIsAlive, Alive, Dead
    <2>8. NoCleanup' /\ DeafIsAlive'
      BY <1>1, <2>1, <2>2, <2>7 DEF WorkersKnown, WorkerTypes, NoCleanup, DeafIsAlive
    <2>9. NoStrayWorker'
      <3> SUFFICES ASSUME NEW v \in Workers, wstate'[v] \in Alive, v # w
                   PROVE  v \in deaf /\ Awaited(v)'
        BY <1>1, <2>1 DEF NoStrayWorker
      <3>1. wstate[v] \in Alive /\ wstate[v] \notin Dead
        BY <2>2 DEF Alive, Dead
      <3>2. v # task
        BY <1>5, <3>1 DEF HasWorker
      <3> QED
        BY <1>3, <3>1, <3>2 DEF WorkersKnown, NoStrayWorker
    <2>a. EndsAwaited'
      BY <1>3, <2>2 DEF WorkersKnown, EndsAwaited, Dead
    <2>b. AwaitedEnds'
      BY <1>1, <1>2, <2>1, <2>2 DEF WorkersKnown, AwaitedEnds
    <2> QED
      BY <2>3, <2>4, <2>6, <2>8, <2>9, <2>a, <2>b DEF WorkersKnown
  <1>6. CASE Starts /\ HasWorker
    BY <1>4, <1>6 DEF Starts, StartWorker, Keeps
  <1> QED
    BY <1>4, <1>5, <1>6

(* The operation cancels the worker, which nobody else awaits.             *)
LEMMA CancelKnown ==
  ASSUME WorkersKnown, NEW k \in Controllers, Patient(k), NEW p \in Waits, Cancel(k, p)
  PROVE  WorkersKnown'
  <1>1. /\ task \in Workers /\ wstate[task] \in Alive /\ task' = NoWorker /\ deaf' = deaf
        /\ pc' = [pc EXCEPT ![k] = p] /\ waitFor' = [waitFor EXCEPT ![k] = task]
    BY DEF Cancel, HasWorker, WorkersKnown, WorkerTypes, KnownIsAlive, Awaits, Alive, Dead
  <1>2. PICK s \in {"done", "unwinding"} :
          /\ wstate' = [wstate EXCEPT ![task] = s]
          /\ on' = IF s = "done" THEN [on EXCEPT ![task] = 0] ELSE on
          /\ s = "unwinding" => "cleanup" \in Failures
    BY DEF Cancel
  <1>3. /\ pc' \in [Controllers -> PC] /\ waitFor' \in [Controllers -> Workers \cup {NoWorker}]
        /\ pc'[k] = p /\ waitFor'[k] = task
        /\ \A j \in Controllers : j # k => pc'[j] = pc[j] /\ waitFor'[j] = waitFor[j]
    BY <1>1 DEF WorkersKnown, WorkerTypes, PC
  <1>4. /\ wstate'[task] = s /\ \A v \in Workers : v # task => wstate'[v] = wstate[v]
        /\ wstate' \in [Workers -> WState]
    BY <1>1, <1>2 DEF WorkersKnown, WorkerTypes, WState, Dead
  <1>5. /\ on' \in [Workers -> 0 .. MaxTriggers]
        /\ \A v \in Workers : v # task => on'[v] = on[v]
        /\ s = "done" => on'[task] = 0
    <2>1. 0 \in 0 .. MaxTriggers
      OBVIOUS
    <2> QED
      BY <1>1, <1>2, <2>1 DEF WorkersKnown, WorkerTypes
  <1>6. WorkerTypes'
    BY <1>1, <1>3, <1>4, <1>5 DEF WorkersKnown, WorkerTypes
  <1>7. KnownIsAlive' /\ OnWhileBusy'
    BY <1>1, <1>4, <1>5 DEF WorkersKnown, KnownIsAlive, OnWhileBusy
  <1>8. task \notin deaf
    BY DEF WorkersKnown, DeafIsAlive
  <1>9. NoCleanup' /\ DeafIsAlive'
    BY <1>1, <1>2, <1>4, <1>8 DEF WorkersKnown, WorkerTypes, NoCleanup, DeafIsAlive
  <1>a. ASSUME NEW w, Awaited(w), wstate[w] \notin Dead
        PROVE  Awaited(w)'
    BY <1>3, <1>a DEF Awaited, Patient, Waits
  <1>b. PICK t \in Workers : t = task
    BY <1>1
  <1>f. Awaited(t)'
    BY <1>3, <1>b DEF Awaited, Waits
  <1>c. NoStrayWorker'
    <2> SUFFICES ASSUME NEW v \in Workers, wstate'[v] \in Alive
                 PROVE  v \in deaf /\ Awaited(v)'
      BY <1>1 DEF NoStrayWorker
    <2>1. v # task /\ wstate[v] \in Alive /\ wstate[v] \notin Dead
      BY <1>2, <1>4 DEF Alive, Dead
    <2> QED
      BY <1>a, <2>1 DEF WorkersKnown, NoStrayWorker
  <1>d. EndsAwaited'
    <2> SUFFICES ASSUME NEW v \in Workers, wstate'[v] = "unwinding", v # t
                 PROVE  Awaited(v)'
      BY <1>f DEF EndsAwaited
    <2> QED
      BY <1>4, <1>a, <1>b DEF WorkersKnown, EndsAwaited, Dead
  <1>e. AwaitedEnds'
    <2> SUFFICES ASSUME NEW j \in Controllers, pc'[j] \in Waits
                 PROVE  /\ waitFor'[j] \in Workers
                        /\ \/ wstate'[waitFor'[j]] \in Dead \cup {"unwinding"}
                           \/ waitFor'[j] \in deaf
      BY <1>1 DEF AwaitedEnds
    <2>1. CASE j = k
      BY <1>1, <1>2, <1>3, <1>4, <2>1 DEF Dead
    <2>2. CASE j # k
      BY <1>3, <1>4, <2>2 DEF WorkersKnown, AwaitedEnds
    <2> QED
      BY <2>1, <2>2
  <1> QED
    BY <1>6, <1>7, <1>9, <1>c, <1>d, <1>e DEF WorkersKnown

LEMMA UnbornKnown ==
  ASSUME WorkersKnown, NEW k \in Controllers, Patient(k), CancelUnborn(k)
  PROVE  WorkersKnown'
  <1>1. PICK w \in Workers : /\ Over(w) /\ wstate' = [wstate EXCEPT ![w] = "done"]
                             /\ Awaits(k, "undoCancel", w)
    BY FreeIsOver DEF CancelUnborn
  <1>2. ~HasWorker /\ task' = NoWorker /\ UNCHANGED <<on, deaf>>
    BY DEF CancelUnborn
  <1>3. /\ pc' \in [Controllers -> PC] /\ waitFor' \in [Controllers -> Workers \cup {NoWorker}]
        /\ pc'[k] = "undoCancel" /\ waitFor'[k] = w
        /\ \A j \in Controllers : j # k => pc'[j] = pc[j] /\ waitFor'[j] = waitFor[j]
    BY <1>1 DEF WorkersKnown, WorkerTypes, PC, Waits, Awaits
  <1>4. /\ wstate'[w] = "done" /\ \A v \in Workers : v # w => wstate'[v] = wstate[v]
        /\ wstate' \in [Workers -> WState] /\ wstate[w] \in Dead
        /\ \A j \in Controllers : waitFor[j] # w
    BY <1>1 DEF WorkersKnown, WorkerTypes, Over, WState, Dead
  <1>5. WorkerTypes' /\ KnownIsAlive'
    BY <1>2, <1>3, <1>4 DEF WorkersKnown, WorkerTypes, KnownIsAlive
  <1>6. on[w] = 0 /\ w \notin deaf
    BY <1>4 DEF WorkersKnown, OnWhileBusy, DeafIsAlive, Alive, Dead
  <1>7. OnWhileBusy' /\ NoCleanup'
    BY <1>2, <1>4, <1>6 DEF WorkersKnown, OnWhileBusy, NoCleanup
  <1>8. DeafIsAlive'
    BY <1>2, <1>4, <1>6 DEF WorkersKnown, WorkerTypes, DeafIsAlive
  <1>9. ASSUME NEW v, Awaited(v), wstate[v] \notin Dead
        PROVE  Awaited(v)'
    BY <1>3, <1>9 DEF Awaited, Patient, Waits
  <1>a. NoStrayWorker'
    <2> SUFFICES ASSUME NEW v \in Workers, wstate'[v] \in Alive
                 PROVE  v \in deaf /\ Awaited(v)'
      BY <1>2 DEF NoStrayWorker
    <2>1. v # w /\ wstate[v] \in Alive /\ wstate[v] \notin Dead
      BY <1>4 DEF Alive, Dead
    <2>2. v # task
      BY <1>2, <2>1 DEF HasWorker
    <2> QED
      BY <1>9, <2>1, <2>2 DEF WorkersKnown, NoStrayWorker
  <1>b. EndsAwaited'
    BY <1>4, <1>9 DEF WorkersKnown, EndsAwaited, Dead
  <1>c. AwaitedEnds'
    BY <1>2, <1>3, <1>4 DEF WorkersKnown, AwaitedEnds, Dead
  <1> QED
    BY <1>5, <1>7, <1>8, <1>a, <1>b, <1>c DEF WorkersKnown

LEMMA MovesKnown ==
  ASSUME WorkersKnown, NEW k \in Controllers, Patient(k), Moves(k)
  PROVE  WorkersKnown'
  BY GoesKnown, CancelKnown, UnbornKnown DEF Moves

(***************************************************************************)
(* What every step of an operation establishes: a worker that is known,    *)
(* contexts that are known, and a queue that is drained whenever the       *)
(* routes change.                                                          *)
(***************************************************************************)
SourcesStep == SourcesKnown' /\ mishap' >= mishap

QueueStep == routes' \in 0 .. MaxGraphs /\ (queue' = <<>> \/ UNCHANGED <<queue, routes>>)

Step(k) == Moves(k) /\ SourcesStep /\ QueueStep

LEMMA SourcesSame ==
  ASSUME SourcesKnown, UNCHANGED <<ctx, live, mine, mishap>>
  PROVE  SourcesStep
  BY DEF SourcesKnown, SourceTypes, SourcesStep

LEMMA StopEntrypointStep ==
  ASSUME SourcesKnown, NEW k \in Controllers, NEW p, StopEntrypoint(k, p),
         mishap' \in 0 .. Abort, mishap' >= mishap
  PROVE  SourcesStep
  BY DEF StopEntrypoint, SourcesKnown, SourceTypes, SourcesStep, Contexts, Stray, Abort

LEMMA StartEntrypointStep ==
  ASSUME SourcesKnown, NEW k \in Controllers, StartEntrypoint(k), UNCHANGED mishap
  PROVE  /\ SourcesStep
         /\ \E p \in {"idle", "start"} : Goes(k, p)
  <1>1. CASE ctx # 0
    BY <1>1, SourcesSame DEF StartEntrypoint, sourceVars
  <1>2. CASE ctx = 0
    <2>1. PICK c \in Contexts : /\ ctx' = c /\ live' = live \cup {c}
                                /\ mine' = [mine EXCEPT ![k] = c] /\ Goes(k, "start")
      BY <1>2 DEF StartEntrypoint
    <2>2. SourceTypes'
      BY <2>1 DEF SourcesKnown, SourceTypes, Contexts
    <2>3. mishap < Stray => live = {}
      BY <1>2 DEF SourcesKnown, SourceTypes, Contexts
    <2> QED
      BY <2>1, <2>2, <2>3 DEF SourcesKnown, SourcesStep, SourceTypes, Abort
  <1> QED
    BY <1>1, <1>2

LEMMA RefuseStartStep ==
  ASSUME SourcesKnown, NEW k \in Controllers, RefuseStart(k)
  PROVE  Moves(k) /\ SourcesStep /\ mishap' >= Rough
  <1>1. mishap' \in 0 .. Abort /\ mishap' >= mishap /\ mishap' >= Rough
    BY HappensFacts DEF RefuseStart, SourcesKnown, Rough, Abort
  <1>2. CASE StartWorker /\ Goes(k, "idle") /\ UNCHANGED <<sourceVars, on, deaf>>
    BY <1>1, <1>2
       DEF Moves, Starts, PC, Waits, SourcesStep, SourcesKnown, SourceTypes, sourceVars, Rough,
           Abort, Stray
  <1>3. CASE StartWorker /\ StopEntrypoint(k, "undoSources") /\ UNCHANGED <<on, deaf>>
    <2>1. Moves(k)
      BY <1>3 DEF Moves, Starts, StopEntrypoint, PC, Waits
    <2> QED
      BY <1>1, <1>3, <2>1, StopEntrypointStep
  <1>4. CASE (Cancel(k, "undoCancel") \/ CancelUnborn(k)) /\ UNCHANGED sourceVars
    <2>1. Moves(k)
      BY <1>4 DEF Moves, Waits
    <2> QED
      BY <1>1, <1>4, <2>1
         DEF SourcesStep, SourcesKnown, SourceTypes, sourceVars, Rough, Abort, Stray
  <1> QED
    BY <1>2, <1>3, <1>4 DEF RefuseStart

LEMMA StartStep ==
  ASSUME SourcesKnown, NEW k \in Controllers, Start(k)
  PROVE  Moves(k) /\ SourcesStep
  <1>1. CASE StartWorker /\ StartEntrypoint(k) /\ UNCHANGED <<on, deaf, mishap>>
    BY <1>1, StartEntrypointStep DEF Moves, Starts, PC, Waits
  <1> QED
    BY <1>1, RefuseStartStep DEF Start

\* The worker that is there once an operation has gone on.
Left(t) == t = task \/ (t = NoWorker /\ (task = NoWorker \/ Crashed))

LEMMA EndsMoves ==
  ASSUME NEW k \in Controllers, NEW t, Left(t), Ends(k, t)
  PROVE  Moves(k)
  BY DEF Ends, Left, Moves, Keeps, PC, Waits

LEMMA AfterSourcesStep ==
  ASSUME SourcesKnown, SwitchTypes, NEW k \in Controllers, NEW t, Left(t), AfterSources(k, t),
         graph' \in 0 .. MaxGraphs
  PROVE  Step(k) /\ queue' = <<>>
  <1>1. queue' = <<>> /\ QueueStep
    BY DEF AfterSources, Drained, QueueStep, SwitchTypes
  <1>2. CASE k = Deployer /\ active
    BY <1>1, <1>2, StartStep DEF AfterSources, Step
  <1>3. CASE ~(k = Deployer /\ active)
    BY <1>1, <1>3, EndsMoves, SourcesSame DEF AfterSources, Step, sourceVars
  <1> QED
    BY <1>2, <1>3

LEMMA AfterWorkerStep ==
  ASSUME SourcesKnown, SwitchTypes, NEW k \in Controllers, NEW t, Left(t), AfterWorker(k, t),
         graph' \in 0 .. MaxGraphs
  PROVE  Step(k)
  <1>1. CASE ctx # 0
    <2>1. /\ StopEntrypoint(k, "sources") /\ task' = t
          /\ UNCHANGED <<routes, queue, wstate, on, deaf, mishap>>
      BY <1>1 DEF AfterWorker
    <2>2. Moves(k)
      BY <2>1 DEF Left, Moves, Keeps, PC, Waits, StopEntrypoint
    <2>3. SourcesStep
      BY <2>1, StopEntrypointStep DEF SourcesKnown, SourceTypes, Abort
    <2> QED
      BY <2>1, <2>2, <2>3 DEF Step, QueueStep, SwitchTypes
  <1>2. CASE ctx = 0
    BY <1>2, AfterSourcesStep DEF AfterWorker
  <1> QED
    BY <1>1, <1>2 DEF SourcesKnown, SourceTypes

LEMMA StopWorkerStep ==
  ASSUME SourcesKnown, SwitchTypes, NEW k \in Controllers, StopWorker(k), graph' \in 0 .. MaxGraphs
  PROVE  Step(k)
  <1>1. CASE Cancel(k, "cancel") /\ UNCHANGED <<routes, sourceVars, queue, mishap>>
    BY <1>1, SourcesSame DEF Step, Moves, Waits, QueueStep, SwitchTypes, sourceVars
  <1>2. CASE (task = NoWorker \/ Crashed) /\ AfterWorker(k, NoWorker)
    BY <1>2, AfterWorkerStep DEF Left
  <1>3. CASE Crashed /\ Ends(k, NoWorker) /\ UNCHANGED <<routes, sourceVars, queue, mishap>>
    BY <1>3, SourcesSame, EndsMoves DEF Left, Step, QueueStep, SwitchTypes, sourceVars
  <1> QED
    BY <1>1, <1>2, <1>3 DEF StopWorker

LEMMA UndoWorkerStep ==
  ASSUME SwitchTypes, NEW k \in Controllers, UndoWorker(k), UNCHANGED routes
  PROVE  Moves(k) /\ QueueStep
  <1>1. QueueStep
    BY DEF UndoWorker, QueueStep, SwitchTypes, Drained
  <1>2. CASE Cancel(k, "undoCancel")
    BY <1>1, <1>2 DEF Moves, Waits
  <1>3. CASE (task = NoWorker \/ Crashed) /\ Ends(k, NoWorker)
    BY <1>1, <1>3, EndsMoves DEF Left
  <1> QED
    BY <1>2, <1>3 DEF UndoWorker

(***************************************************************************)
(* Where operations are: a deployment does not wait for a hook, and one    *)
(* that starts an entrypoint has made a context.                           *)
(***************************************************************************)
Places ==
  /\ pc \in [Controllers -> PC] /\ mine \in [Controllers -> 0 .. MaxContexts]
  /\ pc[Deployer] \notin {"turnOn", "turnOff"}
  /\ \A k \in Controllers : pc[k] = "start" => mine[k] \in Contexts

PlaceStep(k) ==
  \/ /\ \E p \in PC \ {"turnOn", "turnOff", "start"} : pc' = [pc EXCEPT ![k] = p]
     /\ mine' = mine \/ mine' = [mine EXCEPT ![k] = 0]
  \/ /\ pc' = [pc EXCEPT ![k] = "start"]
     /\ \E c \in Contexts : mine' = [mine EXCEPT ![k] = c]

LEMMA PlaceStepPlaces ==
  ASSUME Places, NEW k \in Controllers, PlaceStep(k)
  PROVE  Places'
  <1>1. Deployer \in Controllers
    BY DEF Controllers
  <1>2. CASE /\ \E p \in PC \ {"turnOn", "turnOff", "start"} : pc' = [pc EXCEPT ![k] = p]
             /\ mine' = mine \/ mine' = [mine EXCEPT ![k] = 0]
    BY <1>1, <1>2 DEF Places
  <1>3. CASE /\ pc' = [pc EXCEPT ![k] = "start"]
             /\ \E c \in Contexts : mine' = [mine EXCEPT ![k] = c]
    BY <1>1, <1>3 DEF Places, PC, Contexts
  <1> QED
    BY <1>2, <1>3 DEF PlaceStep

LEMMA StartPlace ==
  ASSUME NEW k \in Controllers, Start(k)
  PROVE  PlaceStep(k)
  <1>1. CASE StartEntrypoint(k)
    BY <1>1 DEF StartEntrypoint, PlaceStep, Goes, Awaits, PC, sourceVars
  <1>2. CASE RefuseStart(k)
    BY <1>2
       DEF RefuseStart, StopEntrypoint, Cancel, CancelUnborn, PlaceStep, Goes, Awaits, PC, Waits,
           sourceVars
  <1> QED
    BY <1>1, <1>2 DEF Start

LEMMA AfterSourcesPlace ==
  ASSUME NEW k \in Controllers, NEW t, AfterSources(k, t)
  PROVE  PlaceStep(k)
  <1>1. CASE Ends(k, t) /\ UNCHANGED sourceVars
    BY <1>1 DEF Ends, PlaceStep, Goes, Awaits, PC, sourceVars
  <1> QED
    BY <1>1, StartPlace DEF AfterSources

LEMMA AfterWorkerPlace ==
  ASSUME NEW k \in Controllers, NEW t, AfterWorker(k, t)
  PROVE  PlaceStep(k)
  <1>1. CASE StopEntrypoint(k, "sources")
    BY <1>1 DEF StopEntrypoint, PlaceStep, Goes, Awaits, PC
  <1> QED
    BY <1>1, AfterSourcesPlace DEF AfterWorker

LEMMA StopWorkerPlace ==
  ASSUME NEW k \in Controllers, StopWorker(k)
  PROVE  PlaceStep(k)
  <1>1. CASE Cancel(k, "cancel") /\ UNCHANGED sourceVars
    BY <1>1 DEF Cancel, PlaceStep, Awaits, PC, Waits, sourceVars
  <1>2. CASE Ends(k, NoWorker) /\ UNCHANGED sourceVars
    BY <1>2 DEF Ends, PlaceStep, Goes, Awaits, PC, sourceVars
  <1> QED
    BY <1>1, <1>2, AfterWorkerPlace DEF StopWorker

LEMMA UndoWorkerPlace ==
  ASSUME NEW k \in Controllers, UndoWorker(k), mine' = mine \/ mine' = [mine EXCEPT ![k] = 0]
  PROVE  PlaceStep(k)
  BY DEF UndoWorker, Cancel, Ends, PlaceStep, Goes, Awaits, PC, Waits

LEMMA ControlPlace ==
  ASSUME NEW k \in Controllers, Control(k)
  PROVE  PlaceStep(k)
  <1> USE DEF PlaceStep
  <1>1. CASE SetActiveSame(k) \/ StopFails(k) \/ StartFails(k) \/ Undone(k)
    BY <1>1 DEF SetActiveSame, StopFails, StartFails, Undone, Goes, Awaits, PC, Waits, sourceVars
  <1>2. CASE Started(k) \/ StartedLate(k) \/ StartRaises(k)
    BY <1>2 DEF Started, StartedLate, StartRaises, StartOver, Goes, Awaits, PC
  <1>3. CASE StartUndone(k) \/ SourcesUndone(k)
    BY <1>3, UndoWorkerPlace DEF StartUndone, SourcesUndone, sourceVars
  <1>4. CASE WorkerStopped(k)
    <2>1. CASE Ends(k, task) /\ UNCHANGED sourceVars
      BY <2>1 DEF Ends, PlaceStep, Goes, Awaits, PC, sourceVars
    <2> QED
      BY <1>4, <2>1, AfterWorkerPlace DEF WorkerStopped
  <1>5. CASE SourcesStopped(k) \/ Deactivate(k) \/ Activate(k)
    BY <1>5, AfterSourcesPlace, StopWorkerPlace, StartPlace
       DEF SourcesStopped, Deactivate, Activate
  <1> QED
    BY <1>1, <1>2, <1>3, <1>4, <1>5 DEF Control

LEMMA StepPlaces == Places /\ [Next]_vars => Places'
  <1> SUFFICES ASSUME Places, [Next]_vars PROVE Places'
    OBVIOUS
  <1>1. CASE UNCHANGED vars \/ Fire \/ \E w \in Workers : Worker(w) \/ Crash(w)
    <2>1. UNCHANGED <<pc, mine>>
      BY <1>1
         DEF vars, ctlVars, sourceVars, Fire, Worker, Crash, Take, Finish, Unwound, Swallow, Leaves
    <2> QED
      BY <2>1 DEF Places
  <1>2. CASE Deploy
    BY <1>2, StopWorkerPlace, PlaceStepPlaces DEF Deploy, Controllers
  <1>3. ASSUME NEW k \in Togglers, Toggle(k) PROVE Places'
    <2>1. /\ \E p \in {"turnOn", "turnOff"} : pc' = [pc EXCEPT ![k] = p]
          /\ mine' = mine /\ k # Deployer /\ k \in Controllers
      BY <1>3 DEF Toggle, Goes, Awaits, sourceVars, Controllers
    <2> QED
      BY <2>1 DEF Places, PC
  <1>4. ASSUME NEW k \in Controllers, Control(k) PROVE Places'
    BY <1>4, ControlPlace, PlaceStepPlaces
  <1> QED
    BY <1>1, <1>2, <1>3, <1>4 DEF Next

LEMMA InitPlaces == Init => Places
  BY DEF Init, Places, PC, Controllers

-----------------------------------------------------------------------------
(* No operation makes a worker crash.                                      *)
LEMMA MovesNoCrash ==
  ASSUME WorkersKnown, NEW k \in Controllers, Moves(k)
  PROVE  \A w \in Workers : wstate'[w] = "crashed" => wstate[w] = "crashed"
  <1>1. wstate \in [Workers -> WState]
    BY DEF WorkersKnown, WorkerTypes
  <1>2. wstate' = wstate \/ \E v \in Workers, s \in {"waiting", "done", "unwinding"} :
                              wstate' = [wstate EXCEPT ![v] = s]
    BY StartWorkerCases
       DEF Moves, Keeps, Starts, Cancel, CancelUnborn, HasWorker, WorkersKnown, WorkerTypes
  <1> QED
    BY <1>1, <1>2

LEMMA SteppedIInv ==
  ASSUME IInv, NEW k \in Controllers, Step(k), Patient(k), UNCHANGED <<fired, begun>>,
         bus' \in BOOLEAN, active' \in BOOLEAN, graph' \in 0 .. MaxGraphs
  PROVE  IInv' /\ Forward
  <1>1. WorkersKnown'
    BY MovesKnown DEF Step, IInv
  <1>2. CrashIsMishap'
    BY MovesNoCrash DEF Step, IInv, CrashIsMishap, SourcesStep, SourcesKnown, SourceTypes, Abort
  <1>3. <<>> \in Seq(Items) /\ Len(<<>>) = 0 /\ DOMAIN <<>> = {}
    OBVIOUS
  <1>4. QueueTypes' /\ QueueOrder' /\ QueueIsCurrent'
    <2>1. CASE queue' = <<>>
      BY <1>3, <2>1 DEF IInv, QueueTypes, QueueOrder, QueueIsCurrent
    <2>2. CASE UNCHANGED <<queue, routes>>
      BY <2>2 DEF IInv, QueueTypes, QueueOrder, QueueIsCurrent
    <2> QED
      BY <2>1, <2>2 DEF Step, QueueStep
  <1>5. SwitchTypes' /\ SourcesKnown'
    BY DEF Step, QueueStep, SourcesStep, SwitchTypes
  <1> QED
    BY <1>1, <1>2, <1>4, <1>5 DEF IInv, Forward

LEMMA DeployStep ==
  ASSUME IInv, Deploy
  PROVE  /\ Step(Deployer) /\ Patient(Deployer) /\ UNCHANGED <<fired, begun>>
         /\ bus' \in BOOLEAN /\ active' \in BOOLEAN /\ graph' \in 0 .. MaxGraphs
  <1>1. /\ pc[Deployer] = "idle" /\ StopWorker(Deployer) /\ Deployer \in Controllers
        /\ graph' \in 0 .. MaxGraphs /\ UNCHANGED <<bus, active, fired, begun>>
    BY DEF Deploy, Controllers, IInv, SwitchTypes
  <1> QED
    BY <1>1, StopWorkerStep DEF Patient, Waits, IInv, SwitchTypes

LEMMA ToggleStep ==
  ASSUME IInv, NEW k \in Togglers, Toggle(k)
  PROVE  /\ Step(k) /\ Patient(k) /\ UNCHANGED <<fired, begun>>
         /\ bus' \in BOOLEAN /\ active' \in BOOLEAN /\ graph' \in 0 .. MaxGraphs
  <1>1. /\ pc[k] = "idle" /\ bus' = ~bus /\ \E p \in {"turnOn", "turnOff"} : Goes(k, p)
        /\ \E m \in {0, Rough} : Happens(m)
        /\ UNCHANGED <<active, graph, routes, ctx, live, mine, queue, task, wstate, on, deaf,
                       fired, begun>>
    BY DEF Toggle, sourceVars, workerVars
  <1>2. mishap' \in 0 .. Abort /\ mishap' >= mishap
    BY <1>1, HappensFacts DEF IInv, SourcesKnown, Rough, Abort
  <1>3. SourcesStep
    BY <1>1, <1>2 DEF SourcesStep, SourcesKnown, SourceTypes, IInv, Stray, Abort
  <1>4. Moves(k)
    BY <1>1 DEF Moves, Keeps, PC, Waits
  <1>5. (~bus) \in BOOLEAN
    OBVIOUS
  <1> QED
    BY <1>1, <1>3, <1>4, <1>5 DEF Step, QueueStep, Patient, Waits, IInv, SwitchTypes

LEMMA ControlStep ==
  ASSUME IInv, Places, NEW k \in Controllers, Control(k)
  PROVE  /\ Step(k) /\ Patient(k) /\ UNCHANGED <<fired, begun>>
         /\ bus' \in BOOLEAN /\ active' \in BOOLEAN /\ graph' \in 0 .. MaxGraphs
  <1> DEFINE Goal == /\ Step(k) /\ Patient(k) /\ UNCHANGED <<fired, begun>>
                     /\ bus' \in BOOLEAN /\ active' \in BOOLEAN /\ graph' \in 0 .. MaxGraphs
  <1>0. /\ SourcesKnown /\ SourceTypes /\ SwitchTypes
        /\ bus \in BOOLEAN /\ active \in BOOLEAN /\ graph \in 0 .. MaxGraphs
        /\ routes \in 0 .. MaxGraphs
    BY DEF IInv, SwitchTypes, SourcesKnown
  <1>s. ASSUME UNCHANGED <<bus, active, graph, routes, fired, begun>>, pc[k] \notin Waits,
               Moves(k), SourcesStep, queue' = queue
        PROVE  Goal
    BY <1>0, <1>s DEF Step, QueueStep, Patient
  <1>1. CASE SetActiveSame(k)
    <2>1. /\ active' \in BOOLEAN /\ Moves(k) /\ pc[k] \notin Waits
          /\ UNCHANGED <<bus, graph, routes, ctx, live, mine, queue, fired, begun, mishap>>
      BY <1>1 DEF SetActiveSame, Moves, Keeps, PC, Waits, sourceVars, workerVars
    <2> QED
      BY <1>0, <2>1, SourcesSame DEF Step, QueueStep, Patient
  <1>2. CASE Deactivate(k)
    <2>1. /\ active' = FALSE /\ StopWorker(k) /\ pc[k] \notin Waits
          /\ UNCHANGED <<bus, graph, fired, begun>>
      BY <1>2 DEF Deactivate, Waits
    <2> QED
      BY <1>0, <2>1, StopWorkerStep DEF Patient
  <1>3. CASE Activate(k)
    <2>1. /\ active' = TRUE /\ Start(k) /\ pc[k] \notin Waits
          /\ UNCHANGED <<bus, graph, routes, queue, fired, begun>>
      BY <1>3 DEF Activate, Waits
    <2> QED
      BY <1>0, <2>1, StartStep DEF Step, QueueStep, Patient
  <1>4. CASE WorkerStopped(k)
    <2>1. UNCHANGED <<bus, active, graph, fired, begun>> /\ Patient(k)
      BY <1>4 DEF WorkerStopped, Patient, Dead
    <2>2. CASE AfterWorker(k, task)
      BY <1>0, <2>1, <2>2, AfterWorkerStep DEF Left
    <2>3. CASE Ends(k, task) /\ UNCHANGED <<routes, sourceVars, queue, mishap>>
      BY <1>0, <2>1, <2>3, EndsMoves, SourcesSame DEF Left, Step, QueueStep, sourceVars
    <2> QED
      BY <1>4, <2>2, <2>3 DEF WorkerStopped
  <1>5. CASE SourcesStopped(k)
    <2>1. /\ UNCHANGED <<bus, active, graph, fired, begun>> /\ pc[k] \notin Waits
          /\ AfterSources(k, task)
      BY <1>5 DEF SourcesStopped, Waits
    <2> QED
      BY <1>0, <2>1, AfterSourcesStep DEF Left, Patient
  <1>6. CASE StopFails(k)
    <2>1. /\ Goes(k, "idle") /\ Happens(Abort) /\ pc[k] \notin Waits
          /\ UNCHANGED <<bus, active, graph, routes, ctx, live, mine, queue, task, wstate, on, deaf,
                         fired, begun>>
      BY <1>6 DEF StopFails, Waits, switches, sourceVars, workerVars
    <2>2. mishap' = Abort /\ mishap' >= mishap
      BY <1>0, <2>1 DEF Happens, SourceTypes, Abort
    <2>3. SourcesStep
      BY <1>0, <2>1, <2>2 DEF SourcesStep, SourcesKnown, SourceTypes, Stray, Abort
    <2> QED
      BY <1>s, <2>1, <2>3 DEF Moves, Keeps, PC, Waits
  <1>7. ASSUME StartOver(k), live' \in SUBSET Contexts, mishap' \in 0 .. Abort, mishap' >= mishap,
               live' = live \/ mishap' >= Stray
        PROVE  Goal
    <2>1. /\ Goes(k, "idle") /\ mine' = [mine EXCEPT ![k] = 0] /\ pc[k] \notin Waits
          /\ UNCHANGED <<bus, active, graph, routes, ctx, queue, task, wstate, on, deaf, fired, begun>>
      BY <1>7 DEF StartOver, Waits, switches, workerVars
    <2>2. SourceTypes'
      BY <1>0, <1>7, <2>1 DEF SourceTypes
    <2>3. SourcesStep
      BY <1>0, <1>7, <2>1, <2>2 DEF SourcesStep, SourcesKnown, SourceTypes, Stray, Abort
    <2> QED
      BY <1>s, <2>1, <2>3 DEF Moves, Keeps, PC, Waits
  <1>8. CASE Started(k)
    BY <1>0, <1>7, <1>8 DEF Started, SourceTypes, Abort
  <1>9. CASE StartedLate(k)
    <2>1. mishap' \in 0 .. Abort /\ mishap' >= mishap /\ mishap' >= Stray
      BY <1>0, <1>9, HappensFacts DEF StartedLate, Stray, Abort
    <2>2. mine[k] \in Contexts /\ live' = live \cup {mine[k]}
      BY <1>9 DEF StartedLate, StartOver, Places
    <2> QED
      BY <1>0, <1>7, <1>9, <2>1, <2>2 DEF StartedLate, SourceTypes
  <1>a. CASE StartRaises(k)
    <2>1. mishap' \in 0 .. Abort /\ mishap' >= mishap
      BY <1>0, <1>a, HappensFacts DEF StartRaises, Rough, Abort
    <2> QED
      BY <1>0, <1>7, <1>a, <2>1 DEF StartRaises, SourceTypes
  <1>b. CASE StartFails(k)
    <2>1. mishap' \in 0 .. Abort /\ mishap' >= mishap /\ mishap' >= Rough
      BY <1>0, <1>b, HappensFacts DEF StartFails, Rough, Abort
    <2>2. /\ Goes(k, "failing") /\ live' = live \ {mine[k]} /\ pc[k] \notin Waits
          /\ UNCHANGED <<bus, active, graph, routes, ctx, mine, queue, task, wstate, on, deaf,
                         fired, begun>>
      BY <1>b DEF StartFails, Waits, switches, workerVars
    <2>3. SourcesStep
      BY <1>0, <2>1, <2>2 DEF SourcesStep, SourcesKnown, SourceTypes, Stray, Rough, Abort
    <2> QED
      BY <1>s, <2>2, <2>3 DEF Moves, Keeps, PC, Waits
  <1>c. CASE StartUndone(k)
    <2>1. PICK m \in {0, Stray} : Happens(m) /\ (ctx \in live => m = Stray)
      BY <1>c DEF StartUndone
    <2>2. mishap' \in 0 .. Abort /\ mishap' >= mishap /\ mishap' >= m
      BY <1>0, <2>1, HappensFacts DEF Stray, Abort
    <2>3. /\ UndoWorker(k) /\ ctx' = 0 /\ mine' = [mine EXCEPT ![k] = 0] /\ pc[k] \notin Waits
          /\ UNCHANGED <<bus, active, graph, routes, live, fired, begun>>
      BY <1>c DEF StartUndone, Waits, switches
    <2>4. SourceTypes'
      BY <1>0, <2>2, <2>3 DEF SourceTypes
    <2>5. SourcesStep
      BY <1>0, <2>1, <2>2, <2>3, <2>4 DEF SourcesStep, SourcesKnown, SourceTypes, Stray, Abort
    <2> QED
      BY <1>0, <2>3, <2>5, UndoWorkerStep DEF Step, Patient
  <1>d. CASE SourcesUndone(k)
    <2>1. /\ UndoWorker(k) /\ pc[k] \notin Waits
          /\ UNCHANGED <<bus, active, graph, routes, ctx, live, mine, mishap, fired, begun>>
      BY <1>d DEF SourcesUndone, Waits, switches, sourceVars
    <2> QED
      BY <1>0, <2>1, UndoWorkerStep, SourcesSame DEF Step, Patient
  <1>e. CASE Undone(k)
    <2>1. /\ Goes(k, "idle") /\ Patient(k) /\ (queue' = <<>> \/ queue' = queue)
          /\ UNCHANGED <<bus, active, graph, routes, ctx, live, mine, mishap, fired, begun,
                         task, wstate, on, deaf>>
      BY <1>e DEF Undone, Patient, Drained, Dead, switches, sourceVars, workerVars
    <2>2. Moves(k)
      BY <2>1 DEF Moves, Keeps, PC, Waits
    <2> QED
      BY <1>0, <2>1, <2>2, SourcesSame DEF Step, QueueStep
  <1> QED
    BY <1>1, <1>2, <1>3, <1>4, <1>5, <1>6, <1>8, <1>9, <1>a, <1>b, <1>c, <1>d, <1>e DEF Control

-----------------------------------------------------------------------------
(* Triggers and the worker *)

(* A trigger may start a worker while operations wait.                     *)
LEMMA FireKnown ==
  ASSUME WorkersKnown, Starts, UNCHANGED <<pc, waitFor>>
  PROVE  WorkersKnown'
  <1>0. \A w : Awaited(w) => Awaited(w)'
    BY DEF Awaited
  <1>1. CASE HasWorker
    <2>1. UNCHANGED <<task, wstate, on, deaf>>
      BY <1>1 DEF Starts, StartWorker
    <2> QED
      BY <1>0, <2>1
         DEF WorkersKnown, WorkerTypes, KnownIsAlive, NoStrayWorker, EndsAwaited, DeafIsAlive,
             OnWhileBusy, NoCleanup, AwaitedEnds
  <1>2. CASE ~HasWorker
    <2>1. PICK w \in Workers : Over(w) /\ task' = w /\ wstate' = [wstate EXCEPT ![w] = "waiting"]
      BY <1>2, StartWorkerCases DEF Starts
    <2>2. /\ wstate'[w] = "waiting" /\ \A v \in Workers : v # w => wstate'[v] = wstate[v]
          /\ wstate' \in [Workers -> WState] /\ wstate[w] \in Dead
          /\ \A j \in Controllers : waitFor[j] # w
      BY <2>1 DEF WorkersKnown, WorkerTypes, Over, WState, Alive
    <2>3. on' = on /\ deaf' = deaf /\ on[w] = 0 /\ w \notin deaf
      BY <2>2 DEF Starts, WorkersKnown, OnWhileBusy, DeafIsAlive, Alive, Dead
    <2>4. WorkerTypes' /\ KnownIsAlive' /\ OnWhileBusy'
      BY <2>1, <2>2, <2>3
         DEF WorkersKnown, WorkerTypes, KnownIsAlive, OnWhileBusy, Alive
    <2>5. NoCleanup' /\ DeafIsAlive'
      BY <2>1, <2>2, <2>3 DEF WorkersKnown, WorkerTypes, NoCleanup, DeafIsAlive
    <2>6. NoStrayWorker'
      <3> SUFFICES ASSUME NEW v \in Workers, wstate'[v] \in Alive, v # w
                   PROVE  v \in deaf /\ Awaited(v)'
        BY <2>1, <2>3 DEF NoStrayWorker
      <3>1. wstate[v] \in Alive /\ v # task
        BY <1>2, <2>2 DEF HasWorker, Alive, Dead
      <3> QED
        BY <1>0, <3>1 DEF WorkersKnown, NoStrayWorker
    <2>7. EndsAwaited'
      BY <1>0, <2>2 DEF WorkersKnown, EndsAwaited
    <2>8. AwaitedEnds'
      BY <2>1, <2>2, <2>3 DEF WorkersKnown, AwaitedEnds
    <2> QED
      BY <2>4, <2>5, <2>6, <2>7, <2>8 DEF WorkersKnown
  <1> QED
    BY <1>1, <1>2

(* A trigger is newer than all that wait, and fired under the routes of now. *)
LEMMA FireIInv ==
  ASSUME IInv, Fire
  PROVE  IInv' /\ Forward
  <1>1. /\ fired < MaxTriggers /\ fired' = fired + 1
        /\ queue' = Append(queue, [seq |-> fired', under |-> routes])
        /\ Starts
        /\ UNCHANGED <<bus, active, graph, routes, ctx, live, mine, pc, waitFor, begun, mishap>>
    BY DEF Fire, Starts, switches, sourceVars, ctlVars
  <1>2. WorkersKnown'
    BY <1>1, FireKnown DEF IInv
  <1>3. CrashIsMishap'
    BY <1>1, StartWorkerCases DEF IInv, CrashIsMishap, Starts, WorkersKnown, WorkerTypes
  <1>4. SourcesKnown' /\ SwitchTypes'
    BY <1>1 DEF IInv, SourcesKnown, SourceTypes, SwitchTypes
  <1>5. DEFINE new == [seq |-> fired', under |-> routes]
  <1>6. /\ fired \in Nat /\ fired' \in Triggers /\ fired' \in 0 .. MaxTriggers /\ new \in Items
        /\ new.seq = fired + 1 /\ new.under = routes
    BY <1>1 DEF IInv, QueueTypes, SwitchTypes, Triggers, Items
  <1>7. /\ queue' = Append(queue, new) /\ queue \in Seq(Items)
        /\ Len(queue) \in Nat /\ begun \in Nat
    BY <1>1 DEF IInv, QueueTypes
  <1> HIDE DEF new
  <1>8. /\ queue' \in Seq(Items) /\ Len(queue') = Len(queue) + 1
        /\ \A i \in 1 .. Len(queue) : queue'[i] = queue[i]
        /\ queue'[Len(queue) + 1] = new
    BY <1>6, <1>7
  <1>9. \A i \in 1 .. Len(queue) : queue[i].seq \in Nat
    <2>1. \A i \in 1 .. Len(queue) : queue[i] \in Items
      BY <1>7
    <2> QED
      BY <2>1 DEF Items, Triggers
  <1>a. \A i \in 1 .. Len(queue) : begun < queue[i].seq /\ queue[i].seq <= fired
    BY DEF IInv, QueueOrder
  <1>b. begun <= fired
    BY DEF IInv, QueueOrder
  <1>c. QueueOrder'
    <2>1. ASSUME NEW i \in 1 .. Len(queue')
          PROVE  begun' < queue'[i].seq /\ queue'[i].seq <= fired'
      <3>1. CASE i = Len(queue) + 1
        BY <1>1, <1>6, <1>7, <1>8, <1>b, <3>1
      <3>2. CASE i \in 1 .. Len(queue)
        BY <1>1, <1>6, <1>8, <1>9, <1>a, <3>2
      <3> QED
        BY <1>7, <1>8, <3>1, <3>2
    <2>2. ASSUME NEW i \in 1 .. Len(queue'), NEW j \in 1 .. Len(queue'), i < j
          PROVE  queue'[i].seq < queue'[j].seq
      <3>1. i \in 1 .. Len(queue)
        BY <1>7, <1>8, <2>2
      <3>2. CASE j = Len(queue) + 1
        BY <1>6, <1>8, <1>9, <1>a, <3>1, <3>2
      <3>3. CASE j \in 1 .. Len(queue)
        BY <1>8, <2>2, <3>1, <3>3 DEF IInv, QueueOrder
      <3> QED
        BY <1>7, <1>8, <3>2, <3>3
    <2>3. begun' <= fired'
      BY <1>1, <1>6, <1>7, <1>b
    <2> QED
      BY <2>1, <2>2, <2>3 DEF QueueOrder
  <1>d. QueueIsCurrent'
    <2> SUFFICES ASSUME NEW i \in 1 .. Len(queue') PROVE queue'[i].under = routes'
      BY <1>8 DEF QueueIsCurrent
    <2>1. CASE i = Len(queue) + 1
      BY <1>1, <1>6, <1>8, <2>1
    <2>2. CASE i \in 1 .. Len(queue)
      BY <1>1, <1>7, <1>8, <2>2 DEF IInv, QueueIsCurrent
    <2> QED
      BY <1>7, <1>8, <2>1, <2>2
  <1>e. QueueTypes'
    BY <1>1, <1>6, <1>8 DEF IInv, QueueTypes
  <1> QED
    BY <1>1, <1>2, <1>3, <1>4, <1>c, <1>d, <1>e DEF IInv, Forward

(* What a worker does by itself leaves the others alone.                   *)
LEMMA WorkerKnown ==
  ASSUME WorkersKnown, NEW w \in Workers, NEW s \in WState \ {"unwinding"},
         NEW n \in 0 .. MaxTriggers,
         wstate' = [wstate EXCEPT ![w] = s], on' = [on EXCEPT ![w] = n],
         UNCHANGED <<task, pc, waitFor>>,
         n # 0 => s = "running",
         \/ wstate[w] \in Alive /\ s \in Alive /\ deaf' = deaf
         \/ wstate[w] \in Alive /\ s = "crashed" /\ deaf' = deaf \ {w}
         \/ wstate[w] = "unwinding" /\ s \in Dead /\ deaf' = deaf
         \/ wstate[w] = "unwinding" /\ s \in Dead /\ deaf' = deaf \ {w}
         \/ wstate[w] = "unwinding" /\ s = "waiting" /\ deaf' = deaf \cup {w}
  PROVE  WorkersKnown'
  <1>1. /\ wstate' \in [Workers -> WState] /\ wstate'[w] = s /\ on'[w] = n
        /\ \A v \in Workers : v # w => wstate'[v] = wstate[v] /\ on'[v] = on[v]
        /\ on' \in [Workers -> 0 .. MaxTriggers]
    BY DEF WorkersKnown, WorkerTypes
  <1>2. \A v : Awaited(v) => Awaited(v)'
    BY DEF Awaited
  <1>3. WorkerTypes'
    BY <1>1 DEF WorkersKnown, WorkerTypes
  <1>4. wstate[w] = "unwinding" => w # task /\ Awaited(w) /\ w \notin deaf
    BY DEF WorkersKnown, KnownIsAlive, EndsAwaited, DeafIsAlive, WorkerTypes, Alive
  <1>5. KnownIsAlive'
    BY <1>1, <1>4 DEF WorkersKnown, KnownIsAlive, WorkerTypes, Alive, Dead
  <1>6. OnWhileBusy'
    BY <1>1 DEF WorkersKnown, OnWhileBusy
  <1>7. NoStrayWorker'
    <2> SUFFICES ASSUME NEW v \in Workers, wstate'[v] \in Alive
                 PROVE  v = task \/ (v \in deaf' /\ Awaited(v)')
      BY DEF NoStrayWorker
    <2>1. CASE v # w
      BY <1>1, <1>2, <2>1 DEF WorkersKnown, NoStrayWorker
    <2>2. CASE v = w
      BY <1>1, <1>2, <1>4, <2>2 DEF WorkersKnown, NoStrayWorker, Alive, Dead
    <2> QED
      BY <2>1, <2>2
  <1>8. EndsAwaited'
    BY <1>1, <1>2 DEF WorkersKnown, EndsAwaited
  <1>9. DeafIsAlive'
    <2> SUFFICES ASSUME NEW v \in deaf' PROVE v # task /\ wstate'[v] \in Alive
      BY DEF DeafIsAlive
    <2>1. v \in Workers
      BY <1>3 DEF WorkerTypes
    <2>2. CASE v # w
      BY <1>1, <2>1, <2>2 DEF WorkersKnown, DeafIsAlive
    <2>3. CASE v = w
      BY <1>1, <1>4, <2>3 DEF WorkersKnown, DeafIsAlive, Alive, Dead
    <2> QED
      BY <2>2, <2>3
  <1>a. NoCleanup'
    BY <1>1 DEF WorkersKnown, NoCleanup
  <1>b. AwaitedEnds'
    BY <1>1 DEF WorkersKnown, AwaitedEnds, DeafIsAlive, Alive, Dead
  <1> QED
    BY <1>3, <1>5, <1>6, <1>7, <1>8, <1>9, <1>a, <1>b DEF WorkersKnown

(* The oldest trigger leaves; it is newer than the one propagated last.     *)
LEMMA TakeIInv ==
  ASSUME IInv, NEW w \in Workers, Take(w)
  PROVE  IInv' /\ Forward
  <1>1. /\ wstate[w] = "waiting" /\ queue # <<>> /\ queue' = Tail(queue)
        /\ \/ /\ wstate' = [wstate EXCEPT ![w] = "running"]
              /\ on' = [on EXCEPT ![w] = Head(queue).seq]
              /\ begun' = Head(queue).seq
           \/ UNCHANGED <<wstate, on, begun>>
        /\ UNCHANGED <<bus, active, graph, routes, ctx, live, mine, task, deaf, pc, waitFor, fired,
                       mishap>>
    BY DEF Take, switches, sourceVars, ctlVars
  <1>2. queue \in Seq(Items) /\ Len(queue) \in Nat /\ Len(queue) > 0
    BY <1>1 DEF IInv, QueueTypes
  <1>3. /\ queue' \in Seq(Items) /\ Len(queue') = Len(queue) - 1
        /\ \A i \in 1 .. Len(queue') : queue'[i] = queue[i + 1]
        /\ Head(queue) = queue[1] /\ queue[1] \in Items
    BY <1>1, <1>2
  <1>4. \A i \in 1 .. Len(queue') : i + 1 \in 1 .. Len(queue) /\ 1 < i + 1
    BY <1>2, <1>3
  <1>5. 1 \in 1 .. Len(queue) /\ Head(queue).seq \in 0 .. MaxTriggers /\ Head(queue).seq \in Nat
    BY <1>2, <1>3 DEF Items, Triggers
  <1>6. begun < Head(queue).seq /\ Head(queue).seq <= fired /\ begun \in Nat
    BY <1>3, <1>5 DEF IInv, QueueOrder, QueueTypes
  <1>7. WorkersKnown'
    <2>1. CASE UNCHANGED <<wstate, on>>
      <3>1. \A v : Awaited(v) => Awaited(v)'
        BY <1>1 DEF Awaited
      <3> QED
        BY <1>1, <2>1, <3>1
           DEF IInv, WorkersKnown, WorkerTypes, KnownIsAlive, NoStrayWorker, EndsAwaited,
               DeafIsAlive, OnWhileBusy, NoCleanup, AwaitedEnds
    <2>2. CASE /\ wstate' = [wstate EXCEPT ![w] = "running"]
               /\ on' = [on EXCEPT ![w] = Head(queue).seq]
      BY <1>1, <1>5, <2>2, WorkerKnown DEF IInv, WState, Alive
    <2> QED
      BY <1>1, <2>1, <2>2
  <1>8. CrashIsMishap' /\ SourcesKnown' /\ SwitchTypes'
    BY <1>1
       DEF IInv, CrashIsMishap, SourcesKnown, SourceTypes, SwitchTypes, WorkersKnown, WorkerTypes
  <1>9. begun' = begun \/ begun' = queue[1].seq
    BY <1>1, <1>3
  <1>a. QueueTypes'
    BY <1>1, <1>3, <1>5, <1>9 DEF IInv, QueueTypes
  <1>b. QueueOrder'
    <2>1. begun' <= fired'
      BY <1>1, <1>6 DEF IInv, QueueOrder
    <2>2. ASSUME NEW i \in 1 .. Len(queue')
          PROVE  begun' < queue'[i].seq /\ queue'[i].seq <= fired'
      <3>1. queue[1].seq < queue[i + 1].seq
        BY <1>4, <1>5 DEF IInv, QueueOrder
      <3> QED
        BY <1>1, <1>3, <1>4, <1>9, <3>1 DEF IInv, QueueOrder
    <2>3. ASSUME NEW i \in 1 .. Len(queue'), NEW j \in 1 .. Len(queue'), i < j
          PROVE  queue'[i].seq < queue'[j].seq
      <3>1. i + 1 \in 1 .. Len(queue) /\ j + 1 \in 1 .. Len(queue) /\ i + 1 < j + 1
        BY <1>3, <1>4, <2>3
      <3>2. queue[i + 1].seq < queue[j + 1].seq
        BY <3>1 DEF IInv, QueueOrder
      <3> QED
        BY <1>3, <3>2
    <2> QED
      BY <2>1, <2>2, <2>3 DEF QueueOrder
  <1>c. QueueIsCurrent'
    <2> SUFFICES ASSUME NEW i \in 1 .. Len(queue') PROVE queue'[i].under = routes'
      BY <1>3 DEF QueueIsCurrent
    <2> QED
      BY <1>1, <1>2, <1>3, <1>4 DEF IInv, QueueIsCurrent
  <1>d. Forward
    BY <1>1, <1>6 DEF Forward
  <1> QED
    BY <1>7, <1>8, <1>a, <1>b, <1>c, <1>d DEF IInv

LEMMA LeavesIInv ==
  ASSUME IInv, NEW w \in Workers, Finish(w) \/ Crash(w) \/ Unwound(w) \/ Swallow(w)
  PROVE  IInv' /\ Forward
  <1>1. /\ on' = [on EXCEPT ![w] = 0]
        /\ UNCHANGED <<bus, active, graph, routes, ctx, live, mine, queue, task, pc, waitFor,
                       fired, begun>>
    BY DEF Finish, Crash, Unwound, Swallow, Leaves, switches, sourceVars, ctlVars
  <1>2. WorkersKnown'
    <2>1. 0 \in 0 .. MaxTriggers /\ WorkersKnown
      BY DEF IInv
    <2>2. CASE Finish(w)
      BY <1>1, <2>1, <2>2, WorkerKnown DEF Finish, Leaves, Alive, WState
    <2>3. CASE Unwound(w)
      BY <1>1, <2>1, <2>3, WorkerKnown DEF Unwound, Leaves, Dead, WState
    <2>4. CASE Swallow(w)
      BY <1>1, <2>1, <2>4, WorkerKnown DEF Swallow, Leaves, Alive, WState
    <2>5. CASE Crash(w)
      <3>1. /\ wstate' = [wstate EXCEPT ![w] = "crashed"] /\ deaf' = deaf \ {w}
            /\ wstate[w] \in Alive \/ wstate[w] = "unwinding"
            /\ "crashed" \in WState \ {"unwinding"} /\ "crashed" \in Dead
        BY <2>5 DEF Crash, Leaves, Alive, Dead, WState
      <3>2. CASE wstate[w] \in Alive
        BY <1>1, <2>1, <3>1, <3>2, WorkerKnown
      <3>3. CASE wstate[w] = "unwinding"
        BY <1>1, <2>1, <3>1, <3>3, WorkerKnown
      <3> QED
        BY <3>1, <3>2, <3>3
    <2> QED
      BY <2>2, <2>3, <2>4, <2>5
  <1>3. /\ mishap' \in 0 .. Abort /\ mishap' >= mishap /\ (Crash(w) => mishap' = Abort)
        /\ ~Crash(w) => mishap' = mishap
    BY DEF Finish, Crash, Unwound, Swallow, Happens, IInv, SourcesKnown, SourceTypes, Abort
  <1>4. CrashIsMishap'
    BY <1>1, <1>3
       DEF Finish, Crash, Unwound, Swallow, Leaves, IInv, CrashIsMishap, WorkersKnown, WorkerTypes,
           SourcesKnown, SourceTypes, Abort
  <1>5. SourcesKnown' /\ SwitchTypes'
    BY <1>1, <1>3 DEF IInv, SourcesKnown, SourceTypes, SwitchTypes, Stray, Abort
  <1>6. QueueTypes' /\ QueueOrder' /\ QueueIsCurrent' /\ Forward
    BY <1>1 DEF IInv, QueueTypes, QueueOrder, QueueIsCurrent, Forward
  <1> QED
    BY <1>2, <1>4, <1>5, <1>6 DEF IInv

-----------------------------------------------------------------------------
LEMMA StepIInv == IInv /\ Places /\ [Next]_vars => IInv' /\ [Forward]_vars
  <1> SUFFICES ASSUME IInv, Places, [Next]_vars PROVE IInv' /\ [Forward]_vars
    OBVIOUS
  <1>1. ASSUME UNCHANGED vars PROVE IInv'
    <2>1. \A w : Awaited(w) => Awaited(w)'
      BY <1>1 DEF Awaited, vars, ctlVars
    <2>2. WorkersKnown'
      BY <1>1, <2>1
         DEF vars, workerVars, ctlVars, IInv, WorkersKnown, WorkerTypes, KnownIsAlive,
             NoStrayWorker, EndsAwaited, DeafIsAlive, OnWhileBusy, NoCleanup, AwaitedEnds
    <2> QED
      BY <1>1, <2>2
         DEF vars, switches, sourceVars, workerVars, IInv, SourcesKnown, SourceTypes,
             SwitchTypes, CrashIsMishap, QueueTypes, QueueOrder, QueueIsCurrent
  <1>2. ASSUME NEW w \in Workers, Worker(w) \/ Crash(w) PROVE IInv' /\ Forward
    BY <1>2, TakeIInv, LeavesIInv DEF Worker
  <1>3. ASSUME NEW k \in Togglers, Toggle(k) PROVE IInv' /\ Forward
    BY <1>3, ToggleStep, SteppedIInv DEF Controllers
  <1>4. ASSUME NEW k \in Controllers, Control(k) PROVE IInv' /\ Forward
    BY <1>4, ControlStep, SteppedIInv
  <1>5. CASE Deploy
    BY <1>5, DeployStep, SteppedIInv DEF Controllers
  <1> QED
    BY <1>1, <1>2, <1>3, <1>4, <1>5, FireIInv DEF Next

(* The inductive invariant holds in every reachable state.                 *)
THEOREM Invariance == Spec => [](IInv /\ Places)
  BY InitIInv, InitPlaces, StepIInv, StepPlaces, PTL DEF Spec

(* Every reachable state is well-typed (code: the executor's attributes).  *)
THEOREM TypeCorrect == Spec => []TypeOK
  <1>1. IInv => TypeOK
    BY TypesTogether DEF IInv, WorkersKnown, SourcesKnown
  <1> QED
    BY <1>1, Invariance, PTL

(***************************************************************************)
(* However deployments, toggles, failures and triggers overlap, a worker   *)
(* that runs is the one the executor knows, or one whose on_exec swallowed *)
(* its cancellation and that the operation that cancelled it still awaits  *)
(* (code: _start_trigger_worker, _stop_trigger_worker, the errors that     *)
(* _propagate_exec_dfs reports).                                           *)
(***************************************************************************)
THEOREM NeverAStrayWorker == Spec => []NoStrayWorker
  <1>1. IInv => NoStrayWorker
    BY DEF IInv, WorkersKnown
  <1> QED
    BY <1>1, Invariance, PTL

(* No trigger waits to be propagated along routes of another graph than the *)
(* one it was fired under (code: apply_rungraph drains before it switches). *)
THEOREM QueueAlwaysCurrent == Spec => []QueueIsCurrent
  <1>1. IInv => QueueIsCurrent
    BY DEF IInv
  <1> QED
    BY <1>1, Invariance, PTL

(* Triggers are propagated in the order they were fired, although workers   *)
(* come and go, outlive their cancellation and crash (code: the queue of    *)
(* trigger_exec_nowait).                                                    *)
THEOREM TriggersInOrder == Spec => FifoOrder
  <1>1. IInv /\ Places /\ [Next]_vars => [begun' # begun => begun' > begun]_vars
    BY StepIInv DEF Forward
  <1> QED
    BY <1>1, Invariance, PTL DEF Spec, FifoOrder

(***************************************************************************)
(* Two triggers are propagated at the same time only while an operation    *)
(* waits for the worker of one of them, which it has cancelled (code: the  *)
(* trigger worker, which only one task runs unless its end is awaited).    *)
(***************************************************************************)
THEOREM SerializedOtherwise == Spec => []SerializedButForCleanup
  <1>1. IInv => SerializedButForCleanup
    BY DEF IInv, WorkersKnown, NoStrayWorker, OnWhileBusy, EndsAwaited, SerializedButForCleanup,
           Alive
  <1> QED
    BY <1>1, Invariance, PTL

(***************************************************************************)
(* So the executor's docstring is right about graphs whose nodes await     *)
(* nothing once they are cancelled, and then do not swallow it either:     *)
(* there, trigger delivery is serialized.                                  *)
(***************************************************************************)
THEOREM SerializedWithoutCleanup == "cleanup" \notin Failures => (Spec => []Serialized)
  <1> SUFFICES ASSUME "cleanup" \notin Failures PROVE Spec => []Serialized
    OBVIOUS
  <1>1. IInv => Serialized
    BY DEF IInv, WorkersKnown, NoStrayWorker, OnWhileBusy, NoCleanup, Serialized, Alive
  <1> QED
    BY <1>1, Invariance, PTL

-----------------------------------------------------------------------------
(***************************************************************************)
(* What an executor at rest looks like, unless an error ended an operation *)
(* half-way.  An inactive executor has no worker; a context or triggers it *)
(* still has belong to a set_active that is not over.  A waiting trigger   *)
(* has a worker, or an operation that drains the queue before it ends.     *)
(***************************************************************************)
InactiveHasNoWorker == ~active => task = NoWorker

StopGoesOn ==
  ~active /\ mishap < Abort =>
    /\ ctx # 0 => \E k \in Togglers : pc[k] = "cancel"
    /\ queue # <<>> => \E k \in Togglers : pc[k] \in {"cancel", "sources"}

Draining(k) == pc[k] \in {"cancel", "sources", "failing", "undoSources", "undoCancel"}

HasTaker ==
  queue # <<>> /\ mishap < Abort =>
    (\E w \in Workers : wstate[w] \in Alive) \/ \E k \in Controllers : Draining(k)

RestInv == InactiveHasNoWorker /\ StopGoesOn /\ HasTaker

\* What a step of the operation of k does about that.
Tidy(k) ==
  /\ ~active' => task' = NoWorker \/ (task' = task /\ ~active)
  /\ active /\ ~active' /\ mishap' < Abort =>
       /\ k \in Togglers
       /\ ctx' # 0 => pc'[k] = "cancel"
       /\ queue' # <<>> => pc'[k] \in {"cancel", "sources"}
  /\ ~active /\ ~active' /\ mishap' < Abort =>
       /\ ctx' = 0 \/ (ctx' = ctx /\ pc[k] # "cancel")
       /\ \/ queue' = <<>>
          \/ /\ queue' = queue
             /\ pc[k] \in {"cancel", "sources"} => pc[k] = "cancel" /\ pc'[k] = "sources"
  /\ mishap' < Abort /\ Draining(k) => queue' = <<>> \/ Draining(k)'

LEMMA InitRestInv == Init => RestInv
  BY DEF Init, RestInv, InactiveHasNoWorker, StopGoesOn, HasTaker

LEMMA MovesPc ==
  ASSUME WorkersKnown, NEW k \in Controllers, Moves(k)
  PROVE  \A j \in Controllers : j # k => pc'[j] = pc[j]
  BY StartWorkerCases
     DEF WorkersKnown, WorkerTypes, Moves, Goes, Awaits, Cancel, CancelUnborn

LEMMA TidyRest ==
  ASSUME IInv, RestInv, NEW k \in Controllers, Step(k), Tidy(k)
  PROVE  RestInv'
  <1>1. \A j \in Controllers : j # k => pc'[j] = pc[j]
    BY MovesPc DEF Step, IInv
  <1>2. mishap' < Abort => mishap < Abort
    BY DEF Step, SourcesStep, SourcesKnown, SourceTypes, IInv, Abort
  <1>3. InactiveHasNoWorker'
    BY DEF RestInv, InactiveHasNoWorker, Tidy
  <1>4. StopGoesOn'
    <2> SUFFICES ASSUME ~active', mishap' < Abort
                 PROVE  /\ ctx' # 0 => \E j \in Togglers : pc'[j] = "cancel"
                        /\ queue' # <<>> => \E j \in Togglers : pc'[j] \in {"cancel", "sources"}
      BY DEF StopGoesOn
    <2>1. CASE active
      BY <2>1 DEF Tidy
    <2>2. CASE ~active
      <3>1. /\ ctx # 0 => \E j \in Togglers : pc[j] = "cancel"
            /\ queue # <<>> => \E j \in Togglers : pc[j] \in {"cancel", "sources"}
        BY <1>2, <2>2 DEF RestInv, StopGoesOn
      <3>2. /\ ctx' = 0 \/ (ctx' = ctx /\ pc[k] # "cancel")
            /\ \/ queue' = <<>>
               \/ /\ queue' = queue
                  /\ pc[k] \in {"cancel", "sources"} => pc'[k] = "sources"
        BY <2>2 DEF Tidy
      <3>3. ctx' # 0 => \E j \in Togglers : pc'[j] = "cancel"
        BY <1>1, <3>1, <3>2 DEF Controllers
      <3>4. queue' # <<>> => \E j \in Togglers : pc'[j] \in {"cancel", "sources"}
        BY <1>1, <3>1, <3>2 DEF Controllers
      <3> QED
        BY <3>3, <3>4
    <2> QED
      BY <2>1, <2>2
  <1>5. HasTaker'
    <2> SUFFICES ASSUME queue' # <<>>, mishap' < Abort, \A j \in Controllers : ~Draining(j)'
                 PROVE  \E w \in Workers : wstate'[w] \in Alive
      BY DEF HasTaker
    <2>1. ~Draining(k)
      BY DEF Tidy
    <2>2. \A j \in Controllers : ~Draining(j)
      BY <1>1, <2>1 DEF Draining
    <2>3. queue' = queue
      BY DEF Step, QueueStep
    <2>4. PICK w \in Workers : wstate[w] \in Alive
      BY <1>2, <2>2, <2>3 DEF RestInv, HasTaker
    <2>5. Keeps \/ Starts
      BY DEF Step, Moves, Cancel, CancelUnborn, Awaits, Draining, Waits, IInv, WorkersKnown,
             WorkerTypes
    <2>6. wstate'[w] \in Alive
      BY <2>4, <2>5, StartWorkerCases
         DEF Keeps, Starts, IInv, WorkersKnown, WorkerTypes, Alive
    <2> QED
      BY <2>6
  <1> QED
    BY <1>3, <1>4, <1>5 DEF RestInv

LEMMA GoesPc ==
  ASSUME IInv, NEW k \in Controllers, NEW p, NEW w, Awaits(k, p, w)
  PROVE  pc'[k] = p
  BY DEF Awaits, IInv, WorkersKnown, WorkerTypes

LEMMA AfterSourcesTidy ==
  ASSUME IInv, NEW k \in Controllers, NEW t, AfterSources(k, t), t = task \/ t = NoWorker,
         active' = active \/ (~active' /\ t = NoWorker /\ k \in Togglers),
         ctx = 0 \/ (pc[k] # "cancel" /\ active' = active)
  PROVE  Tidy(k)
  <1>1. queue' = <<>>
    BY DEF AfterSources, Drained
  <1>2. CASE k = Deployer /\ active
    BY <1>1, <1>2 DEF Tidy
  <1>3. CASE ~(k = Deployer /\ active)
    <2>1. task' = t /\ ctx' = ctx
      BY <1>3 DEF AfterSources, Ends, sourceVars
    <2> QED
      BY <1>1, <2>1 DEF Tidy
  <1> QED
    BY <1>2, <1>3

LEMMA AfterWorkerTidy ==
  ASSUME IInv, NEW k \in Controllers, NEW t, AfterWorker(k, t), t = task \/ t = NoWorker,
         active' = active \/ (~active' /\ t = NoWorker /\ k \in Togglers),
         pc[k] # "sources"
  PROVE  Tidy(k)
  <1>1. CASE ctx # 0
    <2>1. ctx' = 0 /\ pc'[k] = "sources" /\ task' = t /\ queue' = queue
      BY <1>1, GoesPc DEF AfterWorker, StopEntrypoint, Goes
    <2> QED
      BY <2>1 DEF Tidy, Draining
  <1>2. CASE ctx = 0
    BY <1>2, AfterSourcesTidy DEF AfterWorker
  <1> QED
    BY <1>1, <1>2

LEMMA StopWorkerTidy ==
  ASSUME IInv, NEW k \in Controllers, StopWorker(k),
         \/ active' = active /\ pc[k] = "idle"
         \/ ~active' /\ active /\ k \in Togglers /\ pc[k] = "turnOff"
  PROVE  Tidy(k)
  <1>1. CASE Cancel(k, "cancel") /\ UNCHANGED <<sourceVars, queue>>
    <2>1. task' = NoWorker /\ pc'[k] = "cancel" /\ ctx' = ctx /\ queue' = queue
      BY <1>1, GoesPc DEF Cancel, sourceVars
    <2> QED
      BY <2>1 DEF Tidy, Draining
  <1>2. CASE AfterWorker(k, NoWorker)
    BY <1>2, AfterWorkerTidy
  <1>3. CASE Crashed /\ Ends(k, NoWorker) /\ UNCHANGED mishap
    <2>1. ~(mishap' < Abort)
      BY <1>3 DEF Crashed, IInv, CrashIsMishap, WorkersKnown, WorkerTypes
    <2> QED
      BY <1>3, <2>1 DEF Tidy, Ends
  <1> QED
    BY <1>1, <1>2, <1>3 DEF StopWorker

LEMMA UndoWorkerTidy ==
  ASSUME IInv, NEW k \in Controllers, UndoWorker(k), UNCHANGED active, mishap' >= mishap,
         mishap' \in 0 .. Abort, ctx' = 0 \/ ctx' = ctx, pc[k] \in {"failing", "undoSources"}
  PROVE  Tidy(k)
  <1>1. CASE Cancel(k, "undoCancel") /\ UNCHANGED queue
    <2>1. task' = NoWorker /\ pc'[k] = "undoCancel"
      BY <1>1, GoesPc DEF Cancel
    <2> QED
      BY <1>1, <2>1 DEF Tidy, Draining
  <1>2. CASE Drained /\ Ends(k, NoWorker)
    BY <1>2 DEF Tidy, Drained, Ends
  <1>3. CASE Crashed /\ Ends(k, NoWorker)
    <2>1. ~(mishap < Abort)
      BY <1>3 DEF Crashed, IInv, CrashIsMishap, WorkersKnown, WorkerTypes
    <2>2. ~(mishap' < Abort)
      BY <2>1 DEF IInv, SourcesKnown, SourceTypes, Abort
    <2> QED
      BY <1>3, <2>2 DEF Tidy, Ends
  <1> QED
    BY <1>1, <1>2, <1>3 DEF UndoWorker

LEMMA ControlTidy ==
  ASSUME IInv, Places, NEW k \in Controllers, Control(k)
  PROVE  Tidy(k)
  <1>0. Step(k)
    BY ControlStep
  <1>1. CASE SetActiveSame(k)
    <2>1. UNCHANGED <<ctx, queue, task>> /\ (~active' => ~active) /\ pc[k] \in {"turnOn", "turnOff"}
      BY <1>1 DEF SetActiveSame, sourceVars, workerVars
    <2> QED
      BY <2>1 DEF Tidy, Draining
  <1>2. CASE Deactivate(k)
    BY <1>2, StopWorkerTidy DEF Deactivate, Places, Controllers
  <1>3. CASE Activate(k)
    BY <1>3 DEF Activate, Tidy, Draining
  <1>4. CASE WorkerStopped(k)
    <2>1. CASE AfterWorker(k, task)
      BY <1>4, <2>1, AfterWorkerTidy DEF WorkerStopped
    <2>2. CASE wstate[waitFor[k]] = "crashed" /\ Ends(k, task) /\ UNCHANGED mishap
      <3>1. waitFor[k] \in Workers
        BY <1>4 DEF WorkerStopped, IInv, WorkersKnown, AwaitedEnds, Waits
      <3>2. ~(mishap' < Abort)
        BY <2>2, <3>1 DEF IInv, CrashIsMishap
      <3> QED
        BY <1>4, <2>2, <3>2 DEF Tidy, WorkerStopped, Ends
    <2> QED
      BY <1>4, <2>1, <2>2 DEF WorkerStopped
  <1>5. CASE SourcesStopped(k)
    BY <1>5, AfterSourcesTidy DEF SourcesStopped
  <1>6. CASE StopFails(k)
    <2>1. mishap' >= Abort /\ UNCHANGED <<active, task>>
      BY <1>6, HappensFacts
         DEF StopFails, switches, workerVars, IInv, SourcesKnown, SourceTypes, Abort
    <2> QED
      BY <1>0, <2>1 DEF Tidy, Step, SourcesStep, SourcesKnown, SourceTypes, Abort
  <1>7. CASE Started(k) \/ StartedLate(k) \/ StartRaises(k) \/ StartFails(k)
    <2>1. UNCHANGED <<active, ctx, queue, task>> /\ pc[k] = "start"
      BY <1>7 DEF Started, StartedLate, StartRaises, StartFails, StartOver, switches, workerVars
    <2> QED
      BY <2>1 DEF Tidy, Draining
  <1>8. CASE StartUndone(k) \/ SourcesUndone(k)
    <2>1. /\ UndoWorker(k) /\ UNCHANGED active /\ (ctx' = 0 \/ ctx' = ctx)
          /\ pc[k] \in {"failing", "undoSources"}
      BY <1>8 DEF StartUndone, SourcesUndone, switches, sourceVars
    <2> QED
      BY <1>0, <2>1, UndoWorkerTidy DEF Step, SourcesStep, SourcesKnown, SourceTypes
  <1>9. CASE Undone(k)
    <2>1. UNCHANGED <<active, ctx, task, mishap>> /\ pc[k] = "undoCancel"
      BY <1>9 DEF Undone, switches, sourceVars, workerVars
    <2>2. waitFor[k] \in Workers
      BY <2>1 DEF IInv, WorkersKnown, AwaitedEnds, Waits
    <2>3. queue' = <<>> \/ ~(mishap < Abort)
      BY <1>9, <2>2 DEF Undone, Drained, IInv, CrashIsMishap
    <2> QED
      BY <2>1, <2>3 DEF Tidy
  <1> QED
    BY <1>1, <1>2, <1>3, <1>4, <1>5, <1>6, <1>7, <1>8, <1>9 DEF Control

LEMMA StepRestInv == IInv /\ Places /\ RestInv /\ [Next]_vars => RestInv'
  <1> SUFFICES ASSUME IInv, Places, RestInv, [Next]_vars PROVE RestInv'
    OBVIOUS
  <1>1. CASE UNCHANGED vars
    BY <1>1
       DEF vars, switches, sourceVars, workerVars, ctlVars, RestInv, InactiveHasNoWorker,
           StopGoesOn, HasTaker, Draining
  <1>2. CASE Fire
    <2>1. active /\ Starts /\ UNCHANGED <<active, pc>>
      BY <1>2 DEF Fire, Starts, switches, ctlVars
    <2>2. \E w \in Workers : wstate'[w] \in Alive
      <3>1. CASE HasWorker
        BY <2>1, <3>1
           DEF Starts, StartWorker, HasWorker, IInv, WorkersKnown, WorkerTypes, KnownIsAlive, Dead
      <3>2. CASE ~HasWorker
        BY <2>1, <3>2, StartWorkerCases
           DEF Starts, IInv, WorkersKnown, WorkerTypes, Alive
      <3> QED
        BY <3>1, <3>2
    <2> QED
      BY <2>1, <2>2 DEF RestInv, InactiveHasNoWorker, StopGoesOn, HasTaker
  <1>3. ASSUME NEW w \in Workers, Worker(w) \/ Crash(w) PROVE RestInv'
    <2>1. /\ UNCHANGED <<active, ctx, task, pc>> /\ (queue' # <<>> => queue # <<>>)
      BY <1>3
         DEF Worker, Crash, Take, Finish, Unwound, Swallow, Leaves, switches, sourceVars, ctlVars
    <2>2. /\ mishap' < Abort => mishap < Abort
          /\ mishap' < Abort => \A v \in Workers : wstate[v] \in Alive => wstate'[v] \in Alive
      BY <1>3
         DEF Worker, Crash, Take, Finish, Unwound, Swallow, Leaves, Happens, IInv, WorkersKnown,
             WorkerTypes, SourcesKnown, SourceTypes, Alive, Abort
    <2> QED
      BY <2>1, <2>2 DEF RestInv, InactiveHasNoWorker, StopGoesOn, HasTaker, Draining
  <1>4. CASE Deploy
    <2>1. Step(Deployer) /\ Deployer \in Controllers
      BY <1>4, DeployStep DEF Controllers
    <2>2. Tidy(Deployer)
      BY <1>4, <2>1, StopWorkerTidy DEF Deploy
    <2> QED
      BY <2>1, <2>2, TidyRest
  <1>5. ASSUME NEW k \in Togglers, Toggle(k) PROVE RestInv'
    <2>1. Step(k) /\ k \in Controllers
      BY <1>5, ToggleStep DEF Controllers
    <2>2. Tidy(k)
      BY <1>5 DEF Toggle, Tidy, Draining, sourceVars, workerVars
    <2> QED
      BY <2>1, <2>2, TidyRest
  <1>6. ASSUME NEW k \in Controllers, Control(k) PROVE RestInv'
    BY <1>6, ControlStep, ControlTidy, TidyRest
  <1> QED
    BY <1>1, <1>2, <1>3, <1>4, <1>5, <1>6 DEF Next

LEMMA RestInvariance == Spec => []RestInv
  BY InitRestInv, StepRestInv, Invariance, PTL DEF Spec

(***************************************************************************)
(* With no operation in progress an inactive executor is at rest: however  *)
(* deployments and toggles overlapped, entrypoints failed to start and     *)
(* on_exec answered its cancellation before, no worker is left and no      *)
(* context is registered, nor does one run that no start left behind       *)
(* (code: set_active, _stop_entrypoint and what undoes a failed start).    *)
(***************************************************************************)
THEOREM QuietWhenInactive == Spec => []InactiveIsQuiet
  <1>1. IInv /\ RestInv => InactiveIsQuiet
    <2> SUFFICES ASSUME IInv, RestInv, Idle, ~active, mishap < Abort
                 PROVE  /\ queue = <<>> /\ ctx = 0
                        /\ \A w \in Workers : wstate[w] \in Dead
                        /\ mishap < Stray => live = {}
      BY DEF InactiveIsQuiet
    <2>1. queue = <<>> /\ ctx = 0
      BY DEF RestInv, StopGoesOn, Idle, Controllers
    <2>2. \A w : ~Awaited(w)
      BY DEF Idle, Awaited
    <2>3. task = NoWorker
      BY DEF RestInv, InactiveHasNoWorker
    <2>4. \A w \in Workers : wstate[w] \in Dead
      BY <2>2, <2>3
         DEF IInv, WorkersKnown, WorkerTypes, NoStrayWorker, EndsAwaited, WState
    <2>5. mishap < Stray => live = {}
      BY <2>1 DEF IInv, SourcesKnown, SourceTypes, Contexts
    <2> QED
      BY <2>1, <2>4, <2>5
  <1> QED
    BY <1>1, RestInvariance, Invariance, PTL

(***************************************************************************)
(* However deployments, toggles, failed starts and slow or swallowed       *)
(* cancellations overlap, a waiting trigger has a live worker or an        *)
(* operation that will drain it, unless an error ended one; and an         *)
(* operation awaits a worker that has ended, is ending, or swallowed its   *)
(* cancellation (code: _start_trigger_worker, _stop_trigger_worker and     *)
(* their callers).                                                         *)
(***************************************************************************)
THEOREM NobodyWaits == Spec => []NobodyWaitsInVain
  <1>1. IInv /\ RestInv => NobodyWaitsInVain
    BY DEF IInv, WorkersKnown, AwaitedEnds, Waits, RestInv, HasTaker, Draining, NobodyWaitsInVain
  <1> QED
    BY <1>1, RestInvariance, Invariance, PTL

-----------------------------------------------------------------------------
(***************************************************************************)
(* What an active executor does as long as nothing went wrong: at most one *)
(* toggle is in progress, bus and executor agree but for a hook that has   *)
(* not run, and the current graph runs unless a deployment replaces it.    *)
(***************************************************************************)
Hooks     == {"turnOn", "turnOff"}
Undoing   == {"failing", "undoSources", "undoCancel"}
Switching == pc[Deployer] \in {"cancel", "sources"}
Running   == task # NoWorker /\ ctx # 0

OneToggler    == \A i, j \in Togglers : pc[i] # "idle" /\ pc[j] # "idle" => i = j
NothingUndone == \A k \in Controllers : pc[k] \notin Undoing
BusIsFollowed ==
  /\ \A k \in Togglers :
       /\ pc[k] = "turnOn" => bus /\ ~active
       /\ pc[k] = "turnOff" => ~bus /\ active
       /\ pc[k] \in {"cancel", "sources"} => ~active
  /\ (\A k \in Togglers : pc[k] \notin Hooks) => active = bus
GraphIsRouted == routes = graph \/ Switching
GraphRuns     == active /\ graph # 0 => Switching \/ Running

Orderly ==
  mishap = 0 => OneToggler /\ NothingUndone /\ BusIsFollowed /\ GraphIsRouted /\ GraphRuns

LEMMA InitOrderly == Init => Orderly
  BY DEF Init, Orderly, OneToggler, NothingUndone, BusIsFollowed, GraphIsRouted, GraphRuns,
         Undoing, Hooks, Controllers

LEMMA StepMishap ==
  ASSUME IInv, NEW k \in Controllers, Step(k), mishap' = 0
  PROVE  mishap = 0 /\ \A w \in Workers : wstate[w] # "crashed"
  BY DEF Step, SourcesStep, IInv, SourcesKnown, SourceTypes, CrashIsMishap, Abort

\* What a step of k does about the routes and the graph that runs.
Settles(k) ==
  /\ pc'[k] \in {"idle", "start", "sources", "cancel"}
  /\ k = Deployer => \/ pc'[k] \in {"cancel", "sources"}
                     \/ routes' = graph' /\ (active => Running')
  /\ k # Deployer => routes' = routes

LEMMA StartRuns ==
  ASSUME IInv, NEW k \in Controllers, Start(k), mishap' = 0
  PROVE  Running' /\ pc'[k] \in {"idle", "start"}
  <1>1. ~RefuseStart(k)
    BY RefuseStartStep DEF IInv, SourcesKnown, SourceTypes, SourcesStep, Rough
  <1>2. StartWorker /\ StartEntrypoint(k)
    BY <1>1 DEF Start
  <1>3. task' # NoWorker
    BY <1>2, StartWorkerCases DEF HasWorker
  <1>4. ctx' # 0 /\ pc'[k] \in {"idle", "start"}
    <2>1. CASE ctx # 0
      BY <1>2, <2>1, GoesPc DEF StartEntrypoint, sourceVars, Goes
    <2>2. CASE ctx = 0
      BY <1>2, <2>2, GoesPc DEF StartEntrypoint, Goes, Contexts
    <2> QED
      BY <2>1, <2>2
  <1> QED
    BY <1>3, <1>4 DEF Running

LEMMA AfterSourcesSettles ==
  ASSUME IInv, NEW k \in Controllers, NEW t, AfterSources(k, t), mishap' = 0
  PROVE  Settles(k)
  <1>1. CASE k = Deployer /\ active
    BY <1>1, StartRuns DEF AfterSources, Settles
  <1>2. CASE ~(k = Deployer /\ active)
    BY <1>2, GoesPc DEF AfterSources, Settles, Ends, Goes
  <1> QED
    BY <1>1, <1>2

LEMMA AfterWorkerSettles ==
  ASSUME IInv, NEW k \in Controllers, NEW t, AfterWorker(k, t), mishap' = 0
  PROVE  Settles(k)
  <1>1. CASE ctx # 0
    BY <1>1, GoesPc DEF AfterWorker, StopEntrypoint, Settles, Goes
  <1>2. CASE ctx = 0
    BY <1>2, AfterSourcesSettles DEF AfterWorker
  <1> QED
    BY <1>1, <1>2

LEMMA StopWorkerSettles ==
  ASSUME IInv, NEW k \in Controllers, StopWorker(k), mishap' = 0,
         \A w \in Workers : wstate[w] # "crashed"
  PROVE  Settles(k)
  <1>1. ~Crashed
    BY DEF Crashed, IInv, WorkersKnown, WorkerTypes
  <1>2. CASE Cancel(k, "cancel") /\ UNCHANGED routes
    BY <1>2, GoesPc DEF Cancel, Settles
  <1> QED
    BY <1>1, <1>2, AfterWorkerSettles DEF StopWorker

(* A step of k that obeys its hook, does not begin a toggle and settles.   *)
Neat(k) ==
  /\ k \in Togglers => pc[k] # "idle" /\ graph' = graph
  /\ bus' = bus
  /\ active' = IF pc[k] \in Hooks THEN pc[k] = "turnOn" ELSE active
  /\ pc'[k] \notin Hooks \cup Undoing
  /\ k \in Togglers /\ pc'[k] \in {"cancel", "sources"} => ~active'
  /\ \/ Settles(k) /\ (k \in Togglers => ~active')
     \/ Running' /\ UNCHANGED <<graph, routes>> /\ k \in Togglers
     \/ /\ UNCHANGED <<graph, routes, task, ctx>>
        /\ active' => active \/ graph = 0
        /\ k = Deployer => ~Switching

LEMMA NeatOrderly ==
  ASSUME IInv, Places, Orderly, NEW k \in Controllers, Step(k), mishap' = 0, Neat(k)
  PROVE  Orderly'
  <1>0. mishap = 0
    BY StepMishap
  <1>1. OneToggler /\ NothingUndone /\ BusIsFollowed /\ GraphIsRouted /\ GraphRuns
    BY <1>0 DEF Orderly
  <1>2. /\ \A j \in Controllers : j # k => pc'[j] = pc[j]
        /\ Deployer \in Controllers /\ Deployer \notin Togglers
        /\ \A j \in Togglers : j \in Controllers
        /\ k \in Togglers \/ k = Deployer
    BY MovesPc DEF Step, IInv, Controllers
  <1>3. OneToggler'
    BY <1>1, <1>2 DEF OneToggler, Neat
  <1>4. NothingUndone'
    BY <1>1, <1>2 DEF NothingUndone, Neat
  <1>5. BusIsFollowed'
    <2>1. CASE pc[k] \in Hooks
      <3>1. k \in Togglers
        BY <1>2, <2>1 DEF Places, Hooks
      <3>2. \A j \in Togglers : j # k => pc'[j] = "idle"
        BY <1>1, <1>2, <2>1, <3>1 DEF OneToggler, Hooks
      <3>3. bus' = bus /\ active' = bus
        BY <1>1, <2>1, <3>1 DEF Neat, BusIsFollowed, Hooks, IInv, SwitchTypes
      <3> QED
        BY <2>1, <3>1, <3>2, <3>3 DEF BusIsFollowed, Neat, Hooks
    <2>2. CASE pc[k] \notin Hooks
      <3>1. bus' = bus /\ active' = active /\ pc'[k] \notin Hooks
        BY <2>2 DEF Neat
      <3>2. (\A j \in Togglers : pc'[j] \notin Hooks) => \A j \in Togglers : pc[j] \notin Hooks
        BY <1>2, <2>2
      <3>3. ASSUME NEW j \in Togglers
            PROVE  /\ pc'[j] = "turnOn" => bus /\ ~active
                   /\ pc'[j] = "turnOff" => ~bus /\ active
                   /\ pc'[j] \in {"cancel", "sources"} => ~active
        BY <1>1, <1>2, <2>2, <3>1 DEF BusIsFollowed, Neat, Hooks
      <3> QED
        BY <1>1, <3>1, <3>2, <3>3 DEF BusIsFollowed
    <2> QED
      BY <2>1, <2>2
  <1>6. k \in Togglers => Switching' = Switching
    BY <1>2 DEF Switching
  <1>7. GraphIsRouted' /\ GraphRuns'
    <2>1. CASE Settles(k) /\ k = Deployer
      <3>1. active' = active
        BY <2>1 DEF Neat, Hooks, Places
      <3> QED
        BY <2>1, <3>1 DEF Settles, GraphIsRouted, GraphRuns, Switching
    <2>2. CASE Settles(k) /\ k \in Togglers /\ ~active'
      BY <1>1, <1>2, <1>6, <2>2 DEF Settles, Neat, GraphIsRouted, GraphRuns
    <2>3. CASE Running' /\ UNCHANGED <<graph, routes>> /\ k \in Togglers
      BY <1>1, <1>6, <2>3 DEF GraphIsRouted, GraphRuns
    <2>4. CASE /\ UNCHANGED <<graph, routes, task, ctx>>
               /\ active' => active \/ graph = 0
               /\ k = Deployer => ~Switching
      BY <1>1, <1>2, <1>6, <2>4 DEF GraphIsRouted, GraphRuns, Running
    <2> QED
      BY <1>2, <2>1, <2>2, <2>3, <2>4 DEF Neat
  <1> QED
    BY <1>3, <1>4, <1>5, <1>7 DEF Orderly

LEMMA ControlNeat ==
  ASSUME IInv, Places, Orderly, NEW k \in Controllers, Control(k), mishap' = 0
  PROVE  Neat(k)
  <1>0. Step(k)
    BY ControlStep
  <1>1. mishap = 0 /\ \A w \in Workers : wstate[w] # "crashed"
    BY <1>0, StepMishap
  <1>2. NothingUndone /\ BusIsFollowed
    BY <1>1 DEF Orderly
  <1>3. /\ k \in Togglers \/ k = Deployer
        /\ Deployer \notin Togglers /\ pc[Deployer] \notin Hooks
        /\ pc[k] \notin Undoing
    BY <1>2 DEF Places, Controllers, Hooks, NothingUndone
  <1>4. CASE SetActiveSame(k)
    BY <1>3, <1>4, GoesPc DEF SetActiveSame, Neat, Hooks, Undoing, Goes, sourceVars, workerVars
  <1>5. CASE Deactivate(k)
    <2>1. Settles(k)
      BY <1>1, <1>5, StopWorkerSettles DEF Deactivate
    <2> QED
      BY <1>3, <1>5, <2>1 DEF Deactivate, Neat, Settles, Hooks, Undoing
  <1>6. CASE Activate(k)
    <2>1. Running' /\ pc'[k] \in {"idle", "start"}
      BY <1>6, StartRuns DEF Activate
    <2> QED
      BY <1>3, <1>6, <2>1 DEF Activate, Neat, Hooks, Undoing
  <1>7. CASE WorkerStopped(k)
    <2>1. waitFor[k] \in Workers
      BY <1>7 DEF WorkerStopped, IInv, WorkersKnown, AwaitedEnds, Waits
    <2>2. Settles(k)
      BY <1>1, <1>7, <2>1, AfterWorkerSettles DEF WorkerStopped
    <2> QED
      BY <1>2, <1>3, <1>7, <2>2
         DEF WorkerStopped, Neat, Settles, BusIsFollowed, Hooks, Undoing
  <1>8. CASE SourcesStopped(k)
    <2>1. Settles(k)
      BY <1>8, AfterSourcesSettles DEF SourcesStopped
    <2> QED
      BY <1>2, <1>3, <1>8, <2>1
         DEF SourcesStopped, Neat, Settles, BusIsFollowed, Hooks, Undoing
  <1>9. CASE StopFails(k) \/ StartRaises(k) \/ StartFails(k) \/ StartedLate(k)
    BY <1>1, <1>9
       DEF StopFails, StartRaises, StartFails, StartedLate, Happens, Rough, Stray, Abort
  <1>a. CASE Started(k)
    <2>1. /\ pc[k] = "start" /\ pc'[k] = "idle"
          /\ UNCHANGED <<bus, active, graph, routes, ctx, task>>
      BY <1>a, GoesPc DEF Started, StartOver, Goes, switches, workerVars
    <2> QED
      BY <1>3, <2>1 DEF Neat, Switching, Hooks, Undoing
  <1>b. CASE StartUndone(k) \/ SourcesUndone(k) \/ Undone(k)
    BY <1>3, <1>b DEF StartUndone, SourcesUndone, Undone, Undoing
  <1> QED
    BY <1>4, <1>5, <1>6, <1>7, <1>8, <1>9, <1>a, <1>b DEF Control

(* A toggle that overlaps no other one.                                    *)
LEMMA ToggleOrderly ==
  ASSUME IInv, Orderly, NEW k \in Togglers, Toggle(k), mishap' = 0
  PROVE  Orderly'
  <1>0. mishap = 0 /\ (\A j \in Togglers : pc[j] = "idle")
    BY DEF Toggle, Happens, Rough, IInv, SourcesKnown, SourceTypes, Abort
  <1>1. NothingUndone /\ active = bus /\ GraphIsRouted /\ GraphRuns
    BY <1>0 DEF Orderly, BusIsFollowed, Hooks
  <1>2. /\ bus' = ~bus /\ UNCHANGED <<active, graph, routes, ctx, task>>
        /\ pc' = [pc EXCEPT ![k] = IF bus THEN "turnOff" ELSE "turnOn"]
        /\ k \in Controllers /\ k # Deployer /\ pc \in [Controllers -> PC]
        /\ bus \in BOOLEAN
        /\ \A j \in Togglers : j \in Controllers
    BY DEF Toggle, Goes, Awaits, sourceVars, workerVars, Controllers, IInv, WorkersKnown,
           WorkerTypes, SwitchTypes
  <1>3. /\ pc'[k] = IF bus THEN "turnOff" ELSE "turnOn"
        /\ \A j \in Controllers : j # k => pc'[j] = pc[j]
    BY <1>2
  <1>4. OneToggler' /\ NothingUndone'
    BY <1>0, <1>1, <1>2, <1>3 DEF OneToggler, NothingUndone, Undoing
  <1>5. BusIsFollowed'
    BY <1>0, <1>1, <1>2, <1>3 DEF BusIsFollowed, Hooks
  <1>6. Switching' = Switching
    BY <1>2, <1>3 DEF Switching, Controllers
  <1>7. GraphIsRouted' /\ GraphRuns'
    BY <1>1, <1>2, <1>6 DEF GraphIsRouted, GraphRuns, Running
  <1> QED
    BY <1>4, <1>5, <1>7 DEF Orderly

LEMMA StepOrderly == IInv /\ Places /\ Orderly /\ [Next]_vars => Orderly'
  <1> SUFFICES ASSUME IInv, Places, Orderly, [Next]_vars, mishap' = 0 PROVE Orderly'
    BY DEF Orderly
  <1>1. ASSUME UNCHANGED <<pc, bus, active, graph, routes, ctx>>, mishap = 0,
               task # NoWorker => task' # NoWorker
        PROVE  Orderly'
    BY <1>1
       DEF Orderly, OneToggler, NothingUndone, BusIsFollowed, GraphIsRouted, GraphRuns, Switching,
           Running
  <1>2. CASE UNCHANGED vars
    BY <1>1, <1>2 DEF vars, switches, sourceVars, workerVars, ctlVars
  <1>3. CASE Fire
    BY <1>1, <1>3, StartWorkerCases DEF Fire, switches, sourceVars, ctlVars, HasWorker
  <1>4. ASSUME NEW w \in Workers, Worker(w) \/ Crash(w) PROVE Orderly'
    <2>1. UNCHANGED <<pc, bus, active, graph, routes, ctx, task>>
      BY <1>4
         DEF Worker, Crash, Take, Finish, Unwound, Swallow, Leaves, switches, sourceVars, ctlVars
    <2>2. mishap = 0
      BY <1>4
         DEF Worker, Crash, Take, Finish, Unwound, Swallow, Leaves, Happens, Abort, IInv,
             SourcesKnown, SourceTypes
    <2> QED
      BY <1>1, <2>1, <2>2
  <1>5. CASE Deploy
    <2>1. Step(Deployer) /\ Deployer \in Controllers
      BY <1>5, DeployStep DEF Controllers
    <2>2. Settles(Deployer)
      BY <1>5, <2>1, StepMishap, StopWorkerSettles DEF Deploy
    <2>3. Neat(Deployer)
      BY <1>5, <2>2 DEF Deploy, Neat, Settles, Hooks, Undoing
    <2> QED
      BY <2>1, <2>3, NeatOrderly
  <1>6. ASSUME NEW k \in Togglers, Toggle(k) PROVE Orderly'
    BY <1>6, ToggleOrderly
  <1>7. ASSUME NEW k \in Controllers, Control(k) PROVE Orderly'
    BY <1>7, ControlStep, ControlNeat, NeatOrderly
  <1> QED
    BY <1>2, <1>3, <1>4, <1>5, <1>6, <1>7 DEF Next

(***************************************************************************)
(* With no operation in progress an active executor that has a graph runs  *)
(* it, and is active because the bus is: toggles and deployments leave no  *)
(* entrypoint or worker missing or doubled, unless toggles overlapped or a *)
(* start or a stop failed (code: apply_rungraph, set_active and the hooks  *)
(* of the executor).                                                       *)
(***************************************************************************)
THEOREM RunsWhenActive == Spec => []ActiveIsRunning
  <1>1. Spec => []Orderly
    BY InitOrderly, StepOrderly, Invariance, PTL DEF Spec
  <1>2. IInv /\ Orderly => ActiveIsRunning
    <2> SUFFICES ASSUME IInv, Orderly, Idle, mishap = 0
                 PROVE  /\ active = bus
                        /\ active /\ graph # 0 =>
                             routes = graph /\ HasWorker /\ ctx # 0 /\ live = {ctx}
      BY DEF ActiveIsRunning
    <2>1. BusIsFollowed /\ GraphIsRouted /\ GraphRuns /\ ~Switching
      BY DEF Orderly, Idle, Switching, Controllers
    <2>2. active = bus
      BY <2>1 DEF BusIsFollowed, Idle, Controllers, Hooks
    <2>3. task # NoWorker => HasWorker
      BY DEF IInv, WorkersKnown, WorkerTypes, KnownIsAlive, CrashIsMishap, HasWorker, Alive, Dead,
             Abort
    <2>4. ctx # 0 => live = {ctx}
      BY DEF IInv, SourcesKnown, Stray
    <2> QED
      BY <2>1, <2>2, <2>3, <2>4 DEF GraphIsRouted, GraphRuns, Running
  <1> QED
    BY <1>1, <1>2, Invariance, PTL
=============================================================================
