----------------------- MODULE CommandDispatchProofs -----------------------
(***************************************************************************)
(* Proofs about CommandDispatch, for every set of callers and every number *)
(* of calls and of registrations.                                          *)
(***************************************************************************)
EXTENDS CommandDispatch, TLAPS

USE MaxCallsAssumption, MaxNodesAssumption, FailuresAssumption

(***************************************************************************)
(* The inductive invariant.  A dispatch state is created by an arrival and *)
(* nobody holds one that is not created yet, so a new loop on a new state  *)
(* is alone; a pending state has a value newer than the last one run.      *)
(***************************************************************************)
Created ==
  /\ cur <= made /\ made <= arrivals
  /\ \A c \in Callers : held[c] <= made

Ordered ==
  \A g \in Calls :
    /\ lastRun[g] <= latest[g] /\ latest[g] <= arrivals
    /\ pending[g] => lastRun[g] < latest[g]

InLoop == \A c \in Callers : pc[c] # "idle" <=> Busy(c)

IInv ==
  /\ TypeOK
  /\ Created
  /\ Ordered
  /\ InLoop
  /\ OneLoop
  /\ LatestIsKept

LEMMA InitIInv == Init => IInv
  BY DEF Init, IInv, TypeOK, Created, Ordered, InLoop, OneLoop, LatestIsKept, Calls, Busy

(* An arrival is counted and aims at a dispatch state that is created.     *)
LEMMA ArriveFacts ==
  ASSUME IInv, NEW c \in Callers, Arrive(c)
  PROVE  /\ Target \in Calls /\ arrivals' = arrivals + 1 /\ arrivals' \in Calls
         /\ cur' = Target /\ made' \in 0 .. MaxCalls /\ Target <= made' /\ made <= made'
         /\ made' <= arrivals'
         /\ latest' = [latest EXCEPT ![Target] = arrivals']
         /\ cur = 0 => Target > made
         /\ cur # 0 => Target = cur
  BY DEF IInv, TypeOK, Created, Arrive, Target, Calls

(* Whoever holds the target of an arrival keeps it marked as running.      *)
LEMMA TargetHeld ==
  ASSUME IInv, NEW c \in Callers, Arrive(c), NEW d \in Callers, held[d] = Target
  PROVE  running[Target]
  <1>1. Target \in Calls /\ Target # 0
    BY ArriveFacts DEF Calls
  <1> QED
    BY <1>1 DEF IInv, OneLoop, Busy

(* What RunsInOrder says of one step.                                      *)
Forward ==
  /\ \A g \in Calls : lastRun'[g] # lastRun[g] => lastRun'[g] > lastRun[g]
  /\ \A c \in Callers :
       pc[c] # "invoking" /\ pc'[c] = "invoking" => arg'[c] > lastRun[held'[c]]

LEMMA StepFirst ==
  ASSUME IInv, NEW c \in Callers, DispatchFirst(c)
  PROVE  IInv' /\ Forward
  <1> DEFINE g == Target
  <1>1. Arrive(c) /\ ~running[g] /\ Run(c, g, arrivals')
    BY DEF DispatchFirst
  <1>2. /\ g \in Calls /\ arrivals' = arrivals + 1 /\ arrivals' \in Calls
        /\ cur' = g /\ made' \in 0 .. MaxCalls /\ g <= made' /\ made <= made'
        /\ made' <= arrivals'
        /\ latest' = [latest EXCEPT ![g] = arrivals']
    BY <1>1, ArriveFacts
  <1>3. \A d \in Callers : held[d] # g
    BY <1>1, TargetHeld
  <1> HIDE DEF g
  <1>9. running' = [running EXCEPT ![g] = TRUE] /\ UNCHANGED <<node, nodes, output, unanswered>>
    BY DEF DispatchFirst, g
  <1>a. running' \in [Calls -> BOOLEAN] /\ pending' \in [Calls -> BOOLEAN]
    BY <1>1, <1>2, <1>9 DEF IInv, TypeOK, Run
  <1>b. arrivals' \in 0 .. MaxCalls /\ g \in 0 .. MaxCalls
    BY <1>2 DEF Calls
  <1>4. TypeOK'
    BY <1>1, <1>2, <1>9, <1>a, <1>b DEF IInv, TypeOK, Run
  <1>5. Created'
    BY <1>1, <1>2 DEF IInv, TypeOK, Created, Run, Calls
  <1>6. Ordered'
    <2>1. /\ latest'[g] = arrivals' /\ lastRun'[g] = arrivals' /\ ~pending'[g]
          /\ \A h \in Calls : h # g =>
               latest'[h] = latest[h] /\ lastRun'[h] = lastRun[h] /\ (pending'[h] => pending[h])
      BY <1>1, <1>2 DEF IInv, TypeOK, Run
    <2>2. arrivals \in Nat /\ \A h \in Calls : latest[h] \in Nat /\ lastRun[h] \in Nat
      BY DEF IInv, TypeOK
    <2>3. Ordered
      BY DEF IInv
    <2> QED
      BY <1>2, <2>1, <2>2, <2>3 DEF Ordered
  <1>d. Forward
    <2>1. arrivals \in Nat /\ \A h \in Calls : lastRun[h] \in Nat /\ latest[h] \in Nat
      BY DEF IInv, TypeOK
    <2>2. lastRun[g] <= latest[g] /\ latest[g] <= arrivals
      BY <1>2 DEF IInv, Ordered
    <2>3. lastRun[g] < arrivals' /\ arrivals' \in Nat
      BY <1>2, <2>1, <2>2
    <2>4. lastRun' = [lastRun EXCEPT ![g] = arrivals']
      BY <1>1 DEF Run
    <2>5. ASSUME NEW d \in Callers, pc[d] # "invoking", pc'[d] = "invoking"
          PROVE  arg'[d] = arrivals' /\ held'[d] = g
      BY <1>1, <2>5 DEF Run, IInv, TypeOK
    <2> QED
      BY <2>1, <2>3, <2>4, <2>5, <1>2 DEF Forward, IInv, TypeOK
  <1>e. /\ held'[c] = g /\ running'[g]
        /\ \A d \in Callers : d # c => held'[d] = held[d] /\ (Busy(d)' <=> Busy(d))
        /\ \A h \in Calls : h # g => running'[h] = running[h]
    BY <1>1, <1>2, <1>9 DEF IInv, TypeOK, Busy, Run
  <1>7. OneLoop'
    <2> SUFFICES ASSUME NEW d \in Callers, NEW e \in Callers, Busy(d)'
                 PROVE  running'[held'[d]] /\ (held'[e] = held'[d] => d = e)
      BY DEF OneLoop
    <2>1. CASE d = c
      BY <1>3, <1>e, <2>1
    <2>2. CASE d # c
      <3>1. Busy(d) /\ held'[d] = held[d] /\ held[d] # g /\ running[held[d]]
        BY <1>3, <1>e, <2>2 DEF IInv, OneLoop
      <3>2. held[d] \in Calls
        BY <3>1 DEF IInv, InLoop, TypeOK, Calls, Busy
      <3> QED
        BY <1>e, <3>1, <3>2 DEF IInv, OneLoop
    <2> QED
      BY <2>1, <2>2
  <1>f. /\ arg'[c] = arrivals' /\ latest'[g] = arrivals'
        /\ \A d \in Callers : d # c => arg'[d] = arg[d]
        /\ \A h \in Calls : h # g => latest'[h] = latest[h] /\ (pending[h] => pending'[h])
    BY <1>1, <1>2 DEF IInv, TypeOK, Run
  <1>8. LatestIsKept'
    <2> SUFFICES ASSUME NEW d \in Callers, Busy(d)', arg'[d] # latest'[held'[d]]
                 PROVE  pending'[held'[d]]
      BY DEF LatestIsKept
    <2>1. d # c /\ Busy(d) /\ held'[d] = held[d] /\ arg'[d] = arg[d] /\ held[d] # g
      BY <1>3, <1>e, <1>f
    <2>2. held[d] \in Calls
      BY <2>1 DEF IInv, TypeOK, Calls, Busy
    <2>3. arg[d] # latest[held[d]] => pending[held[d]]
      BY <2>1 DEF IInv, LatestIsKept
    <2> QED
      BY <1>f, <2>1, <2>2, <2>3
  <1>c. InLoop'
    BY <1>1, <1>2 DEF IInv, TypeOK, InLoop, Busy, Run, Calls
  <1> QED
    BY <1>4, <1>5, <1>6, <1>7, <1>8, <1>c, <1>d DEF IInv

LEMMA StepBusy ==
  ASSUME IInv, NEW c \in Callers, DispatchBusy(c)
  PROVE  IInv' /\ Forward
  <1> DEFINE g == Target
  <1>1. /\ Arrive(c) /\ pending' = [pending EXCEPT ![g] = TRUE]
        /\ UNCHANGED <<node, nodes, running, pc, held, arg, output, started, unanswered, lastRun>>
    BY DEF DispatchBusy, callerVars, historyVars
  <1>2. /\ g \in Calls /\ arrivals' = arrivals + 1 /\ arrivals' \in Calls
        /\ cur' = g /\ made' \in 0 .. MaxCalls /\ g <= made' /\ made <= made'
        /\ made' <= arrivals'
        /\ latest' = [latest EXCEPT ![g] = arrivals']
    BY <1>1, ArriveFacts
  <1> HIDE DEF g
  <1>7. pending' \in [Calls -> BOOLEAN]
    BY <1>1, <1>2 DEF IInv, TypeOK
  <1>8. arrivals' \in 0 .. MaxCalls /\ g \in 0 .. MaxCalls
    BY <1>2 DEF Calls
  <1>3. TypeOK'
    BY <1>1, <1>2, <1>7, <1>8 DEF IInv, TypeOK
  <1>4. Created' /\ Forward
    BY <1>1, <1>2 DEF IInv, TypeOK, Created, Forward, Calls
  <1>9. Ordered'
    <2>1. /\ latest'[g] = arrivals' /\ lastRun' = lastRun
          /\ \A h \in Calls : h # g => latest'[h] = latest[h] /\ (pending'[h] => pending[h])
      BY <1>1, <1>2 DEF IInv, TypeOK
    <2>2. arrivals \in Nat /\ \A h \in Calls : latest[h] \in Nat /\ lastRun[h] \in Nat
      BY DEF IInv, TypeOK
    <2>3. Ordered
      BY DEF IInv
    <2>4. lastRun[g] < arrivals'
      BY <1>2, <2>2, <2>3 DEF Ordered
    <2> QED
      BY <1>2, <2>1, <2>2, <2>3, <2>4 DEF Ordered
  <1>5. InLoop' /\ OneLoop'
    BY <1>1 DEF IInv, InLoop, OneLoop, Busy
  <1>6. LatestIsKept'
    <2> SUFFICES ASSUME NEW d \in Callers, Busy(d)', arg'[d] # latest'[held'[d]]
                 PROVE  pending'[held'[d]]
      BY DEF LatestIsKept
    <2>1. Busy(d) /\ held'[d] = held[d] /\ arg'[d] = arg[d]
      BY <1>1 DEF Busy
    <2>2. held[d] \in Calls
      BY <2>1 DEF IInv, TypeOK, Calls, Busy
    <2>3. arg[d] # latest[held[d]] => pending[held[d]]
      BY <2>1 DEF IInv, LatestIsKept
    <2>4. /\ pending'[g] /\ \A h \in Calls : pending[h] => pending'[h]
          /\ \A h \in Calls : h # g => latest'[h] = latest[h]
      BY <1>1, <1>2 DEF IInv, TypeOK
    <2> QED
      BY <2>1, <2>2, <2>3, <2>4
  <1> QED
    BY <1>3, <1>4, <1>5, <1>6, <1>9 DEF IInv

LEMMA StepLoopEnd ==
  ASSUME IInv, NEW c \in Callers, Busy(c), LoopEnd(c), unanswered' \in 0 .. MaxCalls
  PROVE  IInv' /\ Forward
  <1> DEFINE g == held[c]
  <1>1. g \in Calls /\ latest[g] \in 0 .. MaxCalls
    BY DEF IInv, TypeOK, Busy, Calls
  <1>2. \A d \in Callers : held[d] = g => d = c
    BY DEF IInv, OneLoop
  <1>3. running[g]
    BY DEF IInv, OneLoop
  <1>4. CASE pending[g] /\ node # 0
    <2>1. /\ Run(c, g, latest[g])
          /\ UNCHANGED <<node, nodes, arrivals, cur, made, running, latest, output>>
      BY <1>4 DEF LoopEnd
    <2> HIDE DEF g
    <2>6. pending' \in [Calls -> BOOLEAN]
      BY <1>1, <2>1 DEF IInv, TypeOK, Run
    <2>7. g \in 0 .. MaxCalls
      BY <1>1 DEF Calls
    <2>2. TypeOK'
      BY <1>1, <2>1, <2>6, <2>7 DEF IInv, TypeOK, Run
    <2>3. Created'
      BY <1>1, <2>1 DEF IInv, TypeOK, Created, Run, g
    <2>4. Ordered' /\ Forward
      BY <1>1, <1>4, <2>1 DEF IInv, TypeOK, Ordered, Forward, Run
    <2>5. OneLoop' /\ LatestIsKept'
      BY <1>1, <1>2, <1>3, <2>1 DEF IInv, TypeOK, OneLoop, LatestIsKept, Busy, Run, g
    <2>8. InLoop'
      BY <1>1, <2>1 DEF IInv, TypeOK, InLoop, Busy, Run, Calls
    <2> QED
      BY <2>2, <2>3, <2>4, <2>5, <2>8 DEF IInv
  <1>5. CASE ~(pending[g] /\ node # 0)
    <2>1. /\ running' = [running EXCEPT ![g] = FALSE]
          /\ pending' = [pending EXCEPT ![g] = FALSE]
          /\ pc' = [pc EXCEPT ![c] = "idle"]
          /\ held' = [held EXCEPT ![c] = 0]
          /\ UNCHANGED <<node, nodes, arrivals, cur, made, latest, arg, output, started, lastRun>>
      BY <1>5 DEF LoopEnd
    <2> HIDE DEF g
    <2>2. TypeOK'
      BY <1>1, <2>1 DEF IInv, TypeOK
    <2>3. Created' /\ Ordered' /\ Forward
      BY <1>1, <2>1 DEF IInv, TypeOK, Created, Ordered, Forward
    <2>5. OneLoop' /\ LatestIsKept'
      BY <1>1, <1>2, <2>1 DEF IInv, TypeOK, OneLoop, LatestIsKept, Busy, g
    <2>8. InLoop'
      BY <1>1, <2>1 DEF IInv, TypeOK, InLoop, Busy
    <2> QED
      BY <2>2, <2>3, <2>5, <2>8 DEF IInv
  <1> QED
    BY <1>4, <1>5

LEMMA StepOther ==
  ASSUME IInv, NEW c \in Callers, HandlerReturns(c) \/ OutputFails(c) \/ Cancelled(c)
  PROVE  IInv' /\ Forward
  <1>1. CASE HandlerReturns(c)
    <2>1. /\ pc[c] = "invoking" /\ pc' = [pc EXCEPT ![c] = "output"]
          /\ output' = IF node # 0 THEN arg[c] ELSE output
          /\ UNCHANGED <<node, nodes, arrivals, cur, made, running, pending, latest, held, arg, started, unanswered, lastRun>>
      BY <1>1 DEF HandlerReturns, dispatchVars, historyVars
    <2>2. TypeOK' /\ InLoop'
      BY <2>1 DEF IInv, TypeOK, InLoop, Busy
    <2> QED
      BY <2>1, <2>2 DEF IInv, Created, Ordered, OneLoop, LatestIsKept, Busy, Forward
  <1>3. CASE OutputFails(c)
    <2>1. /\ pc[c] = "invoking" /\ pc' = [pc EXCEPT ![c] = "output"]
          /\ unanswered' = arg[c]
          /\ UNCHANGED <<node, nodes, arrivals, cur, made, running, pending, latest, held, arg, output, started, lastRun>>
      BY <1>3 DEF OutputFails, dispatchVars
    <2>2. TypeOK' /\ InLoop'
      BY <2>1 DEF IInv, TypeOK, InLoop, Busy
    <2> QED
      BY <2>1, <2>2 DEF IInv, Created, Ordered, OneLoop, LatestIsKept, Busy, Forward
  <1>2. CASE Cancelled(c)
    <2>1. /\ pc' = [pc EXCEPT ![c] = "idle"] /\ held' = [held EXCEPT ![c] = 0]
          /\ UNCHANGED <<node, nodes, arrivals, cur, made, running, pending, latest, arg, output, started, unanswered, lastRun>>
      BY <1>2 DEF Cancelled, dispatchVars, historyVars
    <2>2. TypeOK' /\ InLoop' /\ Created'
      BY <2>1 DEF IInv, TypeOK, InLoop, Created, Busy
    <2>3. OneLoop' /\ LatestIsKept'
      BY <2>1 DEF IInv, TypeOK, OneLoop, LatestIsKept, Busy
    <2> QED
      BY <2>1, <2>2, <2>3 DEF IInv, Ordered, Forward
  <1> QED
    BY <1>1, <1>2, <1>3

LEMMA StepRegistry ==
  ASSUME IInv, Register \/ Detach
  PROVE  IInv' /\ Forward
  <1>1. /\ node' \in 0 .. MaxNodes /\ nodes' \in 0 .. MaxNodes /\ cur' \in {0, cur}
        /\ UNCHANGED <<arrivals, made, running, pending, latest, pc, held, arg, output, started, unanswered, lastRun>>
    BY DEF Register, Detach, IInv, TypeOK, dispatchVars, callerVars, historyVars
  <1>2. TypeOK' /\ Created'
    BY <1>1 DEF IInv, TypeOK, Created
  <1> QED
    BY <1>1, <1>2 DEF IInv, Ordered, InLoop, OneLoop, LatestIsKept, Busy, Forward

LEMMA StepIInv == IInv /\ [Next]_vars => IInv' /\ [Forward]_vars
  <1> SUFFICES ASSUME IInv, [Next]_vars PROVE IInv' /\ [Forward]_vars
    OBVIOUS
  <1>1. CASE Register \/ Detach
    BY <1>1, StepRegistry
  <1>2. ASSUME NEW c \in Callers, DispatchFirst(c) PROVE IInv' /\ Forward
    BY <1>2, StepFirst
  <1>3. ASSUME NEW c \in Callers, DispatchBusy(c) PROVE IInv' /\ Forward
    BY <1>3, StepBusy
  <1>4. ASSUME NEW c \in Callers, HandlerFails(c) \/ OutputDone(c) PROVE IInv' /\ Forward
    <2>1. Busy(c) /\ LoopEnd(c) /\ unanswered' \in 0 .. MaxCalls
      BY <1>4 DEF HandlerFails, OutputDone, IInv, InLoop, TypeOK
    <2> QED
      BY <2>1, StepLoopEnd
  <1>5. ASSUME NEW c \in Callers, HandlerReturns(c) \/ OutputFails(c) \/ Cancelled(c)
        PROVE  IInv' /\ Forward
    BY <1>5, StepOther
  <1>6. CASE UNCHANGED vars
    BY <1>6 DEF vars, dispatchVars, callerVars, historyVars, IInv, TypeOK, Created, Ordered, InLoop, OneLoop, LatestIsKept, Busy
  <1> QED
    BY <1>1, <1>2, <1>3, <1>4, <1>5, <1>6 DEF Next, Loop

-----------------------------------------------------------------------------
THEOREM Invariance == Spec => []IInv
  <1>1. IInv /\ [Next]_vars => IInv'
    BY StepIInv
  <1> QED
    BY InitIInv, <1>1, PTL DEF Spec

(***************************************************************************)
(* Every variable keeps its type.                                          *)
(***************************************************************************)
THEOREM TypeCorrect == Spec => []TypeOK
  <1>1. IInv => TypeOK
    BY DEF IInv
  <1> QED
    BY Invariance, <1>1, PTL

(***************************************************************************)
(* A dispatch state never has two loops, not even across cancellations and *)
(* registrations, so the command never runs twice at once through it.      *)
(***************************************************************************)
THEOREM AlwaysOneLoop == Spec => []OneLoop
  <1>1. IInv => OneLoop
    BY DEF IInv
  <1> QED
    BY Invariance, <1>1, PTL

(***************************************************************************)
(* A loop that is still alive knows of every value it has not run.         *)
(***************************************************************************)
THEOREM LatestAlwaysKept == Spec => []LatestIsKept
  <1>1. IInv => LatestIsKept
    BY DEF IInv
  <1> QED
    BY Invariance, <1>1, PTL

(***************************************************************************)
(* One dispatch state runs values in the order of arrival, none twice.     *)
(***************************************************************************)
THEOREM RunsForward == Spec => RunsInOrder
  <1>1. IInv /\ [Next]_vars => [Forward]_vars
    BY StepIInv
  <1> QED
    BY Invariance, <1>1, PTL DEF Spec, RunsInOrder, Forward

-----------------------------------------------------------------------------
(***************************************************************************)
(* While the first node object is registered there is at most one dispatch *)
(* state.  It remembers the latest arrival; unless it is marked as running *)
(* its last run was of the latest value, and was answered or is known to   *)
(* have raised or to have lost its output.                                 *)
(***************************************************************************)
NoneYet ==
  /\ cur = 0 /\ arrivals = 0 /\ started = 0 /\ output = 0
  /\ \A c \in Callers : ~Busy(c)
  /\ \A g \in Calls : ~running[g]

OneState ==
  /\ cur # 0
  /\ latest[cur] = arrivals /\ lastRun[cur] = started
  /\ pending[cur] => running[cur]
  /\ ~pending[cur] => started = arrivals
  /\ ~running[cur] => output = started \/ unanswered = started
  /\ \A c \in Callers : Busy(c) => held[c] = cur
  /\ \A c \in Callers : pc[c] = "invoking" => arg[c] = started
  /\ \A c \in Callers : pc[c] = "output" => output = started \/ unanswered = started

Single ==
  /\ nodes = 0 => node = 0 /\ NoneYet
  /\ node # 0 /\ nodes = 1 => NoneYet \/ OneState

LEMMA InitSingle == Init => Single
  BY DEF Init, Single, NoneYet, Busy

LEMMA ArriveSingle ==
  ASSUME IInv, Single, NEW c \in Callers, DispatchFirst(c) \/ DispatchBusy(c)
  PROVE  Single'
  <1> DEFINE g == Target
  <1>1. Arrive(c) /\ UNCHANGED <<node, nodes, output, unanswered>> /\ node # 0
    BY DEF DispatchFirst, DispatchBusy, Arrive, historyVars
  <1>2. /\ g \in Calls /\ cur' = g /\ latest' = [latest EXCEPT ![g] = arrivals']
        /\ cur # 0 => g = cur
        /\ cur = 0 => g > made
    BY <1>1, ArriveFacts
  <1>3. nodes' # 0
    BY <1>1 DEF Single
  <1>4. ASSUME nodes = 1 PROVE OneState'
    <2>1. CASE DispatchFirst(c)
      <3>1. Run(c, g, arrivals') /\ running' = [running EXCEPT ![g] = TRUE]
        BY <2>1 DEF DispatchFirst
      <3>2. \A d \in Callers : held[d] # g
        BY <2>1, <1>1, TargetHeld DEF DispatchFirst
      <3>3. \A d \in Callers : ~Busy(d) /\ pc[d] = "idle"
        BY <1>1, <1>2, <1>4, <3>2 DEF Single, NoneYet, OneState, IInv, InLoop, TypeOK
      <3> HIDE DEF g
      <3>4. /\ cur' # 0 /\ latest'[cur'] = arrivals' /\ lastRun'[cur'] = started'
            /\ running'[cur'] /\ started' = arrivals'
        BY <1>2, <3>1 DEF Run, IInv, TypeOK, Calls
      <3>5. \A d \in Callers : /\ Busy(d)' => held'[d] = cur'
                               /\ pc'[d] = "invoking" => arg'[d] = started'
                               /\ pc'[d] # "output"
        BY <1>2, <3>1, <3>3 DEF Run, IInv, TypeOK, Busy, Calls
      <3> QED
        BY <3>4, <3>5 DEF OneState
    <2>2. CASE DispatchBusy(c)
      <3>1. /\ pending' = [pending EXCEPT ![g] = TRUE] /\ running[g]
            /\ UNCHANGED <<running, pc, held, arg, started, lastRun>>
        BY <2>2 DEF DispatchBusy, callerVars, historyVars
      <3>2. OneState
        BY <1>1, <1>2, <1>4, <3>1 DEF Single, NoneYet
      <3>3. g = cur
        BY <3>2 DEF OneState, Target
      <3> HIDE DEF g
      <3> QED
        BY <1>1, <1>2, <3>1, <3>2, <3>3 DEF OneState, Busy, IInv, TypeOK, Calls
    <2> QED
      BY <2>1, <2>2
  <1> QED
    BY <1>1, <1>3, <1>4 DEF Single

LEMMA LoopEndSingle ==
  ASSUME IInv, Single, NEW c \in Callers, HandlerFails(c) \/ OutputDone(c)
  PROVE  Single'
  <1> DEFINE g == held[c]
  <1>0. Busy(c) /\ LoopEnd(c)
    BY DEF HandlerFails, OutputDone, IInv, InLoop
  <1>1. g \in Calls /\ UNCHANGED <<node, nodes, cur, latest, arrivals, output>>
    BY <1>0 DEF LoopEnd, IInv, TypeOK, Busy, Calls
  <1>2. \A d \in Callers : held[d] = g => d = c
    BY <1>0 DEF IInv, OneLoop
  <1>3. nodes # 0
    BY <1>0 DEF Single, NoneYet
  <1>4. ASSUME node # 0, nodes = 1 PROVE OneState'
    <2>1. OneState /\ g = cur
      BY <1>0, <1>4 DEF Single, NoneYet, OneState
    <2>2. \A d \in Callers : d # c => ~Busy(d) /\ pc[d] = "idle"
      BY <1>2, <2>1 DEF OneState, IInv, InLoop, TypeOK
    <2>3. output = started \/ unanswered' = started
      BY <2>1 DEF HandlerFails, OutputDone, OneState
    <2>4. CASE pending[g]
      <3>1. Run(c, g, latest[g]) /\ UNCHANGED running
        BY <1>0, <1>4, <2>4 DEF LoopEnd
      <3>2. running[g]
        BY <2>1, <2>4 DEF OneState
      <3> HIDE DEF g
      <3>3. /\ latest'[cur'] = arrivals' /\ lastRun'[cur'] = started' /\ running'[cur']
            /\ started' = arrivals'
        BY <1>1, <2>1, <3>1, <3>2 DEF OneState, Run, IInv, TypeOK, Calls
      <3>4. \A d \in Callers : /\ Busy(d)' => held'[d] = cur'
                               /\ pc'[d] = "invoking" => arg'[d] = started'
                               /\ pc'[d] # "output"
        BY <1>1, <2>1, <2>2, <3>1 DEF Run, IInv, TypeOK, Busy, Calls
      <3> QED
        BY <1>1, <2>1, <3>3, <3>4 DEF OneState
    <2>5. CASE ~pending[g]
      <3>1. /\ running' = [running EXCEPT ![g] = FALSE]
            /\ pending' = [pending EXCEPT ![g] = FALSE]
            /\ pc' = [pc EXCEPT ![c] = "idle"]
            /\ held' = [held EXCEPT ![c] = 0]
            /\ UNCHANGED <<arg, lastRun, started>>
        BY <1>0, <2>5 DEF LoopEnd
      <3> HIDE DEF g
      <3>2. ~running'[cur'] /\ ~pending'[cur']
        BY <1>1, <2>1, <3>1 DEF IInv, TypeOK
      <3>3. started' = arrivals'
        BY <1>1, <2>1, <2>5, <3>1 DEF OneState
      <3>4. \A d \in Callers : ~Busy(d)' /\ pc'[d] = "idle"
        BY <2>2, <3>1 DEF Busy, IInv, TypeOK
      <3> QED
        BY <1>1, <2>1, <2>3, <3>1, <3>2, <3>3, <3>4 DEF OneState
    <2> QED
      BY <2>4, <2>5
  <1> QED
    BY <1>1, <1>3, <1>4 DEF Single

LEMMA StepSingle ==
  ASSUME IInv, Single, [Next]_vars
  PROVE  Single'
  <1>1. CASE Register
    BY <1>1 DEF Register, dispatchVars, callerVars, historyVars, IInv, TypeOK, Single, NoneYet, Busy
  <1>2. CASE Detach
    BY <1>2 DEF Detach, Single
  <1>3. ASSUME NEW c \in Callers, DispatchFirst(c) \/ DispatchBusy(c) PROVE Single'
    BY <1>3, ArriveSingle
  <1>4. ASSUME NEW c \in Callers, HandlerReturns(c) PROVE Single'
    <2>1. /\ pc[c] = "invoking" /\ pc' = [pc EXCEPT ![c] = "output"]
          /\ output' = IF node # 0 THEN arg[c] ELSE output
          /\ UNCHANGED <<node, nodes, arrivals, cur, made, running, pending, latest, held, arg, started, unanswered, lastRun>>
      BY <1>4 DEF HandlerReturns, dispatchVars, historyVars
    <2>2. Busy(c)
      BY <2>1 DEF IInv, InLoop
    <2>3. ASSUME node # 0, nodes = 1 PROVE OneState'
      <3>1. OneState /\ output' = started
        BY <2>1, <2>2, <2>3 DEF Single, NoneYet, OneState
      <3> QED
        BY <2>1, <3>1 DEF OneState, Busy, IInv, TypeOK
    <2> QED
      BY <2>1, <2>2, <2>3 DEF Single, NoneYet
  <1>8. ASSUME NEW c \in Callers, OutputFails(c) PROVE Single'
    <2>1. /\ pc[c] = "invoking" /\ pc' = [pc EXCEPT ![c] = "output"]
          /\ unanswered' = arg[c]
          /\ UNCHANGED <<node, nodes, arrivals, cur, made, running, pending, latest, held, arg, output, started, lastRun>>
      BY <1>8 DEF OutputFails, dispatchVars
    <2>2. Busy(c)
      BY <2>1 DEF IInv, InLoop
    <2>3. ASSUME node # 0, nodes = 1 PROVE OneState'
      <3>1. OneState /\ unanswered' = started
        BY <2>1, <2>2, <2>3 DEF Single, NoneYet, OneState
      <3> QED
        BY <2>1, <3>1 DEF OneState, Busy, IInv, TypeOK
    <2> QED
      BY <2>1, <2>2, <2>3 DEF Single, NoneYet
  <1>5. ASSUME NEW c \in Callers, HandlerFails(c) \/ OutputDone(c) PROVE Single'
    BY <1>5, LoopEndSingle
  <1>6. ASSUME NEW c \in Callers, Cancelled(c) PROVE Single'
    <2>1. /\ pc' = [pc EXCEPT ![c] = "idle"] /\ held' = [held EXCEPT ![c] = 0] /\ Busy(c)
          /\ UNCHANGED <<node, nodes, arrivals, cur, made, running, pending, latest, arg, output, started, unanswered, lastRun>>
      BY <1>6 DEF Cancelled, dispatchVars, historyVars
    <2>2. nodes # 0 /\ ~NoneYet
      BY <2>1 DEF Single, NoneYet
    <2>3. OneState => OneState'
      BY <2>1 DEF OneState, Busy, IInv, TypeOK
    <2> QED
      BY <2>1, <2>2, <2>3 DEF Single
  <1>7. CASE UNCHANGED vars
    BY <1>7 DEF vars, dispatchVars, callerVars, historyVars, Single, NoneYet, OneState, Busy
  <1> QED
    BY <1>1, <1>2, <1>3, <1>4, <1>5, <1>6, <1>7, <1>8 DEF Next, Loop

THEOREM SingleInvariance == Spec => [](IInv /\ Single)
  <1>1. (IInv /\ Single) /\ [Next]_vars => (IInv /\ Single)'
    BY StepIInv, StepSingle
  <1> QED
    BY InitIInv, InitSingle, <1>1, PTL DEF Spec

(* At rest the only dispatch state there may be is not marked as running.  *)
LEMMA RestIsOver ==
  ASSUME IInv, Single, AtRest, Undisturbed
  PROVE  NoneYet \/ (OneState /\ cur \in Calls /\ ~running[cur])
  <1>1. CASE OneState
    BY <1>1 DEF OneState, AtRest, Undisturbed, Abandoned, Busy, IInv, TypeOK, Calls
  <1> QED
    BY <1>1 DEF Single, AtRest, Undisturbed

(***************************************************************************)
(* As long as the node has not been detached and no loop was cancelled,    *)
(* the last value to arrive is the last one the command is run with, and   *)
(* the output field answers it, unless that run raised or could not write  *)
(* its output (code: invoke, which logs both and returns).                 *)
(***************************************************************************)
THEOREM LatestIsAnswered == Spec => []OutputAnswersLatest
  <1>1. IInv /\ Single => OutputAnswersLatest
    BY RestIsOver DEF OutputAnswersLatest, NoneYet, OneState
  <1> QED
    BY SingleInvariance, <1>1, PTL

-----------------------------------------------------------------------------
(***************************************************************************)
(* What holds of the dispatch state of the node registered now, whichever  *)
(* registration it is: it has the newest arrival, and it was run with it   *)
(* or is marked as running with a value pending.  A loop on an older       *)
(* dispatch state does not disturb it.                                     *)
(***************************************************************************)
NoNodeNoState == node = 0 => cur = 0

RunIsArg == \A c \in Callers : Busy(c) => lastRun[held[c]] = arg[c]

UpToDate ==
  cur # 0 =>
    /\ latest[cur] = arrivals
    /\ lastRun[cur] = latest[cur] \/ (pending[cur] /\ running[cur])

KInv == NoNodeNoState /\ RunIsArg /\ UpToDate

Ends == \A g \in Calls : running[g] /\ ~running'[g] => lastRun[g] = latest[g] \/ node = 0

LEMMA InitKInv == Init => KInv
  BY DEF Init, KInv, NoNodeNoState, RunIsArg, UpToDate, Busy

LEMMA FirstKInv ==
  ASSUME IInv, KInv, NEW c \in Callers, DispatchFirst(c)
  PROVE  KInv' /\ Ends
  <1> DEFINE g == Target
  <1>1. Arrive(c) /\ ~running[g] /\ Run(c, g, arrivals')
    BY DEF DispatchFirst
  <1>2. g \in Calls /\ g # 0 /\ cur' = g /\ latest' = [latest EXCEPT ![g] = arrivals']
    BY <1>1, ArriveFacts DEF Calls
  <1>3. \A d \in Callers : held[d] # g
    BY <1>1, TargetHeld
  <1>4. running' = [running EXCEPT ![g] = TRUE] /\ node' = node /\ node # 0
    BY <1>1 DEF DispatchFirst, Arrive
  <1> HIDE DEF g
  <1>5. /\ lastRun'[g] = arrivals' /\ latest'[g] = arrivals'
        /\ \A h \in Calls : h # g => lastRun'[h] = lastRun[h] /\ running'[h] = running[h]
        /\ held'[c] = g /\ arg'[c] = arrivals'
        /\ \A d \in Callers : d # c => held'[d] = held[d] /\ arg'[d] = arg[d]
    BY <1>1, <1>2, <1>4 DEF Run, IInv, TypeOK
  <1>6. RunIsArg'
    <2> SUFFICES ASSUME NEW d \in Callers, Busy(d)' PROVE lastRun'[held'[d]] = arg'[d]
      BY DEF RunIsArg
    <2>1. CASE d = c
      BY <1>5, <2>1
    <2>2. CASE d # c
      <3>1. held'[d] = held[d] /\ Busy(d) /\ held[d] # g
        BY <1>3, <1>5, <2>2 DEF Busy
      <3>2. held[d] \in Calls
        BY <3>1 DEF IInv, TypeOK, Calls, Busy
      <3> QED
        BY <1>5, <2>2, <3>1, <3>2 DEF KInv, RunIsArg
    <2> QED
      BY <2>1, <2>2
  <1>7. Ends
    BY <1>1, <1>5 DEF Ends
  <1> QED
    BY <1>2, <1>4, <1>5, <1>6, <1>7 DEF KInv, NoNodeNoState, UpToDate

LEMMA BusyKInv ==
  ASSUME IInv, KInv, NEW c \in Callers, DispatchBusy(c)
  PROVE  KInv' /\ Ends
  <1> DEFINE g == Target
  <1>1. /\ Arrive(c) /\ running[g] /\ pending' = [pending EXCEPT ![g] = TRUE] /\ node # 0
        /\ UNCHANGED <<node, running, held, arg, lastRun>>
    BY DEF DispatchBusy, Arrive, callerVars, historyVars
  <1>2. g \in Calls /\ cur' = g /\ latest' = [latest EXCEPT ![g] = arrivals']
    BY <1>1, ArriveFacts
  <1> HIDE DEF g
  <1>3. latest'[g] = arrivals' /\ pending'[g]
    BY <1>1, <1>2 DEF IInv, TypeOK
  <1> QED
    BY <1>1, <1>2, <1>3 DEF KInv, NoNodeNoState, UpToDate, RunIsArg, Busy, Ends

LEMMA LoopEndKInv ==
  ASSUME IInv, KInv, NEW c \in Callers, Busy(c), LoopEnd(c)
  PROVE  KInv' /\ Ends
  <1> DEFINE g == held[c]
  <1>1. g \in Calls
    BY DEF IInv, TypeOK, Busy, Calls
  <1>2. \A d \in Callers : held[d] = g => d = c
    BY DEF IInv, OneLoop
  <1>3. ~pending[g] => lastRun[g] = latest[g]
    BY DEF IInv, LatestIsKept, KInv, RunIsArg
  <1>4. CASE pending[g] /\ node # 0
    <2>1. /\ Run(c, g, latest[g])
          /\ UNCHANGED <<node, arrivals, cur, running, latest>>
      BY <1>4 DEF LoopEnd
    <2> HIDE DEF g
    <2>2. /\ lastRun'[g] = latest[g] /\ held'[c] = g /\ arg'[c] = latest[g]
          /\ \A h \in Calls : h # g => lastRun'[h] = lastRun[h] /\ pending'[h] = pending[h]
          /\ \A d \in Callers : d # c => held'[d] = held[d] /\ arg'[d] = arg[d]
      BY <1>1, <2>1 DEF Run, IInv, TypeOK
    <2>3. RunIsArg'
      <3> SUFFICES ASSUME NEW d \in Callers, Busy(d)' PROVE lastRun'[held'[d]] = arg'[d]
        BY DEF RunIsArg
      <3>1. CASE d = c
        BY <2>2, <3>1
      <3>2. CASE d # c
        <4>1. held'[d] = held[d] /\ Busy(d) /\ held[d] # g
          BY <1>2, <2>2, <3>2 DEF Busy
        <4>2. held[d] \in Calls
          BY <4>1 DEF IInv, TypeOK, Calls, Busy
        <4> QED
          BY <2>2, <3>2, <4>1, <4>2 DEF KInv, RunIsArg
      <3> QED
        BY <3>1, <3>2
    <2>4. UpToDate'
      <3> SUFFICES ASSUME cur # 0
                   PROVE  latest[cur] = arrivals /\ (lastRun'[cur] = latest[cur] \/ (pending'[cur] /\ running[cur]))
        BY <2>1 DEF UpToDate
      <3>1. cur \in Calls
        BY DEF IInv, TypeOK, Calls
      <3> QED
        BY <2>2, <3>1 DEF KInv, UpToDate
    <2> QED
      BY <2>1, <2>3, <2>4 DEF KInv, NoNodeNoState, Ends
  <1>5. CASE ~(pending[g] /\ node # 0)
    <2>1. /\ running' = [running EXCEPT ![g] = FALSE]
          /\ pending' = [pending EXCEPT ![g] = FALSE]
          /\ held' = [held EXCEPT ![c] = 0]
          /\ UNCHANGED <<node, arrivals, cur, latest, arg, lastRun>>
      BY <1>5 DEF LoopEnd
    <2> HIDE DEF g
    <2>2. RunIsArg'
      BY <2>1 DEF KInv, RunIsArg, Busy, IInv, TypeOK
    <2>3. UpToDate'
      <3>1. ASSUME cur # 0, cur # g PROVE pending'[cur] = pending[cur] /\ running'[cur] = running[cur]
        BY <1>1, <2>1, <3>1 DEF IInv, TypeOK, Calls
      <3>2. ASSUME cur # 0, cur = g PROVE lastRun[cur] = latest[cur]
        BY <1>3, <1>5, <3>2 DEF KInv, NoNodeNoState
      <3> QED
        BY <2>1, <3>1, <3>2 DEF KInv, UpToDate
    <2>4. Ends
      BY <1>1, <1>3, <1>5, <2>1 DEF Ends, IInv, TypeOK
    <2> QED
      BY <2>1, <2>2, <2>3, <2>4 DEF KInv, NoNodeNoState
  <1> QED
    BY <1>4, <1>5

LEMMA StepKInv == IInv /\ KInv /\ [Next]_vars => KInv' /\ [Ends]_vars
  <1> SUFFICES ASSUME IInv, KInv, [Next]_vars PROVE KInv' /\ [Ends]_vars
    OBVIOUS
  <1>1. CASE Register \/ Detach
    BY <1>1 DEF Register, Detach, dispatchVars, callerVars, historyVars, KInv, NoNodeNoState, RunIsArg, UpToDate,
                Busy, Ends
  <1>2. ASSUME NEW c \in Callers, HandlerFails(c) \/ OutputDone(c) PROVE KInv' /\ Ends
    <2>1. Busy(c) /\ LoopEnd(c)
      BY <1>2 DEF HandlerFails, OutputDone, IInv, InLoop
    <2> QED
      BY <2>1, LoopEndKInv
  <1>3. ASSUME NEW c \in Callers, HandlerReturns(c) \/ OutputFails(c) PROVE KInv' /\ Ends
    BY <1>3 DEF HandlerReturns, OutputFails, dispatchVars, historyVars, KInv, NoNodeNoState, RunIsArg, UpToDate, Busy, Ends
  <1>4. ASSUME NEW c \in Callers, Cancelled(c) PROVE KInv' /\ Ends
    <2>1. held' = [held EXCEPT ![c] = 0]
          /\ UNCHANGED <<node, arrivals, cur, running, pending, latest, arg, lastRun>>
      BY <1>4 DEF Cancelled, dispatchVars, historyVars
    <2>2. RunIsArg'
      BY <2>1 DEF KInv, RunIsArg, Busy, IInv, TypeOK
    <2> QED
      BY <2>1, <2>2 DEF KInv, NoNodeNoState, UpToDate, Ends
  <1>5. CASE UNCHANGED vars
    BY <1>5 DEF vars, dispatchVars, callerVars, historyVars, KInv, NoNodeNoState, RunIsArg, UpToDate, Busy
  <1> QED
    BY <1>1, <1>2, <1>3, <1>4, <1>5, FirstKInv, BusyKInv DEF Next, Loop

(***************************************************************************)
(* The newest value written to the node registered now was run last, or a  *)
(* loop that is there knows of it: for any number of registrations, of     *)
(* loops left over from earlier ones, and of cancelled callers, unless the *)
(* cancelled one is the loop itself (code: dispatch_hidden_input).         *)
(***************************************************************************)
THEOREM NewestAlwaysKept == Spec => []NewestIsKept
  <1>1. ASSUME IInv, KInv PROVE NewestIsKept
    <2> SUFFICES ASSUME cur # 0, ~Abandoned, lastRun[cur] # arrivals
                 PROVE  \E c \in Callers : held[c] = cur /\ pending[cur]
      BY DEF NewestIsKept
    <2>1. cur \in Calls /\ pending[cur] /\ running[cur]
      BY <1>1 DEF IInv, TypeOK, Calls, KInv, UpToDate
    <2> QED
      BY <2>1 DEF Abandoned
  <1>2. IInv /\ KInv => NewestIsKept
    BY <1>1
  <1> QED
    BY Invariance, InitKInv, StepKInv, <1>2, PTL DEF Spec

(***************************************************************************)
(* A loop that ends has run the newest value of its dispatch state, unless *)
(* the node is gone (code: the loop of the busy policy, which looks at     *)
(* "pending" and then clears "running" without an await in between).       *)
(***************************************************************************)
THEOREM LoopsEndUpToDate == Spec => EndsUpToDate
  <1>1. [Ends]_vars <=> [\A g \in Calls : running[g] /\ ~running'[g] => lastRun[g] = latest[g] \/ node = 0]_vars
    BY DEF Ends
  <1> QED
    BY Invariance, InitKInv, StepKInv, <1>1, PTL DEF Spec, EndsUpToDate
=============================================================================
