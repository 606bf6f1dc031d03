--------------------------- MODULE CommandDispatch ---------------------------
(***************************************************************************)
(* The graph command adapter of CommandGateway for one command of one      *)
(* node: writes to its hidden input field arrive as dispatch_hidden_input  *)
(* calls, the first of which runs the command and goes on running it while *)
(* others leave a newer value behind.                                      *)
(*                                                                         *)
(* A value is the number of its arrival.  The dispatch state is an object  *)
(* that a running loop keeps even after refresh_bindings() has dropped it  *)
(* from the table, so there may be several; no await happens under its     *)
(* lock, so a body under the lock is part of one step.                     *)
(*                                                                         *)
(* started, unanswered and lastRun are history variables.                  *)
(***************************************************************************)
EXTENDS Naturals

CONSTANTS
  Callers,   \* tasks that write the hidden input field
  MaxCalls,  \* bound: arrivals
  MaxNodes,  \* bound: node objects registered under the node id
  Failures   \* what may go wrong: the handler raises, its output cannot be
             \* written, a caller is cancelled

ASSUME MaxCallsAssumption == MaxCalls \in Nat
ASSUME MaxNodesAssumption == MaxNodes \in Nat
ASSUME FailuresAssumption == Failures \subseteq {"handler", "writeback", "cancel"}

VARIABLES
  node,      \* the node object registered now; 0 without one
  nodes,     \* node objects registered so far
  arrivals,  \* values that have reached dispatch_hidden_input
  cur,       \* the dispatch state in _dispatch_states; 0 without one
  made,      \* dispatch states created so far
  running, pending, latest,  \* the fields of each dispatch state
  pc,        \* where a caller is
  held,      \* the dispatch state whose loop a caller runs; 0 without one
  arg,       \* the value a caller runs the command with
  output,    \* the retained hidden output field: the value it answers
  started,   \* history: the value the command was last run with
  unanswered, \* history: the value of the last run that raised, or whose
              \* output could not be written
  lastRun    \* history: the same, for each dispatch state

dispatchVars == <<cur, made, running, pending, latest>>
callerVars   == <<pc, held, arg>>
historyVars  == <<started, unanswered, lastRun>>
vars         == <<node, nodes, arrivals, dispatchVars, callerVars, output, historyVars>>

Calls   == 1 .. MaxCalls
Busy(c) == held[c] # 0

TypeOK ==
  /\ node \in 0 .. MaxNodes
  /\ nodes \in 0 .. MaxNodes
  /\ arrivals \in 0 .. MaxCalls
  /\ cur \in 0 .. MaxCalls
  /\ made \in 0 .. MaxCalls
  /\ running \in [Calls -> BOOLEAN]
  /\ pending \in [Calls -> BOOLEAN]
  /\ latest \in [Calls -> 0 .. MaxCalls]
  /\ pc \in [Callers -> {"idle", "invoking", "output"}]
  /\ held \in [Callers -> 0 .. MaxCalls]
  /\ arg \in [Callers -> 0 .. MaxCalls]
  /\ output \in 0 .. MaxCalls
  /\ started \in 0 .. MaxCalls
  /\ unanswered \in 0 .. MaxCalls
  /\ lastRun \in [Calls -> 0 .. MaxCalls]

Init ==
  /\ node = 0 /\ nodes = 0
  /\ arrivals = 0
  /\ cur = 0 /\ made = 0
  /\ running = [g \in Calls |-> FALSE]
  /\ pending = [g \in Calls |-> FALSE]
  /\ latest = [g \in Calls |-> 0]
  /\ pc = [c \in Callers |-> "idle"]
  /\ held = [c \in Callers |-> 0]
  /\ arg = [c \in Callers |-> 0]
  /\ output = 0
  /\ started = 0
  /\ unanswered = 0
  /\ lastRun = [g \in Calls |-> 0]

-----------------------------------------------------------------------------
(* The node registry *)

\* Mistake: counts the node object twice.
RegisterTwice ==
  /\ node = 0
  /\ nodes < MaxNodes
  /\ nodes' = nodes + 1
  /\ node' = nodes' + 1
  /\ UNCHANGED <<arrivals, dispatchVars, callerVars, output, historyVars>>

\* register_node: the bindings gain the node's commands.
Register ==
  /\ node = 0
  /\ nodes < MaxNodes
  /\ nodes' = nodes + 1
  /\ node' = nodes'
  /\ UNCHANGED <<arrivals, dispatchVars, callerVars, output, historyVars>>

\* detach_node: refresh_bindings drops the dispatch state of the lost command.
Detach ==
  /\ node # 0
  /\ node' = 0
  /\ cur' = 0
  /\ UNCHANGED <<nodes, arrivals, made, running, pending, latest, callerVars, output, historyVars>>

-----------------------------------------------------------------------------
(* dispatch_hidden_input *)

\* Mistake: the newer value is run and still taken for pending.
RunStillPending(c, g, v) ==
  /\ pc' = [pc EXCEPT ![c] = "invoking"]
  /\ held' = [held EXCEPT ![c] = g]
  /\ arg' = [arg EXCEPT ![c] = v]
  /\ started' = v
  /\ lastRun' = [lastRun EXCEPT ![g] = v]
  /\ UNCHANGED pending

\* Mistake: the loop answers every run with the value it began with.
RunFirstArg(c, g, v) ==
  /\ pc' = [pc EXCEPT ![c] = "invoking"]
  /\ held' = [held EXCEPT ![c] = g]
  /\ arg' = [arg EXCEPT ![c] = IF held[c] = g THEN @ ELSE v]
  /\ pending' = [pending EXCEPT ![g] = FALSE]
  /\ started' = v
  /\ lastRun' = [lastRun EXCEPT ![g] = v]

\* Caller c runs the command with value v, in the loop of dispatch state g.
Run(c, g, v) ==
  /\ pc' = [pc EXCEPT ![c] = "invoking"]
  /\ held' = [held EXCEPT ![c] = g]
  /\ arg' = [arg EXCEPT ![c] = v]
  /\ pending' = [pending EXCEPT ![g] = FALSE]
  /\ started' = v
  /\ lastRun' = [lastRun EXCEPT ![g] = v]

\* The dispatch state of the command, created at its first arrival.
Target == IF cur = 0 THEN made + 1 ELSE cur

\* A value arrives; whoever calls is free and the node is registered.
Arrive(c) ==
  /\ ~Busy(c)
  /\ node # 0
  /\ arrivals < MaxCalls
  /\ arrivals' = arrivals + 1
  /\ cur' = Target
  /\ made' = IF cur = 0 THEN made + 1 ELSE made
  /\ latest' = [latest EXCEPT ![Target] = arrivals']

\* Mistake: the loop does not mark the command as running.
DispatchUnmarked(c) ==
  /\ Arrive(c)
  /\ ~running[Target]
  /\ Run(c, Target, arrivals')
  /\ UNCHANGED <<node, nodes, running, output, unanswered>>

\* No loop is running for the command: the caller becomes one.
DispatchFirst(c) ==
  /\ Arrive(c)
  /\ ~running[Target]
  /\ running' = [running EXCEPT ![Target] = TRUE]
  /\ Run(c, Target, arrivals')
  /\ UNCHANGED <<node, nodes, output, unanswered>>

\* Mistake: the value is left without telling the running loop.
DispatchUntold(c) ==
  /\ Arrive(c)
  /\ running[Target]
  /\ UNCHANGED <<node, nodes, running, pending, callerVars, output, historyVars>>

\* The command is busy: the value is left for the running loop.
DispatchBusy(c) ==
  /\ Arrive(c)
  /\ running[Target]
  /\ pending' = [pending EXCEPT ![Target] = TRUE]
  /\ UNCHANGED <<node, nodes, running, callerVars, output, historyVars>>

\* on_command returned: its result is written to the hidden output field,
\* provided that the node is still registered; the put has yet to return.
HandlerReturns(c) ==
  /\ pc[c] = "invoking"
  /\ pc' = [pc EXCEPT ![c] = "output"]
  /\ output' = IF node # 0 THEN arg[c] ELSE output
  /\ UNCHANGED <<node, nodes, arrivals, dispatchVars, held, arg, historyVars>>

\* on_command returned and write_output raised: the error is logged, the
\* command has run and its output field keeps the answer of an earlier run.
OutputFails(c) ==
  /\ "writeback" \in Failures
  /\ pc[c] = "invoking"
  /\ node # 0
  /\ pc' = [pc EXCEPT ![c] = "output"]
  /\ unanswered' = arg[c]
  /\ UNCHANGED <<node, nodes, arrivals, dispatchVars, held, arg, output, started, lastRun>>

\* The loop of c looks again: with a newer value and a node to run it on it
\* runs the command once more, otherwise it is over.
LoopEnd(c) ==
  LET g == held[c] IN
  IF pending[g] /\ node # 0
  THEN /\ Run(c, g, latest[g])
       /\ UNCHANGED <<node, nodes, arrivals, cur, made, running, latest, output>>
  ELSE /\ running' = [running EXCEPT ![g] = FALSE]
       /\ pending' = [pending EXCEPT ![g] = FALSE]
       /\ pc' = [pc EXCEPT ![c] = "idle"]
       /\ held' = [held EXCEPT ![c] = 0]
       /\ UNCHANGED <<node, nodes, arrivals, cur, made, latest, arg, output, started, lastRun>>

\* on_command raised: invoke turns that into a result and writes no output.
HandlerFails(c) ==
  /\ "handler" \in Failures
  /\ pc[c] = "invoking"
  /\ unanswered' = arg[c]
  /\ LoopEnd(c)

\* invoke is over, with the output written or its error logged.
OutputDone(c) ==
  /\ pc[c] = "output"
  /\ LoopEnd(c)
  /\ UNCHANGED unanswered

\* The task of c is cancelled inside the loop (a redeploy cancels the exec
\* worker that wrote the field): "except Exception" does not see it.
Cancelled(c) ==
  /\ "cancel" \in Failures
  /\ Busy(c)
  /\ pc' = [pc EXCEPT ![c] = "idle"]
  /\ held' = [held EXCEPT ![c] = 0]
  /\ UNCHANGED <<node, nodes, arrivals, dispatchVars, arg, output, historyVars>>

Loop(c) == HandlerReturns(c) \/ HandlerFails(c) \/ OutputFails(c) \/ OutputDone(c)

Next ==
  \/ Register \/ Detach
  \/ \E c \in Callers : DispatchFirst(c) \/ DispatchBusy(c) \/ Loop(c) \/ Cancelled(c)

\* Handlers and puts return; nobody has to write, register or detach.
Spec     == Init /\ [][Next]_vars
FairSpec == Spec /\ \A c \in Callers : WF_vars(Loop(c))

-----------------------------------------------------------------------------
(* Properties *)

\* A dispatch state has at most one loop, and a loop's dispatch state is
\* marked as running, so values that arrive meanwhile join it.
OneLoop ==
  \A c, d \in Callers :
    Busy(c) => running[held[c]] /\ (held[d] = held[c] => c = d)

\* A value that arrived while the command was busy is not forgotten: unless
\* the loop is running the latest one, it knows that there is another.
LatestIsKept ==
  \A c \in Callers : Busy(c) /\ arg[c] # latest[held[c]] => pending[held[c]]

\* The values one loop runs come in the order of their arrival, with gaps
\* where a newer value overtook an older one, and none is run twice.
RunsInOrder ==
  [][/\ \A g \in Calls : lastRun'[g] # lastRun[g] => lastRun'[g] > lastRun[g]
     /\ \A c \in Callers :
          pc[c] # "invoking" /\ pc'[c] = "invoking" => arg'[c] > lastRun[held'[c]]]_vars

\* No loop is left.
AtRest == node # 0 /\ \A c \in Callers : ~Busy(c)

\* A cancelled caller leaves its dispatch state marked as running.
Abandoned == \E g \in Calls : running[g] /\ \A c \in Callers : held[c] # g

\* What the test of the busy policy says: when no loop is left, the command
\* was last run with the latest value.
KeepsLatest == AtRest => started = arrivals

\* The properties below are about a node that has not been detached since,
\* with no caller cancelled inside the loop.
Undisturbed == node # 0 /\ nodes = 1 /\ ~Abandoned

\* When no loop is left, the command was last run with the latest value, and
\* the output field answers that value unless that very run raised or could
\* not write its output, both of which invoke logs.
OutputAnswersLatest ==
  AtRest /\ Undisturbed => started = arrivals /\ (output = started \/ unanswered = started)

\* However often the node is detached and registered anew: the newest value
\* written to the node that is registered now is the one its command was last
\* run with, or a loop is there that knows of it.
NewestIsKept ==
  cur # 0 /\ ~Abandoned =>
    lastRun[cur] = arrivals \/ \E c \in Callers : held[c] = cur /\ pending[cur]

\* A loop ends only after it ran the newest value, or because the node is gone.
EndsUpToDate ==
  [][\A g \in Calls : running[g] /\ ~running'[g] => lastRun[g] = latest[g] \/ node = 0]_vars

\* Every value is run or overtaken by a newer one that is run.
EveryValueRuns ==
  \A n \in Calls : arrivals >= n /\ Undisturbed ~> (started >= n \/ ~Undisturbed)
=============================================================================
