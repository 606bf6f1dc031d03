---------------------------- MODULE DeployPromise ----------------------------
(***************************************************************************)
(* What a service promises to whoever deploys rungraphs to it, without     *)
(* locks, workers or status samples: requests for a graph are owed an      *)
(* answer, the service moves only to a graph that is still asked for, and  *)
(* everybody who waits for a graph is answered together.                   *)
(***************************************************************************)
EXTENDS Naturals

CONSTANTS Reqs, Graphs, NoGraph

VARIABLES
  open,     \* the service has not begun to stop
  want,     \* the graph each request asked for
  owed,     \* requests that wait for their final answer
  told,     \* the last final answer each request was given
  running   \* the graph the service reports it runs

promiseVars == <<open, want, owed, told, running>>

Init ==
  /\ open = TRUE
  /\ want = [r \in Reqs |-> NoGraph]
  /\ owed = {}
  /\ told = [r \in Reqs |-> "none"]
  /\ running = NoGraph

\* A request id keeps the graph it was first used for.
Ask(r, g) ==
  /\ want[r] \in {NoGraph, g}
  /\ want' = [want EXCEPT ![r] = g]
  /\ owed' = owed \cup {r}
  /\ UNCHANGED <<open, told, running>>

\* The service runs that graph already and says so at once.
AskKnown(r, g) ==
  /\ want[r] \in {NoGraph, g}
  /\ running = g
  /\ want' = [want EXCEPT ![r] = g]
  /\ owed' = owed \ {r}
  /\ told' = [told EXCEPT ![r] = "applied"]
  /\ UNCHANGED <<open, running>>

\* The service moves to a graph that somebody asked for.
Switch(g) ==
  /\ \E r \in Reqs : want[r] = g
  /\ running' = g
  /\ UNCHANGED <<open, want, owed, told>>

\* "applied" is said only while the service runs g.  "failed" may be said of the
\* graph the service moves to with that very step.
Says(g, answer) ==
  \/ running' = running /\ (answer = "applied" => running = g)
  \/ running' = g /\ answer = "failed"

\* Everybody who waits for g is told how it went, and nobody else is.
Answer(g, S, answer) ==
  /\ {r \in owed : want[r] = g} \subseteq S
  /\ S \subseteq {r \in Reqs : want[r] = g}
  /\ Says(g, answer)
  /\ owed' = owed \ S
  /\ told' = [r \in Reqs |-> IF r \in S THEN answer ELSE told[r]]
  /\ UNCHANGED <<open, want>>

\* Stopping tells "failed" to those who wait for one graph at most.
Close ==
  /\ open
  /\ open' = FALSE
  /\ \E S \in SUBSET Reqs :
       /\ \A r, q \in S : want[r] = want[q]
       /\ owed' = owed \ S
       /\ told' = [r \in Reqs |-> IF r \in S THEN "failed" ELSE told[r]]
  /\ UNCHANGED <<want, running>>

\* Tasks left over by a stop answer only some of those who wait.
LeftOver(g, S, answer) ==
  /\ ~open
  /\ S \subseteq {r \in Reqs : want[r] = g}
  /\ Says(g, answer)
  /\ owed' = owed \ S
  /\ told' = [r \in Reqs |-> IF r \in S THEN answer ELSE told[r]]
  /\ UNCHANGED <<open, want>>

Next ==
  \/ \E r \in Reqs, g \in Graphs : Ask(r, g) \/ AskKnown(r, g)
  \/ \E g \in Graphs : Switch(g)
  \/ \E g \in Graphs, S \in SUBSET Reqs, answer \in {"applied", "failed"} :
       Answer(g, S, answer) \/ LeftOver(g, S, answer)
  \/ Close

Spec == Init /\ [][Next]_promiseVars
==============================================================================
