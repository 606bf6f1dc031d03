------------------------ MODULE RungraphDeployProofs ------------------------
(***************************************************************************)
(* Proofs about RungraphDeploy, for every set of requests and graphs and   *)
(* every bound on resubmission.                                            *)
(***************************************************************************)
EXTENDS RungraphDeploy, SequenceTheorems, TLAPS

USE NoGraphAssumption, AttemptsAssumption, FailuresAssumption

(* A task is a pair of a request and the number of one of its attempts.    *)
LEMMA TaskParts ==
  /\ \A t \in Tasks : t[1] \in Reqs /\ t[2] \in 1 .. MaxAttempts /\ t = <<t[1], t[2]>>
  /\ \A r \in Reqs : \A n \in 1 .. MaxAttempts : <<r, n>> \in Tasks
  BY DEF Tasks

LEMMA TypeInit == Init => TypeOK
  <1> SUFFICES ASSUME Init PROVE TypeOK
    OBVIOUS
  <1>1. locked \in BOOLEAN
    BY DEF Init
  <1>3. waiters \in Seq(Tasks)
    BY DEF Init
  <1>2. 0 \in 0 .. MaxAttempts
    OBVIOUS
  <1> QED
    BY <1>1, <1>2, <1>3 DEF Init, TypeOK, NoStatus

(* A publication for an alias that has submitted is a well-formed status.  *)
LEMMA PubsForType ==
  ASSUME TypeOK, NEW S \in SUBSET Reqs, NEW phase \in Phase,
         \A r \in S : attempt[r] > 0
  PROVE  PubsFor(S, phase) \in SUBSET Status
  BY DEF TypeOK, PubsFor, Pub, Status

(***************************************************************************)
(* The inductive invariant.  Each part is needed by another one: a task    *)
(* that exists was submitted and bound to a graph (so a submission never   *)
(* reuses a task or rebinds a graph in flight), aliases are requests that  *)
(* asked for that graph, and the lock's holder knows what it holds.        *)
(***************************************************************************)
TasksSubmitted ==
  \A t \in Tasks : pc[t] # "none" =>
    t[2] <= attempt[t[1]] /\ GraphOf(t) \in Graphs

RequestsBound ==
  /\ \A r \in Reqs : final[r] <= attempt[r]
  /\ \A r \in Reqs : attempt[r] > 0 <=> reqFp[r] # NoGraph

HolderKnows ==
  \A t \in Tasks : pc[t] \in Applying =>
    /\ \A r \in snapshot : reqFp[r] = GraphOf(t)
    /\ pc[t] \in {"persist", "settle"} => fingerprint = GraphOf(t)

IInv ==
  /\ TypeOK
  /\ TasksSubmitted
  /\ RequestsBound
  /\ ApplyExclusive
  /\ HolderKnows
  /\ OwedIsInFlight
  /\ AliasesHaveWorker

LEMMA InitIInv == Init => IInv
  <1> SUFFICES ASSUME Init PROVE IInv
    OBVIOUS
  <1>1. TypeOK
    BY TypeInit
  <1>2. TasksSubmitted /\ ApplyExclusive /\ HolderKnows /\ AliasesHaveWorker
    BY DEF Init, TasksSubmitted, ApplyExclusive, HolderKnows, AliasesHaveWorker, Critical, Applying
  <1>3. RequestsBound /\ OwedIsInFlight
    BY DEF Init, RequestsBound, OwedIsInFlight, Owed
  <1> QED
    BY <1>1, <1>2, <1>3 DEF IInv

(* The aliases a worker pops all asked for its graph, and have submitted.  *)
LEMMA PoppedAsked ==
  ASSUME IInv, NEW t \in Tasks, pc[t] \in Applying
  PROVE  /\ Popped(t) \in SUBSET Reqs
         /\ \A r \in Popped(t) : reqFp[r] = GraphOf(t) /\ attempt[r] > 0
         /\ aliases[GraphOf(t)] \subseteq Popped(t)
         /\ GraphOf(t) \in Graphs
  <1>1. GraphOf(t) \in Graphs
    BY DEF IInv, TasksSubmitted, Applying
  <1>2. Popped(t) \in SUBSET Reqs
    BY <1>1 DEF IInv, TypeOK, Popped
  <1>3. \A r \in Popped(t) : reqFp[r] = GraphOf(t)
    BY <1>1 DEF IInv, Popped, OwedIsInFlight, HolderKnows
  <1>4. \A r \in Popped(t) : attempt[r] > 0
    BY <1>1, <1>2, <1>3 DEF IInv, RequestsBound
  <1> QED
    BY <1>1, <1>2, <1>3, <1>4 DEF Popped

-----------------------------------------------------------------------------
(* A submission keeps the invariant.                                       *)
LEMMA SubmitIInv ==
  ASSUME IInv, NEW r \in Reqs, NEW g \in Graphs, NEW force \in BOOLEAN,
         \/ SubmitAlreadyApplied(r, g, force)
         \/ SubmitAlias(r, g, force)
         \/ SubmitNew(r, g, force)
  PROVE  IInv'
  <1> USE DEF MaySubmit
  <1>1. /\ reqFp[r] \in {NoGraph, g}
        /\ reqFp' = [reqFp EXCEPT ![r] = g]
        /\ attempt[r] < MaxAttempts
        /\ attempt' = [attempt EXCEPT ![r] = @ + 1]
        /\ life # "closed" /\ life' = life
        /\ locked' = locked /\ snapshot' = snapshot
        /\ graph' = graph /\ fingerprint' = fingerprint /\ kv' = kv
        /\ status' = status
    BY DEF SubmitAlreadyApplied, SubmitAlias, SubmitNew, busVars
  <1>2. TypeOK /\ TasksSubmitted /\ RequestsBound
    BY DEF IInv
  <1>3. attempt[r] + 1 \in 1 .. MaxAttempts /\ attempt'[r] = attempt[r] + 1
        /\ <<r, attempt'[r]>> \in Tasks /\ pc[<<r, attempt'[r]>>] = "none"
    <2>1. attempt[r] \in 0 .. MaxAttempts /\ attempt[r] + 1 \in 1 .. MaxAttempts
          /\ attempt'[r] = attempt[r] + 1
      BY <1>1, <1>2 DEF TypeOK
    <2>2. <<r, attempt'[r]>> \in Tasks
      BY <2>1, TaskParts
    <2>3. ~(attempt'[r] <= attempt[r])
      BY <2>1
    <2>4. pc[<<r, attempt'[r]>>] = "none"
      BY <1>2, <2>2, <2>3 DEF TasksSubmitted
    <2> QED
      BY <2>1, <2>2, <2>4
  <1>4. \A phase \in Phase : Pub(r, attempt'[r], phase) \in Status
    BY <1>3 DEF Pub, Status
  <1>5. reqFp' \in [Reqs -> Graphs \cup {NoGraph}] /\ attempt' \in [Reqs -> 0 .. MaxAttempts]
    BY <1>1, <1>2, <1>3 DEF TypeOK
  <1>6. \A t \in Tasks : pc[t] # "none" => GraphOf(t)' = GraphOf(t) /\ GraphOf(t) \in Graphs
    BY <1>1, <1>2, TaskParts DEF TypeOK, TasksSubmitted, GraphOf
  <1>7. \A q \in Reqs : reqFp[q] # NoGraph => reqFp'[q] = reqFp[q]
    BY <1>1, <1>2 DEF TypeOK
  <1>a. CASE SubmitAlreadyApplied(r, g, force)
    <2>1. /\ UNCHANGED <<aliases, pc, waiters, newest>>
          /\ final' = [final EXCEPT ![r] = attempt'[r]]
          /\ told' = [told EXCEPT ![r] = "applied"]
          /\ pubs' = pubs \cup {Pub(r, attempt'[r], "applied")}
      BY <1>a DEF SubmitAlreadyApplied
    <2>2. TypeOK'
      BY <1>1, <1>2, <1>3, <1>4, <1>5, <2>1 DEF TypeOK, FinalPhase, Phase
    <2>3. TasksSubmitted' /\ RequestsBound'
      BY <1>1, <1>2, <1>3, <1>6, <2>1, TaskParts DEF TypeOK, TasksSubmitted, RequestsBound
    <2>4. ApplyExclusive'
      BY <1>1, <2>1 DEF IInv, ApplyExclusive
    <2>7. HolderKnows'
      BY <1>1, <1>2, <1>6, <1>7, <2>1 DEF IInv, TypeOK, HolderKnows, Applying
    <2>5. OwedIsInFlight'
      BY <1>1, <1>2, <1>3, <1>7, <2>1 DEF IInv, TypeOK, OwedIsInFlight, Owed, RequestsBound
    <2>6. AliasesHaveWorker'
      BY <1>1, <1>6, <2>1 DEF IInv, AliasesHaveWorker, Live, Applying
    <2> QED
      BY <2>2, <2>3, <2>4, <2>5, <2>6, <2>7 DEF IInv
  <1>b. CASE SubmitAlias(r, g, force)
    <2>1. /\ UNCHANGED <<pc, waiters, newest, final, told>>
          /\ aliases' = [aliases EXCEPT ![g] = @ \cup {r}]
          /\ aliases[g] # {}
          /\ pubs' = pubs \cup {Pub(r, attempt'[r], "accepted")}
      BY <1>b DEF SubmitAlias
    <2>2. TypeOK'
      BY <1>1, <1>2, <1>3, <1>4, <1>5, <2>1 DEF TypeOK, Phase
    <2>3. TasksSubmitted' /\ RequestsBound'
      BY <1>1, <1>2, <1>3, <1>6, <2>1, TaskParts DEF TypeOK, TasksSubmitted, RequestsBound
    <2>4. ApplyExclusive'
      BY <1>1, <2>1 DEF IInv, ApplyExclusive
    <2>7. HolderKnows'
      BY <1>1, <1>2, <1>6, <1>7, <2>1 DEF IInv, TypeOK, HolderKnows, Applying
    <2>5. OwedIsInFlight'
      BY <1>1, <1>2, <1>3, <1>7, <2>1 DEF IInv, TypeOK, OwedIsInFlight, Owed, RequestsBound
    <2>6. AliasesHaveWorker'
      BY <1>1, <1>2, <1>6, <2>1 DEF IInv, TypeOK, AliasesHaveWorker, Live, Applying
    <2> QED
      BY <2>2, <2>3, <2>4, <2>5, <2>6, <2>7 DEF IInv
  <1>c. CASE SubmitNew(r, g, force)
    <2>n. PICK n \in 1 .. MaxAttempts : n = attempt[r] + 1
      BY <1>3
    <2> DEFINE new == <<r, n>>
    <2>0. new \in Tasks /\ pc[new] = "none" /\ n = attempt'[r]
      BY <1>3, <2>n
    <2>1. /\ UNCHANGED <<final, told>>
          /\ aliases[g] = {}
          /\ aliases' = [aliases EXCEPT ![g] = {r}]
          /\ pc' = [pc EXCEPT ![new] = "queued"]
          /\ waiters' = Append(waiters, new)
          /\ newest' = g
          /\ pubs' = pubs \cup {Pub(r, attempt'[r], "accepted")}
      BY <1>c, <2>0 DEF SubmitNew
    <2>2. GraphOf(new)' = g /\ new[1] = r /\ new[2] = attempt'[r]
      BY <1>1, <1>2, <2>0 DEF TypeOK, GraphOf
    <2>3. TypeOK'
      BY <1>1, <1>2, <1>3, <1>4, <1>5, <2>0, <2>1 DEF TypeOK, Phase
    <2>4. TasksSubmitted'
      <3> SUFFICES ASSUME NEW t \in Tasks, pc'[t] # "none"
                   PROVE  t[2] <= attempt'[t[1]] /\ GraphOf(t)' \in Graphs
        BY DEF TasksSubmitted
      <3>1. CASE t = new
        BY <3>1, <1>3, <2>2
      <3>2. CASE t # new
        BY <3>2, <1>1, <1>2, <1>3, <1>6, <2>1, TaskParts DEF TypeOK, TasksSubmitted
      <3> QED BY <3>1, <3>2
    <2>5. RequestsBound'
      BY <1>1, <1>2, <1>3, <2>1 DEF TypeOK, RequestsBound
    <2>6. \A t \in Tasks : t # new => pc'[t] = pc[t]
      BY <1>2, <2>1 DEF TypeOK
    <2>7. pc'[new] = "queued"
      BY <1>2, <2>0, <2>1 DEF TypeOK
    <2>8. ApplyExclusive'
      BY <1>1, <2>0, <2>6, <2>7 DEF IInv, ApplyExclusive, Critical, Applying
    <2>9. HolderKnows'
      <3> SUFFICES ASSUME NEW t \in Tasks, pc'[t] \in Applying
                   PROVE  /\ \A q \in snapshot : reqFp'[q] = GraphOf(t)'
                          /\ pc'[t] \in {"persist", "settle"} => fingerprint = GraphOf(t)'
        BY <1>1 DEF HolderKnows
      <3>1. t # new /\ pc'[t] = pc[t] /\ pc[t] # "none"
        BY <2>6, <2>7 DEF Applying
      <3>2. GraphOf(t)' = GraphOf(t) /\ GraphOf(t) \in Graphs
        BY <3>1, <1>6
      <3>3. snapshot \subseteq Reqs /\ \A q \in snapshot : reqFp[q] = GraphOf(t)
        BY <3>1, <1>2 DEF IInv, HolderKnows, TypeOK
      <3>4. \A q \in snapshot : reqFp'[q] = GraphOf(t)
        BY <3>2, <3>3, <1>7
      <3> QED
        BY <3>1, <3>2, <3>4 DEF IInv, HolderKnows
    <2>10. OwedIsInFlight'
      BY <1>1, <1>2, <1>3, <1>7, <2>1 DEF IInv, TypeOK, OwedIsInFlight, Owed, RequestsBound
    <2>11. AliasesHaveWorker'
      <3> SUFFICES ASSUME life # "gathering", NEW h \in Graphs, aliases'[h] # {}
                   PROVE  \E t \in Tasks : pc'[t] \in Live /\ GraphOf(t)' = h
        BY <1>1 DEF AliasesHaveWorker
      <3>1. CASE h = g
        BY <3>1, <2>0, <2>2, <2>7 DEF Live
      <3>2. CASE h # g
        <4>1. PICK t \in Tasks : pc[t] \in Live /\ GraphOf(t) = h
          BY <3>2, <1>2, <2>1 DEF IInv, TypeOK, AliasesHaveWorker
        <4>2. t # new
          BY <4>1, <2>0 DEF Live, Applying
        <4> QED
          BY <4>1, <4>2, <1>6, <2>6 DEF Live, Applying
      <3> QED BY <3>1, <3>2
    <2> QED
      BY <2>3, <2>4, <2>5, <2>8, <2>9, <2>10, <2>11 DEF IInv
  <1> QED
    BY <1>a, <1>b, <1>c

-----------------------------------------------------------------------------
(* A step that touches neither the requests, the workers nor the bus.      *)
LEMMA QuietIInv ==
  ASSUME IInv, UNCHANGED <<life, deployVars, busVars, attempt, final>>,
         pubs' \in SUBSET Status, status' \in [Reqs -> Status \cup {NoStatus}],
         told' = told, newest' = newest
  PROVE  IInv'
  BY DEF IInv, TypeOK, TasksSubmitted, RequestsBound, ApplyExclusive, HolderKnows, OwedIsInFlight,
         Owed, AliasesHaveWorker, GraphOf, deployVars, busVars

(* Only one worker is inside; whoever is inside is the holder.             *)
LEMMA SoleHolder ==
  ASSUME IInv, NEW t \in Tasks, pc[t] \in Critical, NEW u \in Tasks, pc[u] \in Critical
  PROVE  u = t
  BY DEF IInv, ApplyExclusive

(* The steps by which the holder leaves, having popped its aliases.        *)
LEMMA LeaveIInv ==
  ASSUME IInv, NEW t \in Tasks, pc[t] \in Applying, NEW phase \in FinalPhase, LeaveLine(t, phase),
         UNCHANGED <<graph, kv>>, fingerprint' \in Graphs \cup {NoGraph},
         newest' \in Graphs \cup {NoGraph}
  PROVE  IInv'
  <1>1. /\ pc' = [pc EXCEPT ![t] = "done"]
        /\ locked' = FALSE
        /\ aliases' = [aliases EXCEPT ![GraphOf(t)] = {}]
        /\ pubs' = pubs \cup PubsFor(Popped(t), phase)
        /\ final' = [r \in Reqs |-> IF r \in Popped(t) THEN attempt[r] ELSE final[r]]
        /\ told' = [r \in Reqs |-> IF r \in Popped(t) THEN phase ELSE told[r]]
        /\ UNCHANGED <<life, reqFp, waiters, snapshot, graph, kv, status, attempt>>
    BY DEF LeaveLine, FinalFor
  <1>2. /\ Popped(t) \in SUBSET Reqs
        /\ \A r \in Popped(t) : reqFp[r] = GraphOf(t) /\ attempt[r] > 0
        /\ aliases[GraphOf(t)] \subseteq Popped(t)
        /\ GraphOf(t) \in Graphs
    BY PoppedAsked
  <1>3. TypeOK
    BY DEF IInv
  <1>4. PubsFor(Popped(t), phase) \in SUBSET Status
    <2>1. phase \in Phase
      BY DEF Phase
    <2> QED
      BY <1>2, <1>3, <2>1, PubsForType
  <1>5. TypeOK'
    BY <1>1, <1>2, <1>3, <1>4 DEF TypeOK
  <1>6. \A u \in Tasks : u # t => pc'[u] = pc[u]
    BY <1>1, <1>3 DEF TypeOK
  <1>7. pc'[t] = "done"
    BY <1>1, <1>3 DEF TypeOK
  <1>8. \A u \in Tasks : GraphOf(u)' = GraphOf(u)
    BY <1>1 DEF GraphOf
  <1>9. \A u \in Tasks : pc'[u] \notin Critical
    <2> SUFFICES ASSUME NEW u \in Tasks, pc'[u] \in Critical PROVE FALSE
      OBVIOUS
    <2>1. u # t
      BY <1>7 DEF Critical, Applying
    <2>2. pc[u] \in Critical /\ pc[t] \in Critical
      BY <1>6, <2>1 DEF Critical
    <2> QED
      BY <2>1, <2>2, SoleHolder
  <1>10. TasksSubmitted'
    BY <1>1, <1>3, <1>6, <1>8 DEF IInv, TypeOK, TasksSubmitted, Applying
  <1>11. RequestsBound'
    BY <1>1, <1>2, <1>3 DEF IInv, TypeOK, RequestsBound
  <1>12. ApplyExclusive' /\ HolderKnows'
    BY <1>1, <1>9 DEF ApplyExclusive, HolderKnows, Critical
  <1>13. OwedIsInFlight'
    BY <1>1, <1>2, <1>3 DEF IInv, TypeOK, OwedIsInFlight, Owed
  <1>14. AliasesHaveWorker'
    <2> SUFFICES ASSUME life # "gathering", NEW h \in Graphs, aliases'[h] # {}
                 PROVE  \E u \in Tasks : pc'[u] \in Live /\ GraphOf(u)' = h
      BY <1>1 DEF AliasesHaveWorker
    <2>1. h # GraphOf(t) /\ aliases[h] # {}
      BY <1>1, <1>2, <1>3 DEF TypeOK
    <2>2. PICK u \in Tasks : pc[u] \in Live /\ GraphOf(u) = h
      BY <2>1 DEF IInv, AliasesHaveWorker
    <2> QED
      BY <2>1, <2>2, <1>6, <1>8
  <1> QED
    BY <1>5, <1>10, <1>11, <1>12, <1>13, <1>14 DEF IInv

(* The holder moves on inside set_rungraph.                                *)
LEMMA MoveIInv ==
  ASSUME IInv, NEW t \in Tasks, NEW next \in Applying,
         \/ Install(t) /\ next = "wire"
         \/ Wired(t) /\ next = "persist"
         \/ Persist(t) /\ next = "settle"
  PROVE  IInv'
  <1>1. /\ pc[t] \in Applying
        /\ pc' = [pc EXCEPT ![t] = next]
        /\ next \in {"persist", "settle"} => fingerprint' = GraphOf(t)
        /\ UNCHANGED <<life, reqFp, aliases, locked, waiters, snapshot, pubs, status, attempt, final, told, newest>>
    BY DEF Install, Wired, Persist, Applying, IInv, HolderKnows, history
  <1>2. TypeOK /\ GraphOf(t) \in Graphs
    BY <1>1 DEF IInv, TasksSubmitted, Applying
  <1>3. /\ graph' \in Graphs \cup {NoGraph}
        /\ fingerprint' \in Graphs \cup {NoGraph}
        /\ kv' \in Graphs \cup {NoGraph}
    BY <1>2 DEF Install, Wired, Persist, TypeOK
  <1>4. TypeOK'
    BY <1>1, <1>2, <1>3 DEF TypeOK, Critical
  <1>5. pc'[t] = next /\ \A u \in Tasks : u # t => pc'[u] = pc[u]
    BY <1>1, <1>2 DEF TypeOK
  <1>6. \A u \in Tasks : GraphOf(u)' = GraphOf(u)
    BY <1>1 DEF GraphOf
  <1>7. \A u \in Tasks : (pc'[u] \in Critical <=> pc[u] \in Critical) /\ (pc'[u] \in Live <=> pc[u] \in Live)
    BY <1>1, <1>5 DEF Critical, Live
  <1>8. TasksSubmitted' /\ RequestsBound'
    BY <1>1, <1>2, <1>5, <1>6 DEF IInv, TasksSubmitted, RequestsBound, Applying
  <1>9. ApplyExclusive'
    BY <1>1, <1>7 DEF IInv, ApplyExclusive
  <1>10. HolderKnows'
    <2> SUFFICES ASSUME NEW u \in Tasks, pc'[u] \in Applying
                 PROVE  /\ \A r \in snapshot : reqFp[r] = GraphOf(u)
                        /\ pc'[u] \in {"persist", "settle"} => fingerprint' = GraphOf(u)
      BY <1>1, <1>6 DEF HolderKnows
    <2>1. u = t
      BY <1>1, <1>7, SoleHolder DEF Critical
    <2> QED
      BY <2>1, <1>1, <1>5 DEF IInv, HolderKnows
  <1>11. OwedIsInFlight'
    BY <1>1 DEF IInv, OwedIsInFlight, Owed
  <1>12. AliasesHaveWorker'
    BY <1>1, <1>6, <1>7 DEF IInv, AliasesHaveWorker
  <1> QED
    BY <1>4, <1>8, <1>9, <1>10, <1>11, <1>12 DEF IInv

(* A worker gets the lock.                                                 *)
LEMMA AcquireIInv ==
  ASSUME IInv, NEW t \in Tasks, Acquire(t)
  PROVE  IInv'
  <1>1. /\ pc[t] = "queued" /\ ~locked /\ waiters # <<>>
        /\ waiters' = Tail(waiters)
        /\ locked' = TRUE
        /\ pc' = [pc EXCEPT ![t] = "validate"]
        /\ snapshot' = aliases[GraphOf(t)]
        /\ pubs' = pubs \cup PubsFor(aliases[GraphOf(t)], "applying")
        /\ UNCHANGED <<life, reqFp, aliases, graph, fingerprint, kv, status, attempt, final, told, newest>>
    BY DEF Acquire, FirstWaiter, busVars, history
  <1>2. TypeOK /\ GraphOf(t) \in Graphs
    BY <1>1 DEF IInv, TasksSubmitted
  <1>3. /\ snapshot' \in SUBSET Reqs
        /\ \A r \in snapshot' : reqFp[r] = GraphOf(t) /\ attempt[r] > 0
    BY <1>1, <1>2 DEF IInv, TypeOK, OwedIsInFlight, RequestsBound
  <1>4. pubs' \in SUBSET Status
    <2>1. "applying" \in Phase
      BY DEF Phase
    <2> QED
      BY <1>1, <1>2, <1>3, <2>1, PubsForType DEF TypeOK
  <1>5. TypeOK'
    BY <1>1, <1>2, <1>3, <1>4 DEF TypeOK, Critical, Applying
  <1>6. pc'[t] = "validate" /\ \A u \in Tasks : u # t => pc'[u] = pc[u]
    BY <1>1, <1>2 DEF TypeOK
  <1>7. \A u \in Tasks : GraphOf(u)' = GraphOf(u)
    BY <1>1 DEF GraphOf
  <1>8. \A u \in Tasks : pc'[u] \in Critical <=> u = t
    BY <1>1, <1>6 DEF IInv, ApplyExclusive, Critical, Applying
  <1>9. TasksSubmitted' /\ RequestsBound'
    BY <1>1, <1>6, <1>7 DEF IInv, TasksSubmitted, RequestsBound
  <1>10. ApplyExclusive'
    BY <1>1, <1>8 DEF ApplyExclusive
  <1>11. HolderKnows'
    BY <1>1, <1>3, <1>6, <1>7, <1>8 DEF HolderKnows, Critical
  <1>12. OwedIsInFlight'
    BY <1>1 DEF IInv, OwedIsInFlight, Owed
  <1>13. AliasesHaveWorker'
    BY <1>1, <1>6, <1>7 DEF IInv, AliasesHaveWorker, Live, Applying
  <1> QED
    BY <1>5, <1>9, <1>10, <1>11, <1>12, <1>13 DEF IInv

(* Stopping cancels the tasks there are.                                   *)
LEMMA StopBeginIInv ==
  ASSUME IInv, StopBegin
  PROVE  IInv'
  <1> DEFINE holder == {t \in Tasks : pc[t] \in Applying}
             popped == UNION {Popped(t) : t \in holder}
  <1>1. /\ life' = "gathering"
        /\ waiters' = <<>>
        /\ pc' = [t \in Tasks |-> IF pc[t] \in Applying THEN "unwind"
                                 ELSE IF pc[t] = "queued" THEN "done" ELSE pc[t]]
        /\ aliases' = [g \in Graphs |-> IF \E t \in holder : GraphOf(t) = g THEN {} ELSE aliases[g]]
        /\ pubs' = PubsFor(popped, "failed")
        /\ final' = [r \in Reqs |-> IF r \in popped THEN attempt[r] ELSE final[r]]
        /\ told' = [r \in Reqs |-> IF r \in popped THEN "failed" ELSE told[r]]
        /\ UNCHANGED <<reqFp, locked, snapshot, graph, fingerprint, kv, status, attempt, newest>>
    BY DEF StopBegin, FinalFor, busVars
  <1>2. TypeOK
    BY DEF IInv
  <1>3. popped \in SUBSET Reqs /\ \A r \in popped : attempt[r] > 0
    BY PoppedAsked
  <1>4. PubsFor(popped, "failed") \in SUBSET Status
    <2>1. "failed" \in Phase
      BY DEF Phase, FinalPhase
    <2> HIDE DEF popped
    <2> QED
      BY <1>2, <1>3, <2>1, PubsForType
  <1>5. TypeOK'
    <2>1. pc' \in [Tasks -> {"none", "done"} \cup {"queued"} \cup Critical]
      BY <1>1, <1>2 DEF TypeOK, Critical
    <2>2. waiters' \in Seq(Tasks)
      BY <1>1
    <2>3. aliases' \in [Graphs -> SUBSET Reqs]
      BY <1>1, <1>2 DEF TypeOK
    <2> HIDE DEF popped
    <2>4. final' \in [Reqs -> 0 .. MaxAttempts] /\ told' \in [Reqs -> FinalPhase \cup {"none"}]
      BY <1>1, <1>2 DEF TypeOK, FinalPhase
    <2> QED
      BY <1>1, <1>2, <1>4, <2>1, <2>2, <2>3, <2>4 DEF TypeOK
  <1>6. \A u \in Tasks : GraphOf(u)' = GraphOf(u)
    BY <1>1 DEF GraphOf
  <1>7. \A u \in Tasks : /\ pc'[u] \in Critical <=> pc[u] \in Critical
                         /\ pc'[u] \notin Applying
                         /\ pc'[u] # "none" => pc[u] # "none"
    BY <1>1, <1>2 DEF TypeOK, Critical, Applying
  <1>8. TasksSubmitted'
    BY <1>1, <1>6, <1>7 DEF IInv, TasksSubmitted
  <1>9. RequestsBound'
    <2> HIDE DEF popped
    <2> QED
      BY <1>1, <1>2 DEF IInv, TypeOK, RequestsBound
  <1>10. ApplyExclusive' /\ HolderKnows'
    BY <1>1, <1>7 DEF IInv, ApplyExclusive, HolderKnows
  <1>11. OwedIsInFlight'
    BY <1>1, <1>2 DEF IInv, TypeOK, OwedIsInFlight
  <1>12. AliasesHaveWorker'
    BY <1>1 DEF AliasesHaveWorker
  <1> QED
    BY <1>5, <1>8, <1>9, <1>10, <1>11, <1>12 DEF IInv

(* The cancelled holder releases the lock.                                 *)
LEMMA UnwoundIInv ==
  ASSUME IInv, NEW t \in Tasks, Unwound(t)
  PROVE  IInv'
  <1>1. /\ pc[t] = "unwind"
        /\ pc' = [pc EXCEPT ![t] = "done"]
        /\ locked' = FALSE
        /\ UNCHANGED <<life, reqFp, aliases, waiters, snapshot, graph, fingerprint, kv, pubs, status,
                       attempt, final, told, newest>>
    BY DEF Unwound, busVars, history
  <1>2. TypeOK
    BY DEF IInv
  <1>3. TypeOK'
    BY <1>1, <1>2 DEF TypeOK
  <1>4. pc'[t] = "done" /\ \A u \in Tasks : u # t => pc'[u] = pc[u]
    BY <1>1, <1>2 DEF TypeOK
  <1>5. \A u \in Tasks : GraphOf(u)' = GraphOf(u)
    BY <1>1 DEF GraphOf
  <1>6. \A u \in Tasks : pc'[u] \notin Critical
    BY <1>1, <1>4, SoleHolder DEF Critical, Applying
  <1>7. TasksSubmitted' /\ RequestsBound'
    BY <1>1, <1>4, <1>5 DEF IInv, TasksSubmitted, RequestsBound
  <1>8. ApplyExclusive' /\ HolderKnows'
    BY <1>1, <1>6 DEF ApplyExclusive, HolderKnows, Critical
  <1>9. OwedIsInFlight'
    BY <1>1 DEF IInv, OwedIsInFlight, Owed
  <1>10. AliasesHaveWorker'
    BY <1>1, <1>4, <1>5 DEF IInv, AliasesHaveWorker, Live, Applying
  <1> QED
    BY <1>3, <1>7, <1>8, <1>9, <1>10 DEF IInv

(* The rest of stop().                                                     *)
LEMMA StopEndIInv ==
  ASSUME IInv, StopGathered \/ StopClose
  PROVE  IInv'
  <1>1. /\ life' \in {"draining", "closed"} /\ life # "running"
        /\ aliases' = [g \in Graphs |-> {}] \/ (aliases' = aliases /\ life # "gathering")
        /\ UNCHANGED <<reqFp, pc, locked, waiters, snapshot, graph, fingerprint, kv, pubs, status,
                       attempt, final, told, newest>>
    BY DEF StopGathered, StopClose, deployVars, busVars, history
  <1>2. TypeOK'
    BY <1>1 DEF IInv, TypeOK
  <1>3. /\ \A u \in Tasks : GraphOf(u)' = GraphOf(u)
        /\ TasksSubmitted' /\ RequestsBound' /\ ApplyExclusive' /\ HolderKnows'
    BY <1>1 DEF IInv, TasksSubmitted, RequestsBound, ApplyExclusive, HolderKnows, GraphOf
  <1>4. OwedIsInFlight'
    BY <1>1 DEF IInv, TypeOK, OwedIsInFlight
  <1>5. AliasesHaveWorker'
    BY <1>1, <1>3 DEF IInv, AliasesHaveWorker
  <1> QED
    BY <1>2, <1>3, <1>4, <1>5 DEF IInv

(* A publication is made or lost.                                          *)
LEMMA PublishIInv ==
  ASSUME IInv, NEW p \in pubs, Publish(p) \/ PublishFails(p)
  PROVE  IInv'
  <1>1. TypeOK /\ p \in Status /\ p.req \in Reqs
    BY DEF IInv, TypeOK, Status
  <1>2. pubs' \in SUBSET Status /\ status' \in [Reqs -> Status \cup {NoStatus}]
    BY <1>1 DEF Publish, PublishFails, TypeOK
  <1> QED
    BY <1>2, QuietIInv DEF Publish, PublishFails, history

LEMMA StepIInv ==
  ASSUME IInv, [Next]_vars
  PROVE  IInv'
  <1>1. CASE Submit
    BY <1>1, SubmitIInv DEF Submit
  <1>2. ASSUME NEW t \in Tasks, Worker(t) PROVE IInv'
    <2>1. CASE Acquire(t)
      BY <2>1, AcquireIInv
    <2>2. CASE Reject(t) \/ WireFails(t) \/ EncodeFails(t) \/ Complete(t) \/ PutRaises(t)
      <3>1. /\ pc[t] \in Applying /\ UNCHANGED <<graph, kv>>
            /\ \E phase \in FinalPhase : LeaveLine(t, phase)
            /\ newest' \in {newest, graph} /\ fingerprint' \in {fingerprint, GraphOf(t)}
        BY <2>2 DEF Reject, WireFails, EncodeFails, Complete, PutRaises, Leave, busVars, Applying, FinalPhase
      <3>2. GraphOf(t) \in Graphs
        BY <3>1, PoppedAsked
      <3> QED
        BY <3>1, <3>2, LeaveIInv DEF IInv, TypeOK
    <2>3. CASE Install(t) \/ Wired(t) \/ Persist(t)
      BY <2>3, MoveIInv DEF Applying
    <2>4. CASE Unwound(t)
      BY <2>4, UnwoundIInv
    <2> QED
      BY <1>2, <2>1, <2>2, <2>3, <2>4 DEF Worker
  <1>3. CASE \E p \in pubs : Publish(p) \/ PublishFails(p)
    BY <1>3, PublishIInv
  <1>4. CASE StopBegin \/ StopGathered \/ StopClose
    BY <1>4, StopBeginIInv, StopEndIInv
  <1>5. CASE UNCHANGED vars
    BY <1>5, QuietIInv DEF vars, history, IInv, TypeOK
  <1> QED
    BY <1>1, <1>2, <1>3, <1>4, <1>5 DEF Next

THEOREM Invariance == Spec => []IInv
  <1>1. IInv /\ [Next]_vars => IInv'
    BY StepIInv
  <1> QED
    BY InitIInv, <1>1, PTL DEF Spec

(***************************************************************************)
(* Every variable keeps its type, whatever fails and whenever the bus is   *)
(* stopped.                                                                *)
(***************************************************************************)
THEOREM TypeCorrect == Spec => []TypeOK
  <1>1. IInv => TypeOK
    BY DEF IInv
  <1> QED
    BY Invariance, <1>1, PTL

(***************************************************************************)
(* Two apply workers are never inside set_rungraph together.               *)
(***************************************************************************)
THEOREM ApplyIsExclusive == Spec => []ApplyExclusive
  <1>1. IInv => ApplyExclusive
    BY DEF IInv
  <1> QED
    BY Invariance, <1>1, PTL

(***************************************************************************)
(* Outside the gather of stop(), an in-flight entry has a live worker.     *)
(***************************************************************************)
THEOREM AliasesAlwaysHaveWorker == Spec => []AliasesHaveWorker
  <1>1. IInv => AliasesHaveWorker
    BY DEF IInv
  <1> QED
    BY Invariance, <1>1, PTL

(***************************************************************************)
(* No accepted request is forgotten while the bus runs.                    *)
(***************************************************************************)
THEOREM OwedAlwaysInFlight == Spec => []OwedIsInFlight
  <1>1. IInv => OwedIsInFlight
    BY DEF IInv
  <1> QED
    BY Invariance, <1>1, PTL

-----------------------------------------------------------------------------
(***************************************************************************)
(* A status "applied" names the graph whose fingerprint the bus has when   *)
(* it is decided: immediate for a short circuit, and for a worker because  *)
(* the lock keeps every other worker away from the fingerprint.            *)
(***************************************************************************)
THEOREM AppliedHonest == Spec => AppliedIsHonest
  <1> DEFINE Honest == \A p \in pubs' \ pubs : p.phase = "applied" => fingerprint' = reqFp'[p.req]
  <1>1. IInv /\ [Next]_vars => [Honest]_vars
    <2>0. SUFFICES ASSUME IInv, [Next]_vars PROVE [Honest]_vars
      OBVIOUS
    <2>1. ASSUME NEW r \in Reqs, NEW g \in Graphs, NEW force \in BOOLEAN,
                 SubmitAlreadyApplied(r, g, force)
          PROVE  Honest
      BY <2>0, <2>1 DEF SubmitAlreadyApplied, MaySubmit, ShortCircuits, Pub, busVars, IInv, TypeOK
    <2>2. ASSUME NEW r \in Reqs, NEW g \in Graphs, NEW force \in BOOLEAN,
                 SubmitAlias(r, g, force) \/ SubmitNew(r, g, force)
          PROVE  Honest
      BY <2>2 DEF SubmitAlias, SubmitNew, Pub
    <2>3. ASSUME NEW t \in Tasks, Complete(t) PROVE Honest
      <3>1. /\ pubs' \subseteq pubs \cup PubsFor(Popped(t), "applied")
            /\ fingerprint' = fingerprint /\ reqFp' = reqFp
            /\ pc[t] = "settle"
        BY <2>3 DEF Complete, Leave, LeaveLine, busVars
      <3>2. \A r \in Popped(t) : reqFp[r] = GraphOf(t)
        BY <2>0, <3>1, PoppedAsked DEF Applying
      <3>3. fingerprint = GraphOf(t)
        BY <2>0, <3>1 DEF IInv, HolderKnows, Applying
      <3> QED
        BY <3>1, <3>2, <3>3 DEF PubsFor, Pub
    <2>4. ASSUME NEW t \in Tasks, Worker(t), ~Complete(t) PROVE Honest
      BY <2>4 DEF Worker, Acquire, FirstWaiter, Reject, Install, WireFails, Wired, EncodeFails,
                      Persist, PutRaises, Unwound, Leave, LeaveLine, PubsFor, Pub
    <2>5. CASE \E p \in pubs : Publish(p) \/ PublishFails(p)
      BY <2>5 DEF Publish, PublishFails
    <2>6. CASE StopBegin \/ StopGathered \/ StopClose
      BY <2>6 DEF StopBegin, StopGathered, StopClose, PubsFor, Pub
    <2>7. CASE UNCHANGED vars
      BY <2>7
    <2> QED
      BY <2>0, <2>1, <2>2, <2>3, <2>4, <2>5, <2>6, <2>7 DEF Next, Submit
  <1> QED
    BY Invariance, <1>1, PTL DEF Spec, AppliedIsHonest

-----------------------------------------------------------------------------
(***************************************************************************)
(* Which graph will be the last one: that of the last waiter, else that of *)
(* the worker about to install its graph, else the one installed.  Every   *)
(* waiter is queued, and waits once, so with no live worker none waits.    *)
(***************************************************************************)
WaitersQueued ==
  /\ \A i \in 1 .. Len(waiters) : pc[waiters[i]] = "queued"
  /\ \A i, j \in 1 .. Len(waiters) : waiters[i] = waiters[j] => i = j

NewestKnown ==
  life = "running" =>
    /\ waiters # <<>> => newest = GraphOf(waiters[Len(waiters)])
    /\ waiters = <<>> => \A t \in Tasks : pc[t] = "validate" => newest = GraphOf(t)
    /\ waiters = <<>> /\ (\A t \in Tasks : pc[t] # "validate") => newest = graph

NInv == WaitersQueued /\ NewestKnown

(* Submissions bind no request whose task waits or is being applied.       *)
LEMMA SubmitNInv ==
  ASSUME IInv, NInv, NEW r \in Reqs, NEW g \in Graphs, NEW force \in BOOLEAN,
         \/ SubmitAlreadyApplied(r, g, force)
         \/ SubmitAlias(r, g, force)
         \/ SubmitNew(r, g, force)
  PROVE  NInv'
  <1>1. /\ reqFp[r] \in {NoGraph, g}
        /\ reqFp' = [reqFp EXCEPT ![r] = g]
        /\ attempt[r] < MaxAttempts /\ attempt' = [attempt EXCEPT ![r] = @ + 1]
        /\ life' = life /\ graph' = graph
    BY DEF SubmitAlreadyApplied, SubmitAlias, SubmitNew, MaySubmit, busVars
  <1>2. TypeOK /\ TasksSubmitted
    BY DEF IInv
  <1>3. \A t \in Tasks : pc[t] # "none" => GraphOf(t)' = GraphOf(t)
    BY <1>1, <1>2, TaskParts DEF TypeOK, TasksSubmitted, GraphOf
  <1>4. \A i \in 1 .. Len(waiters) : waiters[i] \in Tasks /\ pc[waiters[i]] = "queued"
    BY <1>2 DEF TypeOK, NInv, WaitersQueued
  <1>5. waiters # <<>> => Len(waiters) \in 1 .. Len(waiters)
    BY <1>2 DEF TypeOK
  <1>6. CASE UNCHANGED <<pc, waiters, newest>>
    BY <1>1, <1>3, <1>4, <1>5, <1>6 DEF NInv, WaitersQueued, NewestKnown
  <1>7. CASE SubmitNew(r, g, force)
    <2>n. PICK n \in 1 .. MaxAttempts : n = attempt[r] + 1
      BY <1>1, <1>2 DEF TypeOK
    <2> DEFINE new == <<r, n>>
    <2>1. new \in Tasks /\ n = attempt'[r] /\ pc[new] = "none"
      BY <1>1, <1>2, <2>n, TaskParts DEF TypeOK, TasksSubmitted
    <2>2. /\ pc' = [pc EXCEPT ![new] = "queued"]
          /\ waiters' = Append(waiters, new)
          /\ newest' = g
      BY <1>7, <2>1 DEF SubmitNew
    <2> HIDE DEF new
    <2>3. /\ Len(waiters') = Len(waiters) + 1 /\ Len(waiters) \in Nat
          /\ waiters'[Len(waiters')] = new
          /\ \A i \in 1 .. Len(waiters) : waiters'[i] = waiters[i]
      BY <1>2, <2>1, <2>2 DEF TypeOK
    <2>4. pc'[new] = "queued" /\ \A t \in Tasks : t # new => pc'[t] = pc[t]
      BY <1>2, <2>1, <2>2 DEF TypeOK
    <2>5. \A i \in 1 .. Len(waiters) : waiters[i] # new
      BY <1>4, <2>1
    <2>6. WaitersQueued'
      BY <1>4, <2>3, <2>4, <2>5 DEF NInv, WaitersQueued
    <2>7. GraphOf(new)' = g
      BY <1>1, <1>2 DEF GraphOf, new, TypeOK
    <2>8. NewestKnown'
      BY <2>2, <2>3, <2>7 DEF NewestKnown, GraphOf
    <2> QED
      BY <2>6, <2>8 DEF NInv
  <1> QED
    BY <1>6, <1>7 DEF SubmitAlreadyApplied, SubmitAlias

(* The steps of the worker that holds or takes the lock.                   *)
LEMMA WorkerNInv ==
  ASSUME IInv, NInv, NEW t \in Tasks, Worker(t)
  PROVE  NInv'
  <1>1. TypeOK
    BY DEF IInv
  <1>2. reqFp' = reqFp /\ life' = life
    BY DEF Worker, Acquire, Reject, Install, WireFails, Wired,
          EncodeFails, Persist, Complete, PutRaises, Unwound, Leave, LeaveLine
  <1>3. \A u \in Tasks : GraphOf(u)' = GraphOf(u)
    BY <1>2 DEF GraphOf
  <1>4. \A i \in 1 .. Len(waiters) : waiters[i] \in Tasks /\ pc[waiters[i]] = "queued"
    BY <1>1 DEF TypeOK, NInv, WaitersQueued
  <1>5. waiters # <<>> => Len(waiters) \in 1 .. Len(waiters)
    BY <1>1 DEF TypeOK
  <1>6. CASE Acquire(t)
    <2>1. /\ waiters # <<>> /\ Head(waiters) = t /\ waiters' = Tail(waiters)
          /\ pc' = [pc EXCEPT ![t] = "validate"] /\ ~locked
          /\ graph' = graph /\ newest' = newest
      BY <1>6 DEF Acquire, FirstWaiter, busVars, history
    <2>2. /\ Len(waiters') = Len(waiters) - 1 /\ Len(waiters) \in Nat
          /\ \A i \in 1 .. Len(waiters') : i + 1 \in 2 .. Len(waiters) /\ waiters'[i] = waiters[i + 1]
          /\ waiters[1] = t
      BY <1>1, <2>1 DEF TypeOK
    <2>3. pc'[t] = "validate" /\ \A u \in Tasks : u # t => pc'[u] = pc[u]
      BY <1>1, <2>1 DEF TypeOK
    <2>4. \A i \in 1 .. Len(waiters') : waiters'[i] \in Tasks /\ waiters'[i] # t
      BY <1>4, <2>2 DEF NInv, WaitersQueued
    <2>5. WaitersQueued'
      BY <1>4, <2>2, <2>3, <2>4 DEF NInv, WaitersQueued
    <2>6. \A u \in Tasks : pc'[u] = "validate" => u = t
      BY <2>1, <2>3 DEF IInv, ApplyExclusive, Critical, Applying
    <2>7. CASE waiters' = <<>>
      <3>1. waiters[Len(waiters)] = t
        <4>1. Len(waiters') = 0
          BY <2>7
        <4>2. Len(waiters) = 1
          BY <2>2, <4>1
        <4> QED
          BY <2>2, <4>2
      <3> QED
        BY <1>2, <1>3, <2>1, <2>3, <2>5, <2>6, <2>7, <3>1 DEF NInv, NewestKnown
    <2>8. CASE waiters' # <<>>
      <3>1. Len(waiters') \in 1 .. Len(waiters') /\ waiters'[Len(waiters')] = waiters[Len(waiters)]
        BY <1>1, <2>1, <2>2, <2>8 DEF TypeOK
      <3>2. waiters[Len(waiters)] \in Tasks
        BY <1>4, <1>5, <2>1
      <3> QED
        BY <1>2, <1>3, <2>1, <2>5, <2>8, <3>1, <3>2 DEF NInv, NewestKnown
    <2> QED
      BY <2>7, <2>8
  <1>7. CASE ~Acquire(t)
    <2>1. /\ pc[t] \in Critical /\ waiters' = waiters
          /\ \E next \in Critical \cup {"done"} : pc' = [pc EXCEPT ![t] = next]
      BY <1>7 DEF Worker, Reject, Install, WireFails, Wired,
          EncodeFails, Persist, Complete, PutRaises, Unwound, Leave, LeaveLine,
                  Critical, Applying
    <2>2. \A u \in Tasks : u # t => pc'[u] = pc[u]
      BY <1>1, <2>1 DEF TypeOK
    <2>3. \A i \in 1 .. Len(waiters) : waiters[i] # t
      BY <1>4, <2>1 DEF Critical, Applying
    <2>4. WaitersQueued'
      BY <1>4, <2>1, <2>2, <2>3 DEF NInv, WaitersQueued
    <2>5. \A u \in Tasks : pc[u] = "validate" => u = t
      BY <2>1 DEF IInv, ApplyExclusive, Critical, Applying
    <2>6. pc'[t] # "validate"
      BY <1>1, <1>7 DEF Worker, Reject, Install, WireFails, Wired,
          EncodeFails, Persist, Complete, PutRaises, Unwound, Leave, LeaveLine, TypeOK
    <2>7. \A u \in Tasks : pc'[u] # "validate"
      BY <2>2, <2>5, <2>6
    <2>8. CASE Install(t)
      <3>1. pc[t] = "validate" /\ graph' = GraphOf(t) /\ newest' = newest
        BY <2>8 DEF Install, history
      <3> QED
        BY <1>2, <1>3, <1>4, <1>5, <2>1, <2>4, <2>7, <3>1 DEF NInv, NewestKnown
    <2>9. CASE Reject(t)
      <3>1. graph' = graph /\ newest' = IF waiters = <<>> THEN graph ELSE newest
        BY <2>9 DEF Reject, Leave, LeaveLine, busVars
      <3> QED
        BY <1>2, <1>3, <1>4, <1>5, <2>1, <2>4, <2>7, <3>1 DEF NInv, NewestKnown
    <2>10. CASE ~Install(t) /\ ~Reject(t)
      <3>1. pc[t] # "validate" /\ graph' = graph /\ newest' = newest
        BY <1>7, <2>10 DEF Worker, WireFails, Wired, EncodeFails, Persist, Complete, PutRaises, Unwound,
                             Leave, LeaveLine, busVars, history
      <3>2. \A u \in Tasks : pc[u] # "validate"
        BY <2>5, <3>1
      <3> QED
        BY <1>2, <1>3, <1>4, <1>5, <2>1, <2>4, <2>7, <3>1, <3>2 DEF NInv, NewestKnown
    <2> QED
      BY <2>8, <2>9, <2>10
  <1> QED
    BY <1>6, <1>7

LEMMA StepNInv ==
  ASSUME IInv, NInv, [Next]_vars
  PROVE  NInv'
  <1>1. CASE Submit
    BY <1>1, SubmitNInv DEF Submit
  <1>2. CASE \E t \in Tasks : Worker(t)
    BY <1>2, WorkerNInv
  <1>3. CASE \E p \in pubs : Publish(p) \/ PublishFails(p)
    BY <1>3 DEF Publish, PublishFails, NInv, WaitersQueued, NewestKnown, GraphOf, deployVars, busVars, history
  <1>4. CASE StopBegin
    <2>1. waiters' = <<>> /\ life' = "gathering"
      BY <1>4 DEF StopBegin
    <2> QED
      BY <2>1 DEF NInv, WaitersQueued, NewestKnown
  <1>5. CASE StopGathered \/ StopClose
    BY <1>5 DEF StopGathered, StopClose, NInv, WaitersQueued, NewestKnown, deployVars
  <1>6. CASE UNCHANGED vars
    BY <1>6 DEF vars, deployVars, busVars, history, NInv, WaitersQueued, NewestKnown, GraphOf
  <1> QED
    BY <1>1, <1>2, <1>3, <1>4, <1>5, <1>6 DEF Next

(***************************************************************************)
(* Graphs take effect in the order they were submitted: when nothing is in *)
(* flight the newest one that was not rejected is installed.               *)
(***************************************************************************)
THEOREM NewestIsInstalled == Spec => []NewestWins
  <1>1. Init => NInv
    BY DEF Init, NInv, WaitersQueued, NewestKnown
  <1>2. IInv /\ NInv /\ [Next]_vars => NInv'
    BY StepNInv
  <1>3. IInv /\ NInv => NewestWins
    <2> SUFFICES ASSUME IInv, NInv, life = "running", \A t \in Tasks : pc[t] \notin Live
                 PROVE  graph = newest
      BY DEF NewestWins
    <2>1. waiters = <<>>
      <3> SUFFICES ASSUME waiters # <<>> PROVE FALSE
        OBVIOUS
      <3>1. 1 \in 1 .. Len(waiters) /\ waiters[1] \in Tasks
        BY DEF IInv, TypeOK
      <3> QED
        BY <3>1 DEF NInv, WaitersQueued, Live
    <2> QED
      BY <2>1 DEF NInv, NewestKnown, Live, Applying
  <1> QED
    BY Invariance, <1>1, <1>2, <1>3, PTL DEF Spec

-----------------------------------------------------------------------------
(* RungraphDeploy implements DeployPromise. *)

LEMMA LeaveKeepsPromise ==
  ASSUME IInv, NEW t \in Tasks, pc[t] \in Applying, NEW phase \in FinalPhase, LeaveLine(t, phase),
         Promise!Says(GraphOf(t), phase)
  PROVE  Promise!Next
  <1>1. /\ Popped(t) \in SUBSET Reqs
        /\ \A r \in Popped(t) : reqFp[r] = GraphOf(t)
        /\ aliases[GraphOf(t)] \subseteq Popped(t)
        /\ GraphOf(t) \in Graphs
    BY PoppedAsked
  <1>2. /\ final' = [r \in Reqs |-> IF r \in Popped(t) THEN attempt[r] ELSE final[r]]
        /\ told' = [r \in Reqs |-> IF r \in Popped(t) THEN phase ELSE told[r]]
        /\ UNCHANGED <<life, reqFp, attempt>>
    BY DEF LeaveLine, FinalFor
  <1>3. Owed' = Owed \ Popped(t)
    BY <1>1, <1>2 DEF Owed, IInv, TypeOK
  <1>4. CASE life = "running"
    <2>1. {r \in Owed : reqFp[r] = GraphOf(t)} \subseteq Popped(t)
      BY <1>1, <1>4 DEF IInv, OwedIsInFlight
    <2>2. Promise!Answer(GraphOf(t), Popped(t), phase)
      BY <1>1, <1>2, <1>3, <2>1 DEF Promise!Answer
    <2> QED
      BY <1>1, <2>2 DEF Promise!Next, FinalPhase
  <1>5. CASE life # "running"
    <2>1. Promise!LeftOver(GraphOf(t), Popped(t), phase)
      BY <1>1, <1>2, <1>3, <1>5 DEF Promise!LeftOver
    <2> QED
      BY <1>1, <2>1 DEF Promise!Next, FinalPhase
  <1> QED
    BY <1>4, <1>5

LEMMA SubmitKeepsPromise ==
  ASSUME IInv, NEW r \in Reqs, NEW g \in Graphs, NEW force \in BOOLEAN,
         \/ SubmitAlreadyApplied(r, g, force)
         \/ SubmitAlias(r, g, force)
         \/ SubmitNew(r, g, force)
  PROVE  Promise!Next
  <1>1. /\ reqFp[r] \in {NoGraph, g}
        /\ reqFp' = [reqFp EXCEPT ![r] = g]
        /\ attempt' = [attempt EXCEPT ![r] = @ + 1]
        /\ UNCHANGED <<life, fingerprint>>
    BY DEF SubmitAlreadyApplied, SubmitAlias, SubmitNew, MaySubmit, busVars
  <1>2. TypeOK /\ RequestsBound
    BY DEF IInv
  <1>3. CASE SubmitAlreadyApplied(r, g, force)
    <2>1. /\ final' = [final EXCEPT ![r] = attempt'[r]]
          /\ told' = [told EXCEPT ![r] = "applied"]
          /\ fingerprint = g
      BY <1>3 DEF SubmitAlreadyApplied, ShortCircuits
    <2>2. Owed' = Owed \ {r}
      BY <1>1, <1>2, <2>1 DEF Owed, TypeOK
    <2>3. Promise!AskKnown(r, g)
      BY <1>1, <2>1, <2>2 DEF Promise!AskKnown
    <2> QED
      BY <2>3 DEF Promise!Next
  <1>4. CASE SubmitAlias(r, g, force) \/ SubmitNew(r, g, force)
    <2>1. UNCHANGED <<final, told>>
      BY <1>4 DEF SubmitAlias, SubmitNew
    <2>2. Owed' = Owed \cup {r}
      BY <1>1, <1>2, <2>1 DEF Owed, TypeOK, RequestsBound
    <2>3. Promise!Ask(r, g)
      BY <1>1, <2>1, <2>2 DEF Promise!Ask
    <2> QED
      BY <2>3 DEF Promise!Next
  <1> QED
    BY <1>3, <1>4

LEMMA StopKeepsPromise ==
  ASSUME IInv, StopBegin
  PROVE  Promise!Next
  <1> DEFINE holder == {t \in Tasks : pc[t] \in Applying}
             popped == UNION {Popped(t) : t \in holder}
  <1>1. /\ life = "running" /\ life' = "gathering"
        /\ final' = [r \in Reqs |-> IF r \in popped THEN attempt[r] ELSE final[r]]
        /\ told' = [r \in Reqs |-> IF r \in popped THEN "failed" ELSE told[r]]
        /\ UNCHANGED <<reqFp, fingerprint, attempt>>
    BY DEF StopBegin, FinalFor, busVars
  <1>2. popped \in SUBSET Reqs
    BY PoppedAsked
  <1>3. \A r, q \in popped : reqFp[r] = reqFp[q]
    <2> SUFFICES ASSUME NEW r \in popped, NEW q \in popped PROVE reqFp[r] = reqFp[q]
      OBVIOUS
    <2>1. PICK t \in holder : r \in Popped(t)
      OBVIOUS
    <2>2. PICK u \in holder : q \in Popped(u)
      OBVIOUS
    <2>3. t = u
      BY SoleHolder DEF Critical
    <2> QED
      BY <2>1, <2>2, <2>3, PoppedAsked
  <1> HIDE DEF popped
  <1>4. Owed' = Owed \ popped
    BY <1>1, <1>2 DEF Owed, IInv, TypeOK
  <1>5. Promise!Close
    BY <1>1, <1>2, <1>3, <1>4 DEF Promise!Close
  <1> QED
    BY <1>5 DEF Promise!Next

LEMMA StepKeepsPromise ==
  ASSUME IInv, [Next]_vars
  PROVE  [Promise!Next]_Promise!promiseVars
  <1>1. CASE Submit
    BY <1>1, SubmitKeepsPromise DEF Submit
  <1>2. ASSUME NEW t \in Tasks, Worker(t) PROVE [Promise!Next]_Promise!promiseVars
    <2>1. CASE Reject(t) \/ WireFails(t) \/ EncodeFails(t) \/ Complete(t) \/ PutRaises(t)
      <3>1. Complete(t) => fingerprint = GraphOf(t)
        BY DEF Complete, IInv, HolderKnows, Applying
      <3>2. pc[t] \in Applying /\ \E phase \in FinalPhase : LeaveLine(t, phase) /\ Promise!Says(GraphOf(t), phase)
        BY <2>1, <3>1 DEF Reject, WireFails, EncodeFails, Complete, PutRaises, Leave, busVars,
                          Applying, FinalPhase, Promise!Says
      <3> QED
        BY <3>2, LeaveKeepsPromise
    <2>2. CASE Wired(t)
      <3>1. GraphOf(t) \in Graphs /\ t[1] \in Reqs
        BY <2>2, TaskParts DEF Wired, IInv, TasksSubmitted
      <3>2. Owed' = Owed
        BY <2>2 DEF Wired, Owed, history
      <3>3. Promise!Switch(GraphOf(t))
        BY <2>2, <3>1, <3>2 DEF Wired, Promise!Switch, GraphOf, history
      <3> QED
        BY <3>1, <3>3 DEF Promise!Next
    <2>3. CASE Acquire(t) \/ Install(t) \/ Persist(t) \/ Unwound(t)
      BY <2>3 DEF Acquire, FirstWaiter, Install, Persist, Unwound, Promise!promiseVars, Owed, history, busVars
    <2> QED
      BY <1>2, <2>1, <2>2, <2>3 DEF Worker
  <1>3. CASE \E p \in pubs : Publish(p) \/ PublishFails(p)
    BY <1>3 DEF Publish, PublishFails, Promise!promiseVars, Owed, history, busVars, deployVars
  <1>4. CASE StopBegin
    BY <1>4, StopKeepsPromise
  <1>5. CASE StopGathered \/ StopClose
    BY <1>5 DEF StopGathered, StopClose, Promise!promiseVars, Owed, history, busVars, deployVars
  <1>6. CASE UNCHANGED vars
    BY <1>6 DEF vars, Promise!promiseVars, Owed, history, busVars, deployVars
  <1> QED
    BY <1>1, <1>2, <1>3, <1>4, <1>5, <1>6 DEF Next

(***************************************************************************)
(* Workers, aliases, the lock and the cancellation of stop() together keep *)
(* the promise: everybody who waits for a graph is answered together, and  *)
(* truthfully.                                                             *)
(***************************************************************************)
THEOREM PromiseKept == Spec => KeepsPromise
  <1>1. Init => Promise!Init
    BY DEF Init, Promise!Init, Owed
  <1>2. IInv /\ [Next]_vars => [Promise!Next]_Promise!promiseVars
    BY StepKeepsPromise
  <1> QED
    BY Invariance, <1>1, <1>2, PTL DEF Spec, Promise!Spec, KeepsPromise

-----------------------------------------------------------------------------
(* One worker for each graph in flight. *)

LEMMA StepOneWorkerEach ==
  ASSUME IInv, OneWorkerEach, [Next]_vars
  PROVE  OneWorkerEach'
  <1>1. TypeOK /\ TasksSubmitted
    BY DEF IInv
  <1>2. \A t \in Tasks : pc[t] \in Live => GraphOf(t) \in Graphs
    BY <1>1 DEF TasksSubmitted, Live, Applying
  <1>3. ASSUME NEW r \in Reqs, NEW g \in Graphs, NEW force \in BOOLEAN,
               \/ SubmitAlreadyApplied(r, g, force)
               \/ SubmitAlias(r, g, force)
               \/ SubmitNew(r, g, force)
        PROVE  OneWorkerEach'
    <2>1. /\ reqFp[r] \in {NoGraph, g} /\ reqFp' = [reqFp EXCEPT ![r] = g]
          /\ attempt[r] < MaxAttempts /\ attempt' = [attempt EXCEPT ![r] = @ + 1]
          /\ life' = life
      BY <1>3 DEF SubmitAlreadyApplied, SubmitAlias, SubmitNew, MaySubmit
    <2>2. \A t \in Tasks : pc[t] # "none" => GraphOf(t)' = GraphOf(t)
      BY <1>1, <2>1, TaskParts DEF TypeOK, TasksSubmitted, GraphOf
    <2>3. \A t \in Tasks : pc[t] \in Live => GraphOf(t)' = GraphOf(t)
      BY <2>2 DEF Live, Applying
    <2>4. CASE SubmitAlreadyApplied(r, g, force) \/ SubmitAlias(r, g, force)
      <3>1. pc' = pc /\ (aliases' = aliases \/ aliases' = [aliases EXCEPT ![g] = @ \cup {r}])
        BY <2>4 DEF SubmitAlreadyApplied, SubmitAlias
      <3>2. \A h \in Graphs : aliases[h] # {} => aliases'[h] # {}
        <4>1. ASSUME NEW h \in Graphs, aliases' = [aliases EXCEPT ![g] = @ \cup {r}]
              PROVE  aliases'[h] = IF h = g THEN aliases[h] \cup {r} ELSE aliases[h]
          BY <1>1, <4>1 DEF TypeOK
        <4> QED
          BY <3>1, <4>1
      <3> QED
        BY <1>2, <2>1, <2>3, <3>1, <3>2 DEF OneWorkerEach
    <2>5. CASE SubmitNew(r, g, force)
      <3>n. PICK n \in 1 .. MaxAttempts : n = attempt[r] + 1
        BY <1>1, <2>1 DEF TypeOK
      <3> DEFINE new == <<r, n>>
      <3>1. new \in Tasks /\ n = attempt'[r] /\ pc[new] = "none" /\ GraphOf(new)' = g
        BY <1>1, <2>1, <3>n, TaskParts DEF TypeOK, TasksSubmitted, GraphOf
      <3>2. /\ pc' = [pc EXCEPT ![new] = "queued"]
            /\ aliases[g] = {} /\ aliases' = [aliases EXCEPT ![g] = {r}]
        BY <2>5, <3>1 DEF SubmitNew
      <3> HIDE DEF new
      <3>3. pc'[new] = "queued" /\ \A t \in Tasks : t # new => pc'[t] = pc[t]
        BY <1>1, <3>1, <3>2 DEF TypeOK
      <3>4. aliases'[g] = {r} /\ \A h \in Graphs : h # g => aliases'[h] = aliases[h]
        BY <1>1, <3>2 DEF TypeOK
      <3> SUFFICES ASSUME life = "running" PROVE OneWorkerEach'
        BY <2>1 DEF OneWorkerEach
      <3>5. \A t \in Tasks : pc[t] \in Live => GraphOf(t) # g /\ GraphOf(t)' # g
        BY <2>3, <3>2 DEF OneWorkerEach
      <3>6. \A t \in Tasks : pc'[t] \in Live => t = new \/ pc[t] \in Live
        BY <3>3
      <3>7. \A t, u \in Tasks : pc'[t] \in Live /\ pc'[u] \in Live /\ GraphOf(t)' = GraphOf(u)' => t = u
        BY <2>3, <3>1, <3>5, <3>6 DEF OneWorkerEach
      <3>8. \A t \in Tasks : pc'[t] \in Live => aliases'[GraphOf(t)'] # {}
        BY <1>2, <2>3, <3>1, <3>4, <3>5, <3>6 DEF OneWorkerEach
      <3> QED
        BY <3>7, <3>8 DEF OneWorkerEach, GraphOf
    <2> QED
      BY <1>3, <2>4, <2>5
  <1>4. ASSUME NEW t \in Tasks, Worker(t) PROVE OneWorkerEach'
    <2>1. life' = life /\ reqFp' = reqFp
      BY <1>4 DEF Worker, Acquire, Reject, Install, WireFails, Wired,
          EncodeFails, Persist, Complete, PutRaises, Unwound, Leave, LeaveLine
    <2>2. CASE Reject(t) \/ WireFails(t) \/ EncodeFails(t) \/ Complete(t) \/ PutRaises(t)
      <3>1. /\ pc[t] \in Live /\ pc' = [pc EXCEPT ![t] = "done"]
            /\ aliases' = [aliases EXCEPT ![GraphOf(t)] = {}]
        BY <2>2 DEF Reject, WireFails, EncodeFails, Complete, PutRaises, Leave, LeaveLine, Live, Applying
      <3>2. \A u \in Tasks : pc'[u] \in Live => u # t /\ pc[u] \in Live
        BY <1>1, <3>1 DEF TypeOK, Live, Applying
      <3>3. \A g \in Graphs : g # GraphOf(t) => aliases'[g] = aliases[g]
        BY <1>1, <3>1 DEF TypeOK
      <3> QED
        BY <1>2, <2>1, <3>1, <3>2, <3>3 DEF OneWorkerEach, GraphOf
    <2>3. CASE Acquire(t) \/ Install(t) \/ Wired(t) \/ Persist(t) \/ Unwound(t)
      <3>1. aliases' = aliases /\ \A u \in Tasks : pc'[u] \in Live => pc[u] \in Live
        BY <1>1, <2>3 DEF Acquire, Install, Wired, Persist, Unwound, TypeOK, Live, Applying
      <3> QED
        BY <2>1, <3>1 DEF OneWorkerEach, GraphOf
    <2> QED
      BY <1>4, <2>2, <2>3 DEF Worker
  <1>5. CASE \E p \in pubs : Publish(p) \/ PublishFails(p)
    BY <1>5 DEF Publish, PublishFails, OneWorkerEach, GraphOf, deployVars
  <1>6. CASE StopBegin \/ StopGathered \/ StopClose
    BY <1>6 DEF StopBegin, StopGathered, StopClose, OneWorkerEach
  <1>7. CASE UNCHANGED vars
    BY <1>7 DEF vars, OneWorkerEach, GraphOf, deployVars
  <1> QED
    BY <1>3, <1>4, <1>5, <1>6, <1>7 DEF Next, Submit

(***************************************************************************)
(* On a running bus a graph in flight is applied by one worker, and that   *)
(* worker finds all who joined it when it leaves.                          *)
(***************************************************************************)
THEOREM WorkersAreSingle == Spec => []OneWorkerEach
  <1>1. Init => OneWorkerEach
    BY DEF Init, OneWorkerEach, Live, Applying
  <1>2. IInv /\ OneWorkerEach /\ [Next]_vars => OneWorkerEach'
    BY StepOneWorkerEach
  <1> QED
    BY Invariance, <1>1, <1>2, PTL DEF Spec

-----------------------------------------------------------------------------
(* RungraphDeploy implements DeployQueue. *)

(* A submission creates a worker at most.                                  *)
LEMMA SubmitPc ==
  ASSUME IInv, Submit
  PROVE  life' = life /\ (pc' = pc \/ \E t \in Tasks : pc' = [pc EXCEPT ![t] = "queued"])
  <1>1. PICK r \in Reqs, g \in Graphs, force \in BOOLEAN :
          SubmitAlreadyApplied(r, g, force) \/ SubmitAlias(r, g, force) \/ SubmitNew(r, g, force)
    BY DEF Submit
  <1>2. CASE SubmitAlreadyApplied(r, g, force)
    BY <1>2 DEF SubmitAlreadyApplied, busVars
  <1>3. CASE SubmitAlias(r, g, force)
    BY <1>3 DEF SubmitAlias
  <1>4. CASE SubmitNew(r, g, force)
    <2>1. <<r, attempt'[r]>> \in Tasks
      <3>1. attempt \in [Reqs -> 0 .. MaxAttempts]
        BY DEF IInv, TypeOK
      <3>2. attempt'[r] = attempt[r] + 1 /\ attempt[r] < MaxAttempts
        BY <1>4, <3>1 DEF SubmitNew, MaySubmit
      <3>3. attempt'[r] \in 1 .. MaxAttempts
        BY <3>1, <3>2
      <3> QED
        BY <3>3 DEF Tasks
    <2> QED
      BY <1>4, <2>1 DEF SubmitNew
  <1> QED
    BY <1>1, <1>2, <1>3, <1>4

NoneUnwinds == life = "running" => \A t \in Tasks : pc[t] # "unwind"

LInv == IInv /\ NInv /\ NoneUnwinds

LEMMA LinesKept == Spec => []LInv
  <1>1. Init => NInv /\ NoneUnwinds
    BY DEF Init, NInv, WaitersQueued, NewestKnown, NoneUnwinds
  <1>2. ASSUME IInv, NoneUnwinds, [Next]_vars PROVE NoneUnwinds'
    <2>1. CASE Submit
      <3>1. life' = life /\ \A t \in Tasks : pc'[t] \in {pc[t], "queued"}
        <4>1. life' = life /\ (pc' = pc \/ \E t \in Tasks : pc' = [pc EXCEPT ![t] = "queued"])
          BY <1>2, <2>1, SubmitPc
        <4> QED
          BY <1>2, <4>1 DEF IInv, TypeOK
      <3> QED
        BY <1>2, <3>1 DEF NoneUnwinds
    <2>2. ASSUME NEW u \in Tasks, Worker(u) PROVE NoneUnwinds'
      <3>1. life' = life /\ \E next : pc' = [pc EXCEPT ![u] = next] /\ next # "unwind"
        BY <2>2 DEF Worker, Acquire, Reject, Install, WireFails, Wired,
          EncodeFails, Persist, Complete, PutRaises, Unwound, Leave, LeaveLine
      <3>2. \A t \in Tasks : pc'[t] # "unwind" \/ pc'[t] = pc[t]
        BY <1>2, <3>1 DEF IInv, TypeOK
      <3> QED
        BY <1>2, <3>1, <3>2 DEF NoneUnwinds
    <2>3. CASE \E p \in pubs : Publish(p) \/ PublishFails(p)
      BY <1>2, <2>3 DEF Publish, PublishFails, NoneUnwinds, deployVars
    <2>4. CASE StopBegin \/ StopGathered \/ StopClose
      BY <1>2, <2>4 DEF StopBegin, StopGathered, StopClose, NoneUnwinds
    <2>5. CASE UNCHANGED vars
      BY <1>2, <2>5 DEF vars, NoneUnwinds, deployVars
    <2> QED
      BY <1>2, <2>1, <2>2, <2>3, <2>4, <2>5 DEF Next
  <1>3. IInv /\ NInv /\ [Next]_vars => NInv'
    BY StepNInv
  <1> QED
    BY Invariance, <1>1, <1>2, <1>3, PTL DEF Spec, LInv

(* Whoever is alone inside is the one Holder picks.                        *)
LEMMA OnlyChoice ==
  ASSUME NEW p, NEW t \in Tasks, p[t] \in Critical,
         \A u, v \in Tasks : p[u] \in Critical /\ p[v] \in Critical => u = v
  PROVE  (CHOOSE u \in Tasks : p[u] \in Critical) = t
  OBVIOUS

LEMMA HolderIs ==
  ASSUME IInv, NEW t \in Tasks, pc[t] \in Critical
  PROVE  Holder = t /\ locked
  <1>1. locked /\ \A u, v \in Tasks : pc[u] \in Critical /\ pc[v] \in Critical => u = v
    BY DEF IInv, ApplyExclusive
  <1> QED
    BY <1>1, OnlyChoice DEF Holder

LEMMA HolderIsThen ==
  ASSUME IInv', NEW t \in Tasks, pc'[t] \in Critical
  PROVE  Holder' = t /\ locked'
  <1>1. locked' /\ \A u, v \in Tasks : pc'[u] \in Critical /\ pc'[v] \in Critical => u = v
    BY DEF IInv, ApplyExclusive
  <1> QED
    BY <1>1, OnlyChoice DEF Holder

(* A line and its first task.                                              *)
LEMMA FrontFacts ==
  ASSUME NEW T, NEW t \in T, NEW s \in Seq(T)
  PROVE  /\ <<t>> \o s # <<>> /\ <<t>> \o s \in Seq(T)
         /\ Head(<<t>> \o s) = t /\ Tail(<<t>> \o s) = s
         /\ Len(<<t>> \o s) = Len(s) + 1
         /\ (<<t>> \o s)[1] = t
         /\ \A i \in 1 .. Len(s) : (<<t>> \o s)[i + 1] = s[i]
         /\ \A u \in T : <<t>> \o Append(s, u) = Append(<<t>> \o s, u)
         /\ s # <<>> => <<Head(s)>> \o Tail(s) = s
  <1>1. <<t>> \o s # <<>> /\ <<t>> \o s \in Seq(T)
    OBVIOUS
  <1>2. Head(<<t>> \o s) = t
    OBVIOUS
  <1>3. Tail(<<t>> \o s) = s
    OBVIOUS
  <1>4. \A u \in T : <<t>> \o Append(s, u) = Append(<<t>> \o s, u)
    OBVIOUS
  <1>5. s # <<>> => <<Head(s)>> \o Tail(s) = s
    OBVIOUS
  <1>6. Len(<<t>> \o s) = Len(s) + 1 /\ (<<t>> \o s)[1] = t
        /\ \A i \in 1 .. Len(s) : (<<t>> \o s)[i + 1] = s[i]
    OBVIOUS
  <1> QED
    BY <1>1, <1>2, <1>3, <1>4, <1>5, <1>6

(* What holds of the first task and of the others holds of all.            *)
LEMMA FrontAll ==
  ASSUME NEW T, NEW t \in T, NEW s \in Seq(T), NEW S,
         t \in S, \A i \in DOMAIN s : s[i] \in S
  PROVE  \A i \in DOMAIN (<<t>> \o s) : (<<t>> \o s)[i] \in S
  <1> DEFINE l == <<t>> \o s
  <1>1. /\ l \in Seq(T) /\ Len(l) = Len(s) + 1 /\ l[1] = t
        /\ \A i \in 1 .. Len(s) : l[i + 1] = s[i]
    BY FrontFacts
  <1> HIDE DEF l
  <1> SUFFICES ASSUME NEW i \in DOMAIN l PROVE l[i] \in S
    BY DEF l
  <1>2. i \in 1 .. Len(s) + 1 /\ Len(s) \in Nat
    BY <1>1
  <1>3. CASE i = 1
    BY <1>1, <1>3
  <1>4. CASE i # 1
    <2>1. i - 1 \in 1 .. Len(s) /\ (i - 1) + 1 = i
      BY <1>2, <1>4
    <2>2. l[i] = s[i - 1] /\ i - 1 \in DOMAIN s
      BY <1>1, <2>1
    <2> QED
      BY <2>2
  <1> QED
    BY <1>3, <1>4

(* The tasks in line all exist, and ask for graphs.                        *)
Bound == {t \in Tasks : pc[t] # "none" /\ GraphOf(t) \in Graphs}

LEMMA LineType ==
  ASSUME LInv
  PROVE  /\ waiters \in Seq(Tasks) /\ \A i \in DOMAIN waiters : waiters[i] \in Bound
         /\ \A t \in Tasks : pc[t] \in Critical => t \in Bound /\ Line = <<t>> \o waiters
         /\ Line \in Seq(Tasks) /\ \A i \in DOMAIN Line : Line[i] \in Bound
  <1>1. waiters \in Seq(Tasks) /\ locked \in BOOLEAN /\ TasksSubmitted
        /\ \A i \in DOMAIN waiters : waiters[i] \in Tasks /\ pc[waiters[i]] = "queued"
    BY DEF LInv, IInv, TypeOK, NInv, WaitersQueued
  <1>2. \A i \in DOMAIN waiters : waiters[i] \in Bound
    BY <1>1 DEF TasksSubmitted, Bound
  <1>3. \A t \in Tasks : pc[t] \in Critical => t \in Bound /\ Line = <<t>> \o waiters
    BY <1>1, HolderIs DEF LInv, Line, Bound, TasksSubmitted, Critical, Applying
  <1>4. CASE ~locked
    BY <1>1, <1>2, <1>3, <1>4 DEF Line
  <1>5. CASE locked
    <2>1. PICK t \in Tasks : pc[t] \in Critical
      BY <1>5 DEF LInv, IInv, ApplyExclusive
    <2>2. Line = <<t>> \o waiters /\ t \in Bound
      BY <1>3, <2>1
    <2>3. Line \in Seq(Tasks)
      BY <1>1, <2>1, <2>2, FrontFacts
    <2>4. \A i \in DOMAIN Line : Line[i] \in Bound
      BY <1>1, <1>2, <2>1, <2>2, FrontAll
    <2> QED
      BY <1>1, <1>2, <1>3, <2>3, <2>4
  <1> QED
    BY <1>1, <1>2, <1>3, <1>4, <1>5

(* The graphs of tasks in line, as a sequence.                             *)
LEMMA GraphsOfType ==
  ASSUME NEW s \in Seq(Tasks), \A i \in DOMAIN s : s[i] \in Bound
  PROVE  /\ GraphsOf(s) \in Seq(Graphs)
         /\ Len(GraphsOf(s)) = Len(s)
         /\ \A i \in 1 .. Len(s) : GraphsOf(s)[i] = GraphOf(s[i])
  <1>1. Len(s) \in Nat /\ DOMAIN s = 1 .. Len(s)
    OBVIOUS
  <1>2. GraphsOf(s) \in [1 .. Len(s) -> Graphs]
    BY <1>1 DEF GraphsOf, Bound
  <1>3. GraphsOf(s) \in Seq(Graphs) /\ Len(GraphsOf(s)) = Len(s)
    BY <1>1, <1>2
  <1> QED
    BY <1>1, <1>3 DEF GraphsOf

(* While no task in line is bound to another graph, the same line shows    *)
(* the same graphs.                                                        *)
LEMMA SameGraphs ==
  ASSUME LInv, Line' = Line, \A t \in Tasks : pc[t] # "none" => GraphOf(t)' = GraphOf(t)
  PROVE  GraphsOf(Line)' = GraphsOf(Line)
  <1>1. \A i \in DOMAIN Line : reqFp'[Line[i][1]] = reqFp[Line[i][1]]
    BY LineType DEF GraphOf, Bound
  <1> QED
    BY <1>1 DEF GraphsOf, GraphOf

(* The graphs of a line are those of its first task and of the rest.       *)
LEMMA GraphsOfFront ==
  ASSUME NEW t \in Bound, NEW s \in Seq(Tasks), \A i \in DOMAIN s : s[i] \in Bound
  PROVE  /\ GraphsOf(<<t>> \o s) # <<>>
         /\ Head(GraphsOf(<<t>> \o s)) = GraphOf(t)
         /\ Tail(GraphsOf(<<t>> \o s)) = GraphsOf(s)
  <1> DEFINE l == <<t>> \o s
             q == GraphsOf(l)
  <1>0. t \in Tasks
    BY DEF Bound
  <1>1. /\ l \in Seq(Tasks) /\ Len(l) = Len(s) + 1 /\ l[1] = t
        /\ \A i \in 1 .. Len(s) : l[i + 1] = s[i]
        /\ \A i \in DOMAIN l : l[i] \in Bound
    BY <1>0, FrontFacts, FrontAll
  <1> HIDE DEF l
  <1>2. /\ q \in Seq(Graphs) /\ Len(q) = Len(l)
        /\ \A i \in 1 .. Len(l) : q[i] = GraphOf(l[i])
    BY <1>1, GraphsOfType
  <1>3. /\ GraphsOf(s) \in Seq(Graphs) /\ Len(GraphsOf(s)) = Len(s)
        /\ \A i \in 1 .. Len(s) : GraphsOf(s)[i] = GraphOf(s[i])
    BY GraphsOfType
  <1> HIDE DEF q
  <1>4. Len(s) \in Nat /\ Len(q) = Len(s) + 1
    BY <1>1, <1>2
  <1>5. Len(<<>>) = 0
    OBVIOUS
  <1>6. q # <<>>
    <2>1. Len(q) # 0
      BY <1>4
    <2> QED
      BY <1>5, <2>1, Zenon
  <1>7. Head(q) = GraphOf(t)
    BY <1>1, <1>2, <1>4, <1>6
  <1>8. Tail(q) \in Seq(Graphs) /\ Len(Tail(q)) = Len(s)
        /\ \A i \in 1 .. Len(s) : Tail(q)[i] = q[i + 1]
    BY <1>2, <1>4, <1>6, HeadTailProperties
  <1>9. \A i \in 1 .. Len(s) : Tail(q)[i] = GraphsOf(s)[i]
    <2> SUFFICES ASSUME NEW i \in 1 .. Len(s) PROVE Tail(q)[i] = GraphsOf(s)[i]
      OBVIOUS
    <2>1. i + 1 \in 1 .. Len(l)
      BY <1>1, <1>4
    <2> QED
      BY <1>1, <1>2, <1>3, <1>8, <2>1
  <1>10. Tail(q) = GraphsOf(s)
    BY <1>3, <1>8, <1>9, SeqEqual
  <1> QED
    BY <1>6, <1>7, <1>10 DEF l, q

LEMMA AppendIs ==
  ASSUME NEW T, NEW s \in Seq(T), NEW e \in T, NEW m \in Seq(T), Len(m) = Len(s) + 1,
         \A i \in 1 .. Len(s) : m[i] = s[i], m[Len(m)] = e
  PROVE  m = Append(s, e)
  <1>1. /\ Append(s, e) \in Seq(T) /\ Len(Append(s, e)) = Len(s) + 1 /\ Len(s) \in Nat
        /\ \A i \in 1 .. Len(s) : Append(s, e)[i] = s[i]
        /\ Append(s, e)[Len(s) + 1] = e
    BY AppendProperties
  <1>2. \A i \in 1 .. Len(m) : i \in 1 .. Len(s) \/ i = Len(m)
    BY <1>1
  <1>3. \A i \in 1 .. Len(m) : m[i] = Append(s, e)[i]
    BY <1>1, <1>2
  <1> QED
    BY <1>1, <1>3, SeqEqual

(* How far the worker inside is.                                           *)
LEMMA StageOf ==
  ASSUME IInv, Running, NEW t \in Tasks, pc[t] \in Critical
  PROVE  Stage = CASE pc[t] = "persist" -> "put" [] pc[t] = "settle" -> "settle" [] OTHER -> "apply"
  <1>1. \A u \in Tasks : pc[u] \in {"persist", "settle"} => u = t
    BY SoleHolder DEF Critical, Applying
  <1> QED
    BY <1>1 DEF Stage

(* A submission that finds the graph applied changes nothing; one that     *)
(* finds it in line joins it there; any other goes to the end of the line. *)
LEMMA SubmitQueues ==
  ASSUME LInv, LInv', Running, NEW r \in Reqs, NEW g \in Graphs, NEW force \in BOOLEAN,
         \/ SubmitAlreadyApplied(r, g, force)
         \/ SubmitAlias(r, g, force)
         \/ SubmitNew(r, g, force)
  PROVE  [Queue!Next]_Queue!queueVars
  <1>1. /\ reqFp[r] \in {NoGraph, g} /\ reqFp' = [reqFp EXCEPT ![r] = g]
        /\ attempt[r] < MaxAttempts /\ attempt' = [attempt EXCEPT ![r] = @ + 1]
        /\ UNCHANGED <<life, locked, fingerprint>>
    BY DEF SubmitAlreadyApplied, SubmitAlias, SubmitNew, MaySubmit, busVars
  <1>2. TypeOK /\ TasksSubmitted
    BY DEF LInv, IInv
  <1>3. Running' /\ Reported' = Reported
    BY <1>1 DEF Running, Reported
  <1>4. \A t \in Tasks : pc[t] # "none" => GraphOf(t)' = GraphOf(t)
    BY <1>1, <1>2, TaskParts DEF TypeOK, TasksSubmitted, GraphOf
  <1>5. ASSUME UNCHANGED <<pc, waiters>>
        PROVE  UNCHANGED <<Standing, Stage>>
    <2>1. Line' = Line
      BY <1>1, <1>5 DEF Line, Holder
    <2> QED
      BY <1>3, <1>4, <1>5, <2>1, SameGraphs DEF Standing, Stage
  <1>6. CASE SubmitAlreadyApplied(r, g, force)
    <2>1. UNCHANGED <<pc, waiters, aliases>>
      BY <1>6 DEF SubmitAlreadyApplied
    <2> QED
      BY <1>3, <1>5, <2>1 DEF Awaiting, Queue!queueVars
  <1>7. CASE SubmitAlias(r, g, force)
    <2>1. /\ UNCHANGED <<pc, waiters>>
          /\ aliases[g] # {} /\ aliases' = [aliases EXCEPT ![g] = @ \cup {r}]
      BY <1>7 DEF SubmitAlias
    <2>2. Queue!Enqueue(r, g)
      BY <1>3, <1>5, <2>1 DEF Awaiting, Queue!Enqueue
    <2> QED
      BY <2>2 DEF Queue!Next
  <1>8. CASE SubmitNew(r, g, force)
    <2>n. PICK n \in 1 .. MaxAttempts : n = attempt[r] + 1
      BY <1>1, <1>2 DEF TypeOK
    <2> DEFINE new == <<r, n>>
    <2>1. new \in Tasks /\ n = attempt'[r] /\ pc[new] = "none"
      BY <1>1, <1>2, <2>n, TaskParts DEF TypeOK, TasksSubmitted
    <2>2. /\ pc' = [pc EXCEPT ![new] = "queued"]
          /\ waiters' = Append(waiters, new)
          /\ aliases[g] = {} /\ aliases' = [aliases EXCEPT ![g] = {r}]
      BY <1>8, <2>1 DEF SubmitNew
    <2>3. GraphOf(new)' = g
      BY <1>1, <1>2 DEF GraphOf, TypeOK
    <2> HIDE DEF new
    <2>4. Line' = Append(Line, new)
      <3>1. CASE ~locked
        BY <1>1, <2>2, <3>1 DEF Line
      <3>2. CASE locked
        <4>1. PICK t \in Tasks : pc[t] \in Critical
          BY <3>2 DEF LInv, IInv, ApplyExclusive
        <4>2. pc'[t] \in Critical
          BY <1>2, <2>1, <2>2, <4>1 DEF TypeOK, Critical, Applying
        <4>3. Line = <<t>> \o waiters /\ Line' = <<t>> \o waiters'
          BY <4>1, <4>2, HolderIs, HolderIsThen DEF LInv, Line
        <4>4. waiters \in Seq(Tasks)
          BY LineType
        <4>5. <<t>> \o Append(waiters, new) = Append(<<t>> \o waiters, new)
          BY <2>1, <4>1, <4>4, FrontFacts
        <4> QED
          BY <2>2, <4>3, <4>5
      <3> QED
        BY <3>1, <3>2
    <2>5. /\ Line \in Seq(Tasks) /\ Len(Line) \in Nat
          /\ \A i \in 1 .. Len(Line) : Line[i] \in Bound
      <3>1. Line \in Seq(Tasks) /\ \A i \in DOMAIN Line : Line[i] \in Bound
        BY LineType
      <3> QED
        BY <3>1
    <2>6. /\ GraphsOf(Line) \in Seq(Graphs) /\ Len(GraphsOf(Line)) = Len(Line)
          /\ \A i \in 1 .. Len(Line) : GraphsOf(Line)[i] = GraphOf(Line[i])
      BY LineType, GraphsOfType
    <2>7. /\ Line' \in Seq(Tasks) /\ Len(Line') = Len(Line) + 1
          /\ \A i \in 1 .. Len(Line) : Line'[i] = Line[i]
          /\ Line'[Len(Line) + 1] = new
      BY <2>1, <2>4, <2>5, AppendProperties
    <2> DEFINE later == GraphsOf(Line)'
    <2>8. DOMAIN later = 1 .. Len(Line) + 1
      BY <2>7 DEF GraphsOf
    <2>9. \A i \in 1 .. Len(Line) : later[i] = GraphsOf(Line)[i]
      <3> SUFFICES ASSUME NEW i \in 1 .. Len(Line) PROVE later[i] = GraphsOf(Line)[i]
        OBVIOUS
      <3>1. i \in 1 .. Len(Line) + 1 /\ Line'[i] = Line[i] /\ Line[i] \in Bound
        BY <2>5, <2>7
      <3>2. later[i] = reqFp'[Line[i][1]]
        BY <2>7, <2>8, <3>1 DEF GraphsOf, GraphOf
      <3>3. reqFp'[Line[i][1]] = reqFp[Line[i][1]]
        BY <1>4, <3>1 DEF Bound, GraphOf
      <3> QED
        BY <2>6, <3>2, <3>3 DEF GraphOf
    <2>10. later[Len(Line) + 1] = g
      <3>1. Len(Line) + 1 \in DOMAIN later
        BY <2>5, <2>8
      <3> QED
        BY <2>3, <2>7, <2>8, <3>1 DEF GraphsOf, GraphOf
    <2>11. later \in Seq(Graphs) /\ Len(later) = Len(Line) + 1
      <3>1. later = [i \in 1 .. Len(Line) + 1 |-> later[i]]
        BY <2>7 DEF GraphsOf
      <3> HIDE DEF later
      <3>2. \A i \in 1 .. Len(Line) + 1 : later[i] \in Graphs
        <4> SUFFICES ASSUME NEW i \in 1 .. Len(Line) + 1 PROVE later[i] \in Graphs
          OBVIOUS
        <4>1. i \in 1 .. Len(Line) \/ i = Len(Line) + 1
          BY <2>5
        <4> QED
          BY <2>6, <2>9, <2>10, <4>1
      <3>3. Len(Line) + 1 \in Nat
        BY <2>5
      <3>4. later \in [1 .. Len(Line) + 1 -> Graphs]
        BY <3>1, <3>2
      <3> QED
        BY <3>3, <3>4
    <2> HIDE DEF later
    <2>12. later = Append(GraphsOf(Line), g)
      BY <2>6, <2>9, <2>10, <2>11, AppendIs
    <2>13. Stage' = Stage
      <3>1. \A t \in Tasks : \A at \in {"persist", "settle"} : pc'[t] = at <=> pc[t] = at
        BY <1>2, <2>1, <2>2 DEF TypeOK
      <3> QED
        BY <1>3, <3>1 DEF Stage
    <2>14. Standing' = Append(Standing, g)
      BY <1>3, <2>12 DEF Standing, later
    <2>15. Queue!Enqueue(r, g)
      BY <1>2, <1>3, <2>2, <2>13, <2>14 DEF Awaiting, Queue!Enqueue, TypeOK
    <2> QED
      BY <2>15 DEF Queue!Next
  <1> QED
    BY <1>6, <1>7, <1>8

(* The worker inside leaves, and its graph has had its turn.               *)
LEMMA LeaveDequeues ==
  ASSUME LInv, LInv', Running, NEW t \in Tasks, pc[t] \in Applying, NEW phase, LeaveLine(t, phase)
  PROVE  /\ Running' /\ Reported' = fingerprint'
         /\ Standing # <<>> /\ Head(Standing) = GraphOf(t) /\ Queue!Dequeue
         /\ Stage' = "apply"
  <1>1. /\ UNCHANGED <<life, reqFp, waiters>>
        /\ pc' = [pc EXCEPT ![t] = "done"] /\ locked' = FALSE
        /\ aliases' = [aliases EXCEPT ![GraphOf(t)] = {}]
    BY DEF LeaveLine
  <1>2. Running' /\ Reported' = fingerprint'
    BY <1>1 DEF Running, Reported
  <1>3. /\ t \in Bound /\ Line = <<t>> \o waiters /\ Line' = waiters
        /\ waiters \in Seq(Tasks) /\ \A i \in DOMAIN waiters : waiters[i] \in Bound
    BY <1>1, LineType DEF Line, Critical
  <1>4. GraphsOf(waiters)' = GraphsOf(waiters)
    BY <1>1 DEF GraphsOf, GraphOf
  <1>5. Standing # <<>> /\ Head(Standing) = GraphOf(t) /\ Standing' = Tail(Standing)
    <2>1. Standing = GraphsOf(<<t>> \o waiters)
      BY <1>3 DEF Standing
    <2>2. Standing' = GraphsOf(waiters)
      BY <1>1, <1>2, <1>3 DEF Standing, GraphsOf, GraphOf
    <2> QED
      BY <1>3, <2>1, <2>2, GraphsOfFront
  <1>6. Awaiting' = [Awaiting EXCEPT ![Head(Standing)] = {}]
    BY <1>1, <1>2, <1>5 DEF Awaiting
  <1>7. Stage' = "apply"
    <2>1. \A u \in Tasks : pc'[u] \notin Critical
      BY <1>1 DEF LInv, IInv, ApplyExclusive
    <2> QED
      BY <2>1 DEF Stage, Critical, Applying
  <1> QED
    BY <1>2, <1>5, <1>6, <1>7 DEF Queue!Dequeue

(* The steps of workers: who takes the lock stays first in line.           *)
LEMMA WorkerQueues ==
  ASSUME LInv, LInv', Running, NEW t \in Tasks, Worker(t)
  PROVE  [Queue!Next]_Queue!queueVars
  <1>1. /\ UNCHANGED <<life, reqFp>> /\ Running'
        /\ TypeOK /\ IInv /\ IInv'
    BY DEF Running, LInv, IInv, Worker, Acquire, Reject, Install, WireFails, Wired, EncodeFails, Persist,
           Complete, PutRaises, Unwound, Leave, LeaveLine
  <1>2. \A u \in Tasks : GraphOf(u)' = GraphOf(u)
    BY <1>1 DEF GraphOf
  <1>3. CASE Acquire(t)
    <2>1. /\ waiters # <<>> /\ Head(waiters) = t /\ waiters' = Tail(waiters)
          /\ ~locked /\ pc' = [pc EXCEPT ![t] = "validate"]
          /\ UNCHANGED <<aliases, fingerprint>>
      BY <1>3 DEF Acquire, FirstWaiter, busVars
    <2>2. pc'[t] = "validate" /\ \A u \in Tasks : u # t => pc'[u] = pc[u]
      BY <1>1, <2>1 DEF TypeOK
    <2>3. Line = waiters /\ Line' = <<t>> \o Tail(waiters)
      BY <1>1, <2>1, <2>2, HolderIsThen DEF Line, Critical, Applying
    <2>4. Line' = Line
      BY <1>1, <2>1, <2>3, FrontFacts DEF TypeOK
    <2>5. UNCHANGED <<Standing, Awaiting, Reported>>
      BY <1>1, <1>2, <2>1, <2>4, SameGraphs DEF Standing, Awaiting, Reported
    <2>6. Stage' = Stage
      <3>1. \A u \in Tasks : pc[u] \notin Critical
        BY <1>1, <2>1 DEF IInv, ApplyExclusive
      <3>2. \A u \in Tasks : pc'[u] \in Critical => u = t
        BY <2>2, <3>1
      <3> QED
        BY <2>2, <3>1, <3>2 DEF Stage, Critical, Applying
    <2> QED
      BY <1>1, <2>5, <2>6 DEF Queue!queueVars
  <1>4. ASSUME NEW at \in Applying, NEW next \in Applying, pc[t] = at, pc' = [pc EXCEPT ![t] = next],
               UNCHANGED <<locked, waiters, aliases>>
        PROVE  /\ UNCHANGED <<Standing, Awaiting>>
               /\ Standing # <<>> /\ Head(Standing) = GraphOf(t)
               /\ Stage = CASE at = "persist" -> "put" [] at = "settle" -> "settle" [] OTHER -> "apply"
               /\ Stage' = CASE next = "persist" -> "put" [] next = "settle" -> "settle" [] OTHER -> "apply"
    <2>1. pc[t] \in Critical /\ pc'[t] = next /\ pc'[t] \in Critical
      BY <1>1, <1>4 DEF TypeOK, Critical
    <2>2. /\ Line = <<t>> \o waiters /\ t \in Bound
          /\ waiters \in Seq(Tasks) /\ \A i \in DOMAIN waiters : waiters[i] \in Bound
      BY <2>1, LineType
    <2>3. Line' = Line
      BY <1>1, <1>4, <2>1, <2>2, HolderIsThen DEF Line
    <2>4. UNCHANGED <<Standing, Awaiting>>
      BY <1>1, <1>2, <1>4, <2>3, SameGraphs DEF Standing, Awaiting
    <2>5. Standing # <<>> /\ Head(Standing) = GraphOf(t)
      BY <2>2, GraphsOfFront DEF Standing
    <2>6. Stage = CASE at = "persist" -> "put" [] at = "settle" -> "settle" [] OTHER -> "apply"
      BY <1>1, <1>4, <2>1, StageOf
    <2>7. Stage' = CASE next = "persist" -> "put" [] next = "settle" -> "settle" [] OTHER -> "apply"
      <3>1. \A u \in Tasks : pc'[u] \in {"persist", "settle"} => u = t
        BY <1>1, <2>1 DEF IInv, ApplyExclusive, Critical, Applying
      <3> QED
        BY <1>1, <2>1, <3>1 DEF Stage
    <2> QED
      BY <2>4, <2>5, <2>6, <2>7
  <1>5. CASE Install(t)
    <2>1. /\ pc[t] = "validate" /\ pc' = [pc EXCEPT ![t] = "wire"]
          /\ UNCHANGED <<locked, waiters, aliases, fingerprint>>
      BY <1>5 DEF Install
    <2>2. UNCHANGED <<Standing, Awaiting, Stage>>
      BY <1>4, <2>1 DEF Applying
    <2> QED
      BY <1>1, <2>1, <2>2 DEF Reported, Queue!queueVars
  <1>6. CASE Wired(t)
    <2>1. /\ pc[t] = "wire" /\ pc' = [pc EXCEPT ![t] = "persist"]
          /\ fingerprint' = GraphOf(t)
          /\ UNCHANGED <<locked, waiters, aliases>>
      BY <1>6 DEF Wired
    <2>2. /\ UNCHANGED <<Standing, Awaiting>> /\ Standing # <<>> /\ Head(Standing) = GraphOf(t)
          /\ Stage = "apply" /\ Stage' = "put"
      BY <1>4, <2>1 DEF Applying
    <2>3. Queue!Apply
      BY <1>1, <2>1, <2>2 DEF Queue!Apply, Queue!Wired, Reported
    <2> QED
      BY <2>3 DEF Queue!Next
  <1>7. CASE Persist(t)
    <2>1. /\ pc[t] = "persist" /\ pc' = [pc EXCEPT ![t] = "settle"]
          /\ UNCHANGED <<locked, waiters, aliases, fingerprint>>
      BY <1>7 DEF Persist
    <2>2. UNCHANGED <<Standing, Awaiting>> /\ Stage = "put" /\ Stage' = "settle"
      BY <1>4, <2>1 DEF Applying
    <2>3. Queue!PutConfig
      BY <1>1, <2>1, <2>2 DEF Queue!PutConfig, Reported
    <2> QED
      BY <2>3 DEF Queue!Next
  <1>8. CASE Reject(t) \/ WireFails(t)
    <2>1. pc[t] \in {"validate", "wire"} /\ LeaveLine(t, "failed") /\ fingerprint' = fingerprint
      BY <1>8 DEF Reject, WireFails, Leave, busVars
    <2>2. Stage = "apply"
      BY <1>1, <2>1, StageOf DEF Critical, Applying
    <2>3. /\ Running' /\ Reported' = Reported
          /\ Standing # <<>> /\ Queue!Dequeue /\ Stage' = "apply"
      BY <2>1, LeaveDequeues DEF Applying, Reported
    <2>4. Queue!ApplyFails
      BY <1>1, <2>2, <2>3 DEF Queue!ApplyFails, Queue!Wired
    <2> QED
      BY <2>4 DEF Queue!Next
  <1>9. CASE Complete(t) \/ PutRaises(t)
    <2>1. pc[t] = "settle" /\ (\E phase : LeaveLine(t, phase)) /\ fingerprint' = fingerprint
      BY <1>9 DEF Complete, PutRaises, Leave, busVars
    <2>2. Stage = "settle"
      BY <1>1, <2>1, StageOf DEF Critical, Applying
    <2>3. Running' /\ Reported' = Reported /\ Queue!Dequeue /\ Stage' = "apply"
      BY <2>1, LeaveDequeues DEF Applying, Reported
    <2>4. Queue!Answer
      BY <1>1, <2>2, <2>3 DEF Queue!Answer
    <2> QED
      BY <2>4 DEF Queue!Next
  <1>10. CASE Unwound(t)
    BY <1>10 DEF Unwound, LInv, NoneUnwinds, Running
  <1>11. CASE EncodeFails(t)
    <2>1. pc[t] = "wire" /\ LeaveLine(t, "failed") /\ fingerprint' = GraphOf(t)
      BY <1>11 DEF EncodeFails
    <2>2. Stage = "apply"
      BY <1>1, <2>1, StageOf DEF Critical, Applying
    <2>3. /\ Running' /\ Reported' = Head(Standing)
          /\ Standing # <<>> /\ Queue!Dequeue /\ Stage' = "apply"
      BY <2>1, LeaveDequeues DEF Applying
    <2>4. Queue!InstallFails
      BY <1>1, <2>2, <2>3 DEF Queue!InstallFails, Queue!Wired
    <2> QED
      BY <2>4 DEF Queue!Next
  <1> QED
    BY <1>3, <1>5, <1>6, <1>7, <1>8, <1>9, <1>10, <1>11 DEF Worker

LEMMA StepQueues ==
  ASSUME LInv, LInv', [Next]_vars
  PROVE  [Queue!Next]_Queue!queueVars
  <1>1. CASE ~Running
    <2>1. ~Running'
      <3>1. CASE Submit
        BY <1>1, <3>1, SubmitPc DEF LInv, Running
      <3>2. ASSUME NEW t \in Tasks, Worker(t) PROVE life' = life
        BY <3>2 DEF Worker, Acquire, Reject, Install, WireFails, Wired,
          EncodeFails, Persist, Complete, PutRaises, Unwound, Leave, LeaveLine
      <3>3. ASSUME NEW p, Publish(p) \/ PublishFails(p) PROVE life' = life
        BY <3>3 DEF Publish, PublishFails
      <3>4. CASE StopBegin \/ StopGathered \/ StopClose
        BY <3>4 DEF StopBegin, StopGathered, StopClose, Running
      <3>5. CASE UNCHANGED vars
        BY <1>1, <3>5 DEF vars, Running
      <3> QED
        BY <1>1, <3>1, <3>2, <3>3, <3>4, <3>5 DEF Next, Running
    <2>2. Running' = Running
      BY <1>1, <2>1 DEF Running
    <2>3. UNCHANGED <<Reported, Standing, Awaiting, Stage>>
      BY <1>1, <2>1 DEF Reported, Standing, Awaiting, Stage
    <2> QED
      BY <2>2, <2>3 DEF Queue!queueVars
  <1>2. ASSUME Running, UNCHANGED <<life, deployVars, busVars>>
        PROVE  [Queue!Next]_Queue!queueVars
    <2>1. UNCHANGED <<life, reqFp, aliases, pc, locked, waiters, fingerprint>>
      BY <1>2 DEF deployVars, busVars
    <2>2. Line' = Line
      BY <2>1 DEF Line, Holder
    <2>3. GraphsOf(Line)' = GraphsOf(Line)
      BY <2>1, <2>2 DEF GraphsOf, GraphOf
    <2> QED
      BY <2>1, <2>3 DEF Running, Reported, Standing, Awaiting, Stage, Queue!queueVars
  <1>3. CASE Running /\ Submit
    BY <1>3, SubmitQueues DEF Submit
  <1>4. CASE Running /\ \E t \in Tasks : Worker(t)
    BY <1>4, WorkerQueues
  <1>5. CASE Running /\ \E p \in pubs : Publish(p) \/ PublishFails(p)
    BY <1>2, <1>5 DEF Publish, PublishFails
  <1>6. CASE Running /\ StopBegin
    <2>1. ~Running'
      BY <1>6 DEF StopBegin, Running
    <2>2. Queue!Leave
      BY <1>6, <2>1 DEF Queue!Leave, Reported, Standing, Awaiting, Stage
    <2> QED
      BY <2>2 DEF Queue!Next
  <1>7. CASE Running /\ (StopGathered \/ StopClose)
    BY <1>7 DEF StopGathered, StopClose, Running
  <1>8. CASE Running /\ UNCHANGED vars
    BY <1>2, <1>8 DEF vars
  <1> QED
    BY <1>1, <1>3, <1>4, <1>5, <1>6, <1>7, <1>8 DEF Next

LEMMA InitQueue == Init => Queue!Init
  <1> SUFFICES ASSUME Init PROVE Queue!Init
    OBVIOUS
  <1>1. Running /\ Reported = NoGraph /\ Awaiting = [g \in Graphs |-> {}] /\ Stage = "apply"
    BY DEF Init, Running, Reported, Awaiting, Stage
  <1>2. Line = <<>>
    BY DEF Init, Line
  <1>3. Standing = <<>>
    BY <1>1, <1>2 DEF Standing, GraphsOf
  <1> QED
    BY <1>1, <1>3 DEF Queue!Init

(***************************************************************************)
(* To those who deploy to it a running bus is one queue of graphs.  This   *)
(* is what DeployClient takes the service to be.                           *)
(***************************************************************************)
THEOREM TurnsKept == Spec => ServesInTurn
  <1>1. LInv /\ LInv' /\ [Next]_vars => [Queue!Next]_Queue!queueVars
    BY StepQueues
  <1> QED
    BY LinesKept, InitQueue, <1>1, PTL DEF Spec, Queue!Spec, ServesInTurn

-----------------------------------------------------------------------------
(* What the bus has as one queue of graphs *)

\* What is proved of every service that implements DeployQueue.
QueueProofs == INSTANCE DeployQueueProofs WITH
  up <- Running, fingerprint <- Reported, queue <- Standing, waiting <- Awaiting, stage <- Stage

(***************************************************************************)
(* On a running bus no graph has two turns, whoever waits for a graph has  *)
(* a turn of it ahead, and no turn is taken for nobody; from the moment a  *)
(* graph is installed until those who wait are told, the bus reports it    *)
(* (code: the in-flight entries and the lock of the apply worker).         *)
(***************************************************************************)
THEOREM BusKeepsLine == Spec => [](Queue!InLine /\ Queue!HeadIsReported)
  <1> USE DEF Queue!Wired, QueueProofs!Wired
  <1>1. Init => QueueProofs!QueueInv
    <2>1. Queue!Init => QueueProofs!Init
      BY DEF Queue!Init, QueueProofs!Init
    <2> QED
      BY <2>1, InitQueue, QueueProofs!InitQueueInv
  <1>2. [Queue!Next]_Queue!queueVars => [QueueProofs!Next]_QueueProofs!queueVars
    BY DEF Queue!Next, Queue!queueVars, Queue!Enqueue, Queue!Apply, Queue!ApplyFails, Queue!InstallFails, Queue!PutConfig,
           Queue!Answer, Queue!Leave, Queue!Restart, Queue!Dequeue,
           QueueProofs!Next, QueueProofs!queueVars, QueueProofs!Enqueue, QueueProofs!Apply,
           QueueProofs!ApplyFails, QueueProofs!InstallFails, QueueProofs!PutConfig, QueueProofs!Answer, QueueProofs!Leave,
           QueueProofs!Restart, QueueProofs!Dequeue
  <1>3. LInv /\ LInv' /\ QueueProofs!QueueInv /\ [Next]_vars => QueueProofs!QueueInv'
    BY <1>2, StepQueues, QueueProofs!StepQueueInv
  <1>4. QueueProofs!QueueInv => Queue!InLine /\ Queue!HeadIsReported
    BY DEF QueueProofs!QueueInv, QueueProofs!InLine, QueueProofs!HeadIsReported,
           Queue!InLine, Queue!HeadIsReported
  <1> QED
    BY LinesKept, <1>1, <1>3, <1>4, PTL DEF Spec

(***************************************************************************)
(* While the bus runs, whoever is owed an answer has a turn in the line,   *)
(* and the first task in the line can go on: no wakeup is lost and no      *)
(* request is left behind (code: submit_rungraph, the apply worker and its *)
(* asyncio.Lock).  What remains for EverySubmissionAnswered is that tasks  *)
(* that can go on do.                                                      *)
(***************************************************************************)
THEOREM TurnAlwaysComes == Spec => []TurnComes
  <1>1. ASSUME LInv, Queue!InLine PROVE TurnComes
    <2> SUFFICES ASSUME Running
                 PROVE  /\ \A r \in Owed : \E i \in DOMAIN Line : GraphOf(Line[i]) = reqFp[r]
                        /\ Line # <<>> => IF locked THEN pc[Line[1]] \in Applying
                                          ELSE pc[Line[1]] = "queued"
      BY DEF TurnComes
    <2>1. TypeOK /\ RequestsBound /\ ApplyExclusive /\ OwedIsInFlight /\ WaitersQueued /\ NoneUnwinds
      BY <1>1 DEF LInv, IInv, NInv
    <2>2. ASSUME NEW r \in Owed PROVE \E i \in DOMAIN Line : GraphOf(Line[i]) = reqFp[r]
      <3>1. r \in aliases[reqFp[r]]
        BY <2>1 DEF OwedIsInFlight, Running
      <3>2. reqFp[r] \in Graphs
        <4>1. r \in Reqs /\ final[r] < attempt[r] /\ final[r] \in Nat /\ attempt[r] \in Nat
          BY <2>1 DEF Owed, TypeOK
        <4>2. attempt[r] > 0
          BY <4>1
        <4> QED
          BY <2>1, <4>1, <4>2 DEF RequestsBound, TypeOK
      <3>3. PICK i \in DOMAIN Standing : Standing[i] = reqFp[r]
        BY <1>1, <3>1, <3>2 DEF Queue!InLine, Awaiting
      <3> QED
        BY <3>3 DEF Standing, GraphsOf
    <2>3. ASSUME Line # <<>>, locked PROVE pc[Line[1]] \in Applying
      <3>1. PICK t \in Tasks : pc[t] \in Critical
        BY <2>1, <2>3 DEF ApplyExclusive
      <3>2. pc[t] \in Applying
        BY <2>1, <3>1 DEF NoneUnwinds, Running, Critical
      <3>3. Line[1] = t
        <4>1. Line = <<t>> \o waiters /\ waiters \in Seq(Tasks)
          BY <1>1, <3>1, LineType
        <4> QED
          BY <4>1, FrontFacts
      <3> QED
        BY <3>2, <3>3
    <2>4. ASSUME Line # <<>>, ~locked PROVE pc[Line[1]] = "queued"
      <3>1. Line = waiters /\ waiters \in Seq(Tasks)
        BY <2>1, <2>4 DEF Line, TypeOK
      <3>2. 1 \in 1 .. Len(waiters)
        BY <2>4, <3>1
      <3> QED
        BY <2>1, <3>1, <3>2 DEF WaitersQueued
    <2> QED
      BY <2>2, <2>3, <2>4
  <1>2. LInv /\ Queue!InLine => TurnComes
    BY <1>1
  <1> QED
    BY LinesKept, BusKeepsLine, <1>2, PTL
=============================================================================
