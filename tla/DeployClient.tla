---------------------------- MODULE DeployClient ----------------------------
(***************************************************************************)
(* The editor's side of a deployment: deploy_runtime_graph, the task that  *)
(* waits for evidence that the graph was applied, the requests it repeats, *)
(* and the service at the other end, which may crash and come back as      *)
(* another instance.  The service is DeployQueue, which RungraphDeploy     *)
(* implements: graphs are applied one at a time in the order they were     *)
(* submitted, and everybody who waits for a graph is answered together.    *)
(*                                                                         *)
(* A call's request id is the call itself, a graph is its fingerprint.  A  *)
(* step of a call is what its coroutine runs between two awaits; a timer   *)
(* may strike at any time, so every timeout races the answer it waits for. *)
(* Of the statuses only "applied" moves a call: the others change the text *)
(* of the error it may end with.  had, late, last and borrowed are history *)
(* variables: the code does not keep them.                                 *)
(***************************************************************************)
EXTENDS Naturals, Sequences, FiniteSets

CONSTANTS
  Calls,       \* calls of deploy_runtime_graph, all to one service
  Graphs,      \* rungraphs, up to their fingerprint
  NoGraph,     \* the empty fingerprint
  Garbled,     \* graphs the service cannot decode
  Plans,       \* what each call deploys and whether it is forced, and the graph
               \* the service has from before
  MaxSends,    \* request_attempts
  MaxInst      \* bound: instances of the service, the last one never crashes

ASSUME NoGraphAssumption == NoGraph \notin Graphs
ASSUME GarbledAssumption == Garbled \subseteq Graphs
ASSUME PlansAssumption   == Plans \subseteq [want : [Calls -> Graphs], force : [Calls -> BOOLEAN],
                                      before : Graphs \cup {NoGraph}]
ASSUME SendsAssumption   == MaxSends \in Nat \ {0}
ASSUME InstAssumption    == MaxInst \in Nat \ {0}

VARIABLES
  pc,          \* where the coroutine of a call is
  want,        \* the graph it deploys
  force,       \* force_apply
  expect,      \* expected_runtime_instance_id; 0 for any
  sent,        \* requests it has made
  evidence,    \* its _wait_target_evidence task
  result,      \* what the call returned
  inbox,       \* set_rungraph requests on their way to the service
  mail,        \* instances whose "applied" status a call has yet to see
  config,      \* calls a retained config sample of their graph is on its way to
  reply,       \* calls whose status query was answered with their graph
  up,          \* the service runs
  inst,        \* its instance
  fingerprint, \* its _rungraph_fingerprint
  queue,       \* graphs being applied (the first) or waiting for the lock
  waiting,     \* the calls each graph in the queue will answer
  stage,       \* how far the first one is: "apply", "put" or "settle"
  had,         \* history: calls during which the service had their graph; the
               \* forced ones: during which the instance they probed applied it
  late,        \* history: forced calls that joined a graph already applied
  last,        \* history: the call made last, if no other was open then
  borrowed     \* history: calls content with a graph about to be replaced, or
               \* that joined an apply with another graph queued behind it

callVars    == <<pc, want, force, expect, sent, evidence, result>>
wireVars    == <<inbox, mail, config, reply>>
serviceVars == <<up, inst, fingerprint, queue, waiting, stage>>
history     == <<had, late, last, borrowed>>
vars        == <<callVars, wireVars, serviceVars, history>>

Service == INSTANCE DeployQueue WITH Reqs <- Calls

Instances == 1 .. MaxInst
Request   == [call : Calls, attempt : 1 .. MaxSends]

TypeOK ==
  /\ pc \in [Calls -> {"idle", "probe", "check", "send", "ack", "await", "done"}]
  /\ want \in [Calls -> Graphs]
  /\ force \in [Calls -> BOOLEAN]
  /\ expect \in [Calls -> 0 .. MaxInst]
  /\ sent \in [Calls -> 0 .. MaxSends]
  /\ evidence \in [Calls -> {"off", "starting", "watching", "found", "expired", "success", "failure"}]
  /\ result \in [Calls -> {"none", "success", "failure"}]
  /\ inbox \in Seq(Request)
  /\ mail \in [Calls -> SUBSET Instances]
  /\ config \in SUBSET Calls
  /\ reply \in SUBSET Calls
  /\ up \in BOOLEAN
  /\ inst \in Instances
  /\ fingerprint \in Graphs \cup {NoGraph}
  /\ queue \in Seq(Graphs)
  /\ waiting \in [Graphs -> SUBSET Calls]
  /\ stage \in {"apply", "put", "settle"}
  /\ had \in SUBSET Calls
  /\ late \in SUBSET Calls
  /\ last \in SUBSET Calls
  /\ borrowed \in SUBSET Calls

Init ==
  /\ pc = [c \in Calls |-> "idle"]
  /\ \E p \in Plans : want = p.want /\ force = p.force /\ fingerprint = p.before
  /\ expect = [c \in Calls |-> 0]
  /\ sent = [c \in Calls |-> 0]
  /\ evidence = [c \in Calls |-> "off"]
  /\ result = [c \in Calls |-> "none"]
  /\ inbox = <<>>
  /\ mail = [c \in Calls |-> {}]
  /\ config = {}
  /\ reply = {}
  /\ up = TRUE
  /\ inst = 1
  /\ queue = <<>>
  /\ waiting = [g \in Graphs |-> {}]
  /\ stage = "apply"
  /\ had = {}
  /\ late = {}
  /\ last = {}
  /\ borrowed = {}

-----------------------------------------------------------------------------
(* deploy_runtime_graph *)

Open(c) == pc[c] \notin {"idle", "done"}

\* The call returns: its evidence task and its watches end with it.
Return(c, answer) ==
  /\ pc' = [pc EXCEPT ![c] = "done"]
  /\ result' = [result EXCEPT ![c] = answer]
  /\ expect' = [expect EXCEPT ![c] = 0]
  /\ sent' = [sent EXCEPT ![c] = 0]
  /\ evidence' = [evidence EXCEPT ![c] = "off"]
  /\ mail' = [mail EXCEPT ![c] = {}]
  /\ config' = config \ {c}
  /\ reply' = reply \ {c}

Start(c) ==
  /\ pc[c] = "idle"
  /\ pc' = [pc EXCEPT ![c] = "probe"]
  /\ had' = IF ~force[c] /\ up /\ fingerprint = want[c] THEN had \cup {c} ELSE had
  /\ last' = IF \E d \in Calls : Open(d) THEN {} ELSE {c}
  /\ UNCHANGED <<want, force, expect, sent, evidence, result, wireVars, serviceVars, late, borrowed>>

\* The service answers a probe; only a forced call remembers which instance.
ProbeAnswered(c) ==
  /\ pc[c] = "probe"
  /\ up
  /\ expect' = [expect EXCEPT ![c] = IF force[c] THEN inst ELSE 0]
  /\ pc' = [pc EXCEPT ![c] = IF force[c] THEN "send" ELSE "check"]
  /\ evidence' = [evidence EXCEPT ![c] = IF force[c] THEN "starting" ELSE "off"]
  /\ UNCHANGED <<want, force, sent, result, wireVars, serviceVars, history>>

\* endpoint_ready_timeout_s is over.
ProbeTimesOut(c) ==
  /\ pc[c] = "probe"
  /\ Return(c, "failure")
  /\ UNCHANGED <<want, force, inbox, serviceVars, history>>

\* Requests and applies that will put another graph in place of the call's.
Displaced(c) ==
  \/ fingerprint # want[c]
  \/ \E i \in DOMAIN inbox : want[inbox[i].call] # want[c]
  \/ \E i \in DOMAIN queue : queue[i] # want[c]

\* The call is content with what it learns of the service's graph, which may
\* have gone since, or may be about to go.
Content(c) == borrowed' = IF Displaced(c) THEN borrowed \cup {c} ELSE borrowed

\* The status endpoint reported the target already: nothing is sent.
CheckFinds(c) ==
  /\ pc[c] = "check"
  /\ c \in reply
  /\ Return(c, "success")
  /\ Content(c)
  /\ UNCHANGED <<want, force, inbox, serviceVars, had, late, last>>

\* It reported another graph, or its answer does not come in time.
CheckMisses(c) ==
  /\ pc[c] = "check"
  /\ pc' = [pc EXCEPT ![c] = "send"]
  /\ evidence' = [evidence EXCEPT ![c] = "starting"]
  /\ reply' = reply \ {c}
  /\ UNCHANGED <<want, force, expect, sent, result, inbox, mail, config, serviceVars, history>>

\* The evidence task knows its result, but stops its watches before it ends.
Decided(c) == evidence[c] \in {"found", "expired"}
Ended(c)   == evidence[c] \in {"success", "failure"}

\* A request of the loop, which the wire may lose; it does not wait for the
\* watches longer than its own timeout.
Send(c, lost) ==
  /\ pc[c] = "send"
  /\ ~Ended(c)
  /\ sent' = [sent EXCEPT ![c] = @ + 1]
  /\ pc' = [pc EXCEPT ![c] = "ack"]
  /\ inbox' = IF lost \/ ~up THEN inbox
              ELSE Append(inbox, [call |-> c, attempt |-> sent'[c]])
  /\ UNCHANGED <<want, force, expect, evidence, result, mail, config, reply, serviceVars, history>>

\* Mistake: one attempt too many.
AckTimesOutOnceMore(c) ==
  /\ pc[c] = "ack"
  /\ pc' = [pc EXCEPT ![c] = IF sent[c] <= MaxSends THEN "send" ELSE "await"]
  /\ UNCHANGED <<want, force, expect, sent, evidence, result, wireVars, serviceVars, history>>

\* No acknowledgement within request_timeout_s: the request may have been
\* lost, be still on its way, or have been accepted.
AckTimesOut(c) ==
  /\ pc[c] = "ack"
  /\ pc' = [pc EXCEPT ![c] = IF sent[c] < MaxSends THEN "send" ELSE "await"]
  /\ UNCHANGED <<want, force, expect, sent, evidence, result, wireVars, serviceVars, history>>

\* The evidence task is done, and the coroutine looks at it.
Finish(c) ==
  /\ pc[c] \in {"send", "await"}
  /\ Ended(c)
  /\ Return(c, evidence[c])
  /\ UNCHANGED <<want, force, inbox, serviceVars, history>>

-----------------------------------------------------------------------------
(* _wait_target_evidence, a task of its own *)

Deciding(c) == Open(c) /\ evidence[c] = "watching"

\* Once the task has its result it takes no notice of what arrives.
Decides(c, answer) ==
  /\ evidence' = [evidence EXCEPT ![c] = answer]
  /\ mail' = [mail EXCEPT ![c] = {}]
  /\ config' = config \ {c}
  /\ reply' = reply \ {c}

\* The watches are declared; the status watch begins with retained samples.
Watch(c) ==
  /\ Open(c) /\ evidence[c] = "starting"
  /\ evidence' = [evidence EXCEPT ![c] = "watching"]
  /\ UNCHANGED <<pc, want, force, expect, sent, result, wireVars, serviceVars, history>>

\* Mistake: any instance's answer will do.
AnyInstance(c, i) == TRUE

Accepts(c, i) == expect[c] \in {0, i}

\* An "applied" status for the call's own request id.
StatusArrives(c, i) ==
  /\ Deciding(c)
  /\ i \in mail[c]
  /\ IF Accepts(c, i) THEN Decides(c, "found")
     ELSE mail' = [mail EXCEPT ![c] = @ \ {i}] /\ UNCHANGED <<evidence, config, reply>>
  /\ UNCHANGED <<pc, want, force, expect, sent, result, inbox, serviceVars, history>>

\* A retained config sample with the target's fingerprint, published by the
\* service for whoever asked for that graph.
ConfigArrives(c) ==
  /\ Deciding(c)
  /\ c \in config
  /\ Decides(c, "found")
  /\ Content(c)
  /\ UNCHANGED <<pc, want, force, expect, sent, result, inbox, serviceVars, had, late, last>>

\* The status endpoint is asked again and again, unless the call is forced, and
\* reported the target.
PollFinds(c) ==
  /\ Deciding(c)
  /\ c \in reply
  /\ Decides(c, "found")
  /\ Content(c)
  /\ UNCHANGED <<pc, want, force, expect, sent, result, inbox, serviceVars, had, late, last>>

\* Its answer does not come in time, and is dropped when it comes.
PollMisses(c) ==
  /\ Deciding(c)
  /\ c \in reply
  /\ reply' = reply \ {c}
  /\ UNCHANGED <<callVars, inbox, mail, config, serviceVars, history>>

\* Mistake: the task waits for a status for as long as it takes.
NoDeadline(c) == FALSE /\ UNCHANGED vars

\* apply_timeout_s is over, and the poll under way found nothing.
Deadline(c) ==
  /\ Deciding(c)
  /\ Decides(c, "expired")
  /\ UNCHANGED <<pc, want, force, expect, sent, result, inbox, serviceVars, history>>

\* The watches are stopped, and with that the task ends.  Until then the call
\* does not know, and may make one more request.
StopWatches(c) ==
  /\ Open(c) /\ Decided(c)
  /\ evidence' = [evidence EXCEPT ![c] = IF @ = "found" THEN "success" ELSE "failure"]
  /\ UNCHANGED <<pc, want, force, expect, sent, result, wireVars, serviceVars, history>>

-----------------------------------------------------------------------------
(* The service *)

\* It answers a status query of the call while it has the call's graph.  What
\* it answers otherwise moves no call.
StatusAnswered(c) ==
  /\ pc[c] = "check" \/ (Deciding(c) /\ ~force[c])
  /\ c \notin reply
  /\ up /\ fingerprint = want[c]
  /\ reply' = reply \cup {c}
  /\ UNCHANGED <<callVars, inbox, mail, config, serviceVars, history>>

\* "applied" is published under the request ids in S, and retained for a
\* watch that is declared later.
Applied(S) ==
  mail' = [c \in Calls |-> IF c \in S /\ Open(c) /\ ~Decided(c) /\ ~Ended(c)
                           THEN mail[c] \cup {inst} ELSE mail[c]]

\* Mistake: requests are handled in any order.
AnyRequest(m) ==
  \E i \in DOMAIN inbox :
    /\ m = inbox[i]
    /\ inbox' = SubSeq(inbox, 1, i - 1) \o SubSeq(inbox, i + 1, Len(inbox))

\* _pump_queryable takes one request after the other.
NextRequest(m) ==
  /\ inbox # <<>> /\ m = Head(inbox)
  /\ inbox' = Tail(inbox)

\* The reply reaches the call if it still waits for that attempt.
Hears(m) == pc[m.call] = "ack" /\ sent[m.call] = m.attempt

Acknowledge(m, heard) ==
  pc' = [pc EXCEPT ![m.call] = IF heard /\ Hears(m) THEN "await" ELSE @]

\* The request cannot be decoded: a call that hears of it gives up.
Refuse(m, heard) ==
  /\ up
  /\ NextRequest(m)
  /\ want[m.call] \in Garbled
  /\ IF heard /\ Hears(m) THEN Return(m.call, "failure")
     ELSE UNCHANGED <<pc, expect, sent, evidence, result, mail, config, reply>>
  /\ UNCHANGED <<want, force, serviceVars, history>>

\* submit_rungraph: the service has that graph already.
SubmitKnown(m, heard) ==
  /\ up
  /\ NextRequest(m)
  /\ want[m.call] \notin Garbled
  /\ ~force[m.call] /\ fingerprint = want[m.call]
  /\ Acknowledge(m, heard)
  /\ Applied({m.call})
  /\ borrowed' = IF \E i \in DOMAIN queue : queue[i] # want[m.call]
                 THEN borrowed \cup {m.call} ELSE borrowed
  /\ UNCHANGED <<want, force, expect, sent, evidence, result, config, reply, up, inst, fingerprint,
                 queue, waiting, stage, had, late, last>>

\* submit_rungraph: the graph is in flight, and the call joins it where it is in
\* the queue, or it goes to the end of the queue.
SubmitWaits(m, heard) ==
  LET c == m.call
      g == want[c]
  IN /\ NextRequest(m)
     /\ g \notin Garbled
     /\ force[c] \/ fingerprint # g
     /\ Acknowledge(m, heard)
     /\ Service!Enqueue(c, g)
     /\ late' = IF Service!Wired /\ Head(queue) = g THEN late \cup {c} ELSE late
     /\ borrowed' = IF queue'[Len(queue')] = g THEN borrowed ELSE borrowed \cup {c}
     /\ UNCHANGED <<want, force, expect, sent, evidence, result, mail, config, reply, inst, had, last>>

\* The service comes to have the graph at the head of the queue.
Reaches == had' = had \cup {c \in Calls : /\ Open(c) /\ want[c] = Head(queue)
                                          /\ force[c] => expect[c] = inst}

\* apply_rungraph returned: the fingerprint moves.
Apply ==
  /\ Service!Apply
  /\ Reaches
  /\ UNCHANGED <<callVars, wireVars, inst, late, last, borrowed>>

\* apply_rungraph raised: everybody who waits is told "failed".
ApplyFails ==
  /\ Service!ApplyFails
  /\ UNCHANGED <<callVars, wireVars, inst, history>>

\* The fingerprint moved, encoding the graph raised: everybody who waits is
\* told "failed" all the same.
InstallFails ==
  /\ Service!InstallFails
  /\ Reaches
  /\ UNCHANGED <<callVars, wireVars, inst, late, last, borrowed>>

\* The config sample is published; forced calls ignore it.
PutConfig ==
  /\ Service!PutConfig
  /\ config' = config \cup {c \in Calls : Deciding(c) /\ ~force[c] /\ want[c] = Head(queue)}
  /\ UNCHANGED <<callVars, inbox, mail, reply, inst, history>>

\* The put returned, or its failure was logged, and everybody who waits is told
\* "applied"; or it raised what is not caught, and they are told "failed".
Answer ==
  /\ Service!Answer
  /\ Applied(waiting[Head(queue)]) \/ mail' = mail
  /\ UNCHANGED <<callVars, inbox, config, reply, inst, history>>

\* The process dies with all it knew, the samples it retained for later
\* watches and the requests on their way to it included.
Crash ==
  /\ inst < MaxInst
  /\ Service!Leave
  /\ mail' = [c \in Calls |-> IF Deciding(c) THEN mail[c] ELSE {}]
  /\ inbox' = <<>>
  /\ last' = {}
  /\ UNCHANGED <<callVars, config, reply, inst, had, late, borrowed>>

\* It is started again, as another instance.
Restart ==
  /\ Service!Restart
  /\ inst' = inst + 1
  /\ UNCHANGED <<callVars, wireVars, history>>

Coroutine(c) ==
  \/ ProbeAnswered(c) \/ ProbeTimesOut(c) \/ CheckFinds(c) \/ CheckMisses(c)
  \/ \E lost \in BOOLEAN : Send(c, lost)
  \/ AckTimesOut(c) \/ Finish(c)

Evidence(c) ==
  \/ Watch(c) \/ ConfigArrives(c) \/ PollFinds(c) \/ PollMisses(c) \/ Deadline(c) \/ StopWatches(c)
  \/ \E i \in mail[c] : StatusArrives(c, i)

Handle ==
  \E i \in DOMAIN inbox, heard \in BOOLEAN :
    Refuse(inbox[i], heard) \/ SubmitKnown(inbox[i], heard) \/ SubmitWaits(inbox[i], heard)

Next ==
  \/ \E c \in Calls : Start(c) \/ Coroutine(c) \/ Evidence(c) \/ StatusAnswered(c)
  \/ Handle \/ Apply \/ ApplyFails \/ InstallFails \/ PutConfig \/ Answer
  \/ Crash \/ Restart

\* The editor's event loop runs its tasks and its timers strike.  Nothing is
\* assumed of the service or of the wire.  The deadline is looked at in every
\* round of the evidence loop, so polls that find nothing cannot put it off.
Fairness ==
  \A c \in Calls : WF_vars(Coroutine(c)) /\ WF_vars(Evidence(c)) /\ WF_vars(Deadline(c))

Spec     == Init /\ [][Next]_vars
FairSpec == Spec /\ Fairness

-----------------------------------------------------------------------------
(* Properties *)

\* A call that returns success is right about the service: during the call the
\* service had the graph.  Of a forced call, the instance that answered its
\* probe applied the graph during the call, whatever crashed, was repeated or
\* came late; unless the request joined an apply that was over but for the
\* answer, which is then answered as if it had been the call's own.
SuccessIsHonest ==
  \A c \in Calls : result[c] = "success" => c \in had \cup late

\* Requests of an earlier call, repeated or late, do not undo a later one: once
\* the call made last has succeeded the service has its graph, and keeps it
\* whatever is still under way.  Not so for a call that was content with the
\* fingerprint it was told of when that had gone, or another graph was under
\* way to take its place, or that joined the
\* apply of its graph in flight while another graph was queued behind it: the
\* service answers it and goes on to that graph.
LastCallWins ==
  \A c \in last : result[c] = "success" /\ c \notin borrowed => fingerprint = want[c]

\* Every call returns, even if the service never answers: a call is made
\* once, so that none stays open if again and again none is.
CallsEnd == []<>(\A c \in Calls : ~Open(c))
=============================================================================
