------------------------- MODULE DeployClientProofs -------------------------
(***************************************************************************)
(* Proofs about DeployClient, for any calls, graphs, plans, number of      *)
(* requests and number of crashes.                                         *)
(***************************************************************************)
EXTENDS DeployClient, SequenceTheorems, TLAPS

USE NoGraphAssumption, GarbledAssumption, PlansAssumption, SendsAssumption, InstAssumption

\* What is proved of every service that implements DeployQueue.
ServiceProofs == INSTANCE DeployQueueProofs WITH Reqs <- Calls

-----------------------------------------------------------------------------
(* Types *)

\* A call in the loop has requests left, and made none before it.
Counted ==
  \A c \in Calls :
    /\ pc[c] = "send" => sent[c] < MaxSends
    /\ pc[c] \in {"idle", "probe", "check"} => sent[c] = 0

\* A service that is down knows nothing, and comes back.
DownIsEmpty ==
  ~up => inst < MaxInst /\ fingerprint = NoGraph /\ ~Service!Wired

TInv == TypeOK /\ Counted /\ DownIsEmpty /\ Service!HeadIsReported

LEMMA NothingYet ==
  /\ <<>> \in Seq(Request) /\ <<>> \in Seq(Graphs)
  /\ [g \in Graphs |-> {}] \in [Graphs -> SUBSET Calls]
  OBVIOUS

LEMMA InitTInv == Init => TInv
  <1> SUFFICES ASSUME Init
               PROVE  TInv
    OBVIOUS
  <1>1. PICK p \in Plans : want = p.want /\ force = p.force /\ fingerprint = p.before
    BY DEF Init
  <1>2. p \in [want : [Calls -> Graphs], force : [Calls -> BOOLEAN], before : Graphs \cup {NoGraph}]
    BY <1>1
  <1>3. /\ want \in [Calls -> Graphs]
        /\ force \in [Calls -> BOOLEAN]
        /\ fingerprint \in Graphs \cup {NoGraph}
    BY <1>1, <1>2
  <1>4. 0 \in 0 .. MaxInst /\ 1 \in Instances /\ 0 \in 0 .. MaxSends
    BY DEF Instances
  <1>5. /\ mail \in [Calls -> SUBSET Instances]
        /\ waiting \in [Graphs -> SUBSET Calls]
    BY DEF Init
  <1>6. TypeOK
    BY <1>3, <1>4, <1>5, NothingYet DEF Init, TypeOK
  <1> QED
    BY <1>6 DEF Init, TInv, Counted, DownIsEmpty, Service!HeadIsReported, Service!Wired

LEMMA ReturnTInv ==
  ASSUME TInv, NEW c \in Calls, NEW answer \in {"success", "failure"},
         Return(c, answer), inbox' \in Seq(Request),
         UNCHANGED <<want, force, serviceVars, had, late, last>>, borrowed' \in SUBSET Calls
  PROVE  TInv'
  BY DEF TInv, TypeOK, Counted, DownIsEmpty, Service!HeadIsReported, Service!Wired, Return, serviceVars

LEMMA CoroutineTInv ==
  ASSUME TInv, NEW c \in Calls, Start(c) \/ Coroutine(c)
  PROVE  TInv'
  <1> USE DEF TInv, TypeOK, Counted, DownIsEmpty, Service!HeadIsReported, Service!Wired, callVars,
              wireVars, serviceVars, history, Instances
  <1>1. CASE Start(c)
    BY <1>1 DEF Start
  <1>2. CASE ProbeAnswered(c)
    BY <1>2 DEF ProbeAnswered
  <1>3. CASE ProbeTimesOut(c)
    BY <1>3, ReturnTInv DEF ProbeTimesOut
  <1>4. CASE CheckFinds(c)
    BY <1>4, ReturnTInv DEF CheckFinds, Content
  <1>5. CASE CheckMisses(c)
    BY <1>5 DEF CheckMisses
  <1>6. CASE \E lost \in BOOLEAN : Send(c, lost)
    <2>1. sent[c] + 1 \in 1 .. MaxSends /\ sent' = [sent EXCEPT ![c] = sent[c] + 1]
      BY <1>6 DEF Send
    <2>2. [call |-> c, attempt |-> sent'[c]] \in Request
      BY <2>1 DEF Request
    <2>3. inbox' \in Seq(Request)
      BY <1>6, <2>2 DEF Send
    <2> QED
      BY <1>6, <2>1, <2>3 DEF Send
  <1>7. CASE AckTimesOut(c)
    BY <1>7 DEF AckTimesOut
  <1>8. CASE Finish(c)
    BY <1>8, ReturnTInv DEF Finish, Ended
  <1> QED
    BY <1>1, <1>2, <1>3, <1>4, <1>5, <1>6, <1>7, <1>8 DEF Coroutine

LEMMA EvidenceTInv ==
  ASSUME TInv, NEW c \in Calls, Evidence(c) \/ StatusAnswered(c)
  PROVE  TInv'
  <1> USE DEF TInv, TypeOK, Counted, DownIsEmpty, Service!HeadIsReported, Service!Wired, callVars,
              wireVars, serviceVars, history
  <1>1. CASE Watch(c)
    BY <1>1 DEF Watch
  <1>2. CASE ConfigArrives(c)
    BY <1>2 DEF ConfigArrives, Decides, Content
  <1>3. CASE PollFinds(c)
    BY <1>3 DEF PollFinds, Decides, Content
  <1>4. CASE Deadline(c)
    BY <1>4 DEF Deadline, Decides
  <1>5. ASSUME NEW i \in mail[c], StatusArrives(c, i)
        PROVE  TInv'
    <2>1. CASE Accepts(c, i)
      BY <1>5, <2>1 DEF StatusArrives, Decides
    <2>2. CASE ~Accepts(c, i)
      <3>1. /\ mail' = [mail EXCEPT ![c] = @ \ {i}]
            /\ UNCHANGED <<callVars, inbox, config, reply, serviceVars, history>>
        BY <1>5, <2>2 DEF StatusArrives
      <3>2. mail' \in [Calls -> SUBSET Instances]
        BY <3>1
      <3> QED
        BY <3>1, <3>2
    <2> QED
      BY <2>1, <2>2
  <1>6. CASE PollMisses(c) \/ StatusAnswered(c)
    BY <1>6 DEF PollMisses, StatusAnswered
  <1>7. CASE StopWatches(c)
    BY <1>7 DEF StopWatches
  <1> QED
    BY <1>1, <1>2, <1>3, <1>4, <1>5, <1>6, <1>7 DEF Evidence

\* What a request does to the wire and to the call, whatever is done with it.
LEMMA RequestTypes ==
  ASSUME TInv, NEW i \in DOMAIN inbox, NextRequest(inbox[i])
  PROVE  /\ inbox[i].call \in Calls
         /\ inbox' \in Seq(Request)
         /\ \A k \in DOMAIN inbox' : k + 1 \in DOMAIN inbox /\ inbox'[k] = inbox[k + 1]
  <1>1. inbox \in Seq(Request) /\ inbox # <<>> /\ inbox' = Tail(inbox) /\ inbox[i] \in Request
    BY DEF TInv, TypeOK, NextRequest
  <1>2. /\ Tail(inbox) \in Seq(Request)
        /\ Len(Tail(inbox)) = Len(inbox) - 1
        /\ \A k \in 1 .. Len(Tail(inbox)) : Tail(inbox)[k] = inbox[k + 1]
    BY <1>1
  <1> QED
    BY <1>1, <1>2 DEF Request

LEMMA AppliedTypes ==
  ASSUME TInv, NEW S, Applied(S)
  PROVE  mail' \in [Calls -> SUBSET Instances]
  BY DEF TInv, TypeOK, Applied

LEMMA HandleTInv ==
  ASSUME TInv, NEW i \in DOMAIN inbox, NEW heard \in BOOLEAN,
         Refuse(inbox[i], heard) \/ SubmitKnown(inbox[i], heard) \/ SubmitWaits(inbox[i], heard)
  PROVE  TInv'
  <1> USE DEF TInv, TypeOK, Counted, DownIsEmpty, Service!HeadIsReported, Service!Wired,
              serviceVars, history
  <1> DEFINE m == inbox[i]
  <1>1. NextRequest(m)
    BY DEF Refuse, SubmitKnown, SubmitWaits, Service!Enqueue
  <1>2. m.call \in Calls /\ inbox' \in Seq(Request)
    BY <1>1, RequestTypes
  <1>3. CASE Refuse(m, heard)
    BY <1>2, <1>3, ReturnTInv DEF Refuse
  <1>4. CASE SubmitKnown(m, heard)
    <2>1. mail' \in [Calls -> SUBSET Instances]
      BY <1>4, AppliedTypes DEF SubmitKnown
    <2> QED
      BY <1>2, <1>4, <2>1 DEF SubmitKnown, Acknowledge, Hears
  <1>5. CASE SubmitWaits(m, heard)
    <2>1. want[m.call] \in Graphs
      BY <1>2
    <2>2. queue' \in Seq(Graphs) /\ (queue # <<>> => queue' # <<>> /\ Head(queue') = Head(queue))
      <3>1. queue \in Seq(Graphs) /\ queue' \in {queue, Append(queue, want[m.call])}
        BY <1>5 DEF SubmitWaits, Service!Enqueue
      <3> QED
        BY <2>1, <3>1, ServiceProofs!AppendFacts
    <2> QED
      BY <1>2, <1>5, <2>1, <2>2 DEF SubmitWaits, Service!Enqueue, Acknowledge, Hears
  <1> QED
    BY <1>3, <1>4, <1>5

LEMMA ServiceTInv ==
  ASSUME TInv, Apply \/ ApplyFails \/ InstallFails \/ PutConfig \/ Answer \/ Crash \/ Restart
  PROVE  TInv'
  <1> USE DEF TInv, TypeOK, Counted, DownIsEmpty, Service!HeadIsReported, Service!Wired, callVars,
              wireVars, serviceVars, history, Instances
  <1>1. queue # <<>> => Head(queue) \in Graphs /\ Tail(queue) \in Seq(Graphs)
    OBVIOUS
  <1>2. CASE Apply
    BY <1>1, <1>2 DEF Apply, Reaches, Service!Apply
  <1>3. CASE ApplyFails
    BY <1>1, <1>3 DEF ApplyFails, Service!ApplyFails, Service!Dequeue
  <1>8. CASE InstallFails
    BY <1>1, <1>8 DEF InstallFails, Reaches, Service!InstallFails, Service!Dequeue
  <1>4. CASE PutConfig
    BY <1>4 DEF PutConfig, Service!PutConfig
  <1>5. CASE Answer
    <2>1. mail' \in [Calls -> SUBSET Instances]
      BY <1>5, AppliedTypes DEF Answer, Service!Answer, Service!Dequeue
    <2> QED
      BY <1>1, <1>5, <2>1 DEF Answer, Service!Answer, Service!Dequeue
  <1>6. CASE Crash
    BY <1>6, NothingYet DEF Crash, Service!Leave
  <1>7. CASE Restart
    BY <1>7 DEF Restart, Service!Restart
  <1> QED
    BY <1>2, <1>3, <1>4, <1>5, <1>6, <1>7, <1>8

LEMMA StepTInv == TInv /\ [Next]_vars => TInv'
  <1>1. TInv /\ UNCHANGED vars => TInv'
    BY DEF vars, callVars, wireVars, serviceVars, history, TInv, TypeOK, Counted, DownIsEmpty,
           Service!HeadIsReported, Service!Wired
  <1> QED
    BY <1>1, CoroutineTInv, EvidenceTInv, HandleTInv, ServiceTInv DEF Next, Handle

\* Every variable keeps its type, and no call makes more requests than it may.
THEOREM TypeCorrect == Spec => []TypeOK
  <1>1. TInv => TypeOK
    BY DEF TInv
  <1> QED
    BY <1>1, InitTInv, StepTInv, PTL DEF Spec

-----------------------------------------------------------------------------
(* Success is honest *)

Requested(c) ==
  (\E i \in DOMAIN inbox : inbox[i].call = c) \/ (\E g \in Graphs : c \in waiting[g])

Right(c) == c \in had \cup late

\* How far a call has come says what may be known of it.
Known(c) ==
  /\ pc[c] \in {"idle", "probe"} => evidence[c] = "off" /\ mail[c] = {} /\ ~Requested(c)
  /\ pc[c] = "check" => ~force[c]
  /\ force[c] /\ pc[c] \in {"send", "ack", "await"} => expect[c] # 0
  /\ \A g \in Graphs : c \in waiting[g] => want[c] = g

\* What a call sees, may see or has returned is right.
Sound(c) ==
  /\ ~force[c] /\ Open(c) /\ up /\ fingerprint = want[c] => c \in had
  /\ Service!Wired /\ Open(c) /\ c \in waiting[Head(queue)] /\ Accepts(c, inst) => Right(c)
  /\ \A i \in mail[c] : Open(c) /\ Accepts(c, i) => Right(c)
  /\ c \in config \cup reply => Right(c)
  /\ evidence[c] \in {"found", "success"} => Right(c)
  /\ result[c] = "success" => Right(c)

HInv == \A c \in Calls : Known(c) /\ Sound(c)

LEMMA InitHInv == Init => HInv
  BY DEF Init, HInv, Known, Sound, Requested, Open

LEMMA ReturnHInv ==
  ASSUME TInv, HInv, NEW c \in Calls, NEW answer \in {"success", "failure"},
         Return(c, answer), answer = "success" => Right(c),
         \A d \in Calls : Requested(d)' => Requested(d),
         UNCHANGED <<want, force, serviceVars, had, late>>
  PROVE  HInv'
  <1> USE DEF TInv, TypeOK, Return, serviceVars, Right
  <1> SUFFICES ASSUME NEW d \in Calls
               PROVE  Known(d)' /\ Sound(d)'
    BY DEF HInv
  <1>1. Known(d) /\ Sound(d)
    BY DEF HInv
  <1>2. CASE d = c
    BY <1>1, <1>2 DEF Known, Sound, Open, Accepts, Service!Wired
  <1>3. CASE d # c
    <2>1. /\ pc'[d] = pc[d] /\ result'[d] = result[d] /\ expect'[d] = expect[d]
          /\ evidence'[d] = evidence[d] /\ mail'[d] = mail[d]
          /\ d \in config' <=> d \in config
          /\ d \in reply' <=> d \in reply
      BY <1>3
    <2> QED
      BY <1>1, <2>1 DEF Known, Sound, Open, Accepts, Service!Wired
  <1> QED
    BY <1>2, <1>3

LEMMA CoroutineHInv ==
  ASSUME TInv, HInv, NEW c \in Calls, Start(c) \/ Coroutine(c)
  PROVE  HInv'
  <1> USE DEF TInv, TypeOK, callVars, wireVars, serviceVars, history
  <1>0. Known(c) /\ Sound(c)
    BY DEF HInv
  <1>1. CASE Start(c)
    <2> SUFFICES ASSUME NEW d \in Calls
                 PROVE  Known(d)' /\ Sound(d)'
      BY DEF HInv
    <2>1. Known(d) /\ Sound(d)
      BY DEF HInv
    <2>2. had \subseteq had' /\ (Requested(d)' <=> Requested(d))
      BY <1>1 DEF Start, Requested
    <2>3. CASE d = c
      <3>1. mail[c] = {} /\ ~Requested(c) /\ evidence[c] = "off"
        BY <1>1, <2>1, <2>3 DEF Start, Known
      <3>2. Service!Wired => Head(queue) \in Graphs
        BY DEF TInv, Service!HeadIsReported, Service!Wired
      <3>3. Service!Wired => c \notin waiting[Head(queue)]
        BY <3>1, <3>2 DEF Requested
      <3> QED
        BY <1>1, <2>1, <2>2, <2>3, <3>1, <3>3 DEF Start, Known, Sound, Open, Accepts, Service!Wired, Right
    <2>4. CASE d # c
      BY <1>1, <2>1, <2>2, <2>4 DEF Start, Known, Sound, Open, Accepts, Service!Wired, Right
    <2> QED
      BY <2>3, <2>4
  <1>2. CASE ProbeAnswered(c)
    <2>1. inst # 0 /\ (force[c] => expect'[c] = inst)
      BY <1>2 DEF ProbeAnswered, Instances
    <2> SUFFICES ASSUME NEW d \in Calls
                 PROVE  Known(d)' /\ Sound(d)'
      BY DEF HInv
    <2>2. Known(d) /\ Sound(d)
      BY DEF HInv
    <2>3. Requested(d)' <=> Requested(d)
      BY <1>2 DEF ProbeAnswered, Requested
    <2>4. CASE d = c
      <3>1. mail'[c] = {} /\ ~Requested(c) /\ evidence'[c] \in {"off", "starting"}
        BY <1>2, <2>2, <2>4 DEF ProbeAnswered, Known
      <3>2. Service!Wired => Head(queue) \in Graphs
        BY DEF TInv, Service!HeadIsReported, Service!Wired
      <3>3. Service!Wired => c \notin waiting[Head(queue)]
        BY <3>1, <3>2 DEF Requested
      <3> QED
        BY <1>2, <2>1, <2>2, <2>3, <2>4, <3>1, <3>3
           DEF ProbeAnswered, Known, Sound, Open, Accepts, Service!Wired, Right
    <2>5. CASE d # c
      BY <1>2, <2>2, <2>3, <2>5 DEF ProbeAnswered, Known, Sound, Open, Accepts, Service!Wired, Right
    <2> QED
      BY <2>4, <2>5
  <1>3. CASE ProbeTimesOut(c)
    BY <1>3, ReturnHInv DEF ProbeTimesOut, Requested
  <1>4. CASE CheckFinds(c)
    BY <1>0, <1>4, ReturnHInv DEF CheckFinds, Known, Sound, Right, Open, Requested
  <1>5. CASE CheckMisses(c)
    BY <1>5 DEF CheckMisses, HInv, Known, Sound, Open, Accepts, Service!Wired, Right, Requested
  <1>6. ASSUME NEW lost \in BOOLEAN, Send(c, lost)
        PROVE  HInv'
    <2>1. \A d \in Calls \ {c} : Requested(d)' => Requested(d)
      BY <1>6 DEF Send, Requested
    <2> QED
      BY <1>6, <2>1 DEF Send, HInv, Known, Sound, Open, Accepts, Service!Wired, Right
  <1>7. CASE AckTimesOut(c)
    BY <1>7 DEF AckTimesOut, HInv, Known, Sound, Open, Accepts, Service!Wired, Right, Requested
  <1>8. CASE Finish(c)
    <2>1. evidence[c] \in {"success", "failure"} /\ Return(c, evidence[c])
      BY <1>8 DEF Finish, Ended
    <2>2. evidence[c] = "success" => Right(c)
      BY <1>0 DEF Sound
    <2>3. /\ \A d \in Calls : Requested(d)' => Requested(d)
          /\ UNCHANGED <<want, force, serviceVars, had, late>>
      BY <1>8 DEF Finish, Requested
    <2> QED
      BY <2>1, <2>2, <2>3, ReturnHInv
  <1> QED
    BY <1>1, <1>2, <1>3, <1>4, <1>5, <1>6, <1>7, <1>8 DEF Coroutine

LEMMA EvidenceHInv ==
  ASSUME TInv, HInv, NEW c \in Calls, Evidence(c) \/ StatusAnswered(c)
  PROVE  HInv'
  <1> USE DEF TInv, TypeOK, callVars, wireVars, serviceVars, history,
              HInv, Known, Sound, Open, Accepts, Service!Wired, Right, Requested, Deciding
  <1>1. CASE Watch(c)
    BY <1>1 DEF Watch
  <1>2. CASE ConfigArrives(c)
    BY <1>2 DEF ConfigArrives, Decides
  <1>3. CASE PollFinds(c)
    BY <1>3 DEF PollFinds, Decides
  <1>4. CASE Deadline(c)
    BY <1>4 DEF Deadline, Decides
  <1>5. ASSUME NEW i \in mail[c], StatusArrives(c, i)
        PROVE  HInv'
    <2>1. /\ UNCHANGED <<pc, want, force, expect, sent, result, inbox, serviceVars, history>>
          /\ config' \subseteq config /\ reply' \subseteq reply
          /\ \A d \in Calls : mail'[d] \subseteq mail[d]
          /\ \A d \in Calls : evidence'[d] = evidence[d] \/ (d = c /\ Accepts(c, i) /\ evidence'[c] = "found")
      <3>1. CASE Accepts(c, i)
        BY <1>5, <3>1 DEF StatusArrives, Decides
      <3>2. CASE ~Accepts(c, i)
        <4>1. /\ mail' = [mail EXCEPT ![c] = @ \ {i}] /\ UNCHANGED <<evidence, config, reply>>
              /\ UNCHANGED <<pc, want, force, expect, sent, result, inbox, serviceVars, history>>
          BY <1>5, <3>2 DEF StatusArrives
        <4>2. \A d \in Calls : mail'[d] \subseteq mail[d]
          BY <4>1
        <4> QED
          BY <4>1, <4>2
      <3> QED
        BY <3>1, <3>2
    <2>2. Deciding(c)
      BY <1>5 DEF StatusArrives
    <2> QED
      BY <2>1, <2>2
  <1>6. CASE PollMisses(c)
    BY <1>6 DEF PollMisses
  <1>7. CASE StopWatches(c)
    BY <1>7 DEF StopWatches, Decided
  <1>8. CASE StatusAnswered(c)
    BY <1>8 DEF StatusAnswered
  <1> QED
    BY <1>1, <1>2, <1>3, <1>4, <1>5, <1>6, <1>7, <1>8 DEF Evidence

LEMMA AcknowledgeFacts ==
  ASSUME TInv, NEW m \in Request, NEW heard \in BOOLEAN, Acknowledge(m, heard),
         NEW d \in Calls
  PROVE  /\ Open(d)' <=> Open(d)
         /\ pc'[d] # pc[d] => pc[d] = "ack" /\ pc'[d] = "await"
  BY DEF TInv, TypeOK, Acknowledge, Hears, Open, Request

LEMMA HandleHInv ==
  ASSUME TInv, HInv, NEW i \in DOMAIN inbox, NEW heard \in BOOLEAN,
         Refuse(inbox[i], heard) \/ SubmitKnown(inbox[i], heard) \/ SubmitWaits(inbox[i], heard)
  PROVE  HInv'
  <1> DEFINE m == inbox[i]
  <1> DEFINE c == m.call
  <1>1. NextRequest(m)
    BY DEF Refuse, SubmitKnown, SubmitWaits, Service!Enqueue
  <1>2. m \in Request /\ c \in Calls /\ Requested(c)
    <2>1. m \in Request
      BY DEF TInv, TypeOK
    <2> QED
      BY <2>1 DEF Request, Requested
  <1>3. \A d \in Calls : (\E k \in DOMAIN inbox' : inbox'[k].call = d)
                            => \E k \in DOMAIN inbox : inbox[k].call = d
    BY <1>1, RequestTypes
  <1>4. \A d \in Calls : Known(d) /\ Sound(d)
    BY DEF HInv
  <1>5. pc[c] \notin {"idle", "probe"}
    BY <1>2, <1>4 DEF Known
  <1>6. CASE Refuse(m, heard)
    <2>1. \A d \in Calls : Requested(d)' => Requested(d)
      BY <1>3, <1>6 DEF Refuse, Requested, serviceVars
    <2>2. CASE heard /\ Hears(m)
      BY <1>2, <1>6, <2>1, <2>2, ReturnHInv DEF Refuse, history
    <2>3. CASE ~(heard /\ Hears(m))
      BY <1>4, <1>6, <2>1, <2>3
         DEF Refuse, serviceVars, history, HInv, Known, Sound, Open, Accepts, Service!Wired, Right
    <2> QED
      BY <2>2, <2>3
  <1>7. CASE SubmitKnown(m, heard)
    <2>1. \A d \in Calls : Requested(d)' => Requested(d)
      BY <1>3, <1>7 DEF SubmitKnown, Requested
    <2>2. Open(c) => c \in had
      BY <1>2, <1>4, <1>7 DEF SubmitKnown, Sound
    <2>3. \A d \in Calls : mail'[d] = mail[d] \/ (d = c /\ Open(c))
      BY <1>7 DEF SubmitKnown, Applied
    <2> SUFFICES ASSUME NEW d \in Calls
                 PROVE  Known(d)' /\ Sound(d)'
      BY DEF HInv
    <2>4. Acknowledge(m, heard)
      BY <1>7 DEF SubmitKnown
    <2>5. (Open(d)' <=> Open(d)) /\ (pc'[d] # pc[d] => pc[d] = "ack" /\ pc'[d] = "await")
      BY <1>2, <2>4, AcknowledgeFacts
    <2>6. Known(d)'
      BY <1>4, <1>5, <1>7, <2>1, <2>3, <2>5 DEF SubmitKnown, Known
    <2>7. Sound(d)'
      BY <1>4, <1>7, <2>2, <2>3, <2>5 DEF SubmitKnown, Sound, Accepts, Service!Wired, Right
    <2> QED
      BY <2>6, <2>7
  <1>8. CASE SubmitWaits(m, heard)
    <2> SUFFICES ASSUME NEW d \in Calls
                 PROVE  Known(d)' /\ Sound(d)'
      BY DEF HInv
    <2>1. Acknowledge(m, heard)
      BY <1>8 DEF SubmitWaits, Service!Enqueue
    <2>2. (Open(d)' <=> Open(d)) /\ (pc'[d] # pc[d] => pc[d] = "ack" /\ pc'[d] = "await")
      BY <1>2, <2>1, AcknowledgeFacts
    <2>3. want[c] \in Graphs /\ waiting \in [Graphs -> SUBSET Calls]
      BY <1>2 DEF TInv, TypeOK
    <2>4. \A g \in Graphs : waiting'[g] = IF g = want[c] THEN waiting[g] \cup {c} ELSE waiting[g]
      BY <1>8, <2>3 DEF SubmitWaits, Service!Enqueue
    <2>5. Service!Wired => queue # <<>> /\ Head(queue') = Head(queue) /\ Head(queue) \in Graphs
      <3>1. queue \in Seq(Graphs) /\ (Service!Wired => queue # <<>>)
        BY DEF TInv, TypeOK, Service!HeadIsReported, Service!Wired
      <3>2. queue' \in {queue, Append(queue, want[c])}
        BY <1>8 DEF SubmitWaits, Service!Enqueue
      <3> QED
        BY <2>3, <3>1, <3>2, ServiceProofs!AppendFacts
    <2>6. Requested(d)' => Requested(d) \/ d = c
      <3>1. \A g \in Graphs : d \in waiting'[g] => d \in waiting[g] \/ d = c
        BY <2>4
      <3> QED
        BY <1>3, <3>1 DEF Requested
    <2>7. Known(d)'
      BY <1>4, <1>5, <1>8, <2>2, <2>3, <2>4, <2>6 DEF SubmitWaits, Service!Enqueue, Known
    <2>8. Service!Wired /\ c \in waiting'[Head(queue)] => c \in waiting[Head(queue)] \/ c \in late'
      BY <1>8, <2>4, <2>5 DEF SubmitWaits, Service!Enqueue
    <2>9. late \subseteq late'
      BY <1>8 DEF SubmitWaits, Service!Enqueue
    <2>10. Sound(d)'
      <3>1. UNCHANGED <<up, fingerprint, stage, inst, want, force, expect, mail, config, reply,
                        evidence, result, had>>
        BY <1>8 DEF SubmitWaits, Service!Enqueue
      <3>2. Right(d) => Right(d)'
        BY <2>9, <3>1 DEF Right
      <3>3. \A n : Accepts(d, n)' <=> Accepts(d, n)
        BY <3>1 DEF Accepts
      <3>4. ASSUME Service!Wired', Open(d)', d \in waiting'[Head(queue')], Accepts(d, inst)'
            PROVE  Right(d)'
        <4>1. Service!Wired /\ Open(d) /\ Accepts(d, inst)
          BY <2>2, <3>1, <3>3, <3>4 DEF Service!Wired
        <4>2. d \in waiting[Head(queue)] \/ (d = c /\ c \in waiting'[Head(queue)])
          BY <2>4, <2>5, <3>4, <4>1
        <4>3. d \in waiting[Head(queue)] \/ d \in late'
          BY <2>8, <4>1, <4>2
        <4> QED
          BY <1>4, <3>2, <4>1, <4>3 DEF Sound, Right
      <3> QED
        BY <1>4, <2>2, <3>1, <3>2, <3>3, <3>4 DEF Sound
    <2> QED
      BY <2>7, <2>10
  <1> QED
    BY <1>6, <1>7, <1>8

LEMMA ServiceHInv ==
  ASSUME TInv, HInv, Apply \/ ApplyFails \/ InstallFails \/ PutConfig \/ Answer \/ Crash \/ Restart
  PROVE  HInv'
  <1> USE DEF callVars, wireVars, serviceVars, history
  <1> SUFFICES ASSUME NEW c \in Calls
               PROVE  Known(c)' /\ Sound(c)'
    BY DEF HInv
  <1>1. Known(c) /\ Sound(c)
    BY DEF HInv
  <1>2. /\ queue # <<>> => Head(queue) \in Graphs
        /\ waiting \in [Graphs -> SUBSET Calls]
        /\ mail \in [Calls -> SUBSET Instances]
        /\ want[c] \in Graphs /\ want[c] # NoGraph
        /\ ~up => fingerprint = NoGraph /\ ~Service!Wired
        /\ Service!Wired => queue # <<>> /\ fingerprint = Head(queue) /\ up
    BY DEF TInv, TypeOK, DownIsEmpty, Service!HeadIsReported, Service!Wired
  <1>3. CASE Apply
    <2>1. Known(c)'
      BY <1>1, <1>3 DEF Apply, Service!Apply, Known, Requested
    <2>2. Open(c) /\ want[c] = Head(queue) /\ (force[c] => expect[c] = inst) => c \in had'
      BY <1>3 DEF Apply, Reaches
    <2>3. had \subseteq had'
      BY <1>3 DEF Apply, Reaches
    <2>4. Open(c) /\ c \in waiting[Head(queue)] /\ Accepts(c, inst) => c \in had'
      <3>1. SUFFICES ASSUME Open(c), c \in waiting[Head(queue)], Accepts(c, inst)
                     PROVE  want[c] = Head(queue) /\ (force[c] => expect[c] = inst)
        BY <2>2
      <3>2. Head(queue) \in Graphs /\ want[c] = Head(queue)
        BY <1>1, <1>2, <1>3, <3>1 DEF Apply, Service!Apply, Known
      <3>3. Requested(c)
        BY <3>1, <3>2 DEF Requested
      <3>4. pc[c] \in {"check", "send", "ack", "await"}
        BY <1>1, <3>1, <3>3 DEF Known, Open, TInv, TypeOK
      <3> QED
        BY <1>1, <3>1, <3>2, <3>4 DEF Known, Accepts, Service!Wired
    <2> QED
      BY <1>1, <1>3, <2>1, <2>2, <2>3, <2>4 DEF Apply, Service!Apply, Sound, Open, Accepts,
                                                Service!Wired, Right
  <1>4. CASE ApplyFails
    <2>1. \A g \in Graphs : waiting'[g] \subseteq waiting[g]
      BY <1>2, <1>4 DEF ApplyFails, Service!ApplyFails, Service!Dequeue
    <2> QED
      BY <1>1, <1>2, <1>4, <2>1 DEF ApplyFails, Service!ApplyFails, Service!Dequeue, Known, Sound,
                                    Open, Accepts, Service!Wired, Right, Requested
  <1>5. CASE PutConfig
    <2>1. c \in config' => Right(c)
      BY <1>1, <1>2, <1>5 DEF PutConfig, Service!PutConfig, Sound, Right, Deciding, Service!Wired
    <2>2. Service!Wired' /\ Service!Wired
      BY <1>5 DEF PutConfig, Service!PutConfig, Service!Wired
    <2> QED
      BY <1>1, <1>5, <2>1, <2>2 DEF PutConfig, Service!PutConfig, Known, Sound, Open, Accepts,
                                    Right, Requested
  <1>6. CASE Answer
    <2>1. \A g \in Graphs : waiting'[g] \subseteq waiting[g]
      BY <1>2, <1>6 DEF Answer, Service!Answer, Service!Dequeue
    <2>2. mail'[c] = mail[c] \/ (mail'[c] = mail[c] \cup {inst} /\ c \in waiting[Head(queue)] /\ Open(c))
      BY <1>6 DEF Answer, Service!Answer, Service!Dequeue, Applied
    <2>3. c \in waiting[Head(queue)] => Requested(c)
      BY <1>2, <1>6 DEF Answer, Service!Answer, Service!Dequeue, Requested, Service!Wired
    <2>5. Known(c)'
      BY <1>1, <1>6, <2>1, <2>2, <2>3 DEF Answer, Service!Answer, Service!Dequeue, Known, Requested
    <2>6. Sound(c)'
      BY <1>1, <1>2, <1>6, <2>2 DEF Answer, Service!Answer, Service!Dequeue, Sound, Open, Accepts,
                                    Service!Wired, Right
    <2> QED
      BY <2>5, <2>6
  <1>7. CASE Crash
    <2>1. mail'[c] \subseteq mail[c] /\ ~Requested(c)'
      BY <1>2, <1>7 DEF Crash, Service!Leave, Requested
    <2> QED
      BY <1>1, <1>7, <2>1 DEF Crash, Service!Leave, Known, Sound, Open, Accepts, Service!Wired, Right
  <1>8. CASE Restart
    BY <1>1, <1>2, <1>8 DEF Restart, Service!Restart, Known, Sound, Open, Accepts, Service!Wired,
                            Right, Requested
  <1>9. CASE InstallFails
    <2>1. /\ \A g \in Graphs : waiting'[g] \subseteq waiting[g]
          /\ fingerprint' = Head(queue) /\ ~Service!Wired'
          /\ UNCHANGED <<callVars, wireVars, inst, late, last, borrowed>>
      BY <1>2, <1>9 DEF InstallFails, Service!InstallFails, Service!Dequeue, Service!Wired
    <2>2. had \subseteq had' /\ (Open(c) /\ want[c] = Head(queue) /\ ~force[c] => c \in had')
      BY <1>9 DEF InstallFails, Reaches
    <2>3. Known(c)'
      BY <1>1, <2>1 DEF Known, Requested
    <2> QED
      BY <1>1, <2>1, <2>2, <2>3 DEF Sound, Open, Accepts, Right
  <1> QED
    BY <1>3, <1>4, <1>5, <1>6, <1>7, <1>8, <1>9

LEMMA StepHInv == TInv /\ HInv /\ [Next]_vars => HInv'
  <1>1. HInv /\ UNCHANGED vars => HInv'
    BY DEF vars, callVars, wireVars, serviceVars, history, HInv, Known, Sound, Open, Accepts,
           Service!Wired,
           Right, Requested
  <1> QED
    BY <1>1, CoroutineHInv, EvidenceHInv, HandleHInv, ServiceHInv DEF Next, Handle

\* No call returns success that the service did not earn during the call,
\* whatever is lost, repeated, late or restarted.
THEOREM SuccessAlwaysHonest == Spec => []SuccessIsHonest
  <1>1. HInv => SuccessIsHonest
    BY DEF HInv, Sound, Right, SuccessIsHonest
  <1> QED
    BY <1>1, InitTInv, StepTInv, InitHInv, StepHInv, PTL DEF Spec


-----------------------------------------------------------------------------
(* The last call wins *)

\* Only a call that has returned has a result.
Unreturned == \A c \in Calls : pc[c] # "done" => result[c] = "none"

\* All requests on their way are the call's own.
OnlyMine(c) == \A i \in DOMAIN inbox : inbox[i].call = c

\* Nothing under way will put another graph in place of the call's.
Settled(c) == ~Displaced(c)

Convinced(c) == mail[c] # {} \/ evidence[c] \in {"found", "success"} \/ result[c] = "success"

\* What makes a call the last one: nobody else is active, nothing is behind its
\* own requests, no graph is queued behind its own, and what convinces it lasts.
Latest(c) ==
  /\ pc[c] # "idle"
  /\ \A d \in Calls : d # c => ~Open(d)
  /\ \A i, j \in DOMAIN inbox : i < j /\ inbox[i].call = c => inbox[j].call = c
  /\ \A g \in Graphs : c \in waiting[g] =>
       OnlyMine(c) /\ (c \in borrowed \/ (queue # <<>> /\ queue[Len(queue)] = want[c]))
  /\ Convinced(c) => c \in borrowed \/ Settled(c)

LInv == Service!InLine /\ Unreturned /\ \A c \in last : Latest(c)

LEMMA InitLInv == Init => LInv
  <1> SUFFICES ASSUME Init
               PROVE  LInv
    OBVIOUS
  <1>1. Service!InLine
    BY DEF Init, Service!InLine
  <1> QED
    BY <1>1 DEF Init, LInv, Unreturned

\* The graph at the head is done: its entry goes, and with it those who waited.
LEMMA PopInLine ==
  ASSUME TInv, Service!InLine, queue # <<>>, Service!Dequeue
  PROVE  /\ Service!InLine'
         /\ \A g \in Graphs : g # Head(queue) => waiting'[g] = waiting[g]
         /\ waiting'[Head(queue)] = {}
  <1>1. ServiceProofs!TypeOK /\ ServiceProofs!InLine /\ ServiceProofs!Dequeue
    BY DEF TInv, TypeOK, ServiceProofs!TypeOK, Service!InLine, ServiceProofs!InLine, Service!Dequeue,
           ServiceProofs!Dequeue
  <1>2. ServiceProofs!InLine' => Service!InLine'
    BY DEF Service!InLine, ServiceProofs!InLine
  <1> QED
    BY <1>1, <1>2, ServiceProofs!DequeueInLine

\* A call joins the apply of its graph, or starts one at the end of the queue.
LEMMA JoinInLine ==
  ASSUME TInv, Service!InLine, NEW c \in Calls, NEW g \in Graphs, Service!Enqueue(c, g)
  PROVE  /\ Service!InLine'
         /\ queue' # <<>>
         /\ \A i \in DOMAIN queue' : (i \in DOMAIN queue /\ queue'[i] = queue[i]) \/ queue'[i] = g
  <1>1. ServiceProofs!TypeOK /\ ServiceProofs!InLine /\ ServiceProofs!Enqueue(c, g)
    BY DEF TInv, TypeOK, ServiceProofs!TypeOK, Service!InLine, ServiceProofs!InLine, Service!Enqueue,
           ServiceProofs!Enqueue
  <1>2. ServiceProofs!InLine' => Service!InLine'
    BY DEF Service!InLine, ServiceProofs!InLine
  <1> QED
    BY <1>1, <1>2, ServiceProofs!EnqueueInLine

\* A step that leaves the graphs, the requests and the history alone keeps a
\* call the last one, provided that it adds nothing to what convinces it.
LEMMA SameLatest ==
  ASSUME TInv, NEW c \in Calls, Latest(c), pc'[c] # "idle",
         \A d \in Calls : Open(d)' => Open(d),
         UNCHANGED <<want, inbox, queue, waiting, fingerprint>>, borrowed \subseteq borrowed',
         Convinced(c)' => Convinced(c) \/ c \in borrowed' \/ Settled(c)
  PROVE  Latest(c)'
  <1>1. Settled(c)' <=> Settled(c)
    BY DEF Settled, Displaced
  <1> QED
    BY <1>1 DEF Latest, OnlyMine

LEMMA ReturnLInv ==
  ASSUME TInv, LInv, NEW c \in Calls, NEW answer \in {"success", "failure"}, Return(c, answer),
         UNCHANGED <<want, inbox, serviceVars, last>>, borrowed \subseteq borrowed',
         answer = "success" => Convinced(c) \/ c \in borrowed' \/ Settled(c)
  PROVE  LInv'
  <1> USE DEF TInv, TypeOK, serviceVars, Return
  <1>1. Service!InLine'
    BY DEF LInv, Service!InLine
  <1>2. Unreturned'
    BY DEF LInv, Unreturned
  <1>3. ASSUME NEW d \in last
        PROVE  Latest(d)'
    <2>1. d \in Calls /\ Latest(d)
      BY <1>3 DEF LInv
    <2>2. pc'[d] # "idle" /\ \A e \in Calls : Open(e)' => Open(e)
      BY <2>1 DEF Latest, Open
    <2>3. Convinced(d)' => Convinced(d) \/ d \in borrowed' \/ Settled(d)
      BY <2>1 DEF Convinced
    <2> QED
      BY <2>1, <2>2, <2>3, SameLatest
  <1> QED
    BY <1>1, <1>2, <1>3 DEF LInv

LEMMA StartLInv ==
  ASSUME TInv, HInv, LInv, NEW c \in Calls, Start(c)
  PROVE  LInv'
  <1> USE DEF TInv, TypeOK, wireVars, serviceVars
  <1>3. Service!InLine'
    BY DEF LInv, Service!InLine, Start
  <1>4. pc \in [Calls -> {"idle", "probe", "check", "send", "ack", "await", "done"}]
    OBVIOUS
  <1>5. \A d \in Calls : pc'[d] # "done" => pc[d] # "done"
    BY <1>4 DEF Start
  <1>1. Service!InLine' /\ Unreturned'
    BY <1>3, <1>5 DEF LInv, Unreturned, Start
  <1>2. ASSUME NEW d \in last'
        PROVE  Latest(d)'
    <2>1. d = c /\ \A e \in Calls : ~Open(e)
      BY <1>2 DEF Start
    <2>2. \A e \in Calls : e # c => ~Open(e)'
      BY <2>1 DEF Start, Open
    <2>3. evidence[c] = "off" /\ mail[c] = {} /\ ~Requested(c) /\ result[c] = "none"
      BY DEF HInv, Known, LInv, Unreturned, Start
    <2>4. ~Convinced(c)'
      BY <2>3 DEF Start, Convinced
    <2> QED
      BY <2>1, <2>2, <2>3, <2>4 DEF Start, Latest, Requested
  <1> QED
    BY <1>1, <1>2 DEF LInv

LEMMA SendLInv ==
  ASSUME TInv, LInv, NEW c \in Calls, NEW lost \in BOOLEAN, Send(c, lost)
  PROVE  LInv'
  <1> USE DEF TInv, TypeOK, serviceVars, history
  <1>1. Service!InLine'
    BY DEF LInv, Service!InLine, Send
  <1>2. pc \in [Calls -> {"idle", "probe", "check", "send", "ack", "await", "done"}]
    OBVIOUS
  <1>3. \A d \in Calls : pc'[d] # "done" => pc[d] # "done"
    BY <1>2 DEF Send
  <1>4. Service!InLine' /\ Unreturned'
    BY <1>1, <1>3 DEF LInv, Unreturned, Send
  <1>5. ASSUME NEW d \in last
        PROVE  Latest(d)'
    <2>1. d \in Calls /\ Latest(d) /\ d = c
      BY <1>5 DEF LInv, Latest, Send, Open
    <2>2. /\ \A i \in DOMAIN inbox' : inbox'[i].call = c
                                      \/ (i \in DOMAIN inbox /\ inbox'[i] = inbox[i])
          /\ inbox' \in Seq(Request)
          /\ OnlyMine(c) => OnlyMine(c)'
          /\ \A i, j \in DOMAIN inbox' : i < j /\ inbox'[i].call = c => inbox'[j].call = c
      <3>1. CASE inbox' = inbox
        BY <2>1, <3>1 DEF Latest, OnlyMine
      <3>2. CASE inbox' # inbox
        <4> DEFINE r == [call |-> c, attempt |-> sent'[c]]
        <4>1. inbox' = Append(inbox, r) /\ inbox \in Seq(Request)
          BY <3>2 DEF Send
        <4>2. r \in Request /\ r.call = c
          <5>1. sent[c] + 1 \in 1 .. MaxSends /\ sent' = [sent EXCEPT ![c] = sent[c] + 1]
            BY DEF Send, Counted
          <5> QED
            BY <5>1 DEF Request
        <4> HIDE DEF r
        <4>3. /\ Len(inbox) \in Nat
              /\ \A k \in DOMAIN inbox' : k \in DOMAIN inbox \/ k = Len(inbox) + 1
              /\ \A k \in DOMAIN inbox : inbox'[k] = inbox[k]
              /\ inbox'[Len(inbox) + 1] = r
          BY <4>1, <4>2, ServiceProofs!AppendAt
        <4>4. inbox' \in Seq(Request)
          BY <4>1, <4>2
        <4>5. \A k \in DOMAIN inbox : k <= Len(inbox)
          BY <4>1
        <4>6. \A i, j \in DOMAIN inbox' : i < j /\ inbox'[i].call = c => inbox'[j].call = c
          <5> SUFFICES ASSUME NEW i \in DOMAIN inbox', NEW j \in DOMAIN inbox', i < j,
                              inbox'[i].call = c
                       PROVE  inbox'[j].call = c
            OBVIOUS
          <5>1. CASE j = Len(inbox) + 1
            BY <4>2, <4>3, <5>1
          <5>2. CASE j # Len(inbox) + 1
            <6>1. j \in DOMAIN inbox /\ j <= Len(inbox) /\ inbox'[j] = inbox[j]
              BY <4>3, <4>5, <5>2
            <6>2. i # Len(inbox) + 1
              BY <4>3, <6>1
            <6>3. i \in DOMAIN inbox /\ inbox'[i] = inbox[i]
              BY <4>3, <6>2
            <6> QED
              BY <2>1, <6>1, <6>3 DEF Latest
          <5> QED
            BY <5>1, <5>2
        <4>7. \A i \in DOMAIN inbox' : inbox'[i].call = c
                                       \/ (i \in DOMAIN inbox /\ inbox'[i] = inbox[i])
          <5> SUFFICES ASSUME NEW i \in DOMAIN inbox', i \notin DOMAIN inbox
                       PROVE  inbox'[i].call = c
            BY <4>3
          <5> QED
            BY <4>2, <4>3
        <4>8. OnlyMine(c) => OnlyMine(c)'
          BY <4>7 DEF OnlyMine
        <4> QED
          BY <4>4, <4>6, <4>7, <4>8
      <3> QED
        BY <3>1, <3>2
    <2>3. Settled(c) => Settled(c)'
      BY <2>2 DEF Send, Settled, Displaced
    <2>4. Convinced(c)' <=> Convinced(c)
      BY DEF Send, Convinced
    <2>5. pc'[c] # "idle" /\ \A e \in Calls : e # c => ~Open(e)'
      BY <2>1 DEF Send, Latest, Open
    <2>6. UNCHANGED <<want, queue, waiting, borrowed>>
      BY DEF Send
    <2>7. \A g \in Graphs : c \in waiting'[g] =>
            OnlyMine(c)' /\ (c \in borrowed' \/ (queue' # <<>> /\ queue'[Len(queue')] = want'[c]))
      BY <2>1, <2>2, <2>6 DEF Latest
    <2> QED
      BY <2>1, <2>2, <2>3, <2>4, <2>5, <2>6, <2>7 DEF Latest
  <1>6. last' = last
    BY DEF Send
  <1> QED
    BY <1>4, <1>5, <1>6 DEF LInv

LEMMA CoroutineLInv ==
  ASSUME TInv, HInv, LInv, NEW c \in Calls, Start(c) \/ Coroutine(c)
  PROVE  LInv'
  <1> USE DEF TInv, TypeOK, callVars, wireVars, serviceVars, history
  <1>0. \A d \in last : d \in Calls /\ Latest(d)
    BY DEF LInv
  <1>1. CASE Start(c)
    BY <1>1, StartLInv
  <1>2. CASE ProbeTimesOut(c)
    BY <1>2, ReturnLInv DEF ProbeTimesOut
  <1>3. CASE CheckFinds(c)
    BY <1>3, ReturnLInv DEF CheckFinds, Content, Settled
  <1>4. CASE Finish(c)
    BY <1>4, ReturnLInv DEF Finish, Ended, Convinced
  <1>5. ASSUME NEW lost \in BOOLEAN, Send(c, lost)
        PROVE  LInv'
    BY <1>5, SendLInv
  <1>6. CASE ProbeAnswered(c) \/ CheckMisses(c) \/ AckTimesOut(c)
    <2>1. UNCHANGED <<want, result, inbox, mail, serviceVars, history>>
      BY <1>6 DEF ProbeAnswered, CheckMisses, AckTimesOut
    <2>2. /\ \A d \in Calls : Open(d)' <=> Open(d)
          /\ \A d \in Calls : (pc'[d] = "idle" <=> pc[d] = "idle") /\ (pc'[d] = "done" <=> pc[d] = "done")
      BY <1>6 DEF ProbeAnswered, CheckMisses, AckTimesOut, Open
    <2>3. \A d \in Calls : evidence'[d] \in {"found", "success"} => evidence[d] \in {"found", "success"}
      BY <1>6 DEF ProbeAnswered, CheckMisses, AckTimesOut
    <2>4. \A d \in last : Latest(d)'
      BY <1>0, <2>1, <2>2, <2>3, SameLatest DEF Latest, Convinced
    <2>5. Service!InLine' /\ Unreturned'
      BY <2>1, <2>2 DEF LInv, Service!InLine, Unreturned
    <2> QED
      BY <2>1, <2>4, <2>5 DEF LInv
  <1> QED
    BY <1>1, <1>2, <1>3, <1>4, <1>5, <1>6 DEF Coroutine

LEMMA EvidenceLInv ==
  ASSUME TInv, LInv, NEW c \in Calls, Evidence(c) \/ StatusAnswered(c)
  PROVE  LInv'
  <1> USE DEF TInv, TypeOK, callVars, wireVars, serviceVars, history
  <1>1. UNCHANGED <<pc, want, result, inbox, serviceVars, last>> /\ borrowed \subseteq borrowed'
    BY DEF Evidence, Watch, ConfigArrives, PollFinds, PollMisses, Deadline, StopWatches, StatusArrives,
           StatusAnswered, Content
  <1>2. Service!InLine' /\ Unreturned'
    BY <1>1 DEF LInv, Service!InLine, Unreturned
  <1>3. ASSUME NEW d \in Calls, Convinced(d)'
        PROVE  Convinced(d) \/ d \in borrowed' \/ Settled(d)
    <2>1. CASE Watch(c) \/ PollMisses(c) \/ Deadline(c) \/ StopWatches(c) \/ StatusAnswered(c)
      BY <1>3, <2>1 DEF Watch, PollMisses, Deadline, StopWatches, StatusAnswered, Decides, Decided,
                        Convinced
    <2>2. CASE ConfigArrives(c) \/ PollFinds(c)
      BY <1>3, <2>2 DEF ConfigArrives, PollFinds, Decides, Content, Displaced, Convinced, Settled
    <2>3. CASE \E j \in mail[c] : StatusArrives(c, j)
      BY <1>3, <2>3 DEF StatusArrives, Decides, Convinced
    <2> QED
      BY <2>1, <2>2, <2>3 DEF Evidence
  <1>4. \A d \in last : Latest(d)'
    BY <1>1, <1>3, SameLatest DEF LInv, Latest, Open
  <1> QED
    BY <1>1, <1>2, <1>4 DEF LInv

\* A request leaves the wire: what was said of all of them still holds.
LEMMA TakeRequest ==
  ASSUME TInv, NEW c \in Calls, NEW i \in DOMAIN inbox, NextRequest(inbox[i]), Latest(c)
  PROVE  /\ OnlyMine(c) => OnlyMine(c)' /\ inbox[i].call = c
         /\ \A k, l \in DOMAIN inbox' : k < l /\ inbox'[k].call = c => inbox'[l].call = c
         /\ inbox[i].call = c => OnlyMine(c) /\ OnlyMine(c)'
         /\ \A k \in DOMAIN inbox' : \E l \in DOMAIN inbox : inbox'[k] = inbox[l]
  <1>1. inbox \in Seq(Request) /\ inbox # <<>> /\ inbox' = Tail(inbox) /\ inbox[i] = Head(inbox)
    BY DEF TInv, TypeOK, NextRequest
  <1>2. /\ 1 \in DOMAIN inbox /\ inbox[i] = inbox[1]
        /\ \A k \in DOMAIN inbox' : k \in Nat /\ k + 1 \in DOMAIN inbox /\ inbox'[k] = inbox[k + 1]
        /\ \A k \in DOMAIN inbox : k \in Nat /\ k >= 1
    <2>1. Tail(inbox) \in Seq(Request)
      BY <1>1, ServiceProofs!TailFacts
    <2>2. /\ 1 \in DOMAIN inbox /\ Head(inbox) = inbox[1]
          /\ \A k \in DOMAIN Tail(inbox) : k + 1 \in DOMAIN inbox /\ Tail(inbox)[k] = inbox[k + 1]
      BY <1>1, ServiceProofs!TailFacts
    <2>3. \A k \in DOMAIN Tail(inbox) : k \in Nat
      BY <2>1
    <2>4. \A k \in DOMAIN inbox : k \in Nat /\ k >= 1
      BY <1>1
    <2> QED
      BY <1>1, <2>2, <2>3, <2>4
  <1>3. inbox[i].call = c => OnlyMine(c)
    <2> SUFFICES ASSUME inbox[1].call = c, NEW k \in DOMAIN inbox
                 PROVE  inbox[k].call = c
      BY <1>2 DEF OnlyMine
    <2>1. k = 1 \/ 1 < k
      BY <1>2
    <2> QED
      BY <1>2, <2>1 DEF Latest
  <1>4. OnlyMine(c) => OnlyMine(c)' /\ inbox[i].call = c
    BY <1>2 DEF OnlyMine
  <1>5. ASSUME NEW k \in DOMAIN inbox', NEW l \in DOMAIN inbox', k < l, inbox'[k].call = c
        PROVE  inbox'[l].call = c
    <2>1. k + 1 < l + 1
      BY <1>2, <1>5
    <2> QED
      BY <1>2, <1>5, <2>1 DEF Latest
  <1> QED
    BY <1>2, <1>3, <1>4, <1>5

LEMMA HandleLInv ==
  ASSUME TInv, HInv, LInv, NEW i \in DOMAIN inbox, NEW heard \in BOOLEAN,
         Refuse(inbox[i], heard) \/ SubmitKnown(inbox[i], heard) \/ SubmitWaits(inbox[i], heard)
  PROVE  LInv'
  <1> USE DEF serviceVars, history
  <1> DEFINE m == inbox[i]
  <1> DEFINE d == m.call
  <1>1. NextRequest(m)
    BY DEF Refuse, SubmitKnown, SubmitWaits, Service!Enqueue
  <1>2. m \in Request /\ d \in Calls /\ want[d] \in Graphs /\ \A k \in DOMAIN inbox : inbox[k].call \in Calls
    <2>1. \A k \in DOMAIN inbox : inbox[k] \in Request
      BY DEF TInv, TypeOK
    <2> QED
      BY <2>1 DEF Request, TInv, TypeOK
  <1>3. /\ UNCHANGED <<want, fingerprint, last>> /\ borrowed \subseteq borrowed'
        /\ \A c \in Calls : Open(c)' => Open(c)
        /\ \A c \in Calls : pc[c] # "idle" => pc'[c] # "idle"
        /\ Unreturned'
    <2>1. UNCHANGED <<want, fingerprint, last>> /\ borrowed \subseteq borrowed'
      BY DEF Refuse, SubmitKnown, SubmitWaits, Service!Enqueue
    <2>2. CASE Refuse(m, heard)
      <3>1. pc \in [Calls -> {"idle", "probe", "check", "send", "ack", "await", "done"}]
            /\ result \in [Calls -> {"none", "success", "failure"}]
        BY DEF TInv, TypeOK
      <3>2. CASE Return(d, "failure")
        BY <1>2, <2>1, <3>1, <3>2 DEF Return, Open, LInv, Unreturned
      <3>3. CASE UNCHANGED <<pc, result>>
        BY <2>1, <3>3 DEF Open, LInv, Unreturned
      <3> QED
        BY <2>2, <3>2, <3>3 DEF Refuse
    <2>3. CASE Acknowledge(m, heard) /\ result' = result
      BY <1>2, <2>1, <2>3 DEF Acknowledge, Hears, Open, TInv, TypeOK, LInv, Unreturned
    <2> QED
      BY <2>1, <2>2, <2>3 DEF SubmitKnown, SubmitWaits, Service!Enqueue
  <1>4. CASE Refuse(m, heard) \/ SubmitKnown(m, heard)
    <2>1. UNCHANGED <<queue, waiting>>
      BY <1>4 DEF Refuse, SubmitKnown
    <2>2. Service!InLine'
      BY <2>1 DEF LInv, Service!InLine
    <2>3. ASSUME NEW c \in last
          PROVE  Latest(c)'
      <3>1. c \in Calls /\ Latest(c)
        BY <2>3 DEF LInv, TInv, TypeOK
      <3>2. /\ OnlyMine(c) => OnlyMine(c)'
            /\ \A k, l \in DOMAIN inbox' : k < l /\ inbox'[k].call = c => inbox'[l].call = c
            /\ d = c => OnlyMine(c)'
            /\ \A k \in DOMAIN inbox' : \E l \in DOMAIN inbox : inbox'[k] = inbox[l]
        BY <1>1, <3>1, TakeRequest
      <3>3. Settled(c) => Settled(c)'
        BY <1>3, <2>1, <3>2 DEF Settled, Displaced
      <3>4. Convinced(c)' => Convinced(c) \/ c \in borrowed' \/ Settled(c)'
        <4>1. CASE Refuse(m, heard)
          BY <1>2, <4>1 DEF Refuse, Return, Convinced, TInv, TypeOK
        <4>2. CASE SubmitKnown(m, heard) /\ d # c
          BY <1>2, <3>1, <4>2 DEF SubmitKnown, Applied, Convinced
        <4>3. CASE SubmitKnown(m, heard) /\ d = c
          BY <2>1, <3>2, <4>3 DEF SubmitKnown, OnlyMine, Settled, Displaced
        <4> QED
          BY <1>4, <4>1, <4>2, <4>3
      <3>5. \A g \in Graphs : c \in waiting'[g] =>
              OnlyMine(c)' /\ (c \in borrowed' \/ (queue' # <<>> /\ queue'[Len(queue')] = want'[c]))
        BY <1>3, <2>1, <3>1, <3>2 DEF Latest
      <3> QED
        BY <1>3, <3>1, <3>2, <3>3, <3>4, <3>5 DEF Latest
    <2> QED
      BY <1>3, <2>2, <2>3 DEF LInv
  <1>5. CASE SubmitWaits(m, heard)
    <2> DEFINE g == want[d]
    <2>1. /\ queue' = IF waiting[g] = {} THEN Append(queue, g) ELSE queue
          /\ waiting' = [waiting EXCEPT ![g] = @ \cup {d}]
          /\ borrowed' = IF queue'[Len(queue')] = g THEN borrowed ELSE borrowed \cup {d}
          /\ UNCHANGED <<result, evidence, mail>>
      BY <1>5 DEF SubmitWaits, Service!Enqueue
    <2>2. /\ Service!InLine' /\ queue' # <<>>
          /\ \A k \in DOMAIN queue' : (k \in DOMAIN queue /\ queue'[k] = queue[k]) \/ queue'[k] = g
      <3>1. Service!Enqueue(d, g)
        BY <1>5 DEF SubmitWaits
      <3> QED
        BY <1>2, <3>1, JoinInLine DEF LInv
    <2>3. \A h \in Graphs, c \in Calls : c # d /\ c \in waiting'[h] => c \in waiting[h]
      BY <1>2, <2>1 DEF TInv, TypeOK
    <2>4. ASSUME NEW c \in last
          PROVE  Latest(c)'
      <3>1. c \in Calls /\ Latest(c)
        BY <2>4 DEF LInv, TInv, TypeOK
      <3>2. /\ OnlyMine(c) => d = c
            /\ \A k, l \in DOMAIN inbox' : k < l /\ inbox'[k].call = c => inbox'[l].call = c
            /\ d = c => OnlyMine(c)'
            /\ \A k \in DOMAIN inbox' : \E l \in DOMAIN inbox : inbox'[k] = inbox[l]
        BY <1>1, <3>1, TakeRequest
      <3>3. Settled(c) => Settled(c)'
        <4> SUFFICES ASSUME Settled(c)
                     PROVE  Settled(c)'
          OBVIOUS
        <4>1. g = want[c] /\ fingerprint' = want'[c]
          BY <1>3 DEF Settled, Displaced
        <4>2. \A k \in DOMAIN inbox' : want'[inbox'[k].call] = want'[c]
          BY <1>3, <3>2 DEF Settled, Displaced
        <4>3. \A k \in DOMAIN queue' : queue'[k] = want'[c]
          BY <1>3, <2>2, <4>1 DEF Settled, Displaced
        <4> QED
          BY <4>1, <4>2, <4>3 DEF Settled, Displaced
      <3>4. Convinced(c)' <=> Convinced(c)
        BY <2>1 DEF Convinced
      <3>5. ASSUME NEW h \in Graphs, c \in waiting'[h]
            PROVE  OnlyMine(c)' /\ (c \in borrowed' \/ (queue' # <<>> /\ queue'[Len(queue')] = want'[c]))
        <4>1. d = c
          BY <2>3, <3>1, <3>2, <3>5 DEF Latest
        <4> QED
          BY <1>3, <2>1, <2>2, <3>2, <4>1
      <3> QED
        BY <1>3, <3>1, <3>2, <3>3, <3>4, <3>5 DEF Latest
    <2> QED
      BY <1>3, <2>2, <2>4 DEF LInv
  <1> QED
    BY <1>4, <1>5

\* The graph at the head is done: it was the call's only if nothing is behind it.
LEMMA PopLatest ==
  ASSUME TInv, HInv, LInv, queue # <<>>, Service!Dequeue,
         UNCHANGED <<pc, want, result, evidence, inbox, last, borrowed>>,
         fingerprint' \in {fingerprint, Head(queue)},
         \A c \in Calls : c \notin waiting[Head(queue)] => mail'[c] = mail[c],
         mail' = mail \/ fingerprint' = Head(queue)
  PROVE  LInv'
  <1>1. Service!InLine' /\ \A g \in Graphs : g # Head(queue) => waiting'[g] = waiting[g]
    BY PopInLine DEF LInv
  <1>2. waiting'[Head(queue)] = {}
    BY PopInLine DEF LInv
  <1>3. Unreturned'
    BY DEF LInv, Unreturned
  <1>4. queue \in Seq(Graphs) /\ Head(queue) \in Graphs
    BY DEF TInv, TypeOK
  <1>5. /\ Len(queue) \in Nat \ {0} /\ 1 \in DOMAIN queue /\ Head(queue) = queue[1]
        /\ \A k \in DOMAIN queue' : k + 1 \in DOMAIN queue /\ queue'[k] = queue[k + 1]
        /\ Len(queue) # 1 => queue' # <<>> /\ queue'[Len(queue')] = queue[Len(queue)]
        /\ Len(queue) = 1 => queue' = <<>>
    BY <1>4, ServiceProofs!TailFacts DEF Service!Dequeue
  <1>6. Len(queue) \in DOMAIN queue
    BY <1>4, <1>5
  <1>7. ASSUME NEW c \in last
        PROVE  Latest(c)'
    <2>1. c \in Calls /\ Latest(c) /\ Known(c)
      BY <1>7 DEF LInv, HInv, TInv, TypeOK
    <2>2. Settled(c) => Settled(c)'
      BY <1>5 DEF Settled, Displaced
    <2>3. ASSUME NEW g \in Graphs, c \in waiting'[g]
          PROVE  OnlyMine(c)' /\ (c \in borrowed' \/ (queue' # <<>> /\ queue'[Len(queue')] = want'[c]))
      <3>1. g # Head(queue) /\ c \in waiting[g] /\ want[c] = g
        BY <1>1, <1>2, <2>1, <2>3 DEF Known
      <3>2. OnlyMine(c) /\ (c \in borrowed \/ queue[Len(queue)] = want[c])
        BY <2>1, <3>1 DEF Latest
      <3>3. queue[Len(queue)] = want[c] => Len(queue) # 1
        BY <1>5, <3>1
      <3> QED
        BY <1>5, <3>2, <3>3 DEF OnlyMine
    <2>4. Convinced(c)' => Convinced(c) \/ c \in borrowed \/ Settled(c)'
      <3> SUFFICES ASSUME mail'[c] # mail[c], c \notin borrowed
                   PROVE  Settled(c)'
        BY DEF Convinced
      <3>1. c \in waiting[Head(queue)] /\ fingerprint' = Head(queue) /\ want[c] = Head(queue)
        BY <1>4, <2>1 DEF Known
      <3>2. OnlyMine(c) /\ queue[Len(queue)] = want[c]
        BY <1>4, <2>1, <3>1 DEF Latest
      <3>3. Len(queue) = 1
        BY <1>5, <1>6, <3>1, <3>2 DEF LInv, Service!InLine
      <3>4. queue' = <<>>
        BY <1>5, <3>3
      <3>5. DOMAIN queue' = {}
        BY <3>4
      <3> QED
        BY <3>1, <3>2, <3>5 DEF OnlyMine, Settled, Displaced
    <2> QED
      BY <2>1, <2>2, <2>3, <2>4 DEF Latest, Open
  <1> QED
    BY <1>1, <1>3, <1>7 DEF LInv

LEMMA ServiceLInv ==
  ASSUME TInv, HInv, LInv, Apply \/ ApplyFails \/ InstallFails \/ PutConfig \/ Answer \/ Crash \/ Restart
  PROVE  LInv'
  <1> USE DEF callVars, wireVars, serviceVars, history
  <1>0. \A c \in last : c \in Calls /\ Latest(c)
    BY DEF LInv, TInv, TypeOK
  <1>1. CASE Apply
    <2>1. Service!InLine' /\ Unreturned'
      BY <1>1 DEF Apply, Service!Apply, LInv, Service!InLine, Unreturned
    <2>2. fingerprint' = Head(queue) /\ Head(queue) = queue[1] /\ 1 \in DOMAIN queue
      <3>1. queue \in Seq(Graphs) /\ queue # <<>>
        BY <1>1 DEF Apply, Service!Apply, TInv, TypeOK
      <3>2. 1 \in DOMAIN queue /\ Head(queue) = queue[1]
        BY <3>1, ServiceProofs!TailFacts
      <3> QED
        BY <1>1, <3>2 DEF Apply, Service!Apply
    <2>3. \A c \in Calls : Settled(c) => Settled(c)'
      BY <1>1, <2>2 DEF Apply, Service!Apply, Settled, Displaced
    <2>4. \A c \in last : Latest(c)'
      BY <1>0, <1>1, <2>3 DEF Apply, Service!Apply, Latest, Convinced, OnlyMine, Open
    <2> QED
      BY <1>1, <2>1, <2>4 DEF Apply, Service!Apply, LInv
  <1>2. CASE ApplyFails \/ InstallFails
    BY <1>2, PopLatest DEF ApplyFails, Service!ApplyFails, InstallFails, Service!InstallFails
  <1>3. CASE PutConfig
    <2>1. Service!InLine' /\ Unreturned' /\ last' = last
      BY <1>3 DEF PutConfig, Service!PutConfig, LInv, Service!InLine, Unreturned
    <2>2. \A c \in last : Latest(c)'
      BY <1>0, <1>3 DEF PutConfig, Service!PutConfig, Latest, Convinced, OnlyMine, Settled,
                        Displaced, Open
    <2> QED
      BY <2>1, <2>2 DEF LInv
  <1>4. CASE Answer
    <2>1. queue # <<>> /\ fingerprint = Head(queue)
      BY <1>4 DEF Answer, Service!Answer, Service!Dequeue, TInv, Service!HeadIsReported, Service!Wired
    <2>2. \A c \in Calls : c \notin waiting[Head(queue)] => mail'[c] = mail[c]
      BY <1>4 DEF Answer, Service!Answer, Service!Dequeue, Applied
    <2> QED
      BY <1>4, <2>1, <2>2, PopLatest DEF Answer, Service!Answer
  <1>5. CASE Crash
    <2>1. DOMAIN <<>> = {}
      OBVIOUS
    <2>2. Service!InLine' /\ Unreturned'
      BY <1>5, <2>1 DEF Crash, Service!Leave, LInv, Service!InLine, Unreturned
    <2> QED
      BY <1>5, <2>2 DEF Crash, Service!Leave, LInv
  <1>6. CASE Restart
    <2>1. Service!InLine' /\ Unreturned' /\ last' = last
      BY <1>6 DEF Restart, Service!Restart, LInv, Service!InLine, Unreturned
    <2>2. \A c \in last : Latest(c)'
      BY <1>0, <1>6 DEF Restart, Service!Restart, Latest, Convinced, OnlyMine, Settled, Displaced, Open
    <2> QED
      BY <2>1, <2>2 DEF LInv
  <1> QED
    BY <1>1, <1>2, <1>3, <1>4, <1>5, <1>6

LEMMA StepLInv == TInv /\ HInv /\ LInv /\ [Next]_vars => LInv'
  <1>1. LInv /\ UNCHANGED vars => LInv'
    <2> SUFFICES ASSUME LInv, UNCHANGED vars
                 PROVE  LInv'
      OBVIOUS
    <2> USE DEF vars, callVars, wireVars, serviceVars, history
    <2>1. Service!InLine' /\ Unreturned'
      BY DEF LInv, Service!InLine, Unreturned
    <2>2. \A c \in last : Latest(c) => Latest(c)'
      BY DEF Latest, Convinced, OnlyMine, Settled, Displaced, Open
    <2> QED
      BY <2>1, <2>2 DEF LInv
  <1> QED
    BY <1>1, CoroutineLInv, EvidenceLInv, HandleLInv, ServiceLInv DEF Next, Handle

\* Once the call made last has succeeded the service has its graph and keeps
\* it, however many earlier calls still have requests under way, unless the
\* call was content with a graph that was about to be replaced.
THEOREM LastCallPrevails == Spec => []LastCallWins
  <1>1. LInv => LastCallWins
    BY DEF LInv, Latest, Convinced, Settled, Displaced, LastCallWins
  <1> QED
    BY <1>1, InitTInv, StepTInv, InitHInv, StepHInv, InitLInv, StepLInv, PTL DEF Spec
=============================================================================
