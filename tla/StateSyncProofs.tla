-------------------------- MODULE StateSyncProofs --------------------------
(***************************************************************************)
(* Proofs about StateSync, for every set of fields, every graph of state   *)
(* edges, any number of writers of a field and any failures.               *)
(***************************************************************************)
EXTENDS StateSync, SequenceTheorems, FiniteSetTheorems, TLAPS

USE FanAssumption, PeerAssumption, SingleUpstream, TasksAssumption,
    ValuesAssumption, BoundsAssumption, FailuresAssumption

Publishing == {"validate", "put", "sent", "callback"}

\* Fields that follow no field of another service.
Local == Fields \ Followers

(***************************************************************************)
(* The inductive invariant.  A pump publishes the field it feeds and then  *)
(* only local fields, so lastTs falls behind applied at most between the   *)
(* delivery to its own field and the end of the fan-out; all the while the *)
(* sample it works on is as new as both.                                   *)
(***************************************************************************)
ClockBound == clock <= written

TodoWhilePublishing == \A k \in Tasks : pc[k] \in Publishing <=> todo[k] # <<>>

OwnThenLocal == \A g \in Followers : todo[g] = <<g>> \/ todo[g] \in Seq(Local)

ItemIsNewest == \A g \in Followers : pc[g] # "idle" => lastTs[g] <= item[g].ts

Delivered(g) == pc[g] \in Publishing /\ (pc[g] = "callback" \/ todo[g] # <<g>>)

AppliedIsKnown ==
  \A g \in Followers :
    \/ applied[g] <= lastTs[g]
    \/ Delivered(g) /\ applied[g] <= item[g].ts

IInv ==
  /\ TypeOK
  /\ ClockBound
  /\ TodoWhilePublishing
  /\ OwnThenLocal
  /\ ItemIsNewest
  /\ AppliedIsKnown

Forward == \A g \in Followers : applied'[g] >= applied[g]

LEMMA InitIInv == Init => IInv
  <1> SUFFICES ASSUME Init PROVE IInv
    OBVIOUS
  <1>1. <<>> \in Seq(Fields) /\ <<>> \in Seq(Local) /\ <<>> \in Seq(Sample)
    OBVIOUS
  <1>2. 0 \in 0 .. MaxWrites /\ [value |-> Initial, ts |-> 0] \in Sample
    BY DEF Sample
  <1>3. TypeOK
    BY <1>1, <1>2 DEF Init, TypeOK
  <1>4. ClockBound /\ TodoWhilePublishing /\ OwnThenLocal /\ ItemIsNewest /\ AppliedIsKnown
    BY <1>1 DEF Init, ClockBound, TodoWhilePublishing, OwnThenLocal, ItemIsNewest,
                AppliedIsKnown, Publishing, Tasks
  <1> QED
    BY <1>3, <1>4 DEF IInv

-----------------------------------------------------------------------------
(* The state edges of a service lead to fields that follow no other one.   *)
LEMMA FanIsLocal == \A f \in Fields : Fan[f] \in Seq(Local)
  <1> SUFFICES ASSUME NEW f \in Fields PROVE Fan[f] \in Seq(Local)
    OBVIOUS
  <1>1. Fan[f] \in Seq(Fields)
    OBVIOUS
  <1>2. \A i \in 1 .. Len(Fan[f]) : Fan[f][i] \in Local
    BY <1>1 DEF Local, Followers
  <1> QED
    BY <1>1, <1>2, ElementOfSeq, IsASeq

(* The one field a pump begins with is no local one.                       *)
LEMMA OwnIsNotLocal ==
  ASSUME NEW g \in Followers, NEW s \in Seq(Local)
  PROVE  s # <<g>>
  <1> SUFFICES ASSUME s = <<g>> PROVE FALSE
    OBVIOUS
  <1>1. Len(s) = 1 /\ s[1] = g
    OBVIOUS
  <1>2. s[1] \in Local
    BY <1>1, ElementOfSeq
  <1> QED
    BY <1>1, <1>2 DEF Local

(* Where a task is publishing, and what is left for it to publish.         *)
LEMMA AtFacts ==
  ASSUME IInv, NEW k \in Tasks, pc[k] \in Publishing
  PROVE  /\ At(k) \in Fields /\ Tail(todo[k]) \in Seq(Fields)
         /\ k \in Followers =>
              \/ todo[k] = <<k>> /\ At(k) = k /\ Tail(todo[k]) = <<>>
              \/ todo[k] \in Seq(Local) /\ At(k) \in Local /\ Tail(todo[k]) \in Seq(Local)
  <1>1. todo[k] # <<>> /\ todo[k] \in Seq(Fields)
    BY DEF IInv, TodoWhilePublishing, TypeOK
  <1>2. At(k) \in Fields /\ Tail(todo[k]) \in Seq(Fields)
    BY <1>1 DEF At
  <1>3. ASSUME k \in Followers, todo[k] = <<k>>
        PROVE  At(k) = k /\ Tail(todo[k]) = <<>>
    BY <1>3 DEF At
  <1>4. ASSUME k \in Followers, todo[k] \in Seq(Local)
        PROVE  At(k) \in Local /\ Tail(todo[k]) \in Seq(Local)
    BY <1>1, <1>4 DEF At
  <1> QED
    BY <1>2, <1>3, <1>4 DEF IInv, OwnThenLocal

(***************************************************************************)
(* Going on to publish fields s keeps the invariant: a pump that goes on   *)
(* with its own field, or returns without recording the time stamp, has    *)
(* not applied the sample.                                                 *)
(***************************************************************************)
LEMMA ProceedIInv ==
  ASSUME IInv, NEW k \in Tasks, NEW s \in Seq(Fields), NEW record \in BOOLEAN,
         Proceed(k, s, record), pc[k] # "idle", UNCHANGED <<clock, written, item, applied>>,
         authors' \subseteq Writers, missed' \subseteq Fields,
         cache' \in [Fields -> Sample], retained' \in [Fields -> Sample],
         chan' \in [Followers -> Seq(Sample)],
         k \in Followers =>
           /\ s = <<k>> \/ s \in Seq(Local)
           /\ s = <<k>> \/ (s = <<>> /\ ~record) => applied[k] <= lastTs[k]
           /\ applied[k] <= item[k].ts
  PROVE  IInv' /\ Forward
  <1>1. /\ todo' = [todo EXCEPT ![k] = s]
        /\ pc' = [pc EXCEPT ![k] = IF s = <<>> THEN "idle" ELSE "validate"]
        /\ lastTs' = IF s = <<>> /\ record /\ k \in Followers
                     THEN [lastTs EXCEPT ![k] = item[k].ts] ELSE lastTs
    BY DEF Proceed
  <1>2. \A g \in Followers : item[g].ts \in 0 .. MaxWrites /\ g \in Tasks
    BY DEF IInv, TypeOK, Sample, Tasks
  <1>3. TypeOK'
    <2>1. lastTs' \in [Followers -> 0 .. MaxWrites]
      BY <1>1, <1>2 DEF IInv, TypeOK
    <2>2. todo' \in [Tasks -> Seq(Fields)]
      BY <1>1 DEF IInv, TypeOK
    <2> QED
      BY <1>1, <2>1, <2>2 DEF IInv, TypeOK
  <1>4. ClockBound' /\ Forward
    BY DEF IInv, TypeOK, ClockBound, Forward
  <1>5. TodoWhilePublishing'
    BY <1>1 DEF IInv, TypeOK, TodoWhilePublishing, Publishing
  <1>6. OwnThenLocal'
    BY <1>1, <1>2 DEF IInv, TypeOK, OwnThenLocal
  <1>7. ItemIsNewest'
    BY <1>1, <1>2 DEF IInv, TypeOK, ItemIsNewest
  <1>8. AppliedIsKnown'
    <2> SUFFICES ASSUME NEW g \in Followers
                 PROVE  \/ applied'[g] <= lastTs'[g]
                        \/ Delivered(g)' /\ applied'[g] <= item'[g].ts
      BY DEF AppliedIsKnown
    <2>1. CASE g # k
      BY <1>1, <1>2, <2>1 DEF IInv, TypeOK, AppliedIsKnown, Delivered
    <2>2. CASE g = k
      <3>1. CASE s = <<>>
        BY <1>1, <1>2, <2>2, <3>1 DEF IInv, TypeOK
      <3>2. CASE s = <<k>>
        BY <1>1, <2>2, <3>2 DEF IInv, TypeOK
      <3>3. CASE s # <<>> /\ s # <<k>>
        BY <1>1, <1>2, <2>2, <3>3 DEF IInv, TypeOK, Delivered, Publishing
      <3> QED
        BY <3>1, <3>2, <3>3
    <2> QED
      BY <2>1, <2>2
  <1> QED
    BY <1>3, <1>4, <1>5, <1>6, <1>7, <1>8 DEF IInv

(* A pump that is publishing has not applied the sample, or has delivered  *)
(* it to its own field.                                                    *)
LEMMA PumpFacts ==
  ASSUME IInv, NEW g \in Followers, pc[g] # "idle"
  PROVE  /\ applied[g] <= item[g].ts
         /\ ~Delivered(g) => applied[g] <= lastTs[g]
  <1>1. lastTs[g] <= item[g].ts /\ lastTs[g] \in Nat /\ applied[g] \in Nat
        /\ item[g].ts \in Nat
    BY DEF IInv, TypeOK, ItemIsNewest, Sample, Tasks
  <1> QED
    BY <1>1 DEF IInv, AppliedIsKnown

-----------------------------------------------------------------------------
(* The steps of publish_state *)

LEMMA WriteIInv ==
  ASSUME IInv, NEW k \in Writers, NEW f \in Roots, NEW v \in Values, Write(k, f, v)
  PROVE  IInv' /\ Forward
  <1>1. /\ pc[k] = "idle" /\ written < MaxWrites /\ written' = written + 1
        /\ clock' \in {clock, clock + 1} \ {0}
        /\ item' = [item EXCEPT ![k] = [value |-> v, ts |-> clock']]
        /\ todo' = [todo EXCEPT ![k] = <<f>>]
        /\ pc' = [pc EXCEPT ![k] = "validate"]
        /\ lastTs' = lastTs /\ UNCHANGED <<cache, retained, chan, applied, missed>>
        /\ authors' = authors \cup {k}
    BY DEF Write, Proceed
  <1>2. k \in Tasks /\ k \notin Followers /\ f \in Fields
        /\ \A g \in Followers : g \in Tasks /\ g # k
    BY DEF Tasks, Followers
  <1>3. written' \in 0 .. MaxWrites /\ clock' \in 0 .. MaxWrites /\ ClockBound'
    BY <1>1 DEF IInv, TypeOK, ClockBound
  <1>4. [value |-> v, ts |-> clock'] \in Sample /\ <<f>> \in Seq(Fields)
    BY <1>2, <1>3 DEF Sample
  <1>5. TypeOK'
    BY <1>1, <1>2, <1>3, <1>4 DEF IInv, TypeOK
  <1>6. TodoWhilePublishing'
    BY <1>1, <1>2 DEF IInv, TypeOK, TodoWhilePublishing, Publishing
  <1>7. OwnThenLocal' /\ ItemIsNewest' /\ Forward
    BY <1>1, <1>2 DEF IInv, TypeOK, OwnThenLocal, ItemIsNewest, Forward
  <1>8. AppliedIsKnown'
    BY <1>1, <1>2 DEF IInv, TypeOK, AppliedIsKnown, Delivered
  <1> QED
    BY <1>3, <1>5, <1>6, <1>7, <1>8 DEF IInv

(* A field that is dropped: rejected, not put, or deduplicated.            *)
LEMMA DropIInv ==
  ASSUME IInv, NEW k \in Tasks, Reject(k) \/ PutFails(k) \/ Dedupe(k)
  PROVE  IInv' /\ Forward
  <1>1. /\ pc[k] \in {"validate", "put"}
        /\ UNCHANGED <<clock, written, item, cache, retained, chan, applied>>
    BY DEF Reject, PutFails, Dedupe
  <1>2. \/ Proceed(k, Tail(todo[k]), TRUE)
        \/ At(k) = k /\ Proceed(k, Tail(todo[k]), FALSE)
    <2>1. CASE Reject(k) \/ PutFails(k)
      BY <2>1 DEF Reject, PutFails, Proceed
    <2>2. CASE Dedupe(k)
      BY <2>2 DEF Dedupe
    <2> QED
      BY <2>1, <2>2
  <1>3. /\ pc[k] \in Publishing /\ pc[k] # "idle"
        /\ Tail(todo[k]) \in Seq(Fields)
    BY <1>1, AtFacts DEF Publishing
  <1>4. /\ cache' \in [Fields -> Sample] /\ retained' \in [Fields -> Sample]
        /\ chan' \in [Followers -> Seq(Sample)]
    BY <1>1 DEF IInv, TypeOK
  <1>8. authors' \subseteq Writers /\ missed' \subseteq Fields
    <2>1. authors' = authors /\ (missed' = missed \/ missed' = missed \cup {At(k)})
      BY DEF Reject, PutFails, Dedupe
    <2>2. At(k) \in Fields
      BY <1>3, AtFacts
    <2>3. authors \subseteq Writers /\ missed \subseteq Fields
      BY DEF IInv, TypeOK
    <2> QED
      BY <2>1, <2>2, <2>3
  <1>5. ASSUME k \in Followers
        PROVE  /\ Tail(todo[k]) \in Seq(Local)
               /\ Tail(todo[k]) # <<k>>
               /\ At(k) = k => applied[k] <= lastTs[k]
               /\ applied[k] <= item[k].ts
    <2>1. applied[k] <= item[k].ts /\ (~Delivered(k) => applied[k] <= lastTs[k])
      BY <1>3, <1>5, PumpFacts
    <2>2. k \notin Local
      BY <1>5 DEF Local
    <2>3. CASE todo[k] = <<k>> /\ At(k) = k /\ Tail(todo[k]) = <<>>
      BY <1>1, <2>1, <2>3 DEF Delivered
    <2>4. CASE todo[k] \in Seq(Local) /\ At(k) \in Local /\ Tail(todo[k]) \in Seq(Local)
      <3>1. Tail(todo[k]) # <<k>>
        BY <1>5, <2>4, OwnIsNotLocal
      <3> QED
        BY <2>1, <2>2, <2>4, <3>1
    <2> QED
      BY <1>3, <1>5, <2>3, <2>4, AtFacts
  <1>6. CASE Proceed(k, Tail(todo[k]), TRUE)
    BY <1>1, <1>3, <1>4, <1>5, <1>6, <1>8, ProceedIInv
  <1>7. CASE At(k) = k /\ Proceed(k, Tail(todo[k]), FALSE)
    BY <1>1, <1>3, <1>4, <1>5, <1>7, <1>8, ProceedIInv
  <1> QED
    BY <1>2, <1>6, <1>7

(* The way of a sample to the wire and back: pumps and stacks stay.        *)
LEMMA PutSendIInv ==
  ASSUME IInv, NEW k \in Tasks, Put(k) \/ Send(k)
  PROVE  IInv' /\ Forward
  <1>1. /\ pc[k] \in {"validate", "put"}
        /\ \E p \in {"put", "sent"} : pc' = [pc EXCEPT ![k] = p]
        /\ UNCHANGED <<clock, written, todo, item, cache, lastTs, applied, authors, missed>>
    BY DEF Put, Send
  <1>2. /\ pc[k] \in Publishing /\ At(k) \in Fields
        /\ \A g \in Followers : g \in Tasks
    BY <1>1, AtFacts DEF Publishing, Tasks
  <1>3. retained' \in [Fields -> Sample] /\ chan' \in [Followers -> Seq(Sample)]
    <2>1. CASE Put(k)
      BY <1>2, <2>1 DEF Put, IInv, TypeOK
    <2>2. CASE Send(k)
      <3>1. \A g \in Followers : Append(chan[g], item[k]) \in Seq(Sample)
        BY DEF IInv, TypeOK
      <3> QED
        BY <2>2, <3>1 DEF Send, IInv, TypeOK
    <2> QED
      BY <2>1, <2>2
  <1>4. TypeOK' /\ ClockBound' /\ OwnThenLocal' /\ Forward
    BY <1>1, <1>3 DEF IInv, TypeOK, ClockBound, OwnThenLocal, Forward
  <1>5. TodoWhilePublishing'
    BY <1>1 DEF IInv, TypeOK, TodoWhilePublishing, Publishing
  <1>6. ItemIsNewest'
    BY <1>1, <1>2 DEF IInv, TypeOK, ItemIsNewest
  <1>7. AppliedIsKnown'
    BY <1>1, <1>2 DEF IInv, TypeOK, AppliedIsKnown, Delivered, Publishing
  <1> QED
    BY <1>4, <1>5, <1>6, <1>7 DEF IInv

(* Delivery is where a sample is applied; it is no older than the last.    *)
LEMMA DeliverIInv ==
  ASSUME IInv, NEW k \in Tasks, Deliver(k)
  PROVE  IInv' /\ Forward
  <1>1. /\ pc[k] = "sent" /\ pc' = [pc EXCEPT ![k] = "callback"]
        /\ cache' = [cache EXCEPT ![At(k)] = item[k]]
        /\ applied' = IF At(k) = k THEN [applied EXCEPT ![k] = item[k].ts] ELSE applied
        /\ UNCHANGED <<clock, written, todo, item, retained, chan, lastTs, authors>>
        /\ missed' = missed \ {At(k)}
    BY DEF Deliver
  <1>2. /\ pc[k] \in Publishing /\ At(k) \in Fields
        /\ item[k] \in Sample /\ item[k].ts \in 0 .. MaxWrites
        /\ \A g \in Followers : g \in Tasks
    BY <1>1, AtFacts DEF Publishing, Tasks, IInv, TypeOK, Sample
  <1>3. At(k) = k => k \in Followers
    BY <1>2 DEF Tasks
  <1>4. applied' \in [Followers -> 0 .. MaxWrites]
    BY <1>1, <1>2, <1>3 DEF IInv, TypeOK
  <1>5. cache' \in [Fields -> Sample]
    BY <1>1, <1>2 DEF IInv, TypeOK
  <1>b. missed' \subseteq Fields
    BY <1>1 DEF IInv, TypeOK
  <1>6. TypeOK' /\ ClockBound' /\ OwnThenLocal'
    BY <1>1, <1>4, <1>5, <1>b DEF IInv, TypeOK, ClockBound, OwnThenLocal
  <1>7. TodoWhilePublishing'
    BY <1>1 DEF IInv, TypeOK, TodoWhilePublishing, Publishing
  <1>8. ItemIsNewest'
    BY <1>1, <1>2 DEF IInv, TypeOK, ItemIsNewest
  <1>9. Forward
    <2>1. k \in Followers => applied[k] <= item[k].ts
      BY <1>1, PumpFacts
    <2> QED
      BY <1>1, <1>2, <1>3, <2>1 DEF IInv, TypeOK, Forward
  <1>a. AppliedIsKnown'
    <2> SUFFICES ASSUME NEW g \in Followers
                 PROVE  \/ applied'[g] <= lastTs'[g]
                        \/ Delivered(g)' /\ applied'[g] <= item'[g].ts
      BY DEF AppliedIsKnown
    <2>1. CASE g # k
      BY <1>1, <1>2, <2>1 DEF IInv, TypeOK, AppliedIsKnown, Delivered
    <2>2. CASE g = k
      <3>1. Delivered(k)'
        BY <1>1, <1>2, <2>2 DEF IInv, TypeOK, Delivered, Publishing
      <3>2. applied[k] <= item[k].ts
        BY <1>1, <2>2, PumpFacts
      <3>3. applied'[k] = applied[k] \/ applied'[k] = item[k].ts
        BY <1>1, <2>2 DEF IInv, TypeOK
      <3> QED
        BY <1>1, <1>2, <2>2, <3>1, <3>2, <3>3
    <2> QED
      BY <2>1, <2>2
  <1> QED
    BY <1>6, <1>7, <1>8, <1>9, <1>a DEF IInv

(* The fan-out of a pump's own field and of the fields after it.           *)
LEMMA FanOutIInv ==
  ASSUME IInv, NEW k \in Tasks, FanOut(k)
  PROVE  IInv' /\ Forward
  <1> DEFINE s == Fan[At(k)] \o Tail(todo[k])
  <1>1. /\ pc[k] = "callback" /\ Proceed(k, s, TRUE)
        /\ UNCHANGED <<clock, written, item, cache, retained, chan, applied, authors, missed>>
    BY DEF FanOut
  <1>2. /\ pc[k] \in Publishing /\ pc[k] # "idle"
        /\ At(k) \in Fields /\ Tail(todo[k]) \in Seq(Fields)
    BY <1>1, AtFacts DEF Publishing
  <1>3. Fan[At(k)] \in Seq(Fields) /\ Fan[At(k)] \in Seq(Local)
    BY <1>2, FanIsLocal
  <1>4. s \in Seq(Fields)
    BY <1>2, <1>3
  <1>5. ASSUME k \in Followers
        PROVE  s \in Seq(Local) /\ s # <<k>> /\ applied[k] <= item[k].ts
    <2>1. Tail(todo[k]) \in Seq(Local)
      <3>1. <<>> \in Seq(Local)
        OBVIOUS
      <3> QED
        BY <1>2, <1>5, <3>1, AtFacts
    <2>2. s \in Seq(Local)
      BY <1>3, <2>1
    <2>3. s # <<k>>
      BY <1>5, <2>2, OwnIsNotLocal
    <2> QED
      BY <1>2, <1>5, <2>2, <2>3, PumpFacts
  <1>6. /\ cache' \in [Fields -> Sample] /\ retained' \in [Fields -> Sample]
        /\ chan' \in [Followers -> Seq(Sample)]
        /\ authors' \subseteq Writers /\ missed' \subseteq Fields
    BY <1>1 DEF IInv, TypeOK
  <1> HIDE DEF s
  <1> QED
    BY <1>1, <1>2, <1>4, <1>5, <1>6, ProceedIInv

-----------------------------------------------------------------------------
(* The steps of a watch *)

LEMMA WatchIInv ==
  ASSUME IInv, NEW g \in Followers, Watch(g)
  PROVE  IInv' /\ Forward
  <1>1. g \in Tasks /\ \A h \in Followers : h \in Tasks
    BY DEF Tasks
  <1>2. CASE SkipOld(g) \/ Receive(g)
    <2>1. /\ pc[g] = "idle" /\ chan[g] \in Seq(Sample) /\ chan[g] # <<>>
          /\ chan' = [chan EXCEPT ![g] = Tail(@)]
          /\ UNCHANGED <<clock, written, todo, cache, retained, lastTs, applied, authors, missed>>
      BY <1>2 DEF SkipOld, Receive, IInv, TypeOK
    <2>2. Head(chan[g]) \in Sample /\ Tail(chan[g]) \in Seq(Sample)
      BY <2>1
    <2>3. chan' \in [Followers -> Seq(Sample)]
      BY <2>1, <2>2 DEF IInv, TypeOK
    <2>4. applied[g] <= lastTs[g]
      BY <2>1 DEF IInv, AppliedIsKnown, Delivered, Publishing
    <2>5. CASE SkipOld(g)
      BY <2>1, <2>3, <2>5 DEF SkipOld, IInv, TypeOK, ClockBound, TodoWhilePublishing,
         OwnThenLocal, ItemIsNewest, AppliedIsKnown, Delivered, Forward
    <2>6. CASE Receive(g)
      <3>1. /\ item' = [item EXCEPT ![g] = Head(chan[g])]
            /\ pc' = [pc EXCEPT ![g] = "check"]
            /\ lastTs[g] = 0 \/ ~(Head(chan[g]).ts < lastTs[g])
        BY <2>6 DEF Receive, IsOld
      <3>2. lastTs[g] <= Head(chan[g]).ts
        BY <2>2, <3>1 DEF IInv, TypeOK, Sample
      <3>3. TypeOK' /\ ClockBound' /\ OwnThenLocal' /\ Forward
        BY <1>1, <2>1, <2>2, <2>3, <3>1 DEF IInv, TypeOK, ClockBound, OwnThenLocal, Forward
      <3>4. TodoWhilePublishing'
        BY <1>1, <2>1, <3>1 DEF IInv, TypeOK, TodoWhilePublishing, Publishing
      <3>5. ItemIsNewest'
        BY <1>1, <2>1, <3>1, <3>2 DEF IInv, TypeOK, ItemIsNewest
      <3>6. AppliedIsKnown'
        BY <1>1, <2>1, <2>4, <3>1 DEF IInv, TypeOK, AppliedIsKnown, Delivered
      <3> QED
        BY <3>3, <3>4, <3>5, <3>6 DEF IInv
    <2> QED
      BY <1>2, <2>5, <2>6
  <1>3. CASE Check(g)
    <2>1. /\ pc[g] = "check"
          /\ UNCHANGED <<clock, written, item, cache, retained, chan, applied>>
          /\ Proceed(g, <<g>>, FALSE) \/ Proceed(g, <<>>, FALSE)
      BY <1>3 DEF Check
    <2>2. /\ applied[g] <= lastTs[g] /\ applied[g] <= item[g].ts
      BY <2>1, PumpFacts DEF Delivered, Publishing
    <2>3. <<g>> \in Seq(Fields) /\ <<>> \in Seq(Fields) /\ <<>> \in Seq(Local)
      BY DEF Followers
    <2>4. /\ cache' \in [Fields -> Sample] /\ retained' \in [Fields -> Sample]
          /\ chan' \in [Followers -> Seq(Sample)]
      BY <2>1 DEF IInv, TypeOK
    <2>7. authors' \subseteq Writers /\ missed' \subseteq Fields
      BY <1>3 DEF Check, IInv, TypeOK, Followers
    <2>5. CASE Proceed(g, <<g>>, FALSE)
      BY <1>1, <2>1, <2>2, <2>3, <2>4, <2>5, <2>7, ProceedIInv
    <2>6. CASE Proceed(g, <<>>, FALSE)
      BY <1>1, <2>1, <2>2, <2>3, <2>4, <2>6, <2>7, ProceedIInv
    <2> QED
      BY <2>1, <2>5, <2>6
  <1> QED
    BY <1>2, <1>3 DEF Watch

LEMMA StepIInv == IInv /\ [Next]_vars => IInv' /\ [Forward]_vars
  <1> SUFFICES ASSUME IInv, [Next]_vars PROVE IInv' /\ [Forward]_vars
    OBVIOUS
  <1>1. ASSUME UNCHANGED vars PROVE IInv'
    BY <1>1 DEF vars, IInv, TypeOK, ClockBound, TodoWhilePublishing, OwnThenLocal,
       ItemIsNewest, AppliedIsKnown, Delivered
  <1>2. ASSUME NEW k \in Writers, NEW f \in Roots, NEW v \in Values, Write(k, f, v)
        PROVE  IInv' /\ Forward
    BY <1>2, WriteIInv
  <1>3. ASSUME NEW k \in Tasks, Publish(k) PROVE IInv' /\ Forward
    BY <1>3, DropIInv, PutSendIInv, DeliverIInv, FanOutIInv DEF Publish
  <1>4. ASSUME NEW g \in Followers, Watch(g) PROVE IInv' /\ Forward
    BY <1>4, WatchIInv
  <1> QED
    BY <1>1, <1>2, <1>3, <1>4 DEF Next

(* The inductive invariant holds in every reachable state.                 *)
THEOREM Invariance == Spec => []IInv
  BY InitIInv, StepIInv, PTL DEF Spec

(* Every reachable state is well-typed; in particular a task that publishes *)
(* always has a field to publish (code: publish_state and its fan-out).     *)
THEOREM TypeCorrect == Spec => []TypeOK
  <1>1. IInv => TypeOK
    BY DEF IInv
  <1> QED
    BY <1>1, Invariance, PTL

(* However many writers put samples of a field on the wire, and in whatever *)
(* order, its followers apply them in the order of their time stamps.       *)
THEOREM AppliedForward == Spec => AppliedInOrder
  <1>1. IInv /\ [Next]_vars => [\A g \in Followers : applied'[g] >= applied[g]]_vars
    BY StepIInv DEF Forward
  <1> QED
    BY <1>1, Invariance, PTL DEF Spec, AppliedInOrder

-----------------------------------------------------------------------------
(***************************************************************************)
(* The fields that one task may come to publish: those it starts with and  *)
(* all that fan-outs lead to from there.                                   *)
(***************************************************************************)
Elems(s)   == {s[i] : i \in 1 .. Len(s)}
Targets(f) == Elems(Fan[f])
Start(k)   == IF k \in Followers THEN {k} ELSE Roots
Closed(S)  == \A f \in S : Targets(f) \subseteq S
Tree(k)    == {f \in Fields : \A S \in SUBSET Fields : Start(k) \subseteq S /\ Closed(S) => f \in S}

LEMMA ElemsOfTail ==
  ASSUME NEW S, NEW s \in Seq(S), s # <<>>
  PROVE  Elems(s) = {Head(s)} \cup Elems(Tail(s)) /\ Tail(s) \in Seq(S) /\ Head(s) \in S
  <1>1. /\ Len(s) \in Nat /\ Len(s) > 0 /\ Tail(s) \in Seq(S)
        /\ Len(Tail(s)) = Len(s) - 1 /\ Head(s) = s[1] /\ Head(s) \in S
        /\ \A i \in 1 .. Len(Tail(s)) : Tail(s)[i] = s[i + 1]
    BY HeadTailProperties
  <1>2. ASSUME NEW i \in 1 .. Len(s) PROVE s[i] = Head(s) \/ s[i] \in Elems(Tail(s))
    <2>1. CASE i = 1
      BY <1>1, <2>1
    <2>2. CASE i # 1
      <3>1. i - 1 \in 1 .. Len(Tail(s)) /\ Tail(s)[i - 1] = s[i]
        BY <1>1, <2>2
      <3> QED
        BY <3>1 DEF Elems
    <2> QED
      BY <2>1, <2>2
  <1>3. ASSUME NEW i \in 1 .. Len(Tail(s)) PROVE Tail(s)[i] \in Elems(s)
    BY <1>1 DEF Elems
  <1>4. 1 \in 1 .. Len(s) /\ Head(s) \in Elems(s)
    BY <1>1 DEF Elems
  <1> QED
    BY <1>1, <1>2, <1>3, <1>4 DEF Elems

LEMMA ElemsOfConcat ==
  ASSUME NEW S, NEW s \in Seq(S), NEW t \in Seq(S)
  PROVE  Elems(s \o t) = Elems(s) \cup Elems(t) /\ s \o t \in Seq(S)
  <1>1. /\ Len(s) \in Nat /\ Len(t) \in Nat /\ s \o t \in Seq(S)
        /\ Len(s \o t) = Len(s) + Len(t)
        /\ \A i \in 1 .. Len(s) + Len(t) : (s \o t)[i] = IF i <= Len(s) THEN s[i] ELSE t[i - Len(s)]
    BY ConcatProperties, LenProperties
  <1>2. ASSUME NEW i \in 1 .. Len(s \o t) PROVE (s \o t)[i] \in Elems(s) \cup Elems(t)
    <2>1. CASE i <= Len(s)
      BY <1>1, <2>1 DEF Elems
    <2>2. CASE ~(i <= Len(s))
      <3>1. i - Len(s) \in 1 .. Len(t) /\ (s \o t)[i] = t[i - Len(s)]
        BY <1>1, <2>2
      <3> QED
        BY <3>1 DEF Elems
    <2> QED
      BY <2>1, <2>2
  <1>3. ASSUME NEW i \in 1 .. Len(s) PROVE s[i] \in Elems(s \o t)
    BY <1>1 DEF Elems
  <1>4. ASSUME NEW i \in 1 .. Len(t) PROVE t[i] \in Elems(s \o t)
    <2>1. i + Len(s) \in 1 .. Len(s \o t) /\ (s \o t)[i + Len(s)] = t[i]
      BY <1>1
    <2> QED
      BY <2>1 DEF Elems
  <1> QED
    BY <1>1, <1>2, <1>3, <1>4 DEF Elems

LEMMA TargetsFacts ==
  ASSUME NEW f \in Fields
  PROVE  /\ Targets(f) \subseteq Local
         /\ \A g \in Fields : Targets(f) \cap Targets(g) # {} => f = g
  <1>1. ASSUME NEW g \in Fields PROVE Fan[g] \in Seq(Fields) /\ DOMAIN Fan[g] = 1 .. Len(Fan[g])
    BY LenProperties
  <1>2. Targets(f) \subseteq Local
    BY <1>1, FanIsLocal, ElementOfSeq DEF Targets, Elems
  <1>3. ASSUME NEW g \in Fields, NEW h \in Targets(f), h \in Targets(g) PROVE f = g
    BY <1>1, <1>3, SingleFan DEF Targets, Elems
  <1> QED
    BY <1>2, <1>3

LEMMA TreeFacts ==
  ASSUME NEW k \in Tasks
  PROVE  Start(k) \subseteq Tree(k) /\ Tree(k) \subseteq Fields /\ Closed(Tree(k))
  <1>1. Start(k) \subseteq Fields
    BY DEF Start, Followers
  <1>2. ASSUME NEW f \in Tree(k), NEW h \in Targets(f) PROVE h \in Tree(k)
    <2>1. f \in Fields /\ h \in Fields
      BY TargetsFacts DEF Tree, Local
    <2> QED
      BY <1>2, <2>1 DEF Tree, Closed
  <1> QED
    BY <1>1, <1>2 DEF Tree, Closed

(* A field of a task's tree is where it starts, or a fan-out within the    *)
(* tree leads there.                                                       *)
LEMMA TreeGrows ==
  ASSUME NEW k \in Tasks, NEW h \in Tree(k), h \notin Start(k)
  PROVE  \E f \in Tree(k) : h \in Targets(f)
  <1> SUFFICES ASSUME \A f \in Tree(k) : h \notin Targets(f) PROVE FALSE
    OBVIOUS
  <1> DEFINE S == Tree(k) \ {h}
  <1>1. S \in SUBSET Fields /\ Start(k) \subseteq S
    BY TreeFacts
  <1>2. Closed(S)
    BY TreeFacts DEF Closed
  <1>3. h \in S
    BY <1>1, <1>2 DEF Tree
  <1> QED
    BY <1>3

(* A tree has no followed field but the one its pump starts with.          *)
LEMMA TreeOfFollower ==
  ASSUME NEW k \in Tasks, NEW g \in Tree(k), g \in Followers, k \in Followers \/ RootsAreSources
  PROVE  g = k
  <1>1. CASE g \in Start(k)
    BY <1>1 DEF Start, RootsAreSources, Followers
  <1>2. CASE g \notin Start(k)
    <2>1. PICK f \in Tree(k) : g \in Targets(f)
      BY <1>2, TreeGrows
    <2>2. g \in Local
      BY <2>1, TargetsFacts, TreeFacts
    <2> QED
      BY <2>2 DEF Local
  <1> QED
    BY <1>1, <1>2

(* Where every field is written by one task, the trees of two pumps, or of *)
(* a pump and the writers, have no field in common.                        *)
LEMMA TreesApart ==
  ASSUME RootsAreSources, NEW j \in Tasks, NEW k \in Tasks,
         NEW h \in Tree(j), h \in Tree(k)
  PROVE  j = k \/ (j \in Writers /\ k \in Writers)
  <1> SUFFICES ASSUME j # k, Start(j) \cap Start(k) = {} PROVE FALSE
    BY DEF Start, RootsAreSources, Followers, Tasks
  <1>1. \A f \in Fields : Targets(f) \cap (Start(j) \cup Start(k)) = {}
    <2>1. ASSUME NEW f \in Fields, NEW g \in Targets(f), g \in Roots PROVE FALSE
      BY <2>1, LenProperties DEF RootsAreSources, Targets, Elems
    <2>2. ASSUME NEW f \in Fields, NEW g \in Targets(f) PROVE g \notin Followers
      BY TargetsFacts DEF Local
    <2> QED
      BY <2>1, <2>2 DEF Start
  <1> DEFINE S == Tree(j) \ Tree(k)
  <1>2. Start(j) \subseteq S
    <2>1. ASSUME NEW g \in Start(j), g \in Tree(k) PROVE FALSE
      <3>1. PICK f \in Tree(k) : g \in Targets(f)
        BY <2>1, TreeGrows
      <3> QED
        BY <1>1, <3>1, TreeFacts
    <2> QED
      BY <2>1, TreeFacts
  <1>3. Closed(S)
    <2>1. ASSUME NEW f \in S, NEW g \in Targets(f) PROVE g \in S
      <3>1. g \in Tree(j) /\ f \in Fields
        BY TreeFacts DEF Closed
      <3>2. ASSUME g \in Tree(k) PROVE FALSE
        <4>1. g \notin Start(k)
          BY <1>1, <3>1
        <4>2. PICK e \in Tree(k) : g \in Targets(e)
          BY <3>2, <4>1, TreeGrows
        <4>3. e = f
          BY <3>1, <4>2, TargetsFacts, TreeFacts
        <4> QED
          BY <4>2, <4>3
      <3> QED
        BY <3>1, <3>2
    <2> QED
      BY <2>1 DEF Closed
  <1>4. S \in SUBSET Fields
    BY TreeFacts
  <1>5. h \in S
    BY <1>2, <1>3, <1>4 DEF Tree
  <1> QED
    BY <1>5

-----------------------------------------------------------------------------
(* What a task publishes belongs to its tree, and a writer that has not    *)
(* written has nothing to publish.                                         *)
OnWay(k) == Elems(todo[k])

InTree == \A k \in Tasks : OnWay(k) \subseteq Tree(k)

ActiveAreAuthors == \A w \in Writers : todo[w] # <<>> => w \in authors

AInv == InTree /\ ActiveAreAuthors /\ IsFiniteSet(authors)

(* What the publication at the head of the stack leaves on the way.        *)
LEMMA HeadFacts ==
  ASSUME IInv, NEW k \in Tasks, pc[k] \in Publishing
  PROVE  /\ todo[k] # <<>> /\ At(k) \in Fields /\ Tail(todo[k]) \in Seq(Fields)
         /\ OnWay(k) = {At(k)} \cup Elems(Tail(todo[k]))
  <1>1. todo[k] # <<>> /\ todo[k] \in Seq(Fields)
    BY DEF IInv, TodoWhilePublishing, TypeOK
  <1> QED
    BY <1>1, ElemsOfTail DEF OnWay, At

LEMMA ElemsOfOne == ASSUME NEW f PROVE Elems(<<f>>) = {f}
  <1>1. Len(<<f>>) = 1 /\ <<f>>[1] = f /\ 1 .. 1 = {1}
    OBVIOUS
  <1> QED
    BY <1>1 DEF Elems

LEMMA ElemsOfNone == Elems(<<>>) = {}
  <1>1. Len(<<>>) = 0 /\ 1 .. 0 = {}
    OBVIOUS
  <1> QED
    BY <1>1 DEF Elems

(* How a step changes what is on the way: it begins a publication, drops   *)
(* the field it was at, replaces it by its targets, or changes nothing.    *)
LEMMA OnWaySteps ==
  ASSUME IInv, Next
  PROVE  \/ UNCHANGED <<todo, authors>>
         \/ \E k \in Writers, f \in Roots :
              /\ todo[k] = <<>> /\ todo' = [todo EXCEPT ![k] = <<f>>]
              /\ authors' = authors \cup {k}
         \/ \E g \in Followers :
              /\ todo[g] = <<>> /\ todo' = [todo EXCEPT ![g] = <<g>>]
              /\ UNCHANGED authors
         \/ \E k \in Tasks :
              /\ pc[k] \in Publishing
              /\ \/ todo' = [todo EXCEPT ![k] = Tail(todo[k])]
                 \/ todo' = [todo EXCEPT ![k] = Fan[At(k)] \o Tail(todo[k])]
              /\ UNCHANGED authors
  <1>1. ASSUME NEW k \in Writers, NEW f \in Roots, NEW v \in Values, Write(k, f, v)
        PROVE  /\ todo[k] = <<>> /\ todo' = [todo EXCEPT ![k] = <<f>>]
               /\ authors' = authors \cup {k}
    BY <1>1 DEF Write, Proceed, IInv, TodoWhilePublishing, Publishing, Tasks
  <1>2. ASSUME NEW k \in Tasks, Publish(k)
        PROVE  \/ UNCHANGED <<todo, authors>>
               \/ /\ pc[k] \in Publishing
                  /\ \/ todo' = [todo EXCEPT ![k] = Tail(todo[k])]
                     \/ todo' = [todo EXCEPT ![k] = Fan[At(k)] \o Tail(todo[k])]
                  /\ UNCHANGED authors
    BY <1>2
       DEF Publish, Reject, Dedupe, Put, Send, PutFails, Deliver, FanOut, Proceed, Publishing
  <1>3. ASSUME NEW g \in Followers, Watch(g)
        PROVE  \/ UNCHANGED <<todo, authors>>
               \/ /\ todo[g] = <<>> /\ todo' = [todo EXCEPT ![g] = <<g>>]
                  /\ UNCHANGED authors
    <2>1. pc[g] = "check" => todo[g] = <<>> /\ todo \in [Tasks -> Seq(Fields)]
      BY DEF IInv, TypeOK, TodoWhilePublishing, Publishing, Tasks
    <2> QED
      BY <1>3, <2>1 DEF Watch, SkipOld, Receive, Check, Proceed
  <1> QED
    BY <1>1, <1>2, <1>3 DEF Next

LEMMA InitAInv == Init => AInv
  BY ElemsOfNone, FS_EmptySet DEF Init, AInv, InTree, ActiveAreAuthors, OnWay, Tasks

LEMMA StepAInv == IInv /\ AInv /\ [Next]_vars => AInv'
  <1> SUFFICES ASSUME IInv, AInv, Next PROVE AInv'
    BY DEF vars, AInv, InTree, ActiveAreAuthors, OnWay
  <1> USE DEF AInv, InTree, ActiveAreAuthors, OnWay
  <1>1. CASE UNCHANGED <<todo, authors>>
    BY <1>1
  <1>2. todo \in [Tasks -> Seq(Fields)]
    BY DEF IInv, TypeOK
  <1>3. ASSUME NEW k \in Writers, NEW f \in Roots,
               todo' = [todo EXCEPT ![k] = <<f>>], authors' = authors \cup {k}
        PROVE  AInv'
    <2>1. k \in Tasks /\ f \in Tree(k)
      BY TreeFacts DEF Start, Tasks, Followers
    <2>2. IsFiniteSet(authors')
      BY <1>3, FS_AddElement
    <2>3. Elems(todo'[k]) = {f}
      BY <1>2, <1>3, <2>1, ElemsOfOne
    <2>4. InTree'
      BY <1>2, <1>3, <2>1, <2>3
    <2> QED
      BY <1>2, <1>3, <2>1, <2>2, <2>4 DEF Tasks
  <1>4. ASSUME NEW g \in Followers, todo' = [todo EXCEPT ![g] = <<g>>], UNCHANGED authors
        PROVE  AInv'
    <2>1. g \in Tasks /\ g \in Tree(g)
      BY TreeFacts DEF Start, Tasks
    <2>2. Elems(todo'[g]) = {g}
      BY <1>2, <1>4, <2>1, ElemsOfOne
    <2>3. InTree'
      BY <1>2, <1>4, <2>1, <2>2
    <2> QED
      BY <1>2, <1>4, <2>1, <2>3 DEF Tasks, Followers
  <1>5. ASSUME NEW k \in Tasks, pc[k] \in Publishing, NEW s \in Seq(Fields),
               Elems(s) \subseteq Tree(k), todo' = [todo EXCEPT ![k] = s], UNCHANGED authors
        PROVE  AInv'
    <2>1. todo[k] # <<>>
      BY <1>5, HeadFacts
    <2> QED
      BY <1>2, <1>5, <2>1
  <1>6. ASSUME NEW k \in Tasks, pc[k] \in Publishing,
               \/ todo' = [todo EXCEPT ![k] = Tail(todo[k])]
               \/ todo' = [todo EXCEPT ![k] = Fan[At(k)] \o Tail(todo[k])],
               UNCHANGED authors
        PROVE  AInv'
    <2>1. /\ At(k) \in Fields /\ Tail(todo[k]) \in Seq(Fields)
          /\ At(k) \in Tree(k) /\ Elems(Tail(todo[k])) \subseteq Tree(k)
      BY <1>6, HeadFacts
    <2>2. Fan[At(k)] \in Seq(Fields) /\ Elems(Fan[At(k)]) \subseteq Tree(k)
      BY <2>1, TreeFacts DEF Closed, Targets
    <2>3. /\ Fan[At(k)] \o Tail(todo[k]) \in Seq(Fields)
          /\ Elems(Fan[At(k)] \o Tail(todo[k])) \subseteq Tree(k)
      <3> DEFINE t == Tail(todo[k])
                 u == Fan[At(k)]
      <3>1. t \in Seq(Fields) /\ Elems(t) \subseteq Tree(k) /\ u \in Seq(Fields) /\ Elems(u) \subseteq Tree(k)
        BY <2>1, <2>2
      <3> HIDE DEF t, u
      <3>2. u \o t \in Seq(Fields) /\ Elems(u \o t) = Elems(u) \cup Elems(t)
        BY <3>1, ElemsOfConcat
      <3>3. u \o t \in Seq(Fields) /\ Elems(u \o t) \subseteq Tree(k)
        BY <3>1, <3>2
      <3> QED
        BY <3>3 DEF t, u
    <2> QED
      BY <1>5, <1>6, <2>1, <2>3
  <1> QED
    BY <1>1, <1>3, <1>4, <1>6, OnWaySteps

(* One writer stays the only one if it is the only one after a step.       *)
LEMMA OneAuthor ==
  ASSUME AInv, Cardinality(authors) <= 1, NEW v \in authors, NEW w \in authors
  PROVE  v = w
  <1>1. ({v} \cup {w}) \in SUBSET authors
    OBVIOUS
  <1>2. IsFiniteSet({v}) /\ Cardinality({v}) = 1
    BY FS_Singleton
  <1>3. ASSUME v # w PROVE Cardinality({v} \cup {w}) = 2
    <2>1. Cardinality({v} \cup {w}) = IF w \in {v} THEN Cardinality({v}) ELSE Cardinality({v}) + 1
      BY <1>2, FS_AddElement
    <2>2. w \notin {v}
      BY <1>3
    <2>3. Cardinality({v} \cup {w}) = 1 + 1
      BY <1>2, <2>1, <2>2
    <2> QED
      BY <2>3
  <1>4. Cardinality({v} \cup {w}) <= Cardinality(authors) /\ Cardinality(authors) \in Nat
    BY <1>1, FS_Subset, FS_CardinalityType DEF AInv
  <1> QED
    BY <1>3, <1>4

LEMMA SoleBefore ==
  ASSUME IInv, AInv, Next, SoleWriter'
  PROVE  SoleWriter
  <1>1. authors \subseteq authors'
    BY OnWaySteps
  <1>2. IsFiniteSet(authors')
    BY StepAInv DEF AInv
  <1>3. Cardinality(authors) <= Cardinality(authors') /\ Cardinality(authors) \in Nat
        /\ Cardinality(authors') \in Nat
    BY <1>1, <1>2, FS_Subset, FS_CardinalityType DEF AInv
  <1> QED
    BY <1>3 DEF SoleWriter

(* Two tasks never have to do with one field at a time.                    *)
LEMMA OneTask ==
  ASSUME AInv, SoleWriter, NEW j \in Tasks, NEW k \in Tasks, NEW h \in Tree(j), h \in Tree(k),
         todo[j] # <<>>, todo[k] # <<>>
  PROVE  j = k
  BY TreesApart, OneAuthor DEF SoleWriter, AInv, ActiveAreAuthors

-----------------------------------------------------------------------------
(***************************************************************************)
(* Within one service, where every field is written by one task.  What a   *)
(* task puts is retained and then in the cache; fields it has yet to       *)
(* publish because of a fan-out are behind a field that has the value      *)
(* already; and a field that differs from the one that feeds it is about   *)
(* to be published, or was missed.                                         *)
(***************************************************************************)
\* The fields a task will yet publish or drop.
Pending(k) == IF pc[k] = "callback" THEN Elems(Tail(todo[k])) ELSE OnWay(k)

PutIsRetained == \A k \in Tasks : pc[k] \in {"put", "sent"} => retained[At(k)] = item[k]

DeliveredIsCached == \A k \in Tasks : pc[k] = "callback" => cache[At(k)] = item[k]

StoreFollows ==
  \A f \in Fields : \/ retained[f] = cache[f]
                    \/ f \in missed
                    \/ \E k \in Tasks : pc[k] \in {"put", "sent"} /\ At(k) = f

OnWayAgrees ==
  \A k \in Tasks : \A f \in Fields : \A g \in OnWay(k) : g \in Targets(f) => cache[f].value = item[k].value

FanAgrees ==
  \A f \in Fields : \A g \in Targets(f) :
    \/ cache[g].value = cache[f].value
    \/ g \in missed
    \/ \E k \in Tasks : (pc[k] = "callback" /\ At(k) = f) \/ g \in Pending(k)

LocalInv == PutIsRetained /\ DeliveredIsCached /\ StoreFollows /\ OnWayAgrees /\ FanAgrees

LEMMA InitLocalInv == Init => LocalInv
  <1> SUFFICES ASSUME Init PROVE LocalInv
    OBVIOUS
  <1>1. \A k \in Tasks : pc[k] = "idle" /\ OnWay(k) = {}
    BY ElemsOfNone DEF Init, OnWay
  <1>2. \A f \in Fields : cache[f] = [value |-> Initial, ts |-> 0] /\ retained[f] = cache[f]
    BY DEF Init
  <1>3. \A f \in Fields : Targets(f) \subseteq Fields
    BY TargetsFacts DEF Local
  <1> QED
    BY <1>1, <1>2, <1>3
       DEF LocalInv, PutIsRetained, DeliveredIsCached, StoreFollows, OnWayAgrees, FanAgrees

(* Where two tasks publish, they are at different fields, and what one has *)
(* on its way does not come from a field the other is at.                  *)
LEMMA Apart ==
  ASSUME IInv, AInv, SoleWriter, NEW j \in Tasks, NEW k \in Tasks, j # k, pc[k] \in Publishing
  PROVE  /\ OnWay(j) \cap Targets(At(k)) = {}
         /\ At(k) \notin OnWay(j)
         /\ pc[j] \in Publishing => At(j) # At(k)
  <1>1. /\ todo[k] # <<>> /\ At(k) \in Tree(k) /\ At(k) \in Fields
        /\ Targets(At(k)) \subseteq Tree(k)
    BY HeadFacts, TreeFacts DEF AInv, InTree, Closed
  <1>2. OnWay(j) # {} => todo[j] # <<>>
    BY ElemsOfNone DEF OnWay
  <1>3. OnWay(j) \subseteq Tree(j)
    BY DEF AInv, InTree
  <1>4. OnWay(j) \cap Tree(k) = {}
    BY <1>1, <1>2, <1>3, OneTask
  <1> QED
    BY <1>1, <1>4, HeadFacts

(* A task begins: it takes a sample, or goes for the field it starts with. *)
LEMMA BeginLocal ==
  ASSUME IInv, AInv, LocalInv, SoleWriter, NEW k \in Tasks, pc[k] \notin Publishing,
         NEW s \in Seq(Fields), todo' = [todo EXCEPT ![k] = s], Elems(s) \subseteq Start(k),
         NEW p, p \notin {"put", "sent", "callback"}, pc' = [pc EXCEPT ![k] = p],
         NEW x, item' = [item EXCEPT ![k] = x],
         missed \subseteq missed', UNCHANGED <<cache, retained>>
  PROVE  LocalInv'
  <1>1. /\ todo[k] = <<>> /\ OnWay(k) = {} /\ Pending(k) = {}
        /\ pc[k] \notin {"put", "sent", "callback"}
    BY ElemsOfNone DEF IInv, TodoWhilePublishing, OnWay, Pending, Publishing
  <1>2. /\ pc'[k] = p /\ todo'[k] = s /\ OnWay(k)' \subseteq Start(k)
        /\ \A j \in Tasks : j # k => /\ pc'[j] = pc[j] /\ item'[j] = item[j] /\ todo'[j] = todo[j]
    BY DEF IInv, TypeOK, OnWay
  <1>3. \A j \in Tasks : j # k => At(j)' = At(j) /\ OnWay(j)' = OnWay(j) /\ Pending(j)' = Pending(j)
    BY <1>2 DEF At, OnWay, Pending
  <1>4. \A f \in Fields : Targets(f) \cap Start(k) = {}
    <2>1. ASSUME NEW f \in Fields, NEW g \in Targets(f), g \in Roots PROVE FALSE
      BY <2>1, LenProperties DEF SoleWriter, RootsAreSources, Targets, Elems
    <2> QED
      BY <2>1, TargetsFacts DEF Start, Local
  <1>5. PutIsRetained' /\ DeliveredIsCached'
    BY <1>2, <1>3 DEF LocalInv, PutIsRetained, DeliveredIsCached
  <1>6. StoreFollows'
    BY <1>1, <1>2, <1>3 DEF LocalInv, StoreFollows
  <1>7. OnWayAgrees'
    BY <1>2, <1>3, <1>4 DEF LocalInv, OnWayAgrees
  <1>8. FanAgrees'
    <2> SUFFICES ASSUME NEW f \in Fields, NEW g \in Targets(f),
                        cache[g].value # cache[f].value, g \notin missed
                 PROVE  \E j \in Tasks : (pc'[j] = "callback" /\ At(j)' = f) \/ g \in Pending(j)'
      BY DEF FanAgrees
    <2>1. PICK j \in Tasks : (pc[j] = "callback" /\ At(j) = f) \/ g \in Pending(j)
      BY DEF LocalInv, FanAgrees
    <2> QED
      BY <1>1, <1>2, <1>3, <2>1
  <1> QED
    BY <1>5, <1>6, <1>7, <1>8 DEF LocalInv

(* A task goes on with the next field, or with the targets of the last one.*)
LEMMA NextLocal ==
  ASSUME IInv, AInv, LocalInv, SoleWriter, NEW k \in Tasks, pc[k] \in Publishing,
         NEW s \in Seq(Fields), todo' = [todo EXCEPT ![k] = s],
         NEW p, p \notin {"put", "sent", "callback"}, pc' = [pc EXCEPT ![k] = p],
         \/ /\ pc[k] \in {"validate", "put"}
            /\ s = Tail(todo[k])
            /\ \/ missed' = missed \cup {At(k)}
               \/ /\ pc[k] = "validate" /\ cache[At(k)].value = item[k].value
                  /\ missed' = missed
         \/ /\ pc[k] = "callback"
            /\ Elems(s) = Targets(At(k)) \cup Elems(Tail(todo[k]))
            /\ missed' = missed,
         UNCHANGED <<item, cache, retained>>
  PROVE  LocalInv'
  <1>1. /\ At(k) \in Fields /\ OnWay(k) = {At(k)} \cup Elems(Tail(todo[k]))
    BY HeadFacts
  <1>2. /\ pc'[k] = p /\ OnWay(k)' = Elems(s) /\ Pending(k)' = Elems(s)
        /\ \A j \in Tasks : j # k => pc'[j] = pc[j] /\ todo'[j] = todo[j]
    BY DEF IInv, TypeOK, OnWay, Pending
  <1>3. \A j \in Tasks : j # k => At(j)' = At(j) /\ OnWay(j)' = OnWay(j) /\ Pending(j)' = Pending(j)
    BY <1>2 DEF At, OnWay, Pending
  <1>4. PutIsRetained' /\ DeliveredIsCached'
    BY <1>2, <1>3 DEF LocalInv, PutIsRetained, DeliveredIsCached
  <1>5. StoreFollows'
    BY <1>2, <1>3 DEF LocalInv, StoreFollows
  <1>6. OnWayAgrees'
    <2> SUFFICES ASSUME NEW f \in Fields, NEW g \in Elems(s), g \in Targets(f)
                 PROVE  cache[f].value = item[k].value
      <3>1. ASSUME NEW j \in Tasks, j # k, NEW f \in Fields, NEW g \in OnWay(j)', g \in Targets(f)
            PROVE  cache'[f].value = item'[j].value
        <4>1. g \in OnWay(j)
          BY <1>3, <3>1
        <4> QED
          BY <3>1, <4>1 DEF LocalInv, OnWayAgrees
      <3>2. \A f \in Fields : cache'[f] = cache[f]
        OBVIOUS
      <3>3. OnWay(k)' = Elems(s) /\ item'[k] = item[k]
        BY <1>2
      <3>4. SUFFICES ASSUME NEW j \in Tasks, NEW f \in Fields, NEW g \in OnWay(j)', g \in Targets(f)
                     PROVE  cache'[f].value = item'[j].value
        BY DEF OnWayAgrees
      <3>5. CASE j # k
        BY <3>1, <3>4, <3>5
      <3>6. CASE j = k
        BY <3>2, <3>3, <3>4, <3>6
      <3> QED
        BY <3>5, <3>6
    <2>1. CASE g \in OnWay(k)
      BY <2>1 DEF LocalInv, OnWayAgrees
    <2>2. CASE pc[k] = "callback" /\ g \in Targets(At(k))
      <3>1. f = At(k)
        BY <1>1, <2>2, TargetsFacts
      <3> QED
        BY <2>2, <3>1 DEF LocalInv, DeliveredIsCached
    <2> QED
      BY <1>1, <2>1, <2>2
  <1>7. FanAgrees'
    <2> SUFFICES ASSUME NEW f \in Fields, NEW g \in Targets(f),
                        cache[g].value # cache[f].value, g \notin missed'
                 PROVE  \E j \in Tasks : (pc'[j] = "callback" /\ At(j)' = f) \/ g \in Pending(j)'
      BY DEF FanAgrees
    <2>1. PICK j \in Tasks : (pc[j] = "callback" /\ At(j) = f) \/ g \in Pending(j)
      BY DEF LocalInv, FanAgrees
    <2>2. CASE j # k
      BY <1>2, <1>3, <2>1, <2>2
    <2>3. CASE j = k /\ pc[k] = "callback"
      BY <1>2, <2>1, <2>3 DEF Pending
    <2>4. CASE j = k /\ pc[k] # "callback"
      <3>1. g \in OnWay(k) /\ s = Tail(todo[k])
        BY <2>1, <2>4 DEF Pending
      <3>2. g # At(k)
        BY <3>1, <2>4 DEF LocalInv, OnWayAgrees
      <3> QED
        BY <1>1, <1>2, <3>1, <3>2
    <2> QED
      BY <2>2, <2>3, <2>4
  <1> QED
    BY <1>4, <1>5, <1>6, <1>7 DEF LocalInv

(* The sample is retained and put on the wire: no other task is at the     *)
(* field.                                                                  *)
LEMMA PutLocal ==
  ASSUME IInv, AInv, LocalInv, SoleWriter, NEW k \in Tasks, Put(k) \/ Send(k)
  PROVE  LocalInv'
  <1>1. /\ pc[k] \in {"validate", "put"} /\ pc[k] \in Publishing
        /\ UNCHANGED <<todo, item, cache, missed>>
    BY DEF Put, Send, Publishing
  <1>2. PICK p \in {"put", "sent"} : pc' = [pc EXCEPT ![k] = p]
    BY DEF Put, Send
  <1>3. /\ At(k) \in Fields /\ pc'[k] = p
        /\ \A j \in Tasks : j # k => pc'[j] = pc[j]
        /\ \A j \in Tasks : At(j)' = At(j) /\ OnWay(j)' = OnWay(j) /\ Pending(j)' = Pending(j)
    BY <1>1, <1>2, HeadFacts DEF IInv, TypeOK, At, OnWay, Pending
  <1>4. /\ \A f \in Fields \ {At(k)} : retained'[f] = retained[f]
        /\ retained'[At(k)] = item[k]
    BY <1>3 DEF Put, Send, IInv, TypeOK, LocalInv, PutIsRetained
  <1>5. \A j \in Tasks : j # k /\ pc[j] \in Publishing => At(j) # At(k) /\ At(j) \in Fields
    BY <1>1, Apart, HeadFacts
  <1>6. PutIsRetained' /\ DeliveredIsCached'
    BY <1>1, <1>2, <1>3, <1>4, <1>5
       DEF LocalInv, PutIsRetained, DeliveredIsCached, Publishing
  <1>7. StoreFollows'
    BY <1>1, <1>2, <1>3, <1>4 DEF LocalInv, StoreFollows
  <1>8. OnWayAgrees' /\ FanAgrees'
    BY <1>1, <1>2, <1>3 DEF LocalInv, OnWayAgrees, FanAgrees
  <1> QED
    BY <1>6, <1>7, <1>8 DEF LocalInv

(* The sample is delivered: the field it fed from has its value, and the   *)
(* fields it feeds are still on the way.                                   *)
LEMMA DeliverLocal ==
  ASSUME IInv, AInv, LocalInv, SoleWriter, NEW k \in Tasks, Deliver(k)
  PROVE  LocalInv'
  <1>1. /\ pc[k] = "sent" /\ pc[k] \in Publishing
        /\ pc' = [pc EXCEPT ![k] = "callback"]
        /\ cache' = [cache EXCEPT ![At(k)] = item[k]]
        /\ missed' = missed \ {At(k)}
        /\ UNCHANGED <<todo, item, retained>>
    BY DEF Deliver, Publishing
  <1>2. /\ At(k) \in Fields /\ OnWay(k) = {At(k)} \cup Elems(Tail(todo[k]))
        /\ pc'[k] = "callback"
        /\ \A j \in Tasks : j # k => pc'[j] = pc[j] /\ Pending(j)' = Pending(j)
        /\ \A j \in Tasks : At(j)' = At(j) /\ OnWay(j)' = OnWay(j)
        /\ Pending(k) = OnWay(k) /\ Pending(k)' = Elems(Tail(todo[k]))
    BY <1>1, HeadFacts DEF IInv, TypeOK, At, OnWay, Pending
  <1>3. /\ cache'[At(k)] = item[k]
        /\ \A f \in Fields \ {At(k)} : cache'[f] = cache[f]
    BY <1>1, <1>2 DEF IInv, TypeOK
  <1>4. \A j \in Tasks : j # k => /\ OnWay(j) \cap Targets(At(k)) = {}
                                  /\ pc[j] \in Publishing => At(j) # At(k) /\ At(j) \in Fields
    BY <1>1, Apart, HeadFacts
  <1>5. PutIsRetained' /\ DeliveredIsCached'
    BY <1>1, <1>2, <1>3, <1>4 DEF LocalInv, PutIsRetained, DeliveredIsCached, Publishing
  <1>6. StoreFollows'
    <2> SUFFICES ASSUME NEW f \in Fields
                 PROVE  \/ retained[f] = cache'[f]
                        \/ f \in missed'
                        \/ \E j \in Tasks : pc'[j] \in {"put", "sent"} /\ At(j)' = f
      BY <1>1 DEF StoreFollows
    <2>1. CASE f = At(k)
      BY <1>1, <1>3, <2>1 DEF LocalInv, PutIsRetained
    <2>2. CASE f # At(k)
      BY <1>1, <1>2, <1>3, <2>2 DEF LocalInv, StoreFollows
    <2> QED
      BY <2>1, <2>2
  <1>7. OnWayAgrees'
    BY <1>1, <1>2, <1>3, <1>4 DEF LocalInv, OnWayAgrees
  <1>8. FanAgrees'
    <2> SUFFICES ASSUME NEW f \in Fields, NEW g \in Targets(f), f # At(k),
                        cache'[g].value # cache[f].value, g \notin missed'
                 PROVE  \E j \in Tasks : (pc'[j] = "callback" /\ At(j)' = f) \/ g \in Pending(j)'
      BY <1>2, <1>3 DEF FanAgrees
    <2>1. g \in Fields
      BY TargetsFacts DEF Local
    <2>2. g # At(k)
      BY <1>2, <1>3 DEF LocalInv, OnWayAgrees
    <2>3. PICK j \in Tasks : (pc[j] = "callback" /\ At(j) = f) \/ g \in Pending(j)
      BY <1>1, <1>3, <2>1, <2>2 DEF LocalInv, FanAgrees
    <2>4. CASE j # k
      BY <1>2, <2>3, <2>4
    <2>5. CASE j = k
      BY <1>1, <1>2, <2>2, <2>3, <2>5
    <2> QED
      BY <2>4, <2>5
  <1> QED
    BY <1>5, <1>6, <1>7, <1>8 DEF LocalInv

(* One invariant per step, as long as every field has one writer.          *)
LEMMA StepLocal ==
  ASSUME IInv, AInv, SoleWriter => LocalInv, [Next]_vars
  PROVE  (SoleWriter => LocalInv)'
  <1>1. CASE UNCHANGED vars
    BY <1>1 DEF vars, SoleWriter, LocalInv, PutIsRetained, DeliveredIsCached, StoreFollows,
       OnWayAgrees, FanAgrees, At, OnWay, Pending
  <1> SUFFICES ASSUME Next, SoleWriter' PROVE LocalInv'
    BY <1>1
  <1>2. SoleWriter /\ LocalInv
    BY SoleBefore
  <1>3. todo \in [Tasks -> Seq(Fields)] /\ \A g \in Followers : g \in Tasks /\ g \in Fields
    BY DEF IInv, TypeOK, Tasks, Followers
  <1>4. ASSUME NEW k \in Writers, NEW f \in Roots, NEW v \in Values, Write(k, f, v)
        PROVE  LocalInv'
    <2>1. /\ pc[k] = "idle" /\ todo' = [todo EXCEPT ![k] = <<f>>]
          /\ pc' = [pc EXCEPT ![k] = "validate"]
          /\ item' = [item EXCEPT ![k] = [value |-> v, ts |-> clock']]
          /\ UNCHANGED <<cache, retained, missed>>
      BY <1>4 DEF Write, Proceed
    <2>2. k \in Tasks /\ <<f>> \in Seq(Fields) /\ Elems(<<f>>) \subseteq Start(k)
      BY ElemsOfOne DEF Tasks, Start, Followers
    <2>3. pc[k] \notin Publishing /\ "validate" \notin {"put", "sent", "callback"}
      BY <2>1 DEF Publishing
    <2> QED
      BY <1>2, <2>1, <2>2, <2>3, BeginLocal
  <1>5. ASSUME NEW k \in Tasks, Reject(k) \/ PutFails(k) \/ Dedupe(k)
        PROVE  LocalInv'
    <2>1. /\ pc[k] \in {"validate", "put"} /\ pc[k] \in Publishing
          /\ todo' = [todo EXCEPT ![k] = Tail(todo[k])]
          /\ \/ missed' = missed \cup {At(k)}
             \/ /\ pc[k] = "validate" /\ cache[At(k)].value = item[k].value
                /\ missed' = missed
          /\ UNCHANGED <<item, cache, retained>>
      BY <1>5 DEF Reject, PutFails, Dedupe, Proceed, Publishing
    <2>2. PICK p \in {"idle", "validate"} : pc' = [pc EXCEPT ![k] = p]
      BY <1>5 DEF Reject, PutFails, Dedupe, Proceed
    <2>3. p \notin {"put", "sent", "callback"} /\ Tail(todo[k]) \in Seq(Fields)
      BY <2>1, HeadFacts
    <2> QED
      BY <1>2, <2>1, <2>2, <2>3, NextLocal
  <1>6. ASSUME NEW k \in Tasks, FanOut(k) PROVE LocalInv'
    <2> DEFINE t == Tail(todo[k])
               u == Fan[At(k)]
    <2>1. /\ pc[k] = "callback" /\ pc[k] \in Publishing
          /\ todo' = [todo EXCEPT ![k] = u \o t]
          /\ UNCHANGED <<item, cache, retained, missed>>
      BY <1>6 DEF FanOut, Proceed, Publishing
    <2>2. PICK p \in {"idle", "validate"} : pc' = [pc EXCEPT ![k] = p]
      BY <1>6 DEF FanOut, Proceed
    <2>3. t \in Seq(Fields) /\ u \in Seq(Fields) /\ Targets(At(k)) = Elems(u)
      BY <2>1, HeadFacts DEF Targets
    <2> HIDE DEF t, u
    <2>4. u \o t \in Seq(Fields) /\ Elems(u \o t) = Elems(u) \cup Elems(t)
      BY <2>3, ElemsOfConcat
    <2>5. p \notin {"put", "sent", "callback"} /\ Elems(u \o t) = Targets(At(k)) \cup Elems(Tail(todo[k]))
      BY <2>2, <2>3, <2>4 DEF t
    <2> QED
      BY <1>2, <2>1, <2>2, <2>4, <2>5, NextLocal
  <1>7. ASSUME NEW g \in Followers, SkipOld(g) PROVE LocalInv'
    BY <1>2, <1>7 DEF SkipOld, LocalInv, PutIsRetained, DeliveredIsCached, StoreFollows,
       OnWayAgrees, FanAgrees, At, OnWay, Pending
  <1>8. ASSUME NEW g \in Followers, Receive(g) \/ Check(g) PROVE LocalInv'
    <2>1. /\ pc[g] \notin Publishing /\ todo[g] = <<>>
          /\ missed \subseteq missed' /\ UNCHANGED <<cache, retained>>
      BY <1>3, <1>8 DEF Receive, Check, Publishing, IInv, TodoWhilePublishing
    <2>2. PICK s \in {<<>>, <<g>>} : todo' = [todo EXCEPT ![g] = s]
      BY <1>3, <1>8, <2>1 DEF Receive, Check, Proceed
    <2>3. PICK p \in {"check", "idle", "validate"} : pc' = [pc EXCEPT ![g] = p]
      BY <1>8 DEF Receive, Check, Proceed
    <2>4. PICK x : item' = [item EXCEPT ![g] = x]
      <3>1. item = [item EXCEPT ![g] = item[g]]
        BY DEF IInv, TypeOK
      <3> QED
        BY <1>8, <3>1 DEF Receive, Check
    <2>5. s \in Seq(Fields) /\ Elems(s) \subseteq Start(g) /\ p \notin {"put", "sent", "callback"}
      <3>1. Elems(<<g>>) = {g} /\ Elems(<<>>) = {} /\ Start(g) = {g}
        BY ElemsOfOne, ElemsOfNone DEF Start
      <3>2. <<>> \in Seq(Fields) /\ <<g>> \in Seq(Fields)
        BY <1>3
      <3> QED
        BY <2>2, <2>3, <3>1, <3>2
    <2> QED
      BY <1>2, <1>3, <2>1, <2>2, <2>3, <2>4, <2>5, BeginLocal
  <1> QED
    BY <1>2, <1>4, <1>5, <1>6, <1>7, <1>8, PutLocal, DeliverLocal DEF Next, Publish, Watch

(* Where every field has one writer, the invariant of one service holds.   *)
LEMMA LocalInvariance == Spec => [](IInv /\ AInv /\ (SoleWriter => LocalInv))
  <1>1. Init => IInv /\ AInv /\ (SoleWriter => LocalInv)
    BY InitIInv, InitAInv, InitLocalInv
  <1>2. IInv /\ AInv /\ (SoleWriter => LocalInv) /\ [Next]_vars
          => (IInv /\ AInv /\ (SoleWriter => LocalInv))'
    BY StepIInv, StepAInv, StepLocal
  <1> QED
    BY <1>1, <1>2, PTL DEF Spec

(* Where every field has one writer and no publication of a field failed,  *)
(* then, once all tasks are idle, what a newcomer is given of it is what    *)
(* its service has cached (code: publish_state, retained_put).             *)
THEOREM NewcomersSeeTheCache == Spec => []StoreMatchesCache
  <1>1. IInv /\ (SoleWriter => LocalInv) => StoreMatchesCache
    BY DEF StoreMatchesCache, AtRest, LocalInv, StoreFollows
  <1> QED
    BY <1>1, LocalInvariance, PTL

-----------------------------------------------------------------------------
(***************************************************************************)
(* Across services, where every field is written by one task.  The time    *)
(* stamps a task puts on the fields of its tree do not decrease, so the    *)
(* samples on the way to a follower are sorted, none is older than the one *)
(* its pump works on, and none is ever skipped.                            *)
(***************************************************************************)
\* The newest time stamp that task k has put on a field.
Newest(k) == IF k \in Followers THEN item[k].ts ELSE clock

WriterIsNow == \A w \in Writers : todo[w] # <<>> => item[w].ts = clock

ChanIsSorted ==
  \A g \in Followers :
    /\ lastTs[g] <= item[g].ts
    /\ \A i \in 1 .. Len(chan[g]) : item[g].ts <= chan[g][i].ts
    /\ \A i, j \in 1 .. Len(chan[g]) : i <= j => chan[g][i].ts <= chan[g][j].ts

NoneIsNewer ==
  \A k \in Tasks : \A g \in Followers : Peer[g] \in Tree(k) =>
    /\ item[g].ts <= Newest(k)
    /\ \A i \in 1 .. Len(chan[g]) : chan[g][i].ts <= Newest(k)

OrderInv == WriterIsNow /\ ChanIsSorted /\ NoneIsNewer

LEMMA Sorts ==
  ASSUME IInv
  PROVE  /\ clock \in Nat
         /\ \A k \in Tasks : item[k] \in Sample /\ item[k].ts \in Nat /\ Newest(k) \in Nat
         /\ \A g \in Followers : /\ g \in Tasks /\ g \in Fields /\ lastTs[g] \in Nat
                                 /\ chan[g] \in Seq(Sample) /\ Len(chan[g]) \in Nat
                                 /\ \A i \in 1 .. Len(chan[g]) : chan[g][i].ts \in Nat
  <1>1. \A k \in Tasks : item[k] \in Sample /\ item[k].ts \in Nat
    BY DEF IInv, TypeOK, Sample
  <1>2. \A g \in Followers : g \in Tasks /\ g \in Fields /\ lastTs[g] \in Nat
                             /\ chan[g] \in Seq(Sample)
    BY DEF IInv, TypeOK, Tasks, Followers
  <1>3. ASSUME NEW g \in Followers, NEW i \in 1 .. Len(chan[g])
        PROVE  chan[g][i].ts \in Nat
    <2>1. chan[g][i] \in Sample
      BY <1>2, ElementOfSeq
    <2> QED
      BY <2>1 DEF Sample
  <1>4. \A g \in Followers : Len(chan[g]) \in Nat
    BY <1>2, LenProperties
  <1>5. clock \in Nat
    BY DEF IInv, TypeOK
  <1> QED
    BY <1>1, <1>2, <1>3, <1>4, <1>5 DEF Newest

LEMMA InitOrderInv == Init => OrderInv
  <1> SUFFICES ASSUME Init PROVE OrderInv
    OBVIOUS
  <1>1. /\ \A k \in Tasks : item[k].ts = 0 /\ todo[k] = <<>>
        /\ \A g \in Followers : g \in Tasks /\ chan[g] = <<>> /\ lastTs[g] = 0 /\ Len(<<>>) = 0
        /\ clock = 0
    BY DEF Init, Tasks
  <1> QED
    BY <1>1 DEF OrderInv, WriterIsNow, ChanIsSorted, NoneIsNewer, Newest, Tasks

Alone == \A v, w \in authors : v = w

LEMMA SoleAuthor == AInv /\ SoleWriter => Alone
  BY OneAuthor DEF SoleWriter, Alone

(* A write: the one writer puts a sample that is no older than the last.   *)
LEMMA WriteOrder ==
  ASSUME IInv, AInv, AInv', SoleWriter', OrderInv,
         NEW k \in Writers, NEW f \in Roots, NEW v \in Values, Write(k, f, v)
  PROVE  OrderInv'
  <1>1. /\ clock' \in Nat /\ clock <= clock' /\ authors' = authors \cup {k}
        /\ item' = [item EXCEPT ![k] = [value |-> v, ts |-> clock']]
        /\ todo' = [todo EXCEPT ![k] = <<f>>]
        /\ UNCHANGED <<chan, lastTs>>
    BY Sorts DEF Write, Proceed
  <1>2. k \in Tasks /\ k \notin Followers
    BY DEF Tasks, Followers
  <1>3. \A u, w \in authors' : u = w
    <2>1. (AInv /\ SoleWriter => Alone)'
      BY SoleAuthor, PTL
    <2> QED
      BY <2>1 DEF Alone
  <1>4. \A j \in Tasks : j # k => item'[j] = item[j] /\ todo'[j] = todo[j]
    BY <1>1 DEF IInv, TypeOK
  <1>5. item'[k].ts = clock'
    BY <1>1, <1>2 DEF IInv, TypeOK
  <1>6. WriterIsNow'
    <2> SUFFICES ASSUME NEW w \in Writers, todo'[w] # <<>> PROVE item'[w].ts = clock'
      BY DEF WriterIsNow
    <2>1. w \in authors'
      BY DEF AInv, ActiveAreAuthors
    <2> QED
      BY <1>1, <1>3, <1>5, <2>1
  <1>7. \A g \in Followers : g # k /\ item'[g] = item[g]
    BY <1>2, <1>4, Sorts
  <1>8. ChanIsSorted'
    BY <1>1, <1>7 DEF OrderInv, ChanIsSorted
  <1>9. \A j \in Tasks : Newest(j)' \in Nat /\ Newest(j) <= Newest(j)'
    BY <1>1, <1>7, Sorts DEF Newest
  <1>a. NoneIsNewer'
    <2> SUFFICES ASSUME NEW j \in Tasks, NEW g \in Followers, (Peer[g] \in Tree(j))'
                 PROVE  /\ item'[g].ts <= Newest(j)'
                        /\ \A i \in 1 .. Len(chan'[g]) : chan'[g][i].ts <= Newest(j)'
      BY DEF NoneIsNewer
    <2>1. item'[g] = item[g] /\ chan'[g] = chan[g] /\ Peer[g] \in Tree(j)
      BY <1>1, <1>7 DEF Tree, Start, Closed, Targets, Elems
    <2>2. item[g].ts <= Newest(j) /\ \A i \in 1 .. Len(chan[g]) : chan[g][i].ts <= Newest(j)
      BY <2>1 DEF OrderInv, NoneIsNewer
    <2>3. Newest(j) \in Nat /\ Newest(j)' \in Nat /\ Newest(j) <= Newest(j)'
      BY <1>9, Sorts DEF Newest
    <2>4. item[g].ts <= Newest(j)'
      BY <2>2, <2>3, Sorts
    <2>5. \A i \in 1 .. Len(chan[g]) : chan[g][i].ts <= Newest(j)'
      BY <2>2, <2>3, Sorts
    <2> QED
      BY <2>1, <2>4, <2>5
  <1> QED
    BY <1>6, <1>8, <1>a DEF OrderInv

(* A put reaches the wire: its sample is as new as any its task has put.   *)
LEMMA SendOrder ==
  ASSUME IInv, AInv, SoleWriter, OrderInv, NEW k \in Tasks, Send(k)
  PROVE  OrderInv'
  <1>1. /\ pc[k] = "put" /\ pc[k] \in Publishing /\ UNCHANGED <<clock, todo, item, lastTs>>
        /\ \A g \in Followers :
             chan'[g] = IF Peer[g] = At(k) THEN Append(chan[g], item[k]) ELSE chan[g]
    BY DEF Send, Publishing
  <1>2. todo[k] # <<>> /\ At(k) \in Tree(k) /\ At(k) \in Fields
    BY <1>1, HeadFacts DEF AInv, InTree
  <1>3. item[k].ts = Newest(k)
    BY <1>2 DEF Newest, OrderInv, WriterIsNow, Tasks
  <1>4. ASSUME NEW j \in Tasks, At(k) \in Tree(j) PROVE Newest(j) = Newest(k)
    <2>1. j = k \/ (j \in Writers /\ k \in Writers)
      BY <1>2, <1>4, TreesApart DEF SoleWriter
    <2> QED
      BY <2>1 DEF Newest, Followers
  <1>5. ASSUME NEW g \in Followers, Peer[g] = At(k)
        PROVE  /\ item[g].ts <= item[k].ts
               /\ \A i \in 1 .. Len(chan[g]) : chan[g][i].ts <= item[k].ts
               /\ Len(chan'[g]) = Len(chan[g]) + 1
               /\ \A i \in 1 .. Len(chan[g]) : chan'[g][i] = chan[g][i]
               /\ chan'[g][Len(chan[g]) + 1] = item[k]
    <2>1. chan'[g] = Append(chan[g], item[k])
      BY <1>1, <1>5
    <2> QED
      BY <1>2, <1>3, <1>5, <2>1, Sorts, AppendProperties DEF OrderInv, NoneIsNewer
  <1>6. WriterIsNow'
    BY <1>1 DEF OrderInv, WriterIsNow
  <1>7. ChanIsSorted'
    <2> SUFFICES ASSUME NEW g \in Followers
                 PROVE  /\ lastTs[g] <= item[g].ts
                        /\ \A i \in 1 .. Len(chan'[g]) : item[g].ts <= chan'[g][i].ts
                        /\ \A i, j \in 1 .. Len(chan'[g]) : i <= j => chan'[g][i].ts <= chan'[g][j].ts
      BY <1>1 DEF ChanIsSorted
    <2>1. CASE Peer[g] # At(k)
      BY <1>1, <2>1 DEF OrderInv, ChanIsSorted
    <2>2. CASE Peer[g] = At(k)
      <3>1. ASSUME NEW i \in 1 .. Len(chan[g]) + 1
            PROVE  i \in 1 .. Len(chan[g]) \/ i = Len(chan[g]) + 1
        BY Sorts
      <3>2. ASSUME NEW i \in 1 .. Len(chan[g]) + 1 PROVE item[g].ts <= chan'[g][i].ts
        BY <1>5, <2>2, <3>1 DEF OrderInv, ChanIsSorted
      <3>3. ASSUME NEW i \in 1 .. Len(chan[g]) + 1, NEW j \in 1 .. Len(chan[g]) + 1, i <= j
            PROVE  chan'[g][i].ts <= chan'[g][j].ts
        <4>1. CASE j \in 1 .. Len(chan[g])
          <5>1. i \in 1 .. Len(chan[g])
            BY <3>3, <4>1, Sorts
          <5> QED
            BY <1>5, <2>2, <3>3, <4>1, <5>1 DEF OrderInv, ChanIsSorted
        <4>2. CASE j = Len(chan[g]) + 1
          <5>1. item[k].ts <= item[k].ts
            BY Sorts
          <5> QED
            BY <1>5, <2>2, <3>1, <4>2, <5>1
        <4> QED
          BY <3>1, <4>1, <4>2
      <3> QED
        BY <1>5, <2>2, <3>2, <3>3 DEF OrderInv, ChanIsSorted
    <2> QED
      BY <2>1, <2>2
  <1>8. NoneIsNewer'
    <2> SUFFICES ASSUME NEW j \in Tasks, NEW g \in Followers, Peer[g] \in Tree(j),
                        NEW i \in 1 .. Len(chan'[g])
                 PROVE  chan'[g][i].ts <= Newest(j)
      BY <1>1 DEF NoneIsNewer, OrderInv, Newest
    <2>1. CASE Peer[g] # At(k)
      BY <1>1, <2>1 DEF OrderInv, NoneIsNewer
    <2>2. CASE Peer[g] = At(k)
      <3>1. i \in 1 .. Len(chan[g]) \/ i = Len(chan[g]) + 1
        BY <1>5, <2>2, Sorts
      <3> QED
        <4>1. Newest(j) = item[k].ts /\ item[k].ts <= item[k].ts
          BY <1>3, <1>4, <2>2, Sorts
        <4> QED
          <5>1. CASE i \in 1 .. Len(chan[g])
            BY <1>5, <2>2, <4>1, <5>1
          <5>2. CASE i = Len(chan[g]) + 1
            BY <1>5, <2>2, <4>1, <5>2
          <5> QED
            BY <3>1, <5>1, <5>2
    <2> QED
      BY <2>1, <2>2
  <1> QED
    BY <1>6, <1>7, <1>8 DEF OrderInv

(* A pump takes the next sample: the rest is as new.                       *)
LEMMA ReceiveOrder ==
  ASSUME IInv, OrderInv, NEW g \in Followers, Receive(g)
  PROVE  OrderInv'
  <1>1. /\ chan[g] # <<>> /\ UNCHANGED <<clock, todo, lastTs>>
        /\ chan' = [chan EXCEPT ![g] = Tail(@)]
        /\ item' = [item EXCEPT ![g] = Head(chan[g])]
    BY DEF Receive
  <1>2. /\ \A h \in Followers : h # g => chan'[h] = chan[h]
        /\ \A k \in Tasks : k # g => item'[k] = item[k]
        /\ chan'[g] = Tail(chan[g]) /\ item'[g] = Head(chan[g])
    BY <1>1, Sorts DEF IInv, TypeOK
  <1>3. /\ Len(chan[g]) >= 1 /\ Len(chan'[g]) = Len(chan[g]) - 1 /\ Len(chan[g]) \in Nat
        /\ \A i \in 1 .. Len(chan'[g]) : chan'[g][i] = chan[g][i + 1] /\ i + 1 \in 1 .. Len(chan[g])
        /\ item'[g] = chan[g][1] /\ 1 \in 1 .. Len(chan[g])
    <2>1. chan[g] \in Seq(Sample) /\ Len(chan[g]) \in Nat
      BY Sorts
    <2>2. Len(chan[g]) > 0 /\ Len(Tail(chan[g])) = Len(chan[g]) - 1
      BY <1>1, <2>1, HeadTailProperties
    <2>3. \A i \in 1 .. Len(Tail(chan[g])) : Tail(chan[g])[i] = chan[g][i + 1]
      BY <1>1, <2>1, HeadTailProperties
    <2>4. Head(chan[g]) = chan[g][1]
      BY <2>1
    <2> QED
      BY <1>2, <2>1, <2>2, <2>3, <2>4
  <1>4. item[g].ts <= item'[g].ts /\ item'[g].ts \in Nat
    BY <1>3, Sorts DEF OrderInv, ChanIsSorted
  <1>5. WriterIsNow'
    BY <1>1, <1>2 DEF OrderInv, WriterIsNow, Tasks, Followers
  <1>6. ChanIsSorted'
    <2> SUFFICES ASSUME NEW h \in Followers
                 PROVE  /\ lastTs[h] <= item'[h].ts
                        /\ \A i \in 1 .. Len(chan'[h]) : item'[h].ts <= chan'[h][i].ts
                        /\ \A i, j \in 1 .. Len(chan'[h]) : i <= j => chan'[h][i].ts <= chan'[h][j].ts
      BY <1>1 DEF ChanIsSorted
    <2>1. CASE h # g
      <3>1. chan'[h] = chan[h] /\ item'[h] = item[h] /\ lastTs' = lastTs
        BY <1>1, <1>2, <2>1, Sorts
      <3> QED
        BY <3>1 DEF OrderInv, ChanIsSorted
    <2>2. CASE h = g
      <3>1. lastTs[g] <= item'[g].ts
        BY <1>4, Sorts DEF OrderInv, ChanIsSorted
      <3>2. \A i \in 1 .. Len(chan'[g]) : item'[g].ts <= chan'[g][i].ts
        <4> SUFFICES ASSUME NEW i \in 1 .. Len(chan'[g])
                     PROVE  item'[g].ts <= chan'[g][i].ts
          OBVIOUS
        <4>1. item'[g] = chan[g][1] /\ chan'[g][i] = chan[g][i + 1]
              /\ 1 \in 1 .. Len(chan[g]) /\ i + 1 \in 1 .. Len(chan[g])
          BY <1>3
        <4>2. 1 <= i + 1
          OBVIOUS
        <4>3. chan[g][1].ts <= chan[g][i + 1].ts
          BY <4>1, <4>2 DEF OrderInv, ChanIsSorted
        <4> QED
          BY <4>1, <4>3
      <3>3. ASSUME NEW i \in 1 .. Len(chan'[g]), NEW j \in 1 .. Len(chan'[g]), i <= j
            PROVE  chan'[g][i].ts <= chan'[g][j].ts
        <4>2. i + 1 <= j + 1
          BY <3>3
        <4>1. /\ i + 1 \in 1 .. Len(chan[g]) /\ j + 1 \in 1 .. Len(chan[g]) /\ i + 1 <= j + 1
              /\ chan'[g][i] = chan[g][i + 1] /\ chan'[g][j] = chan[g][j + 1]
          BY <1>3, <4>2, Zenon
        <4> QED
          BY <4>1 DEF OrderInv, ChanIsSorted
      <3> QED
        BY <2>2, <3>1, <3>2, <3>3
    <2> QED
      BY <2>1, <2>2
  <1>7. \A k \in Tasks : Newest(k)' \in Nat /\ Newest(k) <= Newest(k)'
    BY <1>1, <1>2, <1>4, Sorts DEF Newest
  <1>8. NoneIsNewer'
    <2> SUFFICES ASSUME NEW k \in Tasks, NEW h \in Followers, Peer[h] \in Tree(k)
                 PROVE  /\ item'[h].ts <= Newest(k)'
                        /\ \A i \in 1 .. Len(chan'[h]) : chan'[h][i].ts <= Newest(k)'
      BY DEF NoneIsNewer
    <2>1. ASSUME NEW t \in Nat, t <= Newest(k) PROVE t <= Newest(k)'
      BY <1>7, <2>1, Sorts
    <2>2. /\ item[h].ts <= Newest(k)
          /\ \A i \in 1 .. Len(chan[h]) : chan[h][i].ts <= Newest(k)
      BY DEF OrderInv, NoneIsNewer
    <2>3. CASE h # g
      BY <1>2, <2>1, <2>2, <2>3, Sorts
    <2>4. CASE h = g
      <3>1. item'[g].ts <= Newest(k)'
        BY <1>3, <2>1, <2>2, <2>4, Sorts
      <3>2. \A i \in 1 .. Len(chan'[g]) : chan'[g][i].ts <= Newest(k)'
        <4> SUFFICES ASSUME NEW i \in 1 .. Len(chan'[g]) PROVE chan'[g][i].ts <= Newest(k)'
          OBVIOUS
        <4>1. i + 1 \in 1 .. Len(chan[g]) /\ chan'[g][i] = chan[g][i + 1]
          BY <1>3
        <4>2. chan[g][i + 1].ts \in Nat /\ chan[g][i + 1].ts <= Newest(k)
          BY <2>2, <2>4, <4>1, Sorts
        <4> QED
          BY <2>1, <4>1, <4>2
      <3> QED
        BY <2>4, <3>1, <3>2
    <2> QED
      BY <2>3, <2>4
  <1> QED
    BY <1>5, <1>6, <1>8 DEF OrderInv

(* No sample is skipped as too old.                                        *)
LEMMA NoneSkipped ==
  ASSUME IInv, OrderInv, NEW g \in Followers
  PROVE  ~SkipOld(g)
  <1> SUFFICES ASSUME SkipOld(g) PROVE FALSE
    OBVIOUS
  <1>1. chan[g] # <<>> /\ Head(chan[g]).ts < lastTs[g] /\ chan[g] \in Seq(Sample)
    BY Sorts DEF SkipOld, IsOld
  <1>2. Len(chan[g]) >= 1 /\ Head(chan[g]) = chan[g][1] /\ 1 \in 1 .. Len(chan[g])
    BY <1>1, Sorts
  <1>3. lastTs[g] <= item[g].ts /\ item[g].ts <= chan[g][1].ts
    BY <1>2 DEF OrderInv, ChanIsSorted
  <1>4. lastTs[g] \in Nat /\ item[g].ts \in Nat /\ chan[g][1].ts \in Nat
    BY <1>2, Sorts
  <1> QED
    BY <1>1, <1>2, <1>3, <1>4

(* The other steps of a task leave the time stamps alone, but for lastTs.  *)
LEMMA OtherOrder ==
  ASSUME IInv, OrderInv, NEW k \in Tasks, UNCHANGED <<clock, item, chan>>,
         \A w \in Writers : todo'[w] # <<>> => todo[w] # <<>>,
         lastTs' = lastTs \/ (k \in Followers /\ lastTs' = [lastTs EXCEPT ![k] = item[k].ts])
  PROVE  OrderInv'
  <1>1. WriterIsNow' /\ NoneIsNewer'
    BY DEF OrderInv, WriterIsNow, NoneIsNewer, Newest
  <1>2. \A g \in Followers : lastTs'[g] <= item[g].ts
    <2> SUFFICES ASSUME NEW g \in Followers PROVE lastTs'[g] <= item[g].ts
      OBVIOUS
    <2>1. lastTs[g] <= item[g].ts /\ item[g].ts <= item[g].ts
      BY Sorts DEF OrderInv, ChanIsSorted
    <2>2. lastTs'[g] = lastTs[g] \/ lastTs'[g] = item[g].ts
      BY DEF IInv, TypeOK
    <2> QED
      BY <2>1, <2>2
  <1>3. ChanIsSorted'
    BY <1>2 DEF OrderInv, ChanIsSorted
  <1> QED
    BY <1>1, <1>3 DEF OrderInv

LEMMA StepOrder ==
  ASSUME IInv, AInv, SoleWriter => OrderInv, [Next]_vars
  PROVE  (SoleWriter => OrderInv)'
  <1>1. CASE UNCHANGED vars
    BY <1>1 DEF vars, SoleWriter, OrderInv, WriterIsNow, ChanIsSorted, NoneIsNewer, Newest
  <1> SUFFICES ASSUME Next, SoleWriter' PROVE OrderInv'
    BY <1>1
  <1>2. SoleWriter /\ OrderInv /\ AInv'
    BY SoleBefore, StepAInv
  <1>3. ASSUME NEW k \in Tasks, Reject(k) \/ PutFails(k) \/ Dedupe(k) \/ FanOut(k)
        PROVE  OrderInv'
    <2>1. /\ UNCHANGED <<clock, item, chan>> /\ pc[k] \in Publishing
          /\ \E s : todo' = [todo EXCEPT ![k] = s]
          /\ lastTs' = lastTs \/ (k \in Followers /\ lastTs' = [lastTs EXCEPT ![k] = item[k].ts])
      BY <1>3 DEF Reject, PutFails, Dedupe, FanOut, Proceed, Publishing
    <2>2. \A w \in Writers : todo'[w] # <<>> => todo[w] # <<>>
      BY <2>1, HeadFacts DEF IInv, TypeOK, Tasks
    <2> QED
      BY <1>2, <2>1, <2>2, OtherOrder
  <1>4. ASSUME NEW k \in Tasks, Put(k) \/ Deliver(k) PROVE OrderInv'
    BY <1>2, <1>4, OtherOrder DEF Put, Deliver
  <1>5. ASSUME NEW g \in Followers, Check(g) PROVE OrderInv'
    <2>1. /\ UNCHANGED <<clock, item, chan, lastTs>> /\ g \in Tasks /\ g \notin Writers
          /\ \E s : todo' = [todo EXCEPT ![g] = s]
      BY <1>5, Sorts DEF Check, Proceed, Followers
    <2> QED
      <3>1. \A w \in Writers : todo'[w] = todo[w]
        BY <2>1 DEF IInv, TypeOK, Tasks
      <3> QED
        BY <1>2, <2>1, <3>1, OtherOrder
  <1> QED
    BY <1>2, <1>3, <1>4, <1>5, WriteOrder, SendOrder, ReceiveOrder, NoneSkipped DEF Next, Publish, Watch

-----------------------------------------------------------------------------
(***************************************************************************)
(* What a follower will have come to, once its watch and its pump are done *)
(* with what they hold, is the value of the field it follows, or that of   *)
(* the sample of that field that was just put on the wire; or it missed    *)
(* the last one.                                                           *)
(***************************************************************************)
PumpHas(g) == pc[g] = "check" \/ (pc[g] \in {"validate", "put", "sent"} /\ todo[g] = <<g>>)

Latest(g) == IF chan[g] # <<>> THEN chan[g][Len(chan[g])].value
             ELSE IF PumpHas(g) THEN item[g].value ELSE cache[g].value

Lost(g) == chan[g] = <<>> /\ ~PumpHas(g) /\ g \in missed

OnWire(k, f) == pc[k] = "sent" /\ At(k) = f

Agrees(g) ==
  \/ Lost(g)
  \/ \E k \in Tasks : OnWire(k, Peer[g]) /\ Latest(g) = item[k].value
  \/ (\A k \in Tasks : ~OnWire(k, Peer[g])) /\ Latest(g) = cache[Peer[g]].value

PeerAgrees == \A g \in Followers : Agrees(g)

\* A step that adds nothing to what a follower will come to.
Kept(g) == Lost(g)' \/ (~Lost(g) /\ Latest(g)' = Latest(g))

LEMMA InitPeerAgrees == Init => PeerAgrees
  <1> SUFFICES ASSUME Init, NEW g \in Followers PROVE Agrees(g)
    BY DEF PeerAgrees
  <1>1. /\ g \in Fields /\ Peer[g] \in Fields /\ g \in Tasks
    BY DEF Followers, Tasks
  <1>2. /\ \A k \in Tasks : pc[k] = "idle"
        /\ chan[g] = <<>> /\ cache[g] = cache[Peer[g]]
    BY <1>1 DEF Init
  <1> QED
    BY <1>1, <1>2 DEF Agrees, Latest, PumpHas, OnWire

(* Only its own pump publishes a followed field, and begins with it.       *)
LEMMA OwnPublication ==
  ASSUME IInv, AInv, SoleWriter, NEW k \in Tasks, pc[k] \in Publishing, At(k) \in Followers
  PROVE  At(k) = k /\ todo[k] = <<k>>
  <1>1. At(k) \in Tree(k)
    BY HeadFacts DEF AInv, InTree
  <1>2. At(k) = k
    BY <1>1, TreeOfFollower DEF SoleWriter
  <1>3. k \notin Local
    BY <1>2 DEF Local
  <1> QED
    BY <1>2, <1>3, AtFacts

(* A pump that drops its own field with an error has missed the sample; if *)
(* it was deduplicated the field has the value; and later fields are not   *)
(* the follower.                                                           *)
LEMMA DropKept ==
  ASSUME IInv, NEW k \in Tasks, Reject(k) \/ PutFails(k) \/ Dedupe(k) \/ FanOut(k),
         NEW g \in Followers
  PROVE  Kept(g)
  <1>1. /\ pc[k] \in Publishing /\ UNCHANGED <<item, cache, chan>> /\ missed \subseteq missed'
        /\ todo[k] # <<>> /\ At(k) \in Fields /\ Tail(todo[k]) \in Seq(Fields)
    BY HeadFacts DEF Reject, PutFails, Dedupe, FanOut, Publishing
  <1>2. PICK s : /\ s = Tail(todo[k]) \/ (pc[k] = "callback" /\ s = Fan[At(k)] \o Tail(todo[k]))
                 /\ todo' = [todo EXCEPT ![k] = s]
                 /\ pc' = [pc EXCEPT ![k] = IF s = <<>> THEN "idle" ELSE "validate"]
    BY DEF Reject, PutFails, Dedupe, FanOut, Proceed
  <1>3. /\ pc'[k] = (IF s = <<>> THEN "idle" ELSE "validate") /\ todo'[k] = s
        /\ g # k => pc'[g] = pc[g] /\ todo'[g] = todo[g]
    BY <1>2 DEF IInv, TypeOK, Tasks
  <1>4. CASE g # k
    BY <1>1, <1>3, <1>4 DEF Kept, Lost, Latest, PumpHas
  <1>5. CASE g = k
    <2>1. Tail(todo[k]) \in Seq(Local)
      <3>1. <<>> \in Seq(Local)
        OBVIOUS
      <3> QED
        BY <1>1, <1>5, <3>1, AtFacts
    <2>2. s \in Seq(Local)
      <3>1. Fan[At(k)] \in Seq(Local)
        BY <1>1, FanIsLocal
      <3> DEFINE t == Tail(todo[k])
                 u == Fan[At(k)]
      <3>2. s = t \/ s = u \o t
        BY <1>2
      <3>3. t \in Seq(Local) /\ u \in Seq(Local)
        BY <2>1, <3>1
      <3> HIDE DEF t, u
      <3>4. u \o t \in Seq(Local)
        BY <3>3, ElemsOfConcat
      <3> QED
        BY <3>2, <3>3, <3>4
    <2>3. s # <<k>>
      BY <1>5, <2>2, OwnIsNotLocal
    <2>4. ~PumpHas(g)'
      BY <1>3, <1>5, <2>3 DEF PumpHas
    <2>5. CASE ~PumpHas(g)
      BY <1>1, <2>4, <2>5 DEF Kept, Lost, Latest
    <2>6. CASE PumpHas(g)
      <3>1. pc[k] \in {"validate", "put", "sent"} /\ At(k) = k
        BY <1>1, <1>5, <2>6 DEF PumpHas, Publishing, At
      <3>2. CASE Dedupe(k)
        BY <1>1, <1>5, <2>4, <2>6, <3>1, <3>2 DEF Kept, Lost, Latest, Dedupe
      <3>3. CASE Reject(k) \/ PutFails(k)
        BY <1>1, <1>5, <2>4, <2>6, <3>1, <3>3 DEF Kept, Lost, Latest, Reject, PutFails
      <3> QED
        BY <3>1, <3>2, <3>3 DEF FanOut
    <2> QED
      BY <2>5, <2>6
  <1> QED
    BY <1>4, <1>5

(* A pump that puts or delivers still holds the value, or has cached it.   *)
LEMMA PutKept ==
  ASSUME IInv, AInv, SoleWriter, NEW k \in Tasks, Put(k) \/ Deliver(k), NEW g \in Followers
  PROVE  Kept(g)
  <1>1. /\ pc[k] \in Publishing /\ UNCHANGED <<item, chan, todo>> /\ At(k) \in Fields
        /\ pc' = [pc EXCEPT ![k] = IF pc[k] = "validate" THEN "put" ELSE "callback"]
    BY HeadFacts DEF Put, Deliver, Publishing
  <1>2. g # k => pc'[g] = pc[g]
    BY <1>1 DEF IInv, TypeOK, Tasks
  <1>3. pc'[k] = (IF pc[k] = "validate" THEN "put" ELSE "callback")
    BY <1>1 DEF IInv, TypeOK
  <1>4. CASE Put(k)
    <2>1. PumpHas(g)' <=> PumpHas(g)
      BY <1>1, <1>2, <1>3, <1>4 DEF Put, PumpHas
    <2> QED
      BY <1>1, <1>4, <2>1 DEF Put, Kept, Lost, Latest
  <1>5. CASE Deliver(k)
    <2>1. /\ pc[k] = "sent" /\ missed' = missed \ {At(k)}
          /\ cache'[At(k)] = item[k]
          /\ \A f \in Fields \ {At(k)} : cache'[f] = cache[f]
      BY <1>1, <1>5 DEF Deliver, IInv, TypeOK
    <2>2. CASE At(k) = g
      <3>1. k = g /\ todo[g] = <<g>>
        BY <1>1, <2>2, OwnPublication
      <3>2. PumpHas(g) /\ ~PumpHas(g)'
        BY <1>1, <1>3, <2>1, <3>1 DEF PumpHas
      <3> QED
        BY <1>1, <2>1, <2>2, <3>1, <3>2 DEF Kept, Lost, Latest
    <2>3. CASE At(k) # g
      <3>1. cache'[g] = cache[g] /\ (g \in missed' <=> g \in missed)
        BY <2>1, <2>3 DEF Followers
      <3>2. g = k => todo[g] # <<g>>
        BY <2>3 DEF At
      <3>3. PumpHas(g)' <=> PumpHas(g)
        BY <1>1, <1>2, <1>3, <2>1, <3>2 DEF PumpHas
      <3> QED
        BY <1>1, <3>1, <3>3 DEF Kept, Lost, Latest
    <2> QED
      BY <2>2, <2>3
  <1> QED
    BY <1>4, <1>5

(* A writer does not touch pumps.                                          *)
LEMMA WriteKept ==
  ASSUME IInv, NEW k \in Writers, NEW f \in Roots, NEW v \in Values, Write(k, f, v),
         NEW g \in Followers
  PROVE  Kept(g)
  <1>1. /\ UNCHANGED <<cache, chan, missed>> /\ g # k /\ g \in Tasks
        /\ pc'[g] = pc[g] /\ todo'[g] = todo[g] /\ item'[g] = item[g]
    BY DEF Write, Proceed, IInv, TypeOK, Followers, Tasks
  <1> QED
    BY <1>1 DEF Kept, Lost, Latest, PumpHas

(* A pump that takes a sample holds it; one that drops it as a duplicate   *)
(* has the value, or missed it.                                            *)
LEMMA WatchKept ==
  ASSUME IInv, NEW h \in Followers, Receive(h) \/ Check(h), NEW g \in Followers
  PROVE  Kept(g)
  <1>1. /\ h \in Tasks /\ g \in Tasks /\ UNCHANGED cache /\ missed \subseteq missed'
        /\ g # h => /\ pc'[g] = pc[g] /\ todo'[g] = todo[g] /\ item'[g] = item[g]
                    /\ chan'[g] = chan[g]
    BY DEF Receive, Check, Proceed, IInv, TypeOK, Tasks
  <1>2. ASSUME g # h PROVE Kept(g)
    BY <1>1, <1>2 DEF Kept, Lost, Latest, PumpHas
  <1>3. ASSUME g = h, Receive(g) PROVE Kept(g)
    <2>1. /\ chan[g] # <<>> /\ chan[g] \in Seq(Sample)
          /\ chan'[g] = Tail(chan[g]) /\ item'[g] = Head(chan[g]) /\ PumpHas(g)'
      BY <1>1, <1>3 DEF Receive, IInv, TypeOK, PumpHas
    <2>2. /\ Len(chan[g]) \in Nat /\ Len(chan[g]) > 0 /\ Head(chan[g]) = chan[g][1]
          /\ Len(Tail(chan[g])) = Len(chan[g]) - 1
          /\ \A i \in 1 .. Len(chan[g]) - 1 : Tail(chan[g])[i] = chan[g][i + 1]
          /\ Tail(chan[g]) \in Seq(Sample)
      BY <2>1, HeadTailProperties
    <2>3. CASE Tail(chan[g]) = <<>>
      <3>1. Len(Tail(chan[g])) = 0
        <4>1. Len(<<>>) = 0
          OBVIOUS
        <4> QED
          BY <2>3, <4>1, Zenon
      <3>3. Len(chan[g]) = 1
        BY <2>2, <3>1
      <3> QED
        BY <2>1, <2>2, <2>3, <3>3 DEF Kept, Lost, Latest
    <2>4. CASE Tail(chan[g]) # <<>>
      <3>1. Len(chan[g]) - 1 \in 1 .. Len(chan[g]) - 1
        BY <2>2, <2>4, EmptySeq
      <3>2. Tail(chan[g])[Len(chan[g]) - 1] = chan[g][Len(chan[g])]
        BY <2>2, <3>1
      <3> QED
        BY <2>1, <2>2, <2>4, <3>2 DEF Kept, Lost, Latest
    <2> QED
      BY <2>3, <2>4
  <1>4. ASSUME g = h, Check(g) PROVE Kept(g)
    <2>1. /\ pc[g] = "check" /\ PumpHas(g) /\ UNCHANGED <<item, chan>>
      BY <1>4 DEF Check, PumpHas
    <2>2. CASE PumpHas(g)'
      BY <1>1, <2>1, <2>2 DEF Kept, Lost, Latest
    <2>3. CASE ~PumpHas(g)'
      <3>1. ~Proceed(g, <<g>>, FALSE)
        <4> SUFFICES ASSUME Proceed(g, <<g>>, FALSE) PROVE PumpHas(g)'
          BY <2>3
        <4>1. todo'[g] = <<g>> /\ pc'[g] = "validate"
          BY <1>1 DEF Proceed, IInv, TypeOK
        <4> QED
          BY <4>1 DEF PumpHas
      <3>2. item[g].value = cache[g].value \/ g \in missed'
        BY <1>4, <3>1 DEF Check, IsDuplicate
      <3> QED
        BY <1>1, <2>1, <2>3, <3>2 DEF Kept, Lost, Latest
    <2> QED
      BY <2>2, <2>3
  <1> QED
    BY <1>2, <1>3, <1>4

(***************************************************************************)
(* A step that keeps what a follower will come to, and changes neither the *)
(* field it follows nor who is between its put and its delivery, keeps     *)
(* their agreement.                                                        *)
(***************************************************************************)
LEMMA KeptAgrees ==
  ASSUME IInv, PeerAgrees, NEW k \in Tasks, pc[k] # "sent", NEW p, p # "sent",
         pc' = [pc EXCEPT ![k] = p],
         \A j \in Tasks : j # k => todo'[j] = todo[j] /\ item'[j] = item[j],
         UNCHANGED cache, NEW g \in Followers, Kept(g)
  PROVE  Agrees(g)'
  <1>1. \A j \in Tasks : OnWire(j, Peer[g])' <=> OnWire(j, Peer[g])
    BY DEF OnWire, At, IInv, TypeOK
  <1>2. \A j \in Tasks : OnWire(j, Peer[g]) => j # k
    BY DEF OnWire
  <1>3. Agrees(g)
    BY DEF PeerAgrees
  <1>4. \A j \in Tasks : j # k => item'[j] = item[j]
    OBVIOUS
  <1>5. CASE Lost(g)'
    BY <1>5 DEF Agrees
  <1>6. CASE ~Lost(g) /\ Latest(g)' = Latest(g)
    <2>1. CASE \A j \in Tasks : ~OnWire(j, Peer[g])
      BY <1>1, <1>3, <1>6, <2>1 DEF Agrees
    <2>2. ASSUME NEW j \in Tasks, OnWire(j, Peer[g]), Latest(g) = item[j].value
          PROVE  Agrees(g)'
      BY <1>1, <1>2, <1>4, <1>6, <2>2 DEF Agrees
    <2> QED
      BY <1>3, <1>6, <2>1, <2>2 DEF Agrees
  <1> QED
    BY <1>5, <1>6 DEF Kept

(* The put of the followed field reaches its watch.                        *)
LEMMA SendAgrees ==
  ASSUME IInv, PeerAgrees, NEW k \in Tasks, Send(k), NEW g \in Followers
  PROVE  Agrees(g)'
  <1>1. /\ pc[k] = "put" /\ pc' = [pc EXCEPT ![k] = "sent"]
        /\ UNCHANGED <<todo, item, cache, missed>>
        /\ chan'[g] = IF Peer[g] = At(k) THEN Append(chan[g], item[k]) ELSE chan[g]
    BY DEF Send
  <1>2. /\ pc'[k] = "sent" /\ \A j \in Tasks : j # k => pc'[j] = pc[j]
        /\ \A j \in Tasks : At(j)' = At(j)
    BY <1>1 DEF IInv, TypeOK, At
  <1>3. PumpHas(g)' <=> PumpHas(g)
    BY <1>1, <1>2, Sorts DEF PumpHas
  <1>4. CASE Peer[g] = At(k)
    <2>1. /\ chan'[g] = Append(chan[g], item[k]) /\ chan[g] \in Seq(Sample) /\ item[k] \in Sample
      BY <1>1, <1>4, Sorts
    <2>2. chan'[g] # <<>> /\ chan'[g][Len(chan'[g])] = item[k]
      <3>1. /\ Len(chan[g]) \in Nat
            /\ Len(Append(chan[g], item[k])) = Len(chan[g]) + 1
            /\ Append(chan[g], item[k])[Len(chan[g]) + 1] = item[k]
        BY <2>1, AppendProperties
      <3>2. Append(chan[g], item[k]) # <<>>
        <4>1. Len(<<>>) = 0
          OBVIOUS
        <4>2. ASSUME Append(chan[g], item[k]) = <<>>
              PROVE  Len(Append(chan[g], item[k])) = 0
          BY <4>1, <4>2, Zenon
        <4> QED
          BY <3>1, <4>2
      <3> QED
        BY <2>1, <3>1, <3>2
    <2>3. Latest(g)' = item'[k].value
      BY <1>1, <2>2 DEF Latest
    <2> QED
      BY <1>2, <1>4, <2>3 DEF Agrees, OnWire
  <1>5. CASE Peer[g] # At(k)
    <2>1. \A j \in Tasks : OnWire(j, Peer[g])' <=> OnWire(j, Peer[g])
      BY <1>1, <1>2, <1>5 DEF OnWire
    <2>2. Latest(g)' = Latest(g) /\ (Lost(g) => Lost(g)')
      BY <1>1, <1>3, <1>5 DEF Latest, Lost
    <2> QED
      BY <1>1, <2>1, <2>2 DEF PeerAgrees, Agrees
  <1> QED
    BY <1>4, <1>5

(* The followed field takes the value that was put.                        *)
LEMMA DeliverAgrees ==
  ASSUME IInv, AInv, SoleWriter, PeerAgrees, NEW k \in Tasks, Deliver(k), NEW g \in Followers
  PROVE  Agrees(g)'
  <1>1. /\ pc[k] = "sent" /\ pc' = [pc EXCEPT ![k] = "callback"] /\ pc[k] \in Publishing
        /\ cache' = [cache EXCEPT ![At(k)] = item[k]]
        /\ UNCHANGED <<todo, item, chan>>
    BY DEF Deliver, Publishing
  <1>2. /\ pc'[k] = "callback" /\ \A j \in Tasks : j # k => pc'[j] = pc[j]
        /\ \A j \in Tasks : At(j)' = At(j)
        /\ At(k) \in Fields /\ Peer[g] \in Fields
    BY <1>1, HeadFacts DEF IInv, TypeOK, At, Followers
  <1>3. Kept(g)
    BY PutKept
  <1>4. \A j \in Tasks : OnWire(j, Peer[g])' <=> OnWire(j, Peer[g]) /\ j # k
    BY <1>1, <1>2 DEF OnWire
  <1>5. \A j \in Tasks : j # k /\ pc[j] = "sent" => At(j) # At(k)
    BY <1>1, Apart DEF Publishing
  <1>6. CASE Peer[g] = At(k)
    <2>1. cache'[Peer[g]] = item[k]
      BY <1>1, <1>2, <1>6 DEF IInv, TypeOK
    <2>2. \A j \in Tasks : OnWire(j, Peer[g]) <=> j = k
      BY <1>1, <1>5, <1>6 DEF OnWire
    <2>3. Lost(g) \/ Latest(g) = item[k].value
      BY <2>2 DEF PeerAgrees, Agrees
    <2> QED
      BY <1>3, <1>4, <2>1, <2>2, <2>3 DEF Kept, Agrees
  <1>7. CASE Peer[g] # At(k)
    <2>1. cache'[Peer[g]] = cache[Peer[g]]
      BY <1>1, <1>2, <1>7 DEF IInv, TypeOK
    <2>2. \A j \in Tasks : OnWire(j, Peer[g])' <=> OnWire(j, Peer[g])
      BY <1>4, <1>7 DEF OnWire
    <2> QED
      BY <1>1, <1>3, <2>1, <2>2 DEF Kept, PeerAgrees, Agrees
  <1> QED
    BY <1>6, <1>7

LEMMA StepPeer ==
  ASSUME IInv, AInv, SoleWriter => OrderInv, SoleWriter => PeerAgrees, [Next]_vars
  PROVE  (SoleWriter => PeerAgrees)'
  <1>1. CASE UNCHANGED vars
    BY <1>1 DEF vars, SoleWriter, PeerAgrees, Agrees, Lost, Latest, PumpHas, OnWire, At
  <1> SUFFICES ASSUME Next, SoleWriter', NEW g \in Followers PROVE Agrees(g)'
    BY <1>1 DEF PeerAgrees
  <1>2. SoleWriter /\ OrderInv /\ PeerAgrees
    BY SoleBefore
  <1>3. ASSUME NEW k \in Writers, NEW f \in Roots, NEW v \in Values, Write(k, f, v)
        PROVE  Agrees(g)'
    <2>1. /\ k \in Tasks /\ pc[k] # "sent" /\ pc' = [pc EXCEPT ![k] = "validate"]
          /\ \A j \in Tasks : j # k => todo'[j] = todo[j] /\ item'[j] = item[j]
          /\ UNCHANGED cache
      BY <1>3 DEF Write, Proceed, IInv, TypeOK, Tasks
    <2>2. Kept(g) /\ "validate" # "sent"
      BY <1>3, WriteKept
    <2> QED
      BY <1>2, <2>1, <2>2, KeptAgrees
  <1>4. ASSUME NEW k \in Tasks, Reject(k) \/ PutFails(k) \/ Dedupe(k) \/ FanOut(k) \/ Put(k)
        PROVE  Agrees(g)'
    <2>1. /\ pc[k] # "sent" /\ UNCHANGED <<item, cache>>
          /\ \A j \in Tasks : j # k => todo'[j] = todo[j]
      BY <1>4 DEF Reject, PutFails, Dedupe, FanOut, Put, Proceed, IInv, TypeOK
    <2>2. PICK p \in {"put", "idle", "validate"} : pc' = [pc EXCEPT ![k] = p]
      BY <1>4 DEF Reject, PutFails, Dedupe, FanOut, Put, Proceed
    <2>3. Kept(g) /\ p # "sent"
      BY <1>2, <1>4, <2>2, DropKept, PutKept
    <2> QED
      BY <1>2, <2>1, <2>2, <2>3, KeptAgrees
  <1>5. ASSUME NEW h \in Followers, Receive(h) \/ Check(h) PROVE Agrees(g)'
    <2>1. /\ h \in Tasks /\ pc[h] # "sent" /\ UNCHANGED cache
          /\ \A j \in Tasks : j # h => todo'[j] = todo[j] /\ item'[j] = item[j]
      BY <1>5 DEF Receive, Check, Proceed, IInv, TypeOK, Tasks
    <2>2. PICK p \in {"check", "idle", "validate"} : pc' = [pc EXCEPT ![h] = p]
      BY <1>5 DEF Receive, Check, Proceed
    <2>3. Kept(g) /\ p # "sent"
      BY <1>5, <2>2, WatchKept
    <2> QED
      BY <1>2, <2>1, <2>2, <2>3, KeptAgrees
  <1> QED
    BY <1>2, <1>3, <1>4, <1>5, SendAgrees, DeliverAgrees, NoneSkipped DEF Next, Publish, Watch

(* The invariants that hold where every field is written by one task.      *)
LEMMA SoleInvariance == Spec => [](IInv /\ (SoleWriter => LocalInv /\ PeerAgrees))
  <1> DEFINE Inv == /\ IInv /\ AInv
                    /\ (SoleWriter => LocalInv)
                    /\ (SoleWriter => OrderInv)
                    /\ (SoleWriter => PeerAgrees)
  <1>1. Init => Inv
    BY InitIInv, InitAInv, InitLocalInv, InitOrderInv, InitPeerAgrees
  <1>2. Inv /\ [Next]_vars => Inv'
    BY StepIInv, StepAInv, StepLocal, StepOrder, StepPeer
  <1>3. Inv => IInv /\ (SoleWriter => LocalInv /\ PeerAgrees)
    OBVIOUS
  <1> QED
    BY <1>1, <1>2, <1>3, PTL DEF Spec

(* Where every field has one writer, and once all is quiet, a field has the *)
(* value of the field that feeds it, in its service or in another one,      *)
(* unless its last publication was rejected or failed (code: the fan-out of *)
(* publish_state, and on_remote_state_retained).                            *)
THEOREM EdgesCarryValues == Spec => []EdgesAgree
  <1>1. ASSUME IInv, SoleWriter => LocalInv /\ PeerAgrees PROVE EdgesAgree
    <2> SUFFICES ASSUME AtRest, SoleWriter, NEW f \in Fields, NEW g \in Fields \ missed,
                        Feeds(f, g)
                 PROVE  cache[g].value = cache[f].value
      BY DEF EdgesAgree
    <2>1. \A k \in Tasks : pc[k] = "idle" /\ todo[k] = <<>> /\ Pending(k) = {}
      <3> SUFFICES ASSUME NEW k \in Tasks
                   PROVE  pc[k] = "idle" /\ todo[k] = <<>> /\ Pending(k) = {}
        OBVIOUS
      <3>1. pc[k] = "idle"
        BY DEF AtRest
      <3>2. todo[k] = <<>>
        BY <1>1, <3>1 DEF IInv, TodoWhilePublishing, Publishing
      <3> QED
        BY <3>1, <3>2, ElemsOfNone DEF Pending, OnWay
    <2>2. CASE \E i \in DOMAIN Fan[f] : Fan[f][i] = g
      <3>1. g \in Targets(f)
        BY <2>2, LenProperties DEF Targets, Elems
      <3> QED
        BY <1>1, <2>1, <3>1 DEF LocalInv, FanAgrees
    <2>3. CASE Peer[g] = f
      <3>1. g \in Followers /\ g \in Tasks
        BY <2>3 DEF Followers, Tasks
      <3>2. chan[g] = <<>> /\ ~PumpHas(g) /\ Agrees(g)
        BY <1>1, <2>1, <3>1 DEF AtRest, PumpHas, PeerAgrees
      <3> QED
        BY <2>1, <2>3, <3>2 DEF Agrees, Lost, Latest, OnWire
    <2> QED
      BY <2>2, <2>3 DEF Feeds
  <1>2. IInv /\ (SoleWriter => LocalInv /\ PeerAgrees) => EdgesAgree
    BY <1>1
  <1> QED
    BY <1>2, SoleInvariance, PTL

(* Where every field has one writer, and once all is quiet, a written value *)
(* has arrived at every field it leads to, over any number of fan-outs and  *)
(* services, up to a publication that was rejected or failed: the fields    *)
(* that have the value are closed under the edges (code: publish_state,     *)
(* whose deliveries fan out again, and on_remote_state_retained).           *)
THEOREM ValuesCarryDownstream == Spec => []DownstreamAgrees
  <1>1. ASSUME EdgesAgree PROVE DownstreamAgrees
    <2> SUFFICES ASSUME AtRest, SoleWriter, NEW f \in Fields, NEW g \in Downstream(f)
                 PROVE  cache[g].value = cache[f].value
      BY DEF DownstreamAgrees
    <2> DEFINE S == {h \in Fields : cache[h].value = cache[f].value}
    <2>1. S \in SUBSET Fields /\ f \in S
      OBVIOUS
    <2>2. Carried(S)
      <3> SUFFICES ASSUME NEW h \in S, NEW e \in Fields \ missed, Feeds(h, e) PROVE e \in S
        BY DEF Carried
      <3>1. cache[e].value = cache[h].value
        BY <1>1 DEF EdgesAgree
      <3> QED
        BY <3>1
    <2>3. g \in S
      BY <2>1, <2>2 DEF Downstream
    <2> QED
      BY <2>3
  <1>2. EdgesAgree => DownstreamAgrees
    BY <1>1
  <1> QED
    BY <1>2, EdgesCarryValues, PTL

(* Where every field has one writer, and at any time, a field that differs  *)
(* from the one it follows has a sample under way: none is lost, skipped as *)
(* old or taken for a duplicate while its follower still lacks its value    *)
(* (code: on_remote_state_retained).  What remains for ValuesArrive is that *)
(* pumps go on.                                                             *)
THEOREM NewsIsUnderWay == Spec => []BehindHasNews
  <1>1. ASSUME SoleWriter => PeerAgrees PROVE BehindHasNews
    <2> SUFFICES ASSUME SoleWriter, NEW g \in Followers \ missed,
                        cache[g].value # cache[Peer[g]].value, chan[g] = <<>>,
                        pc[g] \notin {"check", "validate", "put", "sent"}
                 PROVE  \E k \in Tasks : pc[k] = "sent" /\ At(k) = Peer[g]
      BY DEF BehindHasNews
    <2>1. ~PumpHas(g) /\ ~Lost(g)
      BY DEF PumpHas, Lost
    <2>2. Latest(g) = cache[g].value
      BY <2>1 DEF Latest
    <2> QED
      BY <1>1, <2>1, <2>2 DEF PeerAgrees, Agrees, OnWire
  <1>2. (SoleWriter => PeerAgrees) => BehindHasNews
    BY <1>1
  <1> QED
    BY <1>2, SoleInvariance, PTL
=============================================================================
