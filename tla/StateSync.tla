------------------------------ MODULE StateSync ------------------------------
(***************************************************************************)
(* The state plane: publish_state with its fan-out along state edges of    *)
(* one service, the retained samples it puts on the wire, and the watches  *)
(* that carry a field to fields of other services (cross-state edges).     *)
(*                                                                         *)
(* One deployed graph; every service has applied it and its watches are    *)
(* up.  A field has one upstream at most, as the validation demands, and a *)
(* field is watched once per service.  A value keeps its identity through  *)
(* validation and coercion. Hidden command fields (see CommandDispatch)    *)
(* and the "active" field have a pipeline of their own and are not among   *)
(* the fields.  A step is what an event loop, or the thread that runs      *)
(* publisher.put, does between two awaits.                                 *)
(*                                                                         *)
(* applied, authors and missed are history variables.                      *)
(***************************************************************************)
EXTENDS Integers, Sequences, FiniteSets

CONSTANTS
  Fields,     \* state fields of all services
  Fan,        \* _intra_state_out: the targets of a field, in route order
  Peer,       \* the field of another service that a field follows
  NoField,    \* ... and of a field that follows none
  Writers,    \* tasks that write fields (endpoints, runtime code)
  Roots,      \* the fields they write
  Values, Initial,
  MaxWrites,  \* bound: writes
  Failures    \* "reject": validation may reject; "put": a put may raise

ASSUME FanAssumption      == Fan \in [Fields -> Seq(Fields)]
ASSUME PeerAssumption     == Peer \in [Fields -> Fields \cup {NoField}] /\ NoField \notin Fields
ASSUME SingleUpstream     == \A f \in Fields : \A i \in DOMAIN Fan[f] : Peer[Fan[f][i]] = NoField
ASSUME SingleFan          == \A f, g \in Fields : \A i \in DOMAIN Fan[f], j \in DOMAIN Fan[g] :
                                Fan[f][i] = Fan[g][j] => f = g
ASSUME TasksAssumption    == Writers \cap Fields = {} /\ Roots \subseteq Fields /\ NoField \notin Writers
ASSUME ValuesAssumption   == Initial \in Values
ASSUME BoundsAssumption   == MaxWrites \in Nat
ASSUME FailuresAssumption == Failures \subseteq {"reject", "put"}

VARIABLES
  clock,     \* now_ms(), as far as writes have looked at it
  written,   \* writes so far
  pc,        \* where a task is
  todo,      \* the fields a task has to publish, innermost fan-out first
  item,      \* the value and time stamp a task publishes
  cache,     \* StateStore: value and time stamp of each field
  retained,  \* _retained: the sample that retained_get answers
  chan,      \* samples on their way to the watch of a following field
  lastTs,    \* _cross_state_last_ts; 0 where there is no entry
  applied,   \* history: time stamp of the last sample applied to a field
  authors,   \* history: the writers that have written
  missed     \* history: fields whose last publication was rejected or failed

vars == <<clock, written, pc, todo, item, cache, retained, chan, lastTs, applied, authors, missed>>

Followers == {g \in Fields : Peer[g] # NoField}
Tasks     == Writers \cup Followers   \* a follower stands for its watch's pump
Sample    == [value : Values, ts : 0 .. MaxWrites]

TypeOK ==
  /\ clock \in 0 .. MaxWrites /\ written \in 0 .. MaxWrites
  /\ pc \in [Tasks -> {"idle", "check", "validate", "put", "sent", "callback"}]
  /\ todo \in [Tasks -> Seq(Fields)]
  /\ item \in [Tasks -> Sample]
  /\ cache \in [Fields -> Sample]
  /\ retained \in [Fields -> Sample]
  /\ chan \in [Followers -> Seq(Sample)]
  /\ lastTs \in [Followers -> 0 .. MaxWrites]
  /\ applied \in [Followers -> 0 .. MaxWrites]
  /\ authors \subseteq Writers
  /\ missed \subseteq Fields

Init ==
  LET start == [value |-> Initial, ts |-> 0] IN
  /\ clock = 0 /\ written = 0
  /\ pc = [k \in Tasks |-> "idle"]
  /\ todo = [k \in Tasks |-> <<>>]
  /\ item = [k \in Tasks |-> start]
  /\ cache = [f \in Fields |-> start]
  /\ retained = [f \in Fields |-> start]
  /\ chan = [g \in Followers |-> <<>>]
  /\ lastTs = [g \in Followers |-> 0]
  /\ applied = [g \in Followers |-> 0]
  /\ authors = {}
  /\ missed = {}

-----------------------------------------------------------------------------
(* publish_state *)

\* The field a task is publishing now.
At(k) == Head(todo[k])

\* Task k starts to publish fields s; with none left it returns, and a pump
\* then records the time stamp of the sample it delivered.
Proceed(k, s, record) ==
  /\ todo' = [todo EXCEPT ![k] = s]
  /\ pc' = [pc EXCEPT ![k] = IF s = <<>> THEN "idle" ELSE "validate"]
  /\ lastTs' = IF s = <<>> /\ record /\ k \in Followers
               THEN [lastTs EXCEPT ![k] = item[k].ts] ELSE lastTs

\* Mistake: the time stamp is moved ahead of the clock.
WriteAhead(k, f, v) ==
  /\ pc[k] = "idle"
  /\ written < MaxWrites
  /\ written' = written + 1
  /\ clock' \in {clock, clock + 1} \ {0}
  /\ item' = [item EXCEPT ![k] = [value |-> v, ts |-> clock' + 1]]
  /\ Proceed(k, <<f>>, FALSE)
  /\ authors' = authors \cup {k}
  /\ UNCHANGED <<cache, retained, chan, applied, missed>>

\* An endpoint or runtime code calls publish_state; time may have passed.
Write(k, f, v) ==
  /\ pc[k] = "idle"
  /\ written < MaxWrites
  /\ written' = written + 1
  /\ clock' \in {clock, clock + 1} \ {0}
  /\ item' = [item EXCEPT ![k] = [value |-> v, ts |-> clock']]
  /\ Proceed(k, <<f>>, FALSE)
  /\ authors' = authors \cup {k}
  /\ UNCHANGED <<cache, retained, chan, applied, missed>>

\* The node rejects the value: the caller is told, a fan-out goes on with
\* its next target, and a pump drops the sample.
Reject(k) ==
  /\ "reject" \in Failures
  /\ pc[k] = "validate"
  /\ Proceed(k, Tail(todo[k]), At(k) # k)
  /\ missed' = missed \cup {At(k)}
  /\ UNCHANGED <<clock, written, item, cache, retained, chan, applied, authors>>

\* Mistake: the sample is put before the cache is consulted.
DedupeLate(k) ==
  /\ pc[k] = "validate"
  /\ cache[At(k)].value = item[k].value
  /\ retained' = [retained EXCEPT ![At(k)] = item[k]]
  /\ Proceed(k, Tail(todo[k]), TRUE)
  /\ UNCHANGED <<clock, written, item, cache, chan, applied, authors, missed>>

\* The value is in the cache already: nothing to publish and to fan out.
Dedupe(k) ==
  /\ pc[k] = "validate"
  /\ cache[At(k)].value = item[k].value
  /\ Proceed(k, Tail(todo[k]), TRUE)
  /\ UNCHANGED <<clock, written, item, cache, retained, chan, applied, authors, missed>>

\* retained_put records the sample and hands it to a thread.
Put(k) ==
  /\ pc[k] = "validate"
  /\ cache[At(k)].value # item[k].value
  /\ retained' = [retained EXCEPT ![At(k)] = item[k]]
  /\ pc' = [pc EXCEPT ![k] = "put"]
  /\ UNCHANGED <<clock, written, todo, item, cache, chan, lastTs, applied, authors, missed>>

\* Mistake: a watch whose pump is busy misses the sample.
SendToIdle(k) ==
  /\ pc[k] = "put"
  /\ chan' = [g \in Followers |->
                IF Peer[g] = At(k) /\ pc[g] = "idle" THEN Append(chan[g], item[k]) ELSE chan[g]]
  /\ pc' = [pc EXCEPT ![k] = "sent"]
  /\ UNCHANGED <<clock, written, todo, item, cache, retained, lastTs, applied, authors, missed>>

\* The thread puts it on the wire; threads of several tasks are not ordered.
Send(k) ==
  /\ pc[k] = "put"
  /\ chan' = [g \in Followers |-> IF Peer[g] = At(k) THEN Append(chan[g], item[k]) ELSE chan[g]]
  /\ pc' = [pc EXCEPT ![k] = "sent"]
  /\ UNCHANGED <<clock, written, todo, item, cache, retained, lastTs, applied, authors, missed>>

\* The put raises (no session): the publication ends as with a rejection.
PutFails(k) ==
  /\ "put" \in Failures
  /\ pc[k] = "put"
  /\ Proceed(k, Tail(todo[k]), At(k) # k)
  /\ missed' = missed \cup {At(k)}
  /\ UNCHANGED <<clock, written, item, cache, retained, chan, applied, authors>>

\* The put returned: the cache is set and the node's on_state is called.
Deliver(k) ==
  /\ pc[k] = "sent"
  /\ cache' = [cache EXCEPT ![At(k)] = item[k]]
  /\ applied' = IF At(k) = k THEN [applied EXCEPT ![k] = item[k].ts] ELSE applied
  /\ pc' = [pc EXCEPT ![k] = "callback"]
  /\ missed' = missed \ {At(k)}
  /\ UNCHANGED <<clock, written, todo, item, retained, chan, lastTs, authors>>

\* on_state returned, or raised and was logged: the state edges are followed.
FanOut(k) ==
  /\ pc[k] = "callback"
  /\ Proceed(k, Fan[At(k)] \o Tail(todo[k]), TRUE)
  /\ UNCHANGED <<clock, written, item, cache, retained, chan, applied, authors, missed>>

-----------------------------------------------------------------------------
(* on_remote_state_retained, called by the watch's pump for each sample *)

\* Mistake: no sample is too old.
NeverOld(g, s) == FALSE

\* Mistake: two samples of one millisecond count as one.
IsNotNewer(g, s) == lastTs[g] # 0 /\ s.ts <= lastTs[g]

\* A sample older than one delivered before is skipped.
IsOld(g, s) == lastTs[g] # 0 /\ s.ts < lastTs[g]

SkipOld(g) ==
  /\ pc[g] = "idle"
  /\ chan[g] # <<>>
  /\ IsOld(g, Head(chan[g]))
  /\ chan' = [chan EXCEPT ![g] = Tail(@)]
  /\ UNCHANGED <<clock, written, pc, todo, item, cache, retained, lastTs, applied, authors, missed>>

Receive(g) ==
  /\ pc[g] = "idle"
  /\ chan[g] # <<>>
  /\ ~IsOld(g, Head(chan[g]))
  /\ chan' = [chan EXCEPT ![g] = Tail(@)]
  /\ item' = [item EXCEPT ![g] = Head(chan[g])]
  /\ pc' = [pc EXCEPT ![g] = "check"]
  /\ UNCHANGED <<clock, written, todo, cache, retained, lastTs, applied, authors, missed>>

\* The field has this value already, and no older: the sample is dropped.
IsDuplicate(g) == item[g].ts <= cache[g].ts /\ item[g].value = cache[g].value

\* Validation returned: the sample is published as a write of the field, or
\* dropped as a duplicate or because it was rejected.
Check(g) ==
  /\ pc[g] = "check"
  /\ \/ ~IsDuplicate(g) /\ Proceed(g, <<g>>, FALSE) /\ UNCHANGED missed
     \/ IsDuplicate(g) /\ Proceed(g, <<>>, FALSE) /\ UNCHANGED missed
     \/ "reject" \in Failures /\ Proceed(g, <<>>, FALSE) /\ missed' = missed \cup {g}
  /\ UNCHANGED <<clock, written, item, cache, retained, chan, applied, authors>>

Publish(k) == Reject(k) \/ Dedupe(k) \/ Put(k) \/ Send(k) \/ PutFails(k) \/ Deliver(k) \/ FanOut(k)
Watch(g)   == SkipOld(g) \/ Receive(g) \/ Check(g)

Next ==
  \/ \E k \in Writers, f \in Roots, v \in Values : Write(k, f, v)
  \/ \E k \in Tasks : Publish(k)
  \/ \E g \in Followers : Watch(g)

\* Callbacks and puts return and pumps go on; nobody has to write.
Spec     == Init /\ [][Next]_vars
FairSpec == Spec /\ (\A k \in Tasks : WF_vars(Publish(k)))
                 /\ (\A g \in Followers : WF_vars(Watch(g)))

-----------------------------------------------------------------------------
(* Properties *)

\* Samples of a followed field are applied in the order of their time stamps,
\* in whatever order several writers of it put them on the wire.
AppliedInOrder == [][\A g \in Followers : applied'[g] >= applied[g]]_vars

AtRest ==
  /\ \A k \in Tasks : pc[k] = "idle"
  /\ \A g \in Followers : chan[g] = <<>>

\* No edge leads to a field that is written.
RootsAreSources ==
  \A f \in Roots : Peer[f] = NoField /\ \A g \in Fields : \A i \in DOMAIN Fan[g] : Fan[g][i] # f

\* Every field is written by one task: one writer, or the edge that leads to it.
SoleWriter == Cardinality(authors) <= 1 /\ RootsAreSources

\* For fields with one writer: when all is quiet, the sample a newcomer would
\* be given is what the service itself believes, unless the last put failed.
StoreMatchesCache ==
  AtRest /\ SoleWriter => \A f \in Fields \ missed : retained[f] = cache[f]

\* Field f leads to field g: by its fan-out, or because g follows it.
Feeds(f, g) == (\E i \in DOMAIN Fan[f] : Fan[f][i] = g) \/ Peer[g] = f

\* For fields with one writer: when all is quiet, a field has the value of the
\* field that feeds it, within its service and across services, unless the
\* last publication of that value was rejected or failed.
EdgesAgree ==
  AtRest /\ SoleWriter =>
    \A f \in Fields : \A g \in Fields \ missed : Feeds(f, g) => cache[g].value = cache[f].value

\* Closed under the edges whose last publication went well.
Carried(S) == \A f \in S : \A g \in Fields \ missed : Feeds(f, g) => g \in S

\* The fields that f leads to over any number of services.
Downstream(f) == {g \in Fields : \A S \in SUBSET Fields : f \in S /\ Carried(S) => g \in S}

\* For fields with one writer: when all is quiet, a value has arrived at every
\* field it leads to, however many edges and services it passes, as far as no
\* publication on its way was rejected or failed.
DownstreamAgrees ==
  AtRest /\ SoleWriter =>
    \A f \in Fields : \A g \in Downstream(f) : cache[g].value = cache[f].value

\* For fields with one writer, at any time: a field that differs from the one
\* it follows has a sample under way, on the wire, in its own pump or just put
\* by the writer, unless its last publication was rejected or failed.
BehindHasNews ==
  SoleWriter =>
    \A g \in Followers \ missed :
      cache[g].value # cache[Peer[g]].value =>
        \/ chan[g] # <<>>
        \/ pc[g] \in {"check", "validate", "put", "sent"}
        \/ \E k \in Tasks : pc[k] = "sent" /\ At(k) = Peer[g]

\* For fields with one writer: a value that was put on a field reaches those
\* that follow it, or a newer value does, or the follower rejects it or fails
\* to publish it.
ValuesArrive ==
  \A g \in Followers : \A n \in 1 .. MaxWrites :
    cache[Peer[g]].ts >= n ~> lastTs[g] >= n \/ g \in missed \/ ~SoleWriter

\* What the deep dive on the bus says of a state field: observers converge to
\* the current value of the service that owns it.
ObserversConverge ==
  AtRest => \A g \in Followers : cache[g].value = cache[Peer[g]].value
==============================================================================
