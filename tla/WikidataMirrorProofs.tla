------------------------ MODULE WikidataMirrorProofs ------------------------
(***************************************************************************)
(* Proofs about WikidataMirror, for any number of entities, events, drops  *)
(* and faults and any batch sizes.                                         *)
(***************************************************************************)
EXTENDS WikidataMirror, TLAPS

USE KindsAssumption, MaxEventsAssumption, DistinctSecondsAssumption,
    ChunksAssumption, CheckpointBatchAssumption, MaxDropsAssumption,
    NoRowAssumption, NoTaskAssumption, MaxFaultsAssumption

----------------------------------------------------------------------------
(* The feed.                                                               *)

\* What one publication does to the feed: it appends one event, no older than
\* the newest, and leaves the rest as it was.
LEMMA PublishAppends ==
  ASSUME FeedTypeOK, NEW e \in Entity, NEW kind \in Kinds, Publish(e, kind)
  PROVE  /\ log' \in Seq(Event)
         /\ Len(log) \in Nat
         /\ Len(log') = Len(log) + 1
         /\ Len(log') <= MaxEvents
         /\ \A i \in 1..Len(log) : log'[i] = log[i]
         /\ log'[Len(log) + 1].id = e
         /\ log'[Len(log) + 1].kind = kind
         /\ log'[Len(log) + 1].ts \in Nat
         /\ log # <<>> => log'[Len(log) + 1].ts >= log[Len(log)].ts
         /\ DistinctSeconds =>
              \A i \in 1..Len(log) :
                log[i].id = e => log[i].ts < log'[Len(log) + 1].ts
<1>1. PICK ts \in {Clock, Clock + 1} :
        /\ DistinctSeconds => \A i \in DOMAIN log : log[i].id = e => log[i].ts < ts
        /\ log' = Append(log, [id |-> e, ts |-> ts, kind |-> kind])
  BY DEF Publish
<1>2. log \in Seq(Event) /\ Len(log) \in Nat
  BY DEF FeedTypeOK
<1>3. Clock \in Nat
  <2>1. CASE log = <<>>
    BY <2>1 DEF Clock
  <2>2. CASE log # <<>>
    <3>1. Len(log) \in 1..Len(log)
      BY <1>2, <2>2
    <3>2. log[Len(log)] \in Event
      BY <1>2, <3>1
    <3>. QED
      BY <2>2, <3>2 DEF Clock, Event
  <2>. QED
    BY <2>1, <2>2
<1>4. [id |-> e, ts |-> ts, kind |-> kind] \in Event
  BY <1>1, <1>3 DEF Event
<1>5. Len(log) < MaxEvents
  BY DEF Publish
<1>6. log # <<>> => ts >= log[Len(log)].ts
  BY <1>1, <1>2, <1>3 DEF Clock
<1>. DEFINE ev == [id |-> e, ts |-> ts, kind |-> kind]
<1>7. ev.id = e /\ ev.ts = ts /\ ev.kind = kind /\ ts \in Nat
  BY <1>1, <1>3
<1>8. /\ log' \in Seq(Event)
      /\ Len(log') = Len(log) + 1
      /\ \A i \in 1..Len(log) : log'[i] = log[i]
      /\ log'[Len(log) + 1] = ev
  <2>. HIDE DEF ev
  <2>1. ev \in Event /\ log' = Append(log, ev)
    BY <1>1, <1>4 DEF ev
  <2>. QED
    BY <1>2, <2>1
<1>9. DistinctSeconds => \A i \in 1..Len(log) : log[i].id = e => log[i].ts < ts
  BY <1>1, <1>2
<1>. HIDE DEF ev
<1>10. Len(log') <= MaxEvents
  BY <1>2, <1>5, <1>8
<1>. QED
  BY <1>2, <1>6, <1>7, <1>8, <1>9, <1>10

----------------------------------------------------------------------------
(* Type correctness.                                                       *)

\* Every step of the feed keeps the types, those of the other variables
\* included (their ranges grow with the feed).
LEMMA UpstreamTypes ==
  ASSUME TypeOK, Upstream
  PROVE  TypeOK'
<1>1. PICK e \in Entity, kind \in Kinds : Publish(e, kind)
  BY DEF Upstream, FeedNext
<1>2. FeedTypeOK
  BY DEF TypeOK
<1>3. /\ log' \in Seq(Event)
      /\ Len(log) \in Nat
      /\ Len(log') = Len(log) + 1
      /\ Len(log') <= MaxEvents
  BY <1>1, <1>2, PublishAppends
<1>4. FeedTypeOK'
  <2>1. wiki' = wiki \/ wiki' = [wiki EXCEPT ![e] = Len(log) + 1]
    BY <1>1 DEF Publish
  <2>2. wiki' \in [Entity -> 0..Len(log')]
    <3>1. wiki \in [Entity -> 0..Len(log)] /\ Len(log) + 1 \in 0..Len(log')
      BY <1>2, <1>3 DEF FeedTypeOK
    <3>2. wiki \in [Entity -> 0..Len(log')]
      <4>1. 0..Len(log) \subseteq 0..Len(log')
        BY <1>3
      <4>. QED
        BY <3>1, <4>1
    <3>. QED
      BY <2>1, <3>1, <3>2
  <2>. QED
    BY <1>3, <2>2 DEF FeedTypeOK
<1>5. RelayTypeOK'
  BY <1>3 DEF TypeOK, RelayTypeOK, Upstream, relayVars
<1>6. ConsumerTypeOK'
  <2>1. 0..Len(log) \subseteq 0..Len(log')
    BY <1>3
  <2>2. virt \in [Entity -> [rev : 0..Len(log'), n : Nat]]
    BY <2>1 DEF TypeOK, ConsumerTypeOK
  <2>3. \A f \in Entity : batch[f] # NoTask => batch[f].rev <= Len(log')
    <3>1. \A f \in Entity : batch[f] # NoTask =>
            batch[f].rev \in Nat /\ batch[f].rev <= Len(log)
      BY DEF TypeOK, ConsumerTypeOK, Task
    <3>. QED
      BY <1>3, <3>1
  <2>. QED
    BY <2>2, <2>3 DEF TypeOK, ConsumerTypeOK, Upstream, consumerVars
<1>. QED
  BY <1>4, <1>5, <1>6 DEF TypeOK

\* An upsert writes a row.
LEMMA UpsertTypes ==
  ASSUME dirty \in [Entity -> Row \union {NoRow}], NEW e \in Entity,
         NEW ts \in Nat, NEW del \in BOOLEAN, Upsert(e, ts, del)
  PROVE  /\ dirty' \in [Entity -> Row \union {NoRow}]
         /\ dirty'[e] \in Row
         /\ dirty'[e].ts >= ts
         /\ dirty'[e].del = del
         /\ dirty[e] # NoRow => dirty'[e].ts >= dirty[e].ts
         /\ dirty'[e].ts = ts \/ (dirty[e] # NoRow /\ dirty'[e].ts = dirty[e].ts)
         /\ \A f \in Entity \ {e} : dirty'[f] = dirty[f]
<1>. DEFINE new == [ts  |-> IF dirty[e] = NoRow THEN ts ELSE Greatest(dirty[e].ts, ts),
                    del |-> del]
<1>1. dirty' = [dirty EXCEPT ![e] = new]
  BY DEF Upsert
<1>2. CASE dirty[e] = NoRow
  <2>1. new = [ts |-> ts, del |-> del]
    BY <1>2
  <2>. QED
    BY <1>1, <1>2, <2>1 DEF Row
<1>3. CASE dirty[e] # NoRow
  <2>1. dirty[e].ts \in Nat
    BY <1>3 DEF Row
  <2>2. new = [ts |-> Greatest(dirty[e].ts, ts), del |-> del]
    BY <1>3
  <2>3. /\ Greatest(dirty[e].ts, ts) \in {dirty[e].ts, ts}
        /\ Greatest(dirty[e].ts, ts) >= ts
        /\ Greatest(dirty[e].ts, ts) >= dirty[e].ts
    BY <2>1 DEF Greatest
  <2>. QED
    BY <1>1, <1>3, <2>1, <2>2, <2>3 DEF Row
<1>. QED
  BY <1>2, <1>3

\* What applying one event does to the dirty set: nothing if the event is
\* ignored, otherwise an upsert of its entity's row.
LEMMA ApplyEventDirty ==
  ASSUME FeedTypeOK, RelayTypeOK, ApplyEvent
  PROVE  /\ pos \in 1..Len(log)
         /\ log[pos] \in Event
         /\ Outcome(log[pos]) = "ignored" => dirty' = dirty
         /\ Outcome(log[pos]) # "ignored" =>
              Upsert(log[pos].id, log[pos].ts, Outcome(log[pos]) = "deleted")
<1>1. pos \in 1..Len(log) /\ log[pos] \in Event
  BY DEF FeedTypeOK, RelayTypeOK, ApplyEvent
<1>2. Outcome(log[pos]) \in {"ignored", "dirty", "deleted"}
  BY DEF Outcome, classify
<1>3. CASE Outcome(log[pos]) = "ignored"
  BY <1>1, <1>3 DEF ApplyEvent
<1>4. CASE Outcome(log[pos]) = "dirty"
  <2>1. Upsert(log[pos].id, log[pos].ts, FALSE)
    BY <1>4 DEF ApplyEvent
  <2>2. (Outcome(log[pos]) = "deleted") = FALSE
    BY <1>4
  <2>. QED
    BY <1>1, <1>4, <2>1, <2>2
<1>5. CASE Outcome(log[pos]) = "deleted"
  <2>1. Upsert(log[pos].id, log[pos].ts, TRUE)
    BY <1>5 DEF ApplyEvent
  <2>2. (Outcome(log[pos]) = "deleted") = TRUE
    BY <1>5
  <2>. QED
    BY <1>1, <1>5, <2>1, <2>2
<1>. QED
  BY <1>2, <1>3, <1>4, <1>5

\* Every step of the relay keeps the types.
LEMMA RelayTypes ==
  ASSUME TypeOK, Relay
  PROVE  TypeOK'
<1>1. FeedTypeOK /\ RelayTypeOK /\ Len(log) \in Nat
  BY DEF TypeOK, FeedTypeOK
<1>2. RelayTypeOK'
  <2>1. CASE Connect
    BY <1>1, <2>1 DEF Relay, feedVars, Connect, RelayTypeOK
  <2>2. CASE ApplyEvent
    <3>1. dirty' \in [Entity -> Row \union {NoRow}]
      BY <1>1, <2>2, ApplyEventDirty, UpsertTypes DEF Event, RelayTypeOK
    <3>2. pos \in 1..Len(log)
      BY <1>1, <2>2, ApplyEventDirty
    <3>. QED
      BY <1>1, <2>2, <3>1, <3>2
      DEF Relay, feedVars, ApplyEvent, RelayTypeOK
  <2>3. ASSUME AdvanceCursor, pending > 0
        PROVE  cursor' \in Nat
    <3>1. pos - 1 \in 1..Len(log)
      BY <1>1, <2>3 DEF RelayTypeOK
    <3>2. log[pos - 1] \in Event
      BY <1>1, <3>1 DEF FeedTypeOK
    <3>. QED
      BY <2>3, <3>2 DEF AdvanceCursor, Event
  <2>4. CASE Checkpoint
    BY <1>1, <2>3, <2>4 DEF Relay, feedVars, Checkpoint, RelayTypeOK
  <2>5. CASE CloseStream
    BY <1>1, <2>3, <2>5 DEF Relay, feedVars, CloseStream, RelayTypeOK
  <2>6. CASE LoseStream
    BY <1>1, <2>6 DEF Relay, feedVars, LoseStream, RelayTypeOK
  <2>. QED
    BY <2>1, <2>2, <2>4, <2>5, <2>6 DEF Relay, RelayNext, RelayStep
<1>. QED
  BY <1>2 DEF TypeOK, FeedTypeOK, ConsumerTypeOK, Relay, feedVars, consumerVars

\* The chunks left to write of a revision are counted by naturals.
LEMMA PartsType ==
  ASSUME FeedTypeOK, NEW r \in 0..Len(log)
  PROVE  Parts(r) \in Nat
<1>1. r \in 0..MaxEvents
  BY DEF FeedTypeOK
<1>. QED
  BY <1>1 DEF Parts

\* What a task of the pool can do: it touches its own record and its
\* entity's triples only, and never the leased time and flag.
TaskDone(e) ==
  \/ /\ batch[e].st = "queued" /\ batch[e].del
     /\ batch'[e].st = "done" /\ batch'[e].n = batch[e].n
     /\ batch'[e].rev = batch[e].rev
     /\ virt'[e].n = 0 /\ virt'[e].rev = virt[e].rev
  \/ /\ batch[e].st = "queued" /\ ~batch[e].del
     /\ batch'[e].st = "writing" /\ batch'[e].n = batch[e].n
     /\ batch'[e].rev = wiki[e]
     /\ virt'[e] = virt[e]
  \/ /\ batch[e].st = "writing"
     /\ batch'[e].n = AfterUpdate(e).n /\ batch'[e].rev = batch[e].rev
     /\ batch'[e].st = IF AfterUpdate(e).n = Parts(batch[e].rev)
                         THEN "done" ELSE "writing"
     /\ virt'[e] = AfterUpdate(e)
  \/ /\ batch[e].st \in {"queued", "writing"}
     /\ batch'[e].st = "left" /\ batch'[e].n = batch[e].n
     /\ batch'[e].rev = batch[e].rev
     /\ \/ virt'[e] = virt[e]
        \/ batch[e].st = "queued" /\ virt'[e].n = 0 /\ virt'[e].rev = virt[e].rev
        \/ batch[e].st = "writing" /\ virt'[e] = AfterUpdate(e)

\* An UPDATE leaves a revision the feed has, with at most one chunk more.
LEMMA AfterUpdateType ==
  ASSUME TypeOK, NEW e \in Entity, batch[e] # NoTask
  PROVE  /\ AfterUpdate(e) \in [rev : 0..Len(log), n : Nat]
         /\ AfterUpdate(e).rev = batch[e].rev
         /\ AfterUpdate(e).n = batch[e].n \/ AfterUpdate(e).n = batch[e].n + 1
<1>1. batch[e] \in Task /\ batch[e].rev \in 0..Len(log)
  BY DEF TypeOK, ConsumerTypeOK, Task
<1>. DEFINE m == IF batch[e].n < Parts(batch[e].rev) THEN batch[e].n + 1
                                                    ELSE batch[e].n
<1>2. m \in Nat /\ (m = batch[e].n \/ m = batch[e].n + 1)
  BY <1>1 DEF Task
<1>3. AfterUpdate(e) = [rev |-> batch[e].rev, n |-> m]
  BY DEF AfterUpdate
<1>. HIDE DEF m
<1>. QED
  BY <1>1, <1>2, <1>3

\* The effect of a pool thread's step in one place: what TaskDone says, well-
\* typed, and nothing for other entities.
LEMMA WorkEffect ==
  ASSUME TypeOK, NEW e \in Entity, Work(e)
  PROVE  /\ batch[e] \in Task /\ batch'[e] \in Task
         /\ batch'[e].ts = batch[e].ts /\ batch'[e].del = batch[e].del
         /\ batch' \in [Entity -> Task \union {NoTask}]
         /\ virt' \in [Entity -> [rev : 0..Len(log), n : Nat]]
         /\ faults' \in 0..MaxFaults
         /\ \A f \in Entity \ {e} : batch'[f] = batch[f] /\ virt'[f] = virt[f]
         /\ TaskDone(e)
<1>1. /\ ConsumerTypeOK
      /\ wiki[e] \in Nat
  BY DEF TypeOK, FeedTypeOK
<1>2. batch[e] \in Task
  BY <1>1 DEF Work, TaskNext, TaskStep, Tombstone, Fetch, NotFound, WriteChunk,
              TaskFails, Status, ConsumerTypeOK
<1>3. /\ virt \in [Entity -> [rev : 0..Len(log), n : Nat]]
      /\ batch \in [Entity -> Task \union {NoTask}]
      /\ faults \in 0..MaxFaults
  BY <1>1 DEF ConsumerTypeOK
<1>4. /\ AfterUpdate(e) \in [rev : 0..Len(log), n : Nat]
      /\ AfterUpdate(e).n \in Nat
  BY <1>2, AfterUpdateType, NoTaskAssumption
<1>5. Fault => faults' \in 0..MaxFaults
  BY <1>3 DEF Fault
<1>6. CASE Tombstone(e)
  <2>. DEFINE t == [batch[e] EXCEPT !.st = "done"]
  <2>1. batch' = [batch EXCEPT ![e] = t]
    BY <1>2, <1>3, <1>6 DEF Tombstone, Task
  <2>2. t \in Task /\ t.ts = batch[e].ts /\ t.del = batch[e].del
    BY <1>2 DEF Task
  <2>3. TaskDone(e)
    BY <1>2, <1>3, <1>6 DEF Tombstone, Status, Task, TaskDone
  <2>4. /\ virt' \in [Entity -> [rev : 0..Len(log), n : Nat]]
        /\ \A f \in Entity \ {e} : virt'[f] = virt[f]
        /\ faults' \in 0..MaxFaults
    BY <1>3, <1>6 DEF Tombstone
  <2>. HIDE DEF t
  <2>. QED
    BY <1>2, <1>3, <2>1, <2>2, <2>3, <2>4
<1>7. CASE Fetch(e)
  <2>1. batch' = [batch EXCEPT ![e] = [batch[e] EXCEPT !.st = "writing",
                                                       !.rev = wiki[e]]]
    BY <1>2, <1>3, <1>7 DEF Fetch, Task
  <2>. DEFINE t == [batch[e] EXCEPT !.st = "writing", !.rev = wiki[e]]
  <2>2. t \in Task /\ t.ts = batch[e].ts /\ t.del = batch[e].del
    BY <1>1, <1>2 DEF Task
  <2>3. TaskDone(e)
    BY <1>2, <1>3, <1>7, <2>1 DEF Fetch, Status, Task, TaskDone
  <2>4. /\ virt' \in [Entity -> [rev : 0..Len(log), n : Nat]]
        /\ \A f \in Entity \ {e} : virt'[f] = virt[f]
        /\ faults' \in 0..MaxFaults
    BY <1>3, <1>7 DEF Fetch
  <2>. HIDE DEF t
  <2>5. batch' = [batch EXCEPT ![e] = t]
    BY <2>1 DEF t
  <2>. QED
    BY <1>2, <1>3, <2>2, <2>3, <2>4, <2>5
<1>8. CASE NotFound(e)
  BY <1>2, <1>3, <1>5, <1>8 DEF NotFound, Status, Task, TaskDone
<1>9. CASE WriteChunk(e)
  BY <1>2, <1>3, <1>4, <1>9 DEF WriteChunk, Status, Task, TaskDone
<1>10. CASE TaskFails(e)
  <2>1. batch' = [batch EXCEPT ![e] = [batch[e] EXCEPT !.st = "left"]]
    BY <1>2, <1>3, <1>10 DEF TaskFails, Task
  <2>. DEFINE t == [batch[e] EXCEPT !.st = "left"]
  <2>2. t \in Task /\ t.ts = batch[e].ts /\ t.del = batch[e].del
    BY <1>2 DEF Task
  <2>3. \/ virt' = virt
        \/ batch[e].st = "queued" /\ virt' = [virt EXCEPT ![e].n = 0]
        \/ batch[e].st = "writing" /\ virt' = [virt EXCEPT ![e] = AfterUpdate(e)]
    BY <1>10 DEF TaskFails, Status
  <2>4. /\ virt' \in [Entity -> [rev : 0..Len(log), n : Nat]]
        /\ \A f \in Entity \ {e} : virt'[f] = virt[f]
    <3>1. CASE virt' = virt
      BY <1>3, <3>1
    <3>2. CASE virt' = [virt EXCEPT ![e].n = 0]
      BY <1>3, <3>2
    <3>3. CASE virt' = [virt EXCEPT ![e] = AfterUpdate(e)]
      BY <1>3, <1>4, <3>3
    <3>. QED
      BY <2>3, <3>1, <3>2, <3>3
  <2>5. TaskDone(e)
    BY <1>2, <1>3, <1>4, <1>10, <2>1, <2>3 DEF TaskFails, Status, Task, TaskDone
  <2>6. faults' \in 0..MaxFaults
    BY <1>5, <1>10 DEF TaskFails
  <2>. HIDE DEF t
  <2>7. batch' = [batch EXCEPT ![e] = t]
    BY <2>1 DEF t
  <2>. QED
    BY <1>2, <1>3, <2>2, <2>4, <2>5, <2>6, <2>7
<1>. QED
  BY <1>6, <1>7, <1>8, <1>9, <1>10 DEF Work, TaskNext, TaskStep

\* A pool thread keeps the types.
LEMMA WorkTypes ==
  ASSUME TypeOK, NEW e \in Entity, Work(e)
  PROVE  TypeOK'
<1>1. batch'[e].rev <= Len(log)
  <2>1. batch'[e].rev = batch[e].rev \/ batch'[e].rev = wiki[e]
    BY WorkEffect DEF TaskDone
  <2>2. batch[e].rev <= Len(log) /\ wiki[e] <= Len(log)
    BY WorkEffect, NoTaskAssumption DEF TypeOK, ConsumerTypeOK, FeedTypeOK
  <2>. QED
    BY <2>1, <2>2
<1>2. ConsumerTypeOK'
  BY <1>1, WorkEffect DEF TypeOK, ConsumerTypeOK, Work, feedVars
<1>. QED
  BY <1>2 DEF TypeOK, FeedTypeOK, RelayTypeOK, Work, feedVars, relayVars

\* The main thread of the consumer keeps the types.
LEMMA LeaseTypes ==
  ASSUME TypeOK, LeaseBatch, UNCHANGED <<feedVars, relayVars, dirty>>
  PROVE  TypeOK'
<1>1. PICK S \in SUBSET Pending :
        batch' = [e \in Entity |->
                    IF e \in S
                      THEN [st |-> "queued", ts |-> dirty[e].ts,
                            del |-> dirty[e].del, rev |-> 0, n |-> 0]
                      ELSE NoTask]
  BY DEF LeaseBatch
<1>2. \A e \in S : dirty[e] \in Row
  BY DEF Pending, TypeOK, RelayTypeOK
<1>3. Len(log) \in Nat
  BY DEF TypeOK, FeedTypeOK
<1>4. \A e \in Entity : batch'[e] # NoTask =>
        batch'[e] \in Task /\ batch'[e].rev <= Len(log)
  BY <1>1, <1>2, <1>3 DEF Row, Task
<1>5. batch' \in [Entity -> Task \union {NoTask}]
  BY <1>1, <1>2 DEF Row, Task
<1>6. ConsumerTypeOK'
  BY <1>4, <1>5 DEF TypeOK, ConsumerTypeOK, LeaseBatch, feedVars
<1>. QED
  BY <1>6 DEF TypeOK, FeedTypeOK, RelayTypeOK, feedVars, relayVars

\* The end of a batch, orderly or not, keeps the types.
LEMMA EndBatchTypes ==
  ASSUME TypeOK, EndBatch \/ Crash, UNCHANGED <<feedVars, relayVars>>
  PROVE  TypeOK'
<1>1. dirty' \in [Entity -> Row \union {NoRow}]
  BY DEF EndBatch, Crash, TypeOK, RelayTypeOK
<1>2. batch' = [e \in Entity |-> NoTask] /\ virt' = virt
  BY DEF EndBatch, Crash
<1>3. faults' \in 0..MaxFaults
  BY DEF EndBatch, Crash, Fault, TypeOK, ConsumerTypeOK
<1>4. ConsumerTypeOK'
  BY <1>2, <1>3 DEF TypeOK, ConsumerTypeOK, feedVars
<1>. QED
  BY <1>1, <1>4 DEF TypeOK, FeedTypeOK, RelayTypeOK, feedVars, relayVars

\* The initial state is well-typed.
LEMMA InitTypes == Init => TypeOK
<1>. SUFFICES ASSUME Init PROVE TypeOK
  OBVIOUS
<1>1. log = <<>> /\ log \in Seq(Event) /\ Len(log) = 0
  BY DEF Init, FeedInit
<1>2. FeedTypeOK
  BY <1>1 DEF Init, FeedInit, FeedTypeOK
<1>3. RelayTypeOK
  BY <1>1 DEF Init, RelayInit, RelayTypeOK
<1>4. ConsumerTypeOK
  BY <1>1 DEF Init, ConsumerInit, ConsumerTypeOK
<1>. QED
  BY <1>2, <1>3, <1>4 DEF TypeOK

\* Every step keeps the types.
LEMMA NextTypes == TypeOK /\ [Next]_vars => TypeOK'
<1>. SUFFICES ASSUME TypeOK, [Next]_vars PROVE TypeOK'
  OBVIOUS
<1>1. CASE Upstream
  BY <1>1, UpstreamTypes
<1>2. CASE Relay
  BY <1>2, RelayTypes
<1>3. CASE Consumer
  BY <1>3, LeaseTypes, WorkTypes, EndBatchTypes DEF Consumer
<1>4. CASE UNCHANGED vars
  BY <1>4 DEF vars, TypeOK, FeedTypeOK, RelayTypeOK, ConsumerTypeOK
<1>. QED
  BY <1>1, <1>2, <1>3, <1>4 DEF Next

\* Every reachable state is well-typed: positions, cursors, rows, leases and
\* stored triples stay in range whatever the interleaving.
THEOREM TypeCorrect == Spec => []TypeOK
  BY InitTypes, NextTypes, PTL DEF Spec
=============================================================================
