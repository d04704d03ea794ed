------------------------ MODULE WikidataMirrorSafety ------------------------
(***************************************************************************)
(* The safety of WikidataMirror: the invariant of WikidataMirrorInv is     *)
(* inductive, and the properties the runs check follow from it, for any    *)
(* number of entities, events, drops and faults and any batch sizes.       *)
(***************************************************************************)
EXTENDS WikidataMirrorInv, WikidataMirrorProofs

USE KindsAssumption, MaxEventsAssumption, DistinctSecondsAssumption,
    ChunksAssumption, CheckpointBatchAssumption, MaxDropsAssumption,
    NoRowAssumption, NoTaskAssumption, MaxFaultsAssumption

----------------------------------------------------------------------------
(* What each process does, as the invariant sees it.                       *)

\* The ignore list is exactly the kinds that change no stored content.
LEMMA FilterSound ==
  ASSUME NEW ev, ev.kind \in EventKind
  PROVE  Outcome(ev) # "ignored" <=> ev.kind \in ContentKinds
BY DEF Outcome, classify, IgnoredKinds, EventKind, ContentKinds

\* Publishing adds one event at the end of the feed: what was said of the
\* earlier ones stays, and the entity's revision moves to the new event
\* exactly when the relay will not ignore it.
LEMMA UpstreamEffect ==
  ASSUME TypeOK, Upstream
  PROVE  /\ UNCHANGED <<relayVars, dirty, consumerVars>>
         /\ Len(log) \in Nat
         /\ \A i \in 1..Len(log) : log'[i] = log[i] /\ log[i].ts \in Nat
         /\ Clock \in Nat
         /\ \A i \in 1..Len(log), f \in Entity : Concerns(i, f)' <=> Concerns(i, f)
         /\ \A r \in 0..Len(log) : Parts(r)' = Parts(r)
         /\ \E new \in Nat :
              /\ new = Len(log) + 1
              /\ Len(log') = new
              /\ log'[new].ts \in Nat
              /\ log'[new].ts >= Clock
              /\ Clock' = log'[new].ts
              /\ \A f \in Entity :
                   \/ Concerns(new, f)' /\ wiki'[f] = new
                   \/ ~Concerns(new, f)' /\ wiki'[f] = wiki[f]
              /\ DistinctSeconds =>
                   \A i \in 1..Len(log) :
                     log[i].id = log'[new].id => log[i].ts < log'[new].ts
              /\ Outcome(log'[new]) = "deleted" => "log_delete" \in Kinds
<1>1. PICK e \in Entity, kind \in Kinds : Publish(e, kind)
  BY DEF Upstream, FeedNext
<1>2. FeedTypeOK /\ Len(log) \in Nat
  BY DEF TypeOK, FeedTypeOK
<1>3. PICK new \in Nat : new = Len(log) + 1
  BY <1>2
<1>4. /\ Len(log') = new
      /\ \A i \in 1..Len(log) : log'[i] = log[i]
      /\ log'[new].id = e
      /\ log'[new].kind = kind
      /\ log'[new].ts \in Nat
      /\ log # <<>> => log'[new].ts >= log[Len(log)].ts
      /\ DistinctSeconds =>
           \A i \in 1..Len(log) : log[i].id = e => log[i].ts < log'[new].ts
      /\ log' \in Seq(Event)
  BY <1>1, <1>2, <1>3, PublishAppends
<1>5. \A i \in 1..Len(log) : log[i] \in Event /\ log[i].ts \in Nat
  <2>1. \A i \in 1..Len(log) : log[i] \in Event
    BY <1>2 DEF FeedTypeOK
  <2>. QED
    BY <2>1 DEF Event
<1>6. Clock \in Nat /\ Clock <= log'[new].ts
  <2>1. CASE log = <<>>
    BY <1>4, <2>1 DEF Clock
  <2>2. CASE log # <<>>
    <3>1. Len(log) \in 1..Len(log)
      BY <1>2, <2>2 DEF FeedTypeOK
    <3>. QED
      BY <1>4, <1>5, <2>2, <3>1 DEF Clock
  <2>. QED
    BY <2>1, <2>2
<1>7. Clock' = log'[new].ts
  <2>1. log' # <<>>
    BY <1>4, <1>3
  <2>. QED
    BY <1>4, <2>1 DEF Clock
<1>8. \A i \in 1..Len(log), f \in Entity : Concerns(i, f)' <=> Concerns(i, f)
  BY <1>4 DEF Concerns, Outcome
<1>9. \A r \in 0..Len(log) : Parts(r)' = Parts(r)
  BY <1>4 DEF Parts
<1>10. Outcome(log'[new]) # "ignored" <=> kind \in ContentKinds
  <2>1. log'[new].kind \in EventKind
    BY <1>1, <1>4
  <2>. QED
    BY <1>4, <2>1, FilterSound
<1>11. \A f \in Entity :
         \/ Concerns(new, f)' /\ wiki'[f] = new
         \/ ~Concerns(new, f)' /\ wiki'[f] = wiki[f]
  <2>1. wiki \in [Entity -> 0..Len(log)]
    BY <1>2 DEF FeedTypeOK
  <2>2. /\ kind \in ContentKinds => wiki' = [wiki EXCEPT ![e] = new]
        /\ kind \notin ContentKinds => wiki' = wiki
    BY <1>1, <1>3 DEF Publish
  <2>3. \A f \in Entity :
          Concerns(new, f)' <=> (f = e /\ Outcome(log'[new]) # "ignored")
    BY <1>4, <1>3 DEF Concerns
  <2>. QED
    BY <1>10, <2>1, <2>2, <2>3
<1>12. Outcome(log'[new]) = "deleted" => "log_delete" \in Kinds
  BY <1>1, <1>4 DEF Outcome, classify
<1>. QED
  BY <1>2, <1>3, <1>4, <1>5, <1>6, <1>7, <1>8, <1>9, <1>11, <1>12 DEF Upstream

\* The newest event is as late as any.
LEMMA ClockIsLast ==
  ASSUME TypeOK, FeedSorted, NEW i \in 1..Len(log)
  PROVE  /\ Clock = log[Len(log)].ts
         /\ log[i].ts <= Clock
<1>1. log \in Seq(Event) /\ Len(log) \in 1..Len(log)
  BY DEF TypeOK, FeedTypeOK
<1>2. log # <<>>
  BY <1>1
<1>. QED
  BY <1>1, <1>2 DEF Clock, FeedSorted

----------------------------------------------------------------------------
(* Wikidata moves.                                                         *)

\* An event keeps the feed sorted, strict and filtered as before.
LEMMA UpstreamFeedInv ==
  ASSUME TypeOK, FeedInv, Upstream
  PROVE  FeedInv'
<1>1. PICK new \in Nat :
        /\ new = Len(log) + 1
        /\ Len(log') = new
        /\ log'[new].ts \in Nat
        /\ log'[new].ts >= Clock
        /\ \A f \in Entity :
             \/ Concerns(new, f)' /\ wiki'[f] = new
             \/ ~Concerns(new, f)' /\ wiki'[f] = wiki[f]
        /\ DistinctSeconds =>
             \A i \in 1..Len(log) :
               log[i].id = log'[new].id => log[i].ts < log'[new].ts
        /\ Outcome(log'[new]) = "deleted" => "log_delete" \in Kinds
  BY UpstreamEffect
<1>2. /\ Len(log) \in Nat
      /\ \A i \in 1..Len(log) : log'[i] = log[i] /\ log[i].ts \in Nat
      /\ \A i \in 1..Len(log), f \in Entity : Concerns(i, f)' <=> Concerns(i, f)
      /\ Clock \in Nat
  BY UpstreamEffect
<1>3. \A i \in 1..Len(log') : i \in 1..Len(log) \/ i = new
  BY <1>1, <1>2
<1>4. FeedSorted'
  <2>1. \A i \in 1..Len(log) : log[i].ts <= Clock
    BY ClockIsLast DEF FeedInv
  <2>2. ASSUME NEW i \in 1..Len(log'), NEW j \in 1..Len(log'), i <= j
        PROVE  log'[i].ts <= log'[j].ts
    <3>1. CASE j \in 1..Len(log)
      <4>1. i \in 1..Len(log)
        BY <1>1, <1>2, <2>2, <3>1
      <4>2. log[i].ts <= log[j].ts
        BY <2>2, <3>1, <4>1 DEF FeedInv, FeedSorted
      <4>. QED
        BY <1>2, <3>1, <4>1, <4>2
    <3>2. CASE j = new /\ i \in 1..Len(log)
      <4>1. log'[i].ts = log[i].ts /\ log[i].ts \in Nat /\ log[i].ts <= Clock
        BY <1>2, <2>1, <3>2
      <4>. QED
        BY <1>1, <1>2, <3>2, <4>1
    <3>3. CASE j = new /\ i = new
      BY <1>1, <3>3
    <3>. QED
      BY <1>3, <3>1, <3>2, <3>3
  <2>. QED
    BY <2>2 DEF FeedSorted
<1>5. FeedStrict'
  <2>1. ASSUME DistinctSeconds, NEW i \in 1..Len(log'), NEW j \in 1..Len(log'),
               i < j, log'[i].id = log'[j].id
        PROVE  log'[i].ts < log'[j].ts
    <3>1. i \in 1..Len(log)
      BY <1>1, <1>2, <2>1
    <3>2. CASE j \in 1..Len(log)
      BY <1>2, <2>1, <3>1, <3>2 DEF FeedInv, FeedStrict
    <3>3. CASE j = new
      BY <1>1, <1>2, <2>1, <3>1, <3>3
    <3>. QED
      BY <1>3, <3>2, <3>3
  <2>. QED
    BY <2>1 DEF FeedStrict
<1>6. FeedFiltered'
  <2>1. wiki \in [Entity -> 0..Len(log)]
    BY DEF TypeOK, FeedTypeOK
  <2>2. ASSUME NEW f \in Entity
        PROVE  /\ wiki'[f] > 0 => Concerns(wiki[f], f)'
               /\ \A i \in 1..Len(log') : Concerns(i, f)' => i <= wiki'[f]
    <3>1. CASE Concerns(new, f)' /\ wiki'[f] = new
      BY <1>1, <1>2, <3>1 DEF Concerns
    <3>2. CASE ~Concerns(new, f)' /\ wiki'[f] = wiki[f]
      <4>1. wiki[f] > 0 => wiki[f] \in 1..Len(log) /\ Concerns(wiki[f], f)
        BY <1>2, <2>1 DEF FeedInv, FeedFiltered
      <4>2. wiki'[f] > 0 => Concerns(wiki[f], f)'
        BY <1>2, <3>2, <4>1 DEF Concerns
      <4>. QED
        BY <1>2, <1>3, <3>2, <4>2 DEF FeedInv, FeedFiltered
    <3>. QED
      BY <1>1, <3>1, <3>2
  <2>. QED
    BY <2>2 DEF FeedFiltered
<1>7. NoDeletions'
  BY <1>1, <1>2, <1>3 DEF FeedInv, NoDeletions, EditsOnly
<1>. QED
  BY <1>4, <1>5, <1>6, <1>7 DEF FeedInv

\* An event at the end of the feed is not behind any cursor or row.
LEMMA UpstreamRelayInv ==
  ASSUME TypeOK, FeedInv, RelayInv, Upstream
  PROVE  RelayInv'
<1>1. PICK new \in Nat :
        /\ new = Len(log) + 1
        /\ Len(log') = new
        /\ log'[new].ts \in Nat
        /\ log'[new].ts >= Clock
        /\ Clock' = log'[new].ts
  BY UpstreamEffect
<1>2. /\ Len(log) \in Nat
      /\ \A i \in 1..Len(log) : log'[i] = log[i] /\ log[i].ts \in Nat
      /\ \A i \in 1..Len(log), f \in Entity : Concerns(i, f)' <=> Concerns(i, f)
      /\ Clock \in Nat
  BY UpstreamEffect
<1>3. /\ dirty' = dirty /\ cursor' = cursor /\ pos' = pos
      /\ pending' = pending /\ conn' = conn
  BY UpstreamEffect DEF relayVars
<1>4. /\ pos \in 1..Len(log) + 1 /\ pending \in Nat /\ pending < pos
      /\ cursor \in Nat /\ cursor <= Clock
  BY DEF TypeOK, RelayTypeOK, RelayInv, CursorReached
<1>5. CursorReached'
  <2>1. pos <= Len(log') => pos \in 1..Len(log) \/ pos = new
    BY <1>1, <1>2, <1>4
  <2>. QED
    BY <1>1, <1>2, <1>3, <1>4, <2>1 DEF RelayInv, CursorReached
<1>6. NothingSkipped'
  <2>1. ASSUME NEW i \in 1..Len(log') + 1, StartsAt(i, cursor)'
        PROVE  i <= pos
    <3>1. CASE i \in 1..Len(log)
      <4>1. StartsAt(i, cursor)
        BY <1>1, <1>2, <1>3, <2>1, <3>1 DEF StartsAt
      <4>. QED
        BY <1>2, <3>1, <4>1 DEF RelayInv, NothingSkipped
    <3>2. CASE i = new
      <4>1. StartsAt(i, cursor)
        BY <1>1, <1>2, <1>3, <2>1, <3>2 DEF StartsAt
      <4>. QED
        BY <1>1, <1>2, <3>2, <4>1 DEF RelayInv, NothingSkipped
    <3>3. CASE i = new + 1
      <4>1. log'[new].ts < cursor
        BY <1>1, <1>3, <2>1, <3>3 DEF StartsAt
      <4>. QED
        BY <1>1, <1>2, <1>4, <4>1
    <3>. QED
      BY <1>1, <1>2, <3>1, <3>2, <3>3
  <2>. QED
    BY <1>3, <2>1 DEF NothingSkipped
<1>7. RowTimes'
  <2>1. 1..Len(log) \subseteq 1..Len(log') /\ 1..pos - 1 \subseteq 1..Len(log)
    BY <1>1, <1>2, <1>4
  <2>2. ASSUME NEW f \in Entity, dirty[f] # NoRow
        PROVE  /\ \E k \in 1..Len(log') : Concerns(k, f)' /\ dirty[f].ts = log'[k].ts
               /\ \A i \in 1..pos - 1 : Concerns(i, f)' => log'[i].ts <= dirty[f].ts
    BY <1>2, <2>1, <2>2 DEF RelayInv, RowTimes
  <2>. QED
    BY <1>3, <2>2 DEF RowTimes
<1>8. RowsBehind'
  <2>1. pending > 0 => pos - 1 \in 1..Len(log)
    BY <1>2, <1>4
  <2>. QED
    BY <1>2, <1>3, <2>1 DEF RelayInv, RowsBehind
<1>. QED
  BY <1>5, <1>6, <1>7, <1>8 DEF RelayInv

\* An event changes nothing of what the tasks did: they fetched older revisions.
LEMMA UpstreamTaskInv ==
  ASSUME TypeOK, FeedInv, TaskInv, Upstream
  PROVE  TaskInv'
<1>1. PICK new \in Nat :
        /\ new = Len(log) + 1
        /\ Len(log') = new
        /\ \A f \in Entity : wiki'[f] = new \/ wiki'[f] = wiki[f]
  BY UpstreamEffect
<1>2. /\ Len(log) \in Nat
      /\ \A i \in 1..Len(log) : log'[i] = log[i]
      /\ \A i \in 1..Len(log), f \in Entity : Concerns(i, f)' <=> Concerns(i, f)
      /\ \A r \in 0..Len(log) : Parts(r)' = Parts(r)
      /\ dirty' = dirty /\ batch' = batch /\ virt' = virt
  BY UpstreamEffect DEF consumerVars
<1>3. \A f \in Entity :
        /\ virt[f].rev \in 0..Len(log)
        /\ wiki[f] \in 0..Len(log)
        /\ batch[f] # NoTask => batch[f] \in Task /\ batch[f].rev \in 0..Len(log)
  BY DEF TypeOK, FeedTypeOK, ConsumerTypeOK, Task
<1>4. \A f \in Entity : Parts(virt[f].rev)' = Parts(virt[f].rev)
  BY <1>2, <1>3 DEF Parts
<1>5. \A f \in Entity :
        batch[f] # NoTask => Parts(batch[f].rev)' = Parts(batch[f].rev)
  BY <1>2, <1>3 DEF Parts
<1>6. LeasedHasRow'
  BY <1>2 DEF TaskInv, LeasedHasRow
<1>7. TaskProgress'
  BY <1>2, <1>5 DEF TaskInv, TaskProgress, Progress
<1>8. HalfWrittenIsDirty'
  BY <1>2, <1>4 DEF TaskInv, HalfWrittenIsDirty
<1>9. RevisionsOrdered'
  <2>1. \A f \in Entity : wiki'[f] \in Nat /\ wiki[f] <= wiki'[f]
    BY <1>1, <1>2, <1>3
  <2>2. ASSUME NEW f \in Entity
        PROVE  /\ virt[f].rev <= wiki'[f]
               /\ batch[f] # NoTask /\ batch[f].st \in {"writing", "done"}
                    /\ ~batch[f].del =>
                    virt[f].rev <= batch[f].rev /\ batch[f].rev <= wiki'[f]
    BY <1>3, <2>1 DEF TaskInv, RevisionsOrdered
  <2>. QED
    BY <1>2, <2>2 DEF RevisionsOrdered
<1>10. LeaseTimes'
  <2>1. 1..Len(log) \subseteq 1..Len(log')
    BY <1>1, <1>2
  <2>. QED
    BY <1>2, <2>1 DEF TaskInv, LeaseTimes
<1>. QED
  BY <1>6, <1>7, <1>8, <1>9, <1>10 DEF TaskInv

\* A change of an entity is in the feed from the moment it is made.
LEMMA UpstreamLossInv ==
  ASSUME TypeOK, LossInv, Upstream
  PROVE  LossInv'
<1>1. PICK new \in Nat :
        /\ new = Len(log) + 1
        /\ Len(log') = new
        /\ \A f \in Entity :
             \/ Concerns(new, f)' /\ wiki'[f] = new
             \/ ~Concerns(new, f)' /\ wiki'[f] = wiki[f]
  BY UpstreamEffect
<1>2. /\ Len(log) \in Nat
      /\ \A i \in 1..Len(log) : log'[i] = log[i]
      /\ \A i \in 1..Len(log), f \in Entity : Concerns(i, f)' <=> Concerns(i, f)
      /\ \A r \in 0..Len(log) : Parts(r)' = Parts(r)
      /\ dirty' = dirty /\ batch' = batch /\ virt' = virt /\ pos' = pos
  BY UpstreamEffect DEF consumerVars, relayVars
<1>3. pos \in 1..Len(log) + 1 /\ \A f \in Entity : wiki[f] \in 0..Len(log)
  BY DEF TypeOK, FeedTypeOK, RelayTypeOK
<1>4. 1..Len(log) \subseteq 1..Len(log')
  BY <1>1, <1>2
<1>5. FlagsMatch'
  <2>1. \A ts, del : \A k \in 1..Len(log), f \in Entity :
          StandsFor(k, f, ts, del) => StandsFor(k, f, ts, del)'
    BY <1>2 DEF StandsFor
  <2>. QED
    BY <1>2, <1>4, <2>1 DEF LossInv, FlagsMatch
<1>6. ASSUME NoLostUpdate PROVE NoLostUpdate'
  <2>1. ASSUME NEW f \in Entity PROVE (InFlight(f) \/ InSync(f))'
    <3>1. CASE Concerns(new, f)'
      <4>1. new \in pos..Len(log')
        BY <1>1, <1>2, <1>3
      <4>. QED
        BY <1>2, <3>1, <4>1 DEF InFlight, InFeed
    <3>2. CASE wiki'[f] = wiki[f] /\ InFeed(f)
      <4>1. PICK i \in pos..Len(log) : Concerns(i, f)
        BY <3>2 DEF InFeed
      <4>2. i \in pos..Len(log') /\ i \in 1..Len(log)
        BY <1>1, <1>2, <1>3
      <4>3. Concerns(i, f)'
        BY <1>2, <4>1, <4>2
      <4>. QED
        BY <1>2, <4>2, <4>3 DEF InFlight, InFeed
    <3>3. CASE dirty[f] # NoRow
      BY <1>2, <3>3 DEF InFlight
    <3>4. CASE wiki'[f] = wiki[f] /\ InSync(f)
      <4>1. Parts(wiki[f])' = Parts(wiki[f])
        BY <1>2, <1>3, <3>4 DEF Parts
      <4>. QED
        BY <1>2, <3>4, <4>1 DEF InSync
    <3>. QED
      BY <1>1, <1>6, <3>1, <3>2, <3>3, <3>4 DEF NoLostUpdate, InFlight
  <2>. QED
    BY <2>1 DEF NoLostUpdate
<1>. QED
  BY <1>5, <1>6 DEF LossInv, InOrder, EditsOnly

----------------------------------------------------------------------------
(* The relay moves.                                                        *)

\* What a checkpoint, or the flush of a closed stream, does to the cursor: it
\* becomes the second of the last event applied, from where nothing that is
\* still to be applied can be skipped.
LEMMA AdvanceEffect ==
  ASSUME TypeOK, FeedSorted, pending > 0, AdvanceCursor
  PROVE  /\ pos - 1 \in 1..Len(log)
         /\ cursor' = log[pos - 1].ts
         /\ cursor' <= Clock
         /\ pos <= Len(log) => cursor' <= log[pos].ts
         /\ \A i \in 1..Len(log) + 1 : StartsAt(i, cursor') => i <= pos
<1>1. Len(log) \in Nat /\ pos \in 1..Len(log) + 1 /\ pending < pos /\ pending \in Nat
  BY DEF TypeOK, FeedTypeOK, RelayTypeOK
<1>2. pos - 1 \in 1..Len(log)
  BY <1>1
<1>3. cursor' = log[pos - 1].ts
  BY DEF AdvanceCursor
<1>4. \A i \in 1..Len(log) : log[i].ts \in Nat
  <2>1. \A i \in 1..Len(log) : log[i] \in Event
    BY DEF TypeOK, FeedTypeOK
  <2>. QED
    BY <2>1 DEF Event
<1>5. cursor' <= Clock
  BY <1>2, <1>3, ClockIsLast
<1>6. pos <= Len(log) => cursor' <= log[pos].ts
  <2>1. pos <= Len(log) => pos \in 1..Len(log) /\ pos - 1 <= pos
    BY <1>1
  <2>. QED
    BY <1>2, <1>3, <2>1 DEF FeedSorted
<1>7. ASSUME NEW i \in 1..Len(log) + 1, StartsAt(i, cursor') PROVE i <= pos
  <2>1. SUFFICES ASSUME i > pos PROVE FALSE
    BY <1>1
  <2>2. pos - 1 \in 1..i - 1
    BY <1>1, <1>2, <2>1
  <2>3. log[pos - 1].ts < log[pos - 1].ts
    BY <1>3, <1>7, <2>2 DEF StartsAt
  <2>. QED
    BY <1>2, <1>4, <2>3
<1>. QED
  BY <1>2, <1>3, <1>5, <1>6, <1>7

\* Connecting never moves forward.
LEMMA ConnectGoesBack ==
  ASSUME TypeOK, NothingSkipped, Connect
  PROVE  pos' \in 1..Len(log) + 1 /\ pos' <= pos /\ StartsAt(pos', cursor)
BY DEF Connect, NothingSkipped

\* What the relay does to the row of an entity: nothing, or it makes it the
\* row of the event applied, no older than before.
LEMMA ApplyEventRow ==
  ASSUME TypeOK, ApplyEvent, NEW f \in Entity
  PROVE  /\ pos \in 1..Len(log)
         /\ pos' = pos + 1
         /\ log[pos].ts \in Nat
         /\ dirty[f] # NoRow => dirty[f].ts \in Nat
         /\ ~Concerns(pos, f) => dirty'[f] = dirty[f]
         /\ Concerns(pos, f) =>
              /\ dirty'[f] # NoRow
              /\ dirty'[f].ts \in Nat
              /\ dirty'[f].ts >= log[pos].ts
              /\ dirty[f] # NoRow => dirty'[f].ts >= dirty[f].ts
              /\ \/ dirty'[f].ts = log[pos].ts
                 \/ dirty[f] # NoRow /\ dirty'[f].ts = dirty[f].ts
              /\ dirty'[f].del = (Outcome(log[pos]) = "deleted")
<1>1. FeedTypeOK /\ RelayTypeOK
  BY DEF TypeOK
<1>2. /\ pos \in 1..Len(log)
      /\ log[pos] \in Event
      /\ Outcome(log[pos]) = "ignored" => dirty' = dirty
      /\ Outcome(log[pos]) # "ignored" =>
           Upsert(log[pos].id, log[pos].ts, Outcome(log[pos]) = "deleted")
  BY <1>1, ApplyEventDirty
<1>3. log[pos].id \in Entity /\ log[pos].ts \in Nat
  BY <1>2 DEF Event
<1>4. dirty \in [Entity -> Row \union {NoRow}]
  BY <1>1 DEF RelayTypeOK
<1>5. dirty[f] # NoRow => dirty[f].ts \in Nat
  BY <1>4 DEF Row
<1>6. pos' = pos + 1
  BY DEF ApplyEvent
<1>7. CASE Outcome(log[pos]) = "ignored"
  BY <1>2, <1>3, <1>5, <1>6, <1>7 DEF Concerns
<1>8. CASE Outcome(log[pos]) # "ignored"
  <2>. DEFINE e == log[pos].id  ts == log[pos].ts  del == Outcome(log[pos]) = "deleted"
  <2>1. /\ dirty'[e] \in Row
        /\ dirty'[e].ts >= ts
        /\ dirty'[e].del = del
        /\ dirty[e] # NoRow => dirty'[e].ts >= dirty[e].ts
        /\ dirty'[e].ts = ts \/ (dirty[e] # NoRow /\ dirty'[e].ts = dirty[e].ts)
        /\ \A g \in Entity \ {e} : dirty'[g] = dirty[g]
    <3>1. del \in BOOLEAN /\ Upsert(e, ts, del)
      BY <1>2, <1>8
    <3>. HIDE DEF del, ts
    <3>. QED
      BY <1>3, <1>4, <3>1, UpsertTypes DEF ts
  <2>2. dirty'[e] # NoRow /\ dirty'[e].ts \in Nat
    BY <2>1 DEF Row
  <2>3. Concerns(pos, f) <=> f = e
    BY <1>8 DEF Concerns
  <2>. QED
    BY <1>2, <1>3, <1>5, <1>6, <2>1, <2>2, <2>3
<1>. QED
  BY <1>7, <1>8

\* When every lost stream was flushed, the next event is not older than any
\* row: nothing is applied out of order.
LEMMA RowNotAhead ==
  ASSUME TypeOK, FeedSorted, CursorReached, RowsBehind, ApplyEvent,
         "fault" \notin DropKinds, NEW f \in Entity, dirty[f] # NoRow
  PROVE  dirty[f].ts <= log[pos].ts
<1>1. /\ Len(log) \in Nat
      /\ pos \in 1..Len(log) /\ pending \in Nat /\ pending < pos
      /\ cursor \in Nat
      /\ conn = "up"
      /\ dirty[f].ts \in Nat
  BY DEF ApplyEvent, TypeOK, FeedTypeOK, RelayTypeOK, Row
<1>2. \A i \in 1..Len(log) : log[i].ts \in Nat
  <2>1. \A i \in 1..Len(log) : log[i] \in Event
    BY DEF TypeOK, FeedTypeOK
  <2>. QED
    BY <2>1 DEF Event
<1>3. CASE pending > 0
  <2>1. pos - 1 \in 1..Len(log) /\ pos - 1 <= pos
    BY <1>1, <1>3
  <2>2. log[pos - 1].ts <= log[pos].ts
    BY <1>1, <2>1 DEF FeedSorted
  <2>3. dirty[f].ts <= log[pos - 1].ts
    BY <1>3 DEF RowsBehind
  <2>. QED
    BY <1>1, <1>2, <2>1, <2>2, <2>3
<1>4. CASE pending = 0
  BY <1>1, <1>2, <1>4 DEF RowsBehind, CursorReached
<1>. QED
  BY <1>1, <1>3, <1>4

\* Each step of the relay keeps what is said of cursor, position and rows.
LEMMA RelayRelayInv ==
  ASSUME TypeOK, FeedInv, RelayInv, Relay
  PROVE  RelayInv'
<1>1. /\ log' = log
      /\ Len(log) \in Nat
      /\ pos \in 1..Len(log) + 1 /\ pending \in Nat /\ pending < pos
      /\ cursor \in Nat
      /\ \A f \in Entity : dirty[f] # NoRow => dirty[f].ts \in Nat
  BY DEF Relay, feedVars, TypeOK, FeedTypeOK, RelayTypeOK, Row
<1>2. \A i \in 1..Len(log) : log[i].ts \in Nat
  <2>1. \A i \in 1..Len(log) : log[i] \in Event
    BY DEF TypeOK, FeedTypeOK
  <2>. QED
    BY <2>1 DEF Event
<1>3. FeedSorted
  BY DEF FeedInv
<1>4. Clock' = Clock /\ \A i \in 1..Len(log), f \in Entity : Concerns(i, f)' = Concerns(i, f)
  BY <1>1 DEF Clock, Concerns
<1>5. \A i, c : StartsAt(i, c)' = StartsAt(i, c)
  BY <1>1 DEF StartsAt
<1>6. CASE Connect
  <2>1. pos' \in 1..Len(log) + 1 /\ pos' <= pos /\ StartsAt(pos', cursor)
    BY <1>6, ConnectGoesBack DEF RelayInv
  <2>2. /\ conn' = "up" /\ conn = "down" /\ pending' = 0 /\ cursor' = cursor
        /\ dirty' = dirty
    BY <1>6 DEF Connect
  <2>3. CursorReached'
    BY <1>1, <1>4, <2>1, <2>2 DEF RelayInv, CursorReached, StartsAt
  <2>4. NothingSkipped'
    <3>1. ASSUME NEW i \in 1..Len(log) + 1, StartsAt(i, cursor)
          PROVE  i <= pos'
      <4>1. SUFFICES ASSUME i > pos' PROVE FALSE
        BY <2>1
      <4>2. pos' \in 1..i - 1 /\ pos' \in 1..Len(log)
        BY <1>1, <2>1, <4>1
      <4>3. log[pos'].ts < cursor /\ log[pos'].ts >= cursor
        BY <2>1, <3>1, <4>2 DEF StartsAt
      <4>. QED
        BY <1>1, <1>2, <4>2, <4>3
    <3>. QED
      BY <1>1, <2>2, <3>1 DEF NothingSkipped, StartsAt
  <2>5. RowTimes'
    <3>1. /\ \A i \in 1..pos' - 1 : i \in 1..pos - 1
          /\ \A i \in 1..pos - 1 : i \in 1..Len(log)
      <4>1. PICK p \in 1..Len(log) + 1 : p = pos'
        BY <2>1
      <4>2. p <= pos
        BY <2>1, <4>1
      <4>3. \A i \in 1..p - 1 : i \in 1..pos - 1
        BY <1>1, <4>2
      <4>4. \A i \in 1..pos - 1 : i \in 1..Len(log)
        BY <1>1
      <4>5. 1..p - 1 = 1..pos' - 1
        BY <4>1
      <4>. QED
        BY <4>3, <4>4, <4>5
    <3>. QED
      BY <1>1, <1>4, <2>2, <3>1 DEF RelayInv, RowTimes
  <2>6. RowsBehind'
    <3>1. pending = 0
      BY <2>2 DEF RelayInv, CursorReached
    <3>. QED
      BY <1>1, <2>2, <3>1 DEF RelayInv, RowsBehind
  <2>. QED
    BY <2>3, <2>4, <2>5, <2>6 DEF RelayInv
<1>7. CASE ApplyEvent
  <2>1. /\ pos \in 1..Len(log)
        /\ pos' = pos + 1 /\ pending' = pending + 1 /\ cursor' = cursor
        /\ conn = "up" /\ conn' = "up"
    BY <1>1, <1>7 DEF ApplyEvent
  <2>2. CursorReached'
    BY <1>1, <1>4, <2>1 DEF RelayInv, CursorReached
  <2>3. NothingSkipped'
    <3>1. ASSUME NEW i \in 1..Len(log) + 1, StartsAt(i, cursor)
          PROVE  i <= pos + 1
      BY <1>1, <3>1 DEF RelayInv, NothingSkipped
    <3>. QED
      BY <1>1, <2>1, <3>1 DEF NothingSkipped, StartsAt
  <2>4. \A f \in Entity :
          /\ ~Concerns(pos, f) => dirty'[f] = dirty[f]
          /\ Concerns(pos, f) =>
               /\ dirty'[f] # NoRow
               /\ dirty'[f].ts \in Nat
               /\ dirty'[f].ts >= log[pos].ts
               /\ \/ dirty'[f].ts = log[pos].ts
                  \/ dirty[f] # NoRow /\ dirty'[f].ts = dirty[f].ts
    BY <1>7, ApplyEventRow
  <2>5. \A i \in 1..pos : log[i].ts <= log[pos].ts
    BY <1>1, <1>3, <2>1 DEF FeedSorted
  <2>6. RowTimes'
    <3>1. ASSUME NEW f \in Entity, dirty'[f] # NoRow
          PROVE  /\ \E k \in 1..Len(log) : Concerns(k, f) /\ dirty'[f].ts = log[k].ts
                 /\ \A i \in 1..pos : Concerns(i, f) => log[i].ts <= dirty'[f].ts
      <4>1. CASE Concerns(pos, f)
        <5>1. \E k \in 1..Len(log) : Concerns(k, f) /\ dirty'[f].ts = log[k].ts
          BY <2>1, <2>4, <4>1 DEF RelayInv, RowTimes
        <5>2. \A i \in 1..pos : log[i].ts <= dirty'[f].ts
          BY <1>1, <1>2, <2>1, <2>4, <2>5, <4>1
        <5>. QED
          BY <5>1, <5>2
      <4>2. CASE ~Concerns(pos, f)
        <5>1. dirty'[f] = dirty[f] /\ dirty[f] # NoRow
          BY <2>4, <3>1, <4>2
        <5>2. \A i \in 1..pos : i \in 1..pos - 1 \/ i = pos
          BY <1>1
        <5>. QED
          BY <4>2, <5>1, <5>2 DEF RelayInv, RowTimes
      <4>. QED
        BY <4>1, <4>2
    <3>2. pos' - 1 = pos
      BY <1>1, <2>1
    <3>3. 1..pos \subseteq 1..Len(log)
      BY <1>1, <2>1
    <3>. QED
      BY <1>1, <1>4, <3>1, <3>2, <3>3 DEF RowTimes
  <2>7. RowsBehind'
    <3>1. ASSUME "fault" \notin DropKinds, NEW f \in Entity, dirty'[f] # NoRow
          PROVE  dirty'[f].ts <= log[pos].ts
      <4>1. ASSUME dirty[f] # NoRow PROVE dirty[f].ts <= log[pos].ts
        BY <1>3, <1>7, <3>1, <4>1, RowNotAhead DEF RelayInv
      <4>. QED
        BY <1>2, <2>1, <2>4, <3>1, <4>1
    <3>2. pos' - 1 = pos /\ pending' > 0
      BY <1>1, <2>1
    <3>. QED
      BY <1>1, <3>1, <3>2 DEF RowsBehind
  <2>. QED
    BY <2>2, <2>3, <2>6, <2>7 DEF RelayInv
<1>8. ASSUME pending > 0, AdvanceCursor, pos' = pos, pending' = 0, dirty' = dirty
      PROVE  RelayInv'
  <2>1. /\ pos - 1 \in 1..Len(log)
        /\ cursor' = log[pos - 1].ts
        /\ cursor' <= Clock
        /\ pos <= Len(log) => cursor' <= log[pos].ts
        /\ \A i \in 1..Len(log) + 1 : StartsAt(i, cursor') => i <= pos
    BY <1>3, <1>8, AdvanceEffect
  <2>2. CursorReached'
    BY <1>1, <1>4, <1>8, <2>1 DEF CursorReached
  <2>3. NothingSkipped'
    BY <1>1, <1>8, <2>1 DEF NothingSkipped, StartsAt
  <2>4. RowTimes' /\ RowsBehind'
    BY <1>1, <1>4, <1>8, <2>1 DEF RelayInv, RowTimes, RowsBehind, Concerns
  <2>. QED
    BY <2>2, <2>3, <2>4 DEF RelayInv
<1>9. ASSUME pos' = pos, pending' = 0, dirty' = dirty, cursor' = cursor, conn' = "down",
             pending = 0 \/ "fault" \in DropKinds
      PROVE  RelayInv'
  <2>1. CursorReached' /\ NothingSkipped' /\ RowTimes'
    BY <1>1, <1>4, <1>9
    DEF RelayInv, CursorReached, NothingSkipped, StartsAt, RowTimes, Concerns
  <2>2. RowsBehind'
    BY <1>1, <1>9 DEF RelayInv, RowsBehind
  <2>. QED
    BY <2>1, <2>2 DEF RelayInv
<1>10. CASE Checkpoint
  BY <1>1, <1>8, <1>10 DEF Checkpoint
<1>11. CASE CloseStream
  BY <1>1, <1>8, <1>9, <1>11 DEF CloseStream
<1>12. CASE LoseStream
  BY <1>9, <1>12 DEF LoseStream
<1>. QED
  BY <1>6, <1>7, <1>10, <1>11, <1>12 DEF Relay, RelayNext, RelayStep

\* The relay deletes no row.
LEMMA RelayKeepsRows ==
  ASSUME TypeOK, Relay, NEW f \in Entity, dirty[f] # NoRow
  PROVE  dirty'[f] # NoRow
<1>1. CASE ApplyEvent
  BY <1>1, ApplyEventRow
<1>2. CASE ~ApplyEvent
  BY <1>2 DEF Relay, RelayNext, RelayStep, Connect, Checkpoint, CloseStream, LoseStream
<1>. QED
  BY <1>1, <1>2

\* The relay touches the rows only, and deletes none: leases stay covered.
LEMMA RelayTaskInv ==
  ASSUME TypeOK, TaskInv, Relay
  PROVE  TaskInv'
<1>1. log' = log /\ wiki' = wiki /\ batch' = batch /\ virt' = virt
  BY DEF Relay, feedVars, consumerVars
<1>2. \A f \in Entity : dirty[f] # NoRow => dirty'[f] # NoRow
  BY RelayKeepsRows
<1>3. LeasedHasRow'
  BY <1>1, <1>2 DEF TaskInv, LeasedHasRow
<1>4. TaskProgress'
  BY <1>1 DEF TaskInv, TaskProgress, Progress, Parts
<1>5. HalfWrittenIsDirty'
  BY <1>1, <1>2 DEF TaskInv, HalfWrittenIsDirty, Parts
<1>6. RevisionsOrdered'
  BY <1>1 DEF TaskInv, RevisionsOrdered
<1>7. LeaseTimes'
  BY <1>1 DEF TaskInv, LeaseTimes, Concerns
<1>. QED
  BY <1>3, <1>4, <1>5, <1>6, <1>7 DEF TaskInv

\* An applied event leaves the feed only by becoming a row, and the flag of the
\* row is that of the event whose second it has, unless a replay applies an
\* older deletion or undelete after a newer event.
LEMMA RelayLossInv ==
  ASSUME TypeOK, FeedInv, RelayInv, LossInv, Relay
  PROVE  LossInv'
<1>1. /\ log' = log /\ wiki' = wiki /\ batch' = batch /\ virt' = virt
      /\ Len(log) \in Nat
      /\ pos \in 1..Len(log) + 1
  BY DEF Relay, feedVars, consumerVars, TypeOK, FeedTypeOK, RelayTypeOK
<1>2. \A ts, del : \A k \in 1..Len(log), f \in Entity :
        StandsFor(k, f, ts, del)' <=> StandsFor(k, f, ts, del)
  BY <1>1 DEF StandsFor, Concerns
<1>3. FlagsMatch'
  <2>1. CASE ~ApplyEvent
    <3>1. dirty' = dirty
      BY <2>1 DEF Relay, RelayNext, RelayStep, Connect, Checkpoint, CloseStream, LoseStream
    <3>. QED
      BY <1>1, <1>2, <3>1 DEF LossInv, FlagsMatch
  <2>2. ASSUME ApplyEvent, InOrder, NEW f \in Entity, dirty'[f] # NoRow
        PROVE  \E k \in 1..Len(log) : StandsFor(k, f, dirty'[f].ts, dirty'[f].del)
    <3>1. /\ pos \in 1..Len(log)
          /\ log[pos].ts \in Nat
          /\ dirty[f] # NoRow => dirty[f].ts \in Nat
          /\ ~Concerns(pos, f) => dirty'[f] = dirty[f]
          /\ Concerns(pos, f) =>
              /\ dirty'[f].ts >= log[pos].ts
              /\ \/ dirty'[f].ts = log[pos].ts
                 \/ dirty[f] # NoRow /\ dirty'[f].ts = dirty[f].ts
              /\ dirty'[f].del = (Outcome(log[pos]) = "deleted")
      BY <2>2, ApplyEventRow
    <3>2. dirty[f] # NoRow =>
            \E k \in 1..Len(log) : StandsFor(k, f, dirty[f].ts, dirty[f].del)
      BY <2>2 DEF LossInv, FlagsMatch
    <3>3. CASE ~Concerns(pos, f)
      BY <2>2, <3>1, <3>2, <3>3
    <3>4. CASE Concerns(pos, f) /\ dirty'[f].ts = log[pos].ts
      BY <3>1, <3>4 DEF StandsFor
    <3>5. CASE Concerns(pos, f) /\ dirty[f] # NoRow /\ dirty'[f].ts = dirty[f].ts
      <4>1. CASE "fault" \notin DropKinds
        <5>1. dirty[f].ts <= log[pos].ts
          BY <2>2, <3>5, <4>1, RowNotAhead DEF FeedInv, RelayInv
        <5>. QED
          BY <3>1, <3>4, <3>5, <5>1
      <4>2. CASE EditsOnly
        <5>1. PICK k \in 1..Len(log) : StandsFor(k, f, dirty[f].ts, dirty[f].del)
          BY <3>2, <3>5
        <5>2. Outcome(log[k]) # "deleted" /\ Outcome(log[pos]) # "deleted"
          BY <3>1, <4>2 DEF FeedInv, NoDeletions
        <5>. QED
          BY <3>1, <3>5, <5>1, <5>2 DEF StandsFor
      <4>. QED
        BY <2>2, <4>1, <4>2 DEF InOrder
    <3>. QED
      BY <3>1, <3>3, <3>4, <3>5
  <2>3. ASSUME ApplyEvent PROVE FlagsMatch'
    BY <1>1, <1>2, <2>2, <2>3 DEF LossInv, FlagsMatch, InOrder, EditsOnly
  <2>. QED
    BY <2>1, <2>3
<1>4. ASSUME NoLostUpdate PROVE NoLostUpdate'
  <2>1. ASSUME NEW f \in Entity PROVE (InFlight(f) \/ InSync(f))'
    <3>1. CASE dirty[f] # NoRow
      BY <3>1, RelayKeepsRows DEF InFlight
    <3>2. CASE InSync(f)
      BY <1>1, <3>2 DEF InSync, Parts
    <3>3. ASSUME NEW i \in pos..Len(log), Concerns(i, f)
          PROVE  InFlight(f)'
      <4>1. CASE ApplyEvent /\ i = pos
        BY <3>3, <4>1, ApplyEventRow DEF InFlight
      <4>2. CASE ApplyEvent /\ i # pos
        <5>1. i \in pos + 1..Len(log)
          BY <1>1, <4>2
        <5>. QED
          BY <1>1, <3>3, <4>2, <5>1 DEF InFlight, InFeed, Concerns, ApplyEvent
      <4>3. CASE Connect
        <5>1. PICK p \in 1..Len(log) + 1 : p = pos' /\ p <= pos
          BY <4>3, ConnectGoesBack DEF RelayInv
        <5>2. i \in p..Len(log)
          BY <1>1, <5>1
        <5>. QED
          BY <1>1, <3>3, <5>1, <5>2 DEF InFlight, InFeed, Concerns
      <4>4. CASE pos' = pos
        BY <1>1, <3>3, <4>4 DEF InFlight, InFeed, Concerns
      <4>. QED
        BY <4>1, <4>2, <4>3, <4>4
        DEF Relay, RelayNext, RelayStep, Checkpoint, CloseStream, LoseStream
    <3>. QED
      BY <1>4, <3>1, <3>2, <3>3 DEF NoLostUpdate, InFlight, InFeed
  <2>. QED
    BY <2>1 DEF NoLostUpdate
<1>. QED
  BY <1>3, <1>4 DEF LossInv, InOrder, EditsOnly

----------------------------------------------------------------------------
(* The consumer moves.                                                     *)

\* What is said of the feed and of the relay survives every step that leaves
\* them alone and at most deletes rows.
LEMMA RowsOnlyGo ==
  ASSUME TypeOK, FeedInv, RelayInv, UNCHANGED <<feedVars, relayVars>>,
         \A f \in Entity : dirty'[f] = dirty[f] \/ dirty'[f] = NoRow
  PROVE  FeedInv' /\ RelayInv'
<1>1. /\ log' = log /\ wiki' = wiki /\ conn' = conn /\ pos' = pos
      /\ pending' = pending /\ cursor' = cursor
  BY DEF feedVars, relayVars
<1>2. FeedInv'
  BY <1>1 DEF FeedInv, FeedSorted, FeedStrict, FeedFiltered, NoDeletions, Concerns
<1>3. CursorReached' /\ NothingSkipped'
  BY <1>1 DEF RelayInv, CursorReached, NothingSkipped, StartsAt, Clock
<1>4. RowTimes'
  BY <1>1 DEF RelayInv, RowTimes, Concerns
<1>5. RowsBehind'
  BY <1>1 DEF RelayInv, RowsBehind
<1>. QED
  BY <1>2, <1>3, <1>4, <1>5 DEF RelayInv

\* A pool thread keeps what is said of its task, and of the others.
LEMMA WorkTaskInv ==
  ASSUME TypeOK, FeedInv, TaskInv, NEW e \in Entity, Work(e)
  PROVE  TaskInv'
<1>1. log' = log /\ wiki' = wiki /\ dirty' = dirty
  BY DEF Work, feedVars
<1>2. /\ batch[e] \in Task /\ batch'[e] \in Task
      /\ batch'[e].ts = batch[e].ts /\ batch'[e].del = batch[e].del
      /\ \A f \in Entity \ {e} : batch'[f] = batch[f] /\ virt'[f] = virt[f]
      /\ TaskDone(e)
  BY WorkEffect
<1>3. /\ wiki[e] \in 0..Len(log) /\ virt[e].rev \in Nat
      /\ virt' \in [Entity -> [rev : 0..Len(log), n : Nat]]
      /\ AfterUpdate(e) = [rev |-> batch[e].rev, n |-> AfterUpdate(e).n]
  BY WorkEffect DEF TypeOK, FeedTypeOK, ConsumerTypeOK, AfterUpdate
<1>4. batch[e] # NoTask /\ batch'[e] # NoTask
  BY <1>2
<1>5. LeasedHasRow'
  <2>1. dirty[e] # NoRow
    BY <1>4 DEF TaskInv, LeasedHasRow
  <2>. QED
    BY <1>1, <1>2, <2>1 DEF TaskInv, LeasedHasRow
<1>6. /\ batch[e].st = "queued" => batch[e].n = 0
      /\ batch[e].st = "writing" =>
           /\ ~batch[e].del
           /\ batch[e].n = 0
                \/ virt[e] = [rev |-> batch[e].rev, n |-> batch[e].n]
  BY <1>4 DEF TaskInv, TaskProgress, Progress
<1>7. TaskProgress'
  <2>1. Progress(e)'
    <3>1. CASE batch[e].st = "queued" /\ batch[e].del /\ batch'[e].st = "done" /\ virt'[e].n = 0
      BY <1>2, <3>1 DEF Progress
    <3>2. CASE batch[e].st = "queued" /\ ~batch[e].del /\ batch'[e].st = "writing"
                 /\ batch'[e].n = batch[e].n
      BY <1>2, <1>6, <3>2 DEF Progress
    <3>3. CASE /\ batch[e].st = "writing"
               /\ batch'[e].n = AfterUpdate(e).n /\ batch'[e].rev = batch[e].rev
               /\ batch'[e].st = IF AfterUpdate(e).n = Parts(batch[e].rev)
                                   THEN "done" ELSE "writing"
               /\ virt'[e] = AfterUpdate(e)
      <4>1. virt'[e] = [rev |-> batch'[e].rev, n |-> batch'[e].n]
        BY <1>3, <3>3
      <4>2. Parts(batch[e].rev)' = Parts(batch[e].rev)
        BY <1>1, <3>3 DEF Parts
      <4>3. batch'[e].st = "done" => batch'[e].n = Parts(batch[e].rev)
        BY <3>3
      <4>4. ~batch'[e].del /\ batch'[e].st \in {"done", "writing"}
        BY <1>2, <1>6, <3>3
      <4>. QED
        BY <4>1, <4>2, <4>3, <4>4 DEF Progress
    <3>4. CASE batch'[e].st = "left"
      BY <3>4 DEF Progress
    <3>. QED
      BY <1>2, <3>1, <3>2, <3>3, <3>4 DEF TaskDone
  <2>2. ASSUME NEW f \in Entity \ {e} PROVE Progress(f)' <=> Progress(f)
    <3>1. Parts(batch[f].rev)' = Parts(batch[f].rev)
      BY <1>1, <1>2 DEF Parts
    <3>. QED
      BY <1>2, <3>1 DEF Progress
  <2>. QED
    BY <1>2, <2>1, <2>2 DEF TaskInv, TaskProgress
<1>8. HalfWrittenIsDirty'
  <2>1. dirty[e] # NoRow
    BY <1>4 DEF TaskInv, LeasedHasRow
  <2>. QED
    BY <1>1, <1>2, <2>1 DEF TaskInv, HalfWrittenIsDirty, Parts
<1>9. /\ virt[e].rev <= wiki[e]
      /\ batch[e].st \in {"writing", "done"} /\ ~batch[e].del =>
           virt[e].rev <= batch[e].rev /\ batch[e].rev <= wiki[e]
  BY <1>4 DEF TaskInv, RevisionsOrdered
<1>10. RevisionsOrdered'
  <2>1. /\ virt'[e].rev <= wiki[e]
        /\ batch'[e].st \in {"writing", "done"} /\ ~batch[e].del =>
             virt'[e].rev <= batch'[e].rev /\ batch'[e].rev <= wiki[e]
    <3>1. AfterUpdate(e).rev = batch[e].rev
      BY <1>3
    <3>2. batch[e].rev \in Nat
      BY <1>2 DEF Task
    <3>. QED
      BY <1>2, <1>3, <1>6, <1>9, <3>1, <3>2 DEF TaskDone
  <2>. QED
    BY <1>1, <1>2, <2>1 DEF TaskInv, RevisionsOrdered
<1>11. LeaseTimes'
  <2>1. PICK k \in 1..Len(log) :
          /\ Concerns(k, e)
          /\ batch[e].ts = log[k].ts
          /\ batch[e].st \in {"writing", "done"} /\ ~batch[e].del => k <= batch[e].rev
    BY <1>4 DEF TaskInv, LeaseTimes
  <2>2. k <= wiki[e]
    BY <2>1 DEF FeedInv, FeedFiltered
  <2>3. batch'[e].st \in {"writing", "done"} /\ ~batch[e].del => k <= batch'[e].rev
    BY <1>2, <1>6, <2>1, <2>2 DEF TaskDone
  <2>4. ASSUME NEW f \in Entity \ {e}, batch[f] # NoTask
        PROVE  \E i \in 1..Len(log) :
                 /\ Concerns(i, f)
                 /\ batch[f].ts = log[i].ts
                 /\ batch[f].st \in {"writing", "done"} /\ ~batch[f].del => i <= batch[f].rev
    BY <2>4 DEF TaskInv, LeaseTimes
  <2>. QED
    BY <1>1, <1>2, <2>1, <2>3, <2>4 DEF LeaseTimes, Concerns
<1>. QED
  BY <1>5, <1>7, <1>8, <1>10, <1>11 DEF TaskInv

\* A pool thread only changes the triples of an entity that has a row.
LEMMA WorkLossInv ==
  ASSUME TypeOK, TaskInv, LossInv, NEW e \in Entity, Work(e)
  PROVE  LossInv'
<1>1. log' = log /\ wiki' = wiki /\ dirty' = dirty /\ pos' = pos
  BY DEF Work, feedVars, relayVars
<1>2. /\ batch[e] \in Task /\ batch[e] # NoTask
      /\ batch'[e].ts = batch[e].ts /\ batch'[e].del = batch[e].del
      /\ \A f \in Entity \ {e} : batch'[f] = batch[f] /\ virt'[f] = virt[f]
  BY WorkEffect
<1>3. dirty[e] # NoRow
  BY <1>2 DEF TaskInv, LeasedHasRow
<1>4. FlagsMatch'
  <2>1. \A k, f, ts, del : StandsFor(k, f, ts, del)' <=> StandsFor(k, f, ts, del)
    BY <1>1 DEF StandsFor, Concerns
  <2>. QED
    BY <1>1, <1>2, <2>1 DEF LossInv, FlagsMatch, InOrder, EditsOnly
<1>5. ASSUME NoLostUpdate PROVE NoLostUpdate'
  BY <1>1, <1>2, <1>3, <1>5 DEF NoLostUpdate, InFlight, InFeed, Concerns, InSync, Parts
<1>. QED
  BY <1>4, <1>5 DEF LossInv, InOrder, EditsOnly

\* A lease copies second and flag of the rows it takes.
LEMMA LeaseInv ==
  ASSUME TypeOK, RelayInv, TaskInv, LossInv,
         LeaseBatch, UNCHANGED <<feedVars, relayVars, dirty>>
  PROVE  TaskInv' /\ LossInv'
<1>1. log' = log /\ wiki' = wiki /\ dirty' = dirty /\ pos' = pos /\ virt' = virt
  BY DEF LeaseBatch, feedVars, relayVars
<1>2. \A f \in Entity : batch'[f] # NoTask =>
        /\ dirty[f] # NoRow
        /\ batch'[f].st = "queued" /\ batch'[f].n = 0
        /\ batch'[f].ts = dirty[f].ts /\ batch'[f].del = dirty[f].del
  <2>1. PICK S \in SUBSET Pending :
          batch' = [e \in Entity |->
                      IF e \in S
                        THEN [st |-> "queued", ts |-> dirty[e].ts,
                              del |-> dirty[e].del, rev |-> 0, n |-> 0]
                        ELSE NoTask]
    BY DEF LeaseBatch
  <2>. QED
    BY <2>1 DEF Pending
<1>3. LeasedHasRow' /\ TaskProgress' /\ RevisionsOrdered'
  BY <1>1, <1>2
  DEF TaskInv, LeasedHasRow, TaskProgress, Progress, RevisionsOrdered
<1>4. HalfWrittenIsDirty'
  BY <1>1 DEF TaskInv, HalfWrittenIsDirty, Parts
<1>5. LeaseTimes'
  BY <1>1, <1>2 DEF RelayInv, RowTimes, LeaseTimes, Concerns
<1>6. FlagsMatch'
  <2>1. \A k, f, ts, del : StandsFor(k, f, ts, del)' <=> StandsFor(k, f, ts, del)
    BY <1>1 DEF StandsFor, Concerns
  <2>. QED
    BY <1>1, <1>2, <2>1 DEF LossInv, FlagsMatch, InOrder, EditsOnly
<1>7. NoLostUpdate => NoLostUpdate'
  BY <1>1 DEF NoLostUpdate, InFlight, InFeed, Concerns, InSync, Parts
<1>. QED
  BY <1>3, <1>4, <1>5, <1>6, <1>7 DEF TaskInv, LossInv, InOrder, EditsOnly

\* Why the optimistic delete is safe: no event applied so far is newer than
\* the one whose second the row and the lease share.
LEMMA NothingNewerApplied ==
  ASSUME TypeOK, FeedInv, RelayInv, DistinctSeconds,
         NEW e \in Entity, Cleared(e),
         NEW k \in 1..Len(log), Concerns(k, e), batch[e].ts = log[k].ts,
         NEW i \in 1..pos - 1, Concerns(i, e)
  PROVE  i <= k
<1>1. Len(log) \in Nat /\ pos \in 1..Len(log) + 1
  BY DEF TypeOK, FeedTypeOK, RelayTypeOK
<1>2. i \in 1..Len(log)
  BY <1>1
<1>3. log[i] \in Event /\ log[k] \in Event
  BY <1>2 DEF TypeOK, FeedTypeOK
<1>4. log[i].ts <= log[k].ts
  BY DEF RelayInv, RowTimes, Cleared
<1>5. k < i => log[k].ts < log[i].ts
  BY <1>2 DEF FeedInv, FeedStrict, Concerns
<1>. QED
  BY <1>2, <1>3, <1>4, <1>5 DEF Event

\* A task that fetched clears its row only if the revision it wrote includes
\* every event applied so far.
LEMMA ClearedNotEdited ==
  ASSUME TypeOK, FeedInv, RelayInv, TaskInv, DistinctSeconds,
         NEW e \in Entity, Cleared(e), ~batch[e].del
  PROVE  ~ConcurrentEdit(e)
<1>1. /\ batch[e] # NoTask /\ batch[e] \in Task /\ batch[e].st = "done"
      /\ Len(log) \in Nat /\ pos \in Nat
  BY DEF Cleared, Status, TypeOK, FeedTypeOK, RelayTypeOK, ConsumerTypeOK
<1>2. PICK k \in 1..Len(log) :
        Concerns(k, e) /\ batch[e].ts = log[k].ts /\ k <= batch[e].rev
  BY <1>1 DEF TaskInv, LeaseTimes
<1>3. ASSUME NEW i \in batch[e].rev + 1..pos - 1, Concerns(i, e) PROVE FALSE
  <2>1. batch[e].rev \in Nat /\ k \in Nat /\ i \in 1..pos - 1
    BY <1>1 DEF Task
  <2>2. i <= k
    BY <1>2, <1>3, <2>1, NothingNewerApplied
  <2>. QED
    BY <1>2, <2>1, <2>2
<1>. QED
  BY <1>3 DEF ConcurrentEdit

\* Where no update is lost, an entity whose row is cleared is either in step
\* or has a later event that the relay has not applied yet.
LEMMA ClearedInSync ==
  ASSUME TypeOK, FeedInv, RelayInv, TaskInv, LossInv, InOrder,
         NEW e \in Entity, Cleared(e)
  PROVE  InFeed(e) \/ InSync(e)
<1>. DEFINE w == wiki[e]
<1>1. /\ batch[e] # NoTask /\ batch[e] \in Task /\ batch[e].st = "done"
      /\ Len(log) \in Nat /\ pos \in 1..Len(log) + 1
      /\ w \in 0..Len(log) /\ batch[e].rev \in Nat
  BY DEF Cleared, Status, TypeOK, FeedTypeOK, RelayTypeOK, ConsumerTypeOK, Task
<1>2. DistinctSeconds
  BY DEF InOrder
<1>3. PICK k \in 1..Len(log) :
        /\ Concerns(k, e) /\ batch[e].ts = log[k].ts
        /\ ~batch[e].del => k <= batch[e].rev /\ batch[e].rev <= w
        /\ batch[e].del => Outcome(log[k]) = "deleted"
  <2>1. CASE batch[e].del
    BY <1>1, <2>1 DEF LossInv, FlagsMatch, StandsFor
  <2>2. CASE ~batch[e].del
    BY <1>1, <2>2 DEF TaskInv, LeaseTimes, RevisionsOrdered
  <2>. QED
    BY <2>1, <2>2
<1>4. k <= w /\ w \in 1..Len(log) /\ Concerns(w, e)
  BY <1>1, <1>3 DEF FeedInv, FeedFiltered
<1>5. Progress(e)
  BY <1>1 DEF TaskInv, TaskProgress
<1>6. CASE w >= pos
  BY <1>1, <1>4, <1>6 DEF InFeed
<1>7. CASE w < pos
  <2>1. w \in 1..pos - 1
    BY <1>1, <1>4, <1>7
  <2>2. w <= k
    <3>. HIDE DEF w
    <3>. QED
      BY <1>2, <1>3, <1>4, <2>1, NothingNewerApplied
  <2>3. w = k
    BY <1>4, <2>2
  <2>4. CASE batch[e].del
    <3>1. log[w].kind = "log_delete"
      BY <1>3, <2>3, <2>4 DEF Outcome, classify
    <3>2. Parts(w) = 0
      BY <1>4, <3>1 DEF Parts
    <3>. QED
      BY <1>1, <1>5, <2>4, <3>2 DEF Progress, InSync
  <2>5. CASE ~batch[e].del
    <3>1. batch[e].rev = w
      BY <1>1, <1>3, <2>3, <2>5
    <3>. QED
      BY <1>1, <1>5, <2>5, <3>1 DEF Progress, InSync
  <2>. QED
    BY <2>4, <2>5
<1>. QED
  BY <1>1, <1>6, <1>7

\* The end of a batch clears what is in step, and forgets the leases.
LEMMA EndBatchInv ==
  ASSUME TypeOK, FeedInv, RelayInv, TaskInv, LossInv,
         EndBatch \/ Crash, UNCHANGED <<feedVars, relayVars>>
  PROVE  TaskInv' /\ LossInv'
<1>1. log' = log /\ wiki' = wiki /\ pos' = pos /\ virt' = virt
  BY DEF EndBatch, Crash, feedVars, relayVars
<1>2. \A f \in Entity :
        /\ batch'[f] = NoTask
        /\ dirty'[f] = dirty[f] \/ (Cleared(f) /\ dirty'[f] = NoRow)
  BY DEF EndBatch, Crash
<1>3. LeasedHasRow' /\ TaskProgress' /\ RevisionsOrdered' /\ LeaseTimes'
  BY <1>1, <1>2
  DEF TaskInv, LeasedHasRow, TaskProgress, RevisionsOrdered, LeaseTimes
<1>4. HalfWrittenIsDirty'
  <2>1. ASSUME NEW f \in Entity, Cleared(f)
        PROVE  virt[f].n \notin 1..Parts(virt[f].rev) - 1
    <3>1. /\ Progress(f) /\ batch[f].st = "done"
          /\ batch[f].rev \in 0..Len(log) /\ virt[f].rev \in 0..Len(log)
      BY <2>1 DEF Cleared, Status, TaskInv, TaskProgress, TypeOK, ConsumerTypeOK, Task
    <3>2. Parts(batch[f].rev) \in Nat /\ Parts(virt[f].rev) \in Nat
      BY <3>1, PartsType DEF TypeOK
    <3>. QED
      BY <3>1, <3>2 DEF Progress
  <2>2. \A f \in Entity : Parts(virt[f].rev)' = Parts(virt[f].rev)
    BY <1>1 DEF Parts
  <2>. QED
    BY <1>1, <1>2, <2>1, <2>2 DEF TaskInv, HalfWrittenIsDirty
<1>5. FlagsMatch'
  <2>1. \A k, f, ts, del : StandsFor(k, f, ts, del)' <=> StandsFor(k, f, ts, del)
    BY <1>1 DEF StandsFor, Concerns
  <2>. QED
    BY <1>1, <1>2, <2>1 DEF LossInv, FlagsMatch, InOrder, EditsOnly
<1>6. ASSUME InOrder PROVE NoLostUpdate'
  <2>1. ASSUME NEW f \in Entity PROVE (InFlight(f) \/ InSync(f))'
    <3>1. /\ InFeed(f)' <=> InFeed(f)
          /\ InSync(f)' <=> InSync(f)
      BY <1>1 DEF InFeed, InSync, Concerns, Parts
    <3>2. CASE Cleared(f)
      BY <1>6, <3>1, <3>2, ClearedInSync DEF InFlight
    <3>3. CASE ~Cleared(f)
      BY <1>2, <1>6, <3>1, <3>3 DEF LossInv, NoLostUpdate, InFlight
    <3>. QED
      BY <3>2, <3>3
  <2>. QED
    BY <2>1 DEF NoLostUpdate
<1>. QED
  BY <1>3, <1>4, <1>5, <1>6 DEF TaskInv, LossInv, InOrder, EditsOnly

----------------------------------------------------------------------------
(* The invariant.                                                          *)

\* The invariant holds at first: the dump is in step with the empty feed.
LEMMA InitInv == Init => Inv
<1>. SUFFICES ASSUME Init PROVE Inv
  OBVIOUS
<1>1. /\ log = <<>> /\ Len(log) = 0 /\ pos = 1 /\ pending = 0 /\ cursor = 0
      /\ conn = "down"
      /\ \A e \in Entity :
           /\ wiki[e] = 0 /\ dirty[e] = NoRow /\ batch[e] = NoTask
           /\ virt[e].rev = 0 /\ virt[e].n = Chunks[0]
  BY DEF Init, FeedInit, RelayInit, ConsumerInit
<1>2. Parts(0) = Chunks[0] /\ Chunks[0] \in Nat
  BY DEF Parts
<1>3. FeedInv
  BY <1>1 DEF FeedInv, FeedSorted, FeedStrict, FeedFiltered, NoDeletions
<1>4. RelayInv
  BY <1>1
  DEF RelayInv, CursorReached, Clock, NothingSkipped, RowTimes, RowsBehind
<1>5. TaskInv
  BY <1>1, <1>2
  DEF TaskInv, LeasedHasRow, TaskProgress, HalfWrittenIsDirty, RevisionsOrdered,
      LeaseTimes
<1>6. LossInv
  BY <1>1, <1>2 DEF LossInv, FlagsMatch, NoLostUpdate, InSync
<1>. QED
  BY <1>3, <1>4, <1>5, <1>6, InitTypes DEF Inv

\* The invariant is inductive.
LEMMA NextInv == Inv /\ [Next]_vars => Inv'
<1>. SUFFICES ASSUME Inv, [Next]_vars PROVE Inv'
  OBVIOUS
<1>1. TypeOK /\ FeedInv /\ RelayInv /\ TaskInv /\ LossInv
  BY DEF Inv
<1>2. TypeOK'
  BY <1>1, NextTypes
<1>3. CASE Upstream
  BY <1>1, <1>2, <1>3, UpstreamFeedInv, UpstreamRelayInv, UpstreamTaskInv,
     UpstreamLossInv DEF Inv
<1>4. CASE Relay
  <2>1. FeedInv'
    BY <1>1, <1>4
    DEF Relay, feedVars, FeedInv, FeedSorted, FeedStrict, FeedFiltered,
        NoDeletions, Concerns
  <2>. QED
    BY <1>1, <1>2, <1>4, <2>1, RelayRelayInv, RelayTaskInv, RelayLossInv DEF Inv
<1>5. ASSUME NEW e \in Entity, Work(e) PROVE Inv'
  <2>1. FeedInv' /\ RelayInv'
    BY <1>1, <1>5, RowsOnlyGo DEF Work
  <2>. QED
    BY <1>1, <1>2, <1>5, <2>1, WorkTaskInv, WorkLossInv DEF Inv
<1>6. CASE LeaseBatch /\ UNCHANGED <<feedVars, relayVars, dirty>>
  <2>1. FeedInv' /\ RelayInv'
    BY <1>1, <1>6, RowsOnlyGo
  <2>. QED
    BY <1>1, <1>2, <1>6, <2>1, LeaseInv DEF Inv
<1>7. CASE (EndBatch \/ Crash) /\ UNCHANGED <<feedVars, relayVars>>
  <2>1. \A f \in Entity : dirty'[f] = dirty[f] \/ dirty'[f] = NoRow
    BY <1>7 DEF EndBatch, Crash
  <2>2. FeedInv' /\ RelayInv'
    BY <1>1, <1>7, <2>1, RowsOnlyGo
  <2>. QED
    BY <1>1, <1>2, <1>7, <2>2, EndBatchInv DEF Inv
<1>8. CASE UNCHANGED vars
  <2>1. FeedInv' /\ RelayInv'
    BY <1>1, <1>8, RowsOnlyGo DEF vars, feedVars, relayVars
  <2>2. TaskInv'
    BY <1>1, <1>8
    DEF vars, TaskInv, LeasedHasRow, TaskProgress, Progress, HalfWrittenIsDirty,
        RevisionsOrdered, LeaseTimes, Parts, Concerns
  <2>3. LossInv'
    BY <1>1, <1>8
    DEF vars, LossInv, FlagsMatch, StandsFor, Concerns, NoLostUpdate, InFlight,
        InFeed, InSync, Parts, InOrder, EditsOnly
  <2>. QED
    BY <1>2, <2>1, <2>2, <2>3 DEF Inv
<1>. QED
  BY <1>3, <1>4, <1>5, <1>6, <1>7, <1>8 DEF Next, Consumer

\* The invariant holds in every reachable state.
LEMMA Invariance == Spec => []Inv
  BY InitInv, NextInv, PTL DEF Spec

----------------------------------------------------------------------------
(* The theorems.                                                           *)

\* No update of any entity is lost, however edits, drops, replays, batches,
\* failures and crashes interleave, if no two events of one entity share a
\* second and either nothing is deleted or no stream ends unflushed.
THEOREM NoUpdateIsLost ==
  ASSUME InOrder
  PROVE  Spec => []NoLostUpdate
<1>1. Inv => NoLostUpdate
  BY DEF Inv, LossInv
<1>. QED
  BY <1>1, Invariance, PTL

\* Under the same conditions an undeleted entity is never left out.
THEOREM UndeletesAreRewritten ==
  ASSUME InOrder
  PROVE  Spec => []RestoredIsRewritten
<1>1. Inv => RestoredIsRewritten
  BY DEF Inv, LossInv, NoLostUpdate, RestoredIsRewritten
<1>. QED
  BY <1>1, Invariance, PTL

\* Whatever batches die half-way, a half-written entity is still dirty; the
\* only condition is the one on the constants.
THEOREM HalfWrittenStaysDirty == Spec => []HalfWrittenIsDirty
<1>1. Inv => HalfWrittenIsDirty
  BY DEF Inv, TaskInv
<1>. QED
  BY <1>1, Invariance, PTL

\* The resume cursor never lets the relay skip an event.
THEOREM NoEventSkipped == Spec => []NothingSkipped
<1>1. Inv => NothingSkipped
  BY DEF Inv, RelayInv
<1>. QED
  BY <1>1, Invariance, PTL

\* The optimistic delete keeps the row of an entity edited since it was read
\* (clear_dirty), if no two events of one entity share a second.
THEOREM ConcurrentEditsKeepTheirRow ==
  ASSUME DistinctSeconds
  PROVE  Spec => ConcurrentEditKeepsRow
<1>1. ASSUME Inv, [Next]_vars, NEW e \in Entity,
             dirty[e] # NoRow, dirty'[e] = NoRow, ~batch[e].del
      PROVE  ~ConcurrentEdit(e)
  <2>1. TypeOK /\ FeedInv /\ RelayInv /\ TaskInv
    BY <1>1 DEF Inv
  <2>2. Cleared(e)
    <3>1. ~Relay
      BY <1>1, <2>1, RelayKeepsRows
    <3>2. ~Upstream /\ dirty' # dirty
      BY <1>1 DEF Upstream
    <3>. QED
      BY <1>1, <3>1, <3>2 DEF Next, Consumer, Work, EndBatch, Crash, vars
  <2>. QED
    BY <1>1, <2>1, <2>2, ClearedNotEdited
<1>2. Inv /\ [Next]_vars =>
        \A e \in Entity :
          dirty[e] # NoRow /\ dirty'[e] = NoRow /\ ~batch[e].del => ~ConcurrentEdit(e)
  BY <1>1
<1>. QED
  BY <1>2, Invariance, PTL DEF Spec, ConcurrentEditKeepsRow

----------------------------------------------------------------------------
(* The abstract specification.                                             *)

\* A step that leaves the entities' revisions and triples alone is a stutter
\* of the replica.
LEMMA ReplicaStutters ==
  ASSUME UNCHANGED <<wiki, virt>>,
         \A f \in Entity : Parts(virt[f].rev)' = Parts(virt[f].rev)
  PROVE  UNCHANGED R!replicaVars
BY UnfetchableAssumption DEF R!replicaVars, Fetchable

\* A content change of a fetchable entity is a change of the replica's source,
\* every other event a stutter.
LEMMA ReplicaChange ==
  ASSUME TypeOK, Upstream
  PROVE  [R!Next]_(R!replicaVars)
<1>1. PICK e \in Entity, kind \in Kinds : Publish(e, kind)
  BY DEF Upstream, FeedNext
<1>2. /\ virt' = virt
      /\ Len(log) \in Nat
      /\ \A r \in 0..Len(log) : Parts(r)' = Parts(r)
  BY UpstreamEffect DEF consumerVars
<1>3. \A f \in Entity : Parts(virt[f].rev)' = Parts(virt[f].rev)
  BY <1>2 DEF TypeOK, ConsumerTypeOK, Parts
<1>4. wiki \in [Entity -> 0..Len(log)]
  BY DEF TypeOK, FeedTypeOK
<1>5. wiki' = wiki \/ wiki' = [wiki EXCEPT ![e] = Len(log) + 1]
  BY <1>1 DEF Publish
<1>6. CASE wiki' = wiki \/ e \notin Fetchable
  <2>1. \A f \in Fetchable : f \in Entity /\ wiki'[f] = wiki[f]
    BY <1>4, <1>5, <1>6 DEF Fetchable
  <2>. QED
    BY <1>2, <1>3, <2>1 DEF R!replicaVars
<1>7. CASE wiki' = [wiki EXCEPT ![e] = Len(log) + 1] /\ e \in Fetchable
  <2>. DEFINE src == [f \in Fetchable |-> wiki[f]]
              cpy == [f \in Fetchable |-> [rev   |-> virt[f].rev,
                                           whole |-> virt[f].n = Parts(virt[f].rev)]]
  <2>1. /\ src'[e] = Len(log) + 1 /\ src[e] = wiki[e]
        /\ src' = [src EXCEPT ![e] = src'[e]]
    BY <1>4, <1>7 DEF Fetchable
  <2>2. wiki[e] \in 0..Len(log)
    BY <1>4
  <2>3. cpy' = cpy
    BY <1>2, <1>3 DEF Fetchable
  <2>4. R!Change(e)
    BY <1>2, <2>1, <2>2, <2>3 DEF R!Change
  <2>. QED
    BY <1>7, <2>4 DEF R!Next
<1>. QED
  BY <1>5, <1>6, <1>7

\* A step of a pool thread loads part or all of a revision, or stutters.
LEMMA ReplicaLoad ==
  ASSUME TypeOK, FeedInv, TaskInv, NEW e \in Entity, Work(e)
  PROVE  [R!Next]_(R!replicaVars)
<1>1. /\ log' = log /\ wiki' = wiki
      /\ virt' \in [Entity -> [rev : 0..Len(log), n : Nat]]
      /\ \A f \in Entity \ {e} : virt'[f] = virt[f]
  BY WorkEffect DEF Work, feedVars
<1>2. /\ virt'[e].rev <= wiki[e] /\ virt[e].rev <= virt'[e].rev
      /\ wiki[e] \in Nat /\ virt[e].rev \in Nat /\ virt'[e].rev \in Nat
  <2>1. /\ batch[e] \in Task /\ batch[e] # NoTask /\ TaskDone(e)
        /\ virt[e].rev \in Nat
    BY WorkEffect DEF TypeOK, ConsumerTypeOK
  <2>2. virt'[e].rev \in {virt[e].rev, batch[e].rev}
        /\ (virt'[e].rev # virt[e].rev => batch[e].st = "writing")
    BY <2>1 DEF TaskDone, AfterUpdate
  <2>3. batch[e].st = "writing" => ~batch[e].del
    BY <2>1 DEF TaskInv, TaskProgress, Progress
  <2>4. /\ virt[e].rev <= wiki[e]
        /\ batch[e].st = "writing" =>
             virt[e].rev <= batch[e].rev /\ batch[e].rev <= wiki[e]
    BY <2>1, <2>3 DEF TaskInv, RevisionsOrdered
  <2>. QED
    BY <1>1, <2>1, <2>2, <2>4 DEF TypeOK, FeedTypeOK
<1>3. CASE e \notin Fetchable
  <2>1. \A f \in Fetchable : f \in Entity \ {e}
    BY <1>3 DEF Fetchable
  <2>2. \A f \in Fetchable : virt'[f] = virt[f] /\ Parts(virt[f].rev)' = Parts(virt[f].rev)
    BY <1>1, <2>1 DEF Parts
  <2>. QED
    BY <1>1, <2>2 DEF R!replicaVars
<1>4. CASE e \in Fetchable
  <2>. DEFINE cpy == [f \in Fetchable |-> [rev   |-> virt[f].rev,
                                           whole |-> virt[f].n = Parts(virt[f].rev)]]
              src == [f \in Fetchable |-> wiki[f]]
  <2>1. PICK whole \in BOOLEAN : whole <=> (virt[e].n = Parts(virt[e].rev))'
    OBVIOUS
  <2>2. cpy' = [cpy EXCEPT ![e] = [rev |-> virt'[e].rev, whole |-> whole]]
    <3>1. \A f \in Fetchable \ {e} :
            virt'[f] = virt[f] /\ Parts(virt[f].rev)' = Parts(virt[f].rev)
      BY <1>1 DEF Fetchable, Parts
    <3>2. cpy'[e] = [rev |-> virt'[e].rev, whole |-> whole]
      BY <1>4, <2>1
    <3>. QED
      BY <1>4, <3>1, <3>2
  <2>3. src' = src /\ src[e] = wiki[e] /\ cpy[e].rev = virt[e].rev
    BY <1>1, <1>4
  <2>4. virt'[e].rev \in cpy[e].rev..src[e]
    BY <1>2, <2>3
  <2>5. R!Load(e, virt'[e].rev, whole)
    BY <2>2, <2>3, <2>4 DEF R!Load
  <2>. QED
    BY <1>4, <2>1, <2>4, <2>5 DEF R!Next
<1>. QED
  BY <1>3, <1>4

\* The pipeline implements the safety of Replica, deletions, replays and
\* same-second edits included: every write to Virtuoso is a part or all of a
\* revision between the one it holds and the current one.
THEOREM ImplementsReplicaSafe == Spec => ReplicaSafe
<1>1. Init => R!Init
  <2>. SUFFICES ASSUME Init PROVE R!Init
    OBVIOUS
  <2>1. \A f \in Entity : wiki[f] = 0 /\ virt[f].rev = 0 /\ virt[f].n = Chunks[0]
    BY DEF Init, FeedInit, ConsumerInit
  <2>2. Parts(0) = Chunks[0]
    BY DEF Parts
  <2>. QED
    BY <2>1, <2>2 DEF R!Init, Fetchable
<1>2. Inv /\ [Next]_vars => [R!Next]_(R!replicaVars)
  <2>. SUFFICES ASSUME Inv, [Next]_vars PROVE [R!Next]_(R!replicaVars)
    OBVIOUS
  <2>1. CASE Upstream
    BY <2>1, ReplicaChange DEF Inv
  <2>2. ASSUME NEW e \in Entity, Work(e) PROVE [R!Next]_(R!replicaVars)
    BY <2>2, ReplicaLoad DEF Inv
  <2>3. CASE ~Upstream /\ ~(\E e \in Entity : Work(e))
    <3>1. log' = log /\ wiki' = wiki /\ virt' = virt
      BY <2>3
      DEF Next, Relay, Consumer, LeaseBatch, EndBatch, Crash, vars, feedVars, consumerVars
    <3>2. \A f \in Entity : Parts(virt[f].rev)' = Parts(virt[f].rev)
      BY <3>1 DEF Parts
    <3>. QED
      BY <3>1, <3>2, ReplicaStutters
  <2>. QED
    BY <2>1, <2>2, <2>3
<1>. QED
  BY <1>1, <1>2, Invariance, PTL DEF Spec, ReplicaSafe, R!Safe

=============================================================================
