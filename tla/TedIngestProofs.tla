-------------------------- MODULE TedIngestProofs --------------------------
(***************************************************************************)
(* Proofs about the TED loader: TedIngest, for any notices, jobs, versions, *)
(* days, lags and numbers of failures (types, that no contract is announced *)
(* before the organisations it points to, that no date is skipped, and that *)
(* every notice of a day up to the watermark is on the log or logged as    *)
(* FAILED); ContractValue, for any money a notice states; and TedSuppliers, *)
(* for any organisations, numbers, matches and notices.                    *)
(***************************************************************************)
EXTENDS TedIngest, ContractValue, TedSuppliers,
        FiniteSetTheorems, SequenceTheorems, WellFoundedInduction, TLAPS

----------------------------------------------------------------------------
(* The inductive invariant.                                                *)

\* The day in hand is one of the days of the run.
Span == At(Daily, "idle") \/ job[Daily].day <= job[Daily].until

\* A job has one notice in hand, while it is at one.
OneInHand ==
  \A j \in Job :
    /\ job[j].cur # {} => job[j].pc \in {"gate", "emit"}
    /\ \A p, q \in job[j].cur : p = q

\* What a job has met is known, unless it met it in a batch that was rolled back.
MetAreKnown == \A j \in Job : job[j].seen \subseteq known \union job[j].lost

\* The sink writes what the log says: a copy with its identity is on the log.
AppliedIsLogged ==
  /\ \A n \in Notice : graph[n].identified => graph[n].version \in log[n]
  /\ \A i \in 1..Len(queue) : queue[i].version \in log[queue[i].notice]

\* The look-back reaches the first day.
FarBack == Lookback + 1 >= MaxDay

\* The days are taken in order, none is passed over.
DayIsNext == FarBack => At(Daily, "idle") \/ job[Daily].day = watermark + 1

\* The records of the day: those to look at, and those that count as done.
Loading == job[Daily].pc \in {"next", "gate", "emit"}
OfTheDay == {p \in pubs : p.day = job[Daily].day}
DayInHand ==
  Loading => /\ job[Daily].todo \subseteq OfTheDay /\ job[Daily].done \subseteq OfTheDay
             /\ job[Daily].cur \subseteq job[Daily].todo
             /\ \A p \in job[Daily].done : p.notice \in Bare \/ OnLog(p)

\* What is owed of the day in hand is still to be looked at, or done.
Owed ==
  /\ owed \subseteq pubs
  /\ Loading => \A p \in owed :
       p.day = job[Daily].day /\ p.notice \notin Bare \union Linkless =>
         p \in job[Daily].todo \/ OnLog(p)

IngestInv ==
  /\ TypeOK /\ Span /\ OneInHand /\ MetAreKnown /\ AppliedIsLogged
  /\ DayIsNext /\ DayInHand /\ Owed /\ Covered

----------------------------------------------------------------------------
(* Types.                                                                  *)

LEMMA DailyIsAJob == Daily \in Job /\ Bulk \subseteq Job
  BY DEF Job

LEMMA FirstIsAVersion ==
  ASSUME NEW n \in Notice
  PROVE  First(n) \in 0..MaxVersion
  BY TedBounds DEF First

\* The zeros that stand for no version and no day are in range.
LEMMA Zeros ==
  /\ 0 \in 0..MaxVersion /\ 0 \in 0..MaxDay /\ 0 \in 0..MaxDay + 1
  /\ 1 \in 0..MaxDay /\ 1..MaxDay \subseteq 0..MaxDay
  /\ 0 \in 0..TransientRetries - 1
  BY TedBounds

LEMMA IdleTypes == Idle \in JobState /\ (today \in 1..MaxDay => Begin \in JobState)
<1>1. Idle \in JobState
  BY Zeros DEF Idle, JobState
<1>2. today \in 1..MaxDay => Begin \in JobState
  BY <1>1, Zeros DEF Begin, JobState
<1>. QED  BY <1>1, <1>2

\* The counters of a job that is through with a notice.
LEMMA TookTypes ==
  ASSUME TypeOK, NEW j \in Job, NEW p \in Publication, NEW met \in SUBSET Entity
  PROVE  /\ Handled(j, p) \in JobState
         /\ Failed(j, p) \in JobState
         /\ Took(j, p) \in JobState
         /\ [Handled(j, p) EXCEPT !.seen = @ \union met] \in JobState
<1>1. job[j] \in JobState /\ Counted(j, p) \subseteq Publication
  BY DEF TypeOK, Counted
<1>2. Took(j, p) \in JobState
  BY <1>1, Zeros DEF Took, JobState
<1>3. Handled(j, p) \in JobState
  BY <1>1, <1>2 DEF Handled, JobState
<1>4. Failed(j, p) \in JobState
  BY <1>1, <1>2 DEF Failed, JobState
<1>5. [Handled(j, p) EXCEPT !.seen = @ \union met] \in JobState
  BY <1>3 DEF JobState
<1>. QED  BY <1>2, <1>3, <1>4, <1>5

\* The parties of a notice, and those met first, are entities.
LEMMA PartiesAreEntities ==
  ASSUME NEW n \in Notice
  PROVE  /\ Len(Parents[n]) \in Nat /\ Parties(n) \subseteq Entity
         /\ \A k \in 0..Len(Parents[n]) : Met(n, k) \subseteq Entity
<1>1. PICK ps \in Seq(Entity) : ps = Parents[n]
  BY ParentsAssumption
<1>2. \A i \in 1..Len(ps) : ps[i] \in Entity
  BY <1>1
<1>. QED  BY <1>1, <1>2 DEF Parties, Met

\* A job whose batch is rolled back, and one that tries again.
LEMMA RolledTypes ==
  ASSUME NEW r \in JobState, NEW n \in Notice, NEW k \in 0..Len(Parents[n])
  PROVE  /\ RolledBack(r, n, k) \in JobState
         /\ \A f \in {"pc", "todo", "cur", "day", "until", "done"} : RolledBack(r, n, k)[f] = r[f]
         /\ RolledBack(r, n, k).seen = r.seen \union Met(n, k)
         /\ RolledBack(r, n, k).lost = r.lost \union (Met(n, k) \ r.seen)
  BY PartiesAreEntities DEF RolledBack, JobState

LEMMA AgainTypes ==
  ASSUME TypeOK, NEW j \in Job, NEW p \in Publication, Transient(j)
  PROVE  /\ Again(j, p) \in JobState /\ faults' \in 0..MaxFaults
         /\ \A f \in {"todo", "day", "until", "done", "seen", "lost"} : Again(j, p)[f] = job[j][f]
         /\ Again(j, p).pc = "gate" /\ Again(j, p).cur = {p}
<1>1. job[j] \in JobState
  BY DEF TypeOK
<1>2. job[j].tries + 1 \in 0..TransientRetries - 1
  BY <1>1, TedBounds DEF Transient, JobState
<1>3. faults' \in 0..MaxFaults
  BY TedBounds DEF Transient, TypeOK
<1>4. Again(j, p) \in JobState
  BY <1>1, <1>2 DEF Again, JobState
<1>5. /\ \A f \in {"todo", "day", "until", "done", "seen", "lost"} : Again(j, p)[f] = job[j][f]
      /\ Again(j, p).pc = "gate" /\ Again(j, p).cur = {p}
  BY <1>1 DEF Again, JobState
<1>. QED  BY <1>3, <1>4, <1>5

LEMMA CopyOfIsACopy ==
  ASSUME NEW p \in Publication
  PROVE  [version |-> p.version, day |-> p.day, identified |-> TRUE] \in Copy
<1>1. p.version \in 0..MaxVersion /\ p.day \in 1..MaxDay
  BY DEF Publication
<1>2. p.day \in 0..MaxDay
  BY <1>1, TedBounds
<1>. QED  BY <1>1, <1>2 DEF Copy

LEMMA InitTypes == Init => TypeOK
<1>. SUFFICES ASSUME Init PROVE TypeOK
  OBVIOUS
<1>1. today \in 1..MaxDay /\ watermark \in 0..MaxDay /\ faults \in 0..MaxFaults
  BY TedBounds DEF Init
<1>2. pubs \subseteq Publication
  BY FirstIsAVersion, NoticeAssumption, TedBounds DEF Init, Publication
<1>3. Absent \in Copy /\ [Absent EXCEPT !.day = 1] \in Copy
  BY Zeros DEF Absent, Copy
<1>4. graph \in [Notice -> Copy]
  BY <1>3 DEF Init
<1>5. job \in [Job -> JobState]
  BY IdleTypes DEF Init
<1>. QED  BY <1>1, <1>2, <1>4, <1>5 DEF Init, TypeOK

\* TED, the calendar and the sink keep the types.
LEMMA UpstreamTypes ==
  ASSUME TypeOK, (\E n \in Notice : Publish(n)) \/ NextDay \/ Sink
  PROVE  TypeOK'
<1>1. CASE \E n \in Notice : Publish(n)
  BY <1>1 DEF TypeOK, Publish, Publication
<1>2. CASE NextDay
  <2>1. today' \in 1..MaxDay
    BY <1>2, TedBounds DEF NextDay, TypeOK
  <2>. QED  BY <1>2, <2>1 DEF TypeOK, NextDay
<1>3. CASE Sink
  <2>1. Head(queue) \in Publication /\ Tail(queue) \in Seq(Publication)
    BY <1>3 DEF Sink, TypeOK
  <2>2. graph' \in [Notice -> Copy]
    BY <1>3, <2>1, CopyOfIsACopy DEF Sink, TypeOK
  <2>. QED  BY <1>3, <2>1, <2>2 DEF TypeOK, Sink
<1>. QED  BY <1>1, <1>2, <1>3

\* Starting a job and reading a day keep the types.
LEMMA LaunchTypes ==
  ASSUME TypeOK, LaunchDaily \/ (\E j \in Bulk : LaunchBulk(j)) \/ SearchDay
  PROVE  TypeOK'
<1>1. CASE LaunchDaily
  <2>. DEFINE since == IF watermark # 0 THEN watermark + 1
                       ELSE IF today > Lookback THEN today - Lookback ELSE 1
  <2>1. since \in 0..MaxDay + 1
    BY TedBounds DEF TypeOK
  <2>2. [Begin EXCEPT !.day = since] \in JobState
    BY <2>1, IdleTypes DEF TypeOK, JobState
  <2>3. job' = [job EXCEPT ![Daily] = [Begin EXCEPT !.day = since]]
    BY <1>1 DEF LaunchDaily
  <2>4. job' \in [Job -> JobState]
    BY <2>2, <2>3, DailyIsAJob DEF TypeOK
  <2>. QED  BY <1>1, <2>4 DEF TypeOK, LaunchDaily
<1>2. CASE \E j \in Bulk : LaunchBulk(j)
  <2>1. PICK j \in Bulk : LaunchBulk(j)
    BY <1>2
  <2>2. PICK rescore \in BOOLEAN, named \in Named :
          job' = [job EXCEPT ![j] = [Begin EXCEPT !.pc = "next", !.rescore = rescore,
                                                 !.todo = named]]
    BY <2>1 DEF LaunchBulk
  <2>3. named \subseteq Publication
    BY DEF Named, TypeOK
  <2>4. [Begin EXCEPT !.pc = "next", !.rescore = rescore, !.todo = named] \in JobState
    BY <2>3, IdleTypes DEF TypeOK, JobState
  <2>5. job' \in [Job -> JobState]
    BY <2>2, <2>4, DailyIsAJob DEF TypeOK
  <2>. QED  BY <2>1, <2>5 DEF TypeOK, LaunchBulk
<1>3. CASE SearchDay
  <2>. DEFINE found == {p \in pubs : p.day = job[Daily].day}
  <2>1. found \subseteq Publication /\ job[Daily] \in JobState
    BY DailyIsAJob DEF TypeOK
  <2>2. job' = [job EXCEPT ![Daily] = [@ EXCEPT !.pc = "next", !.todo = found,
                                                !.done = {}, !.failed = {}]]
    BY <1>3 DEF SearchDay
  <2>3. job' \in [Job -> JobState]
    BY <2>1, <2>2, DailyIsAJob DEF TypeOK, JobState
  <2>. QED  BY <1>3, <2>1, <2>3 DEF TypeOK, SearchDay
<1>. QED  BY <1>1, <1>2, <1>3

\* A job that is done with a record, or gives up, keeps the types.
LEMMA HandlingTypes ==
  ASSUME TypeOK, NEW j \in Job, NEW p \in Publication,
         (j = Daily /\ Screen(p)) \/ GateNotice(j, p) \/ GateFails(j, p) \/ GateRetries(j, p)
  PROVE  TypeOK'
<1>1. job[j] \in JobState
  BY DEF TypeOK
<1>2. CASE j = Daily /\ Screen(p)
  <2>1. [job[j] EXCEPT !.pc = "gate", !.cur = {p}] \in JobState
    BY <1>1 DEF JobState
  <2>2. job' \in [Job -> JobState]
    BY <1>2, <2>1, TookTypes DEF Screen, TypeOK
  <2>. QED  BY <1>2, <2>2 DEF TypeOK, Screen
<1>3. CASE GateNotice(j, p)
  <2>1. [job[j] EXCEPT !.pc = "emit", !.cur = {p}] \in JobState
    BY <1>1 DEF JobState
  <2>2. job' \in [Job -> JobState]
    BY <1>3, <2>1, TookTypes DEF GateNotice, TypeOK
  <2>. QED  BY <1>3, <2>2 DEF TypeOK, GateNotice
<1>4. CASE GateFails(j, p)
  <2>1. job' \in [Job -> JobState]
    BY <1>4, TookTypes DEF GateFails, TypeOK
  <2>2. faults' \in 0..MaxFaults
    BY <1>4, TedBounds DEF GateFails, FaultOrBad, TypeOK
  <2>. QED  BY <1>4, <2>1, <2>2 DEF TypeOK, GateFails
<1>5. CASE GateRetries(j, p)
  <2>1. Again(j, p) \in JobState /\ faults' \in 0..MaxFaults
    BY <1>5, AgainTypes DEF GateRetries
  <2>2. job' \in [Job -> JobState]
    BY <1>5, <2>1 DEF GateRetries, TypeOK
  <2>. QED  BY <1>5, <2>1, <2>2 DEF TypeOK, GateRetries, Transient
<1>. QED  BY <1>2, <1>3, <1>4, <1>5

LEMMA EmitTypes ==
  ASSUME TypeOK, NEW j \in Job, NEW p \in job[j].cur,
         EmitNotice(j, p) \/ EmitRetries(j, p) \/ EmitFails(j, p)
  PROVE  TypeOK'
<1>1. p \in Publication /\ p.notice \in Notice
  BY DEF TypeOK, JobState, Publication
<1>2. Parties(p.notice) \subseteq Entity
  BY <1>1, PartiesAreEntities
<1>3. CASE EmitNotice(j, p)
  <2>1. job' \in [Job -> JobState]
    BY <1>1, <1>2, <1>3, TookTypes DEF EmitNotice, TypeOK
  <2>2. known' \subseteq Entity
    BY <1>2, <1>3 DEF EmitNotice, Announced, TypeOK
  <2>3. log' \in [Notice -> SUBSET (0..MaxVersion)]
    <3>1. log' = log \/ log' = [log EXCEPT ![p.notice] = @ \union {p.version}]
      BY <1>3 DEF EmitNotice
    <3>2. p.notice \in Notice /\ p.version \in 0..MaxVersion
      BY <1>1 DEF Publication
    <3>. QED  BY <3>1, <3>2 DEF TypeOK
  <2>4. queue' \in Seq(Publication)
    <3>1. queue' = queue \/ queue' = Append(queue, p)
      BY <1>3 DEF EmitNotice
    <3>2. queue \in Seq(Publication)
      BY DEF TypeOK
    <3>. QED  BY <1>1, <3>1, <3>2
  <2>. QED  BY <1>3, <2>1, <2>2, <2>3, <2>4 DEF TypeOK, EmitNotice
<1>4. CASE EmitFails(j, p)
  <2>1. PICK k \in 0..Len(Parents[p.notice]) :
          job' = [job EXCEPT ![j] = RolledBack(Failed(j, p), p.notice, k)]
    BY <1>4 DEF EmitFails
  <2>2. RolledBack(Failed(j, p), p.notice, k) \in JobState
    BY <1>1, TookTypes, RolledTypes
  <2>5. job' \in [Job -> JobState]
    BY <2>1, <2>2 DEF TypeOK
  <2>3. faults' \in 0..MaxFaults
    <3>1. faults < MaxFaults /\ faults' = faults + 1 /\ faults \in 0..MaxFaults
      BY <1>4 DEF EmitFails, TypeOK
    <3>. QED  BY <3>1, TedBounds
  <2>4. owed' \subseteq owed
    BY <1>4 DEF EmitFails
  <2>. QED  BY <1>4, <2>3, <2>4, <2>5 DEF TypeOK, EmitFails
<1>5. CASE EmitRetries(j, p)
  <2>1. PICK k \in 0..Len(Parents[p.notice]) - 1 :
          job' = [job EXCEPT ![j] = RolledBack(Again(j, p), p.notice, k)]
    BY <1>5 DEF EmitRetries
  <2>2. Again(j, p) \in JobState /\ faults' \in 0..MaxFaults
    BY <1>1, <1>5, AgainTypes DEF EmitRetries
  <2>3. k \in 0..Len(Parents[p.notice])
    BY <1>1, PartiesAreEntities
  <2>4. RolledBack(Again(j, p), p.notice, k) \in JobState
    BY <1>1, <2>2, <2>3, RolledTypes
  <2>5. job' \in [Job -> JobState]
    BY <2>1, <2>4 DEF TypeOK
  <2>. QED  BY <1>5, <2>2, <2>5 DEF TypeOK, EmitRetries, Transient
<1>. QED  BY <1>3, <1>4, <1>5

\* The end of a day and of a job, orderly or not, keeps the types.
LEMMA EndTypes ==
  ASSUME TypeOK, Span,
         FinishDay \/ (\E j \in Bulk : FinishBulk(j)) \/ (\E j \in Job : Abort(j))
  PROVE  TypeOK'
<1>1. CASE FinishDay
  <2>1. job[Daily] \in JobState /\ Idle \in JobState
    BY DailyIsAJob, IdleTypes DEF TypeOK
  <2>2. job[Daily].day \in 0..MaxDay + 1 /\ job[Daily].until \in 0..MaxDay
    BY <2>1 DEF JobState
  <2>3. job[Daily].day <= job[Daily].until
    BY <1>1 DEF FinishDay, Span, At
  <2>4. watermark' \in 0..MaxDay
    <3>1. watermark \in 0..MaxDay
      BY DEF TypeOK
    <3>2. watermark' = watermark \/ watermark' = job[Daily].day
      BY <1>1 DEF FinishDay, Advanced
    <3>. QED  BY <2>2, <2>3, <3>1, <3>2, TedBounds
  <2>5. job[Daily].day # job[Daily].until =>
          [job[Daily] EXCEPT !.pc = "day", !.day = job[Daily].day + 1] \in JobState
    <3>1. job[Daily].day # job[Daily].until => job[Daily].day + 1 \in 0..MaxDay + 1
      BY <2>2, <2>3, TedBounds
    <3>. QED  BY <2>1, <3>1 DEF JobState
  <2>6. job' \in [Job -> JobState]
    BY <1>1, <2>1, <2>5, DailyIsAJob DEF FinishDay, TypeOK
  <2>. QED  BY <1>1, <2>4, <2>6 DEF TypeOK, FinishDay
<1>2. CASE \E j \in Bulk : FinishBulk(j)
  BY <1>2, IdleTypes, DailyIsAJob DEF TypeOK, FinishBulk
<1>3. CASE \E j \in Job : Abort(j)
  <2>1. faults' \in 0..MaxFaults
    BY <1>3, TedBounds DEF Abort, TypeOK
  <2>. QED  BY <1>3, <2>1, IdleTypes DEF TypeOK, Abort
<1>. QED  BY <1>1, <1>2, <1>3

\* Every step keeps the types.
LEMMA NextTypes ==
  ASSUME TypeOK, Span, Next
  PROVE  TypeOK'
<1>1. \A j \in Job : \A p \in job[j].todo \union job[j].cur : p \in Publication
  BY DEF TypeOK, JobState
<1>2. \A j \in Job : Ingest(j) => TypeOK'
  BY <1>1, HandlingTypes, EmitTypes DEF Ingest, InHand
<1>3. CASE (\E n \in Notice : Publish(n)) \/ NextDay \/ Sink
  BY <1>3, UpstreamTypes
<1>4. CASE LaunchDaily \/ (\E j \in Bulk : LaunchBulk(j)) \/ SearchDay
  BY <1>4, LaunchTypes
<1>5. CASE \E p \in job[Daily].todo : Screen(p)
  BY <1>1, <1>5, HandlingTypes, DailyIsAJob
<1>6. CASE FinishDay \/ (\E j \in Bulk : FinishBulk(j)) \/ (\E j \in Job : Abort(j))
  BY <1>6, EndTypes
<1>7. CASE \E j \in Job : \E p \in job[j].cur : EmitRetries(j, p) \/ EmitFails(j, p)
  BY <1>7, EmitTypes
<1>8. CASE \E j \in Job : \E p \in InHand(j) : GateRetries(j, p)
  BY <1>1, <1>8, HandlingTypes DEF InHand
<1>. QED
  BY <1>2, <1>3, <1>4, <1>5, <1>6, <1>7, <1>8, DailyIsAJob
  DEF Next, DailyStep, BulkStep, JobFails

----------------------------------------------------------------------------
(* The steps keep the invariant.                                           *)

LEMMA InitInv == Init => IngestInv
<1>. SUFFICES ASSUME Init PROVE IngestInv
  OBVIOUS
<1>1. TypeOK
  BY InitTypes
<1>2. \A j \in Job : job[j] = Idle
  BY DEF Init
<1>3. At(Daily, "idle") /\ ~Loading
  BY <1>2, DailyIsAJob DEF At, Idle, Loading
<1>4. Span /\ DayIsNext /\ DayInHand
  BY <1>3 DEF Span, DayIsNext, DayInHand
<1>5. OneInHand /\ MetAreKnown
  BY <1>2 DEF OneInHand, MetAreKnown, Idle
<1>6. AppliedIsLogged
  <2>1. Absent.identified = FALSE /\ [Absent EXCEPT !.day = 1].identified = FALSE
    BY DEF Absent
  <2>2. \A n \in Notice : graph[n].identified = FALSE
    BY <2>1 DEF Init
  <2>3. Len(queue) = 0
    BY DEF Init
  <2>. QED  BY <2>2, <2>3 DEF AppliedIsLogged
<1>7. Owed /\ Covered
  BY DEF Init, Owed, Covered
<1>. QED  BY <1>1, <1>4, <1>5, <1>6, <1>7 DEF IngestInv

\* A publication is what its fields say.
LEMMA OnLogGrows ==
  ASSUME NEW p \in Publication, \A n \in Notice : log[n] \subseteq log'[n], OnLog(p)
  PROVE  OnLog(p)'
  BY DEF OnLog, Publication

\* What TED, the calendar and the sink do leaves the jobs alone.
LEMMA UpstreamInv ==
  ASSUME IngestInv, (\E n \in Notice : Publish(n)) \/ NextDay \/ Sink
  PROVE  IngestInv'
<1>1. TypeOK'
  BY UpstreamTypes DEF IngestInv
<1>2. /\ UNCHANGED <<log, known, watermark, job, owed>>
      /\ pubs \subseteq pubs'
  BY DEF Publish, NextDay, Sink
<1>3. Span' /\ OneInHand' /\ MetAreKnown' /\ DayIsNext'
  BY <1>2 DEF IngestInv, Span, OneInHand, MetAreKnown, DayIsNext, FarBack, At
<1>4. DayInHand' /\ Owed'
  BY <1>2 DEF IngestInv, DayInHand, Owed, Loading, OfTheDay, OnLog
<1>5. Covered'
  BY <1>2 DEF IngestInv, Covered, OnLog
<1>6. AppliedIsLogged'
  <2>1. CASE ~Sink
    BY <1>2, <2>1 DEF Publish, NextDay, IngestInv, AppliedIsLogged
  <2>2. CASE Sink
    <3>1. queue \in Seq(Publication) /\ queue # <<>> /\ queue' = Tail(queue)
      BY <2>2 DEF Sink, IngestInv, TypeOK
    <3>2. Head(queue) = queue[1] /\ 1 \in 1..Len(queue) /\ Head(queue) \in Publication
      BY <3>1
    <3>3. \A i \in 1..Len(queue') : queue'[i] = queue[i + 1] /\ i + 1 \in 1..Len(queue)
      BY <3>1
    <3>4. \A i \in 1..Len(queue') : queue'[i].version \in log'[queue'[i].notice]
      BY <1>2, <3>3 DEF IngestInv, AppliedIsLogged
    <3>5. graph' = [graph EXCEPT ![Head(queue).notice] =
                      [version |-> Head(queue).version, day |-> Head(queue).day,
                       identified |-> TRUE]]
      BY <2>2 DEF Sink
    <3>6. Head(queue).version \in log[Head(queue).notice]
      BY <3>2 DEF IngestInv, AppliedIsLogged
    <3>7. graph \in [Notice -> Copy]
      BY DEF IngestInv, TypeOK
    <3>8. ASSUME NEW n \in Notice, graph'[n].identified
          PROVE  graph'[n].version \in log'[n]
      BY <1>2, <3>5, <3>6, <3>7, <3>8 DEF IngestInv, AppliedIsLogged
    <3>. QED  BY <3>4, <3>8 DEF AppliedIsLogged
  <2>. QED  BY <2>1, <2>2
<1>. QED  BY <1>1, <1>3, <1>4, <1>5, <1>6 DEF IngestInv

\* What the jobs leave alone: the graph, and on the log they only add.
LEMMA AppliedInv ==
  ASSUME IngestInv, UNCHANGED <<graph, queue, log>>
  PROVE  AppliedIsLogged'
  BY DEF IngestInv, AppliedIsLogged

\* A step of a bulk job leaves what the daily job owes as it is.
LEMMA BulkLedger ==
  ASSUME IngestInv, UNCHANGED <<pubs, watermark, owed>>, job'[Daily] = job[Daily],
         \A n \in Notice : log[n] \subseteq log'[n]
  PROVE  Span' /\ DayIsNext' /\ DayInHand' /\ Owed' /\ Covered'
<1>1. Span' /\ DayIsNext'
  BY DEF IngestInv, Span, DayIsNext, FarBack, At
<1>2. \A p \in Publication : OnLog(p) => OnLog(p)'
  BY OnLogGrows
<1>3. pubs \subseteq Publication /\ owed \subseteq Publication
  BY DEF IngestInv, TypeOK
<1>4. DayInHand'
  BY <1>2, <1>3 DEF IngestInv, DayInHand, Loading, OfTheDay
<1>5. Owed'
  BY <1>2, <1>3 DEF IngestInv, Owed, Loading
<1>6. Covered'
  BY <1>2, <1>3 DEF IngestInv, Covered
<1>. QED  BY <1>1, <1>4, <1>5, <1>6

\* As long as no day is finished, the watermark covers what it covered.
LEMMA CoveredStays ==
  ASSUME IngestInv, watermark' = watermark, owed' \subseteq owed \union OfTheDay,
         OfTheDay \ owed # {} => (FarBack => job[Daily].day = watermark + 1),
         \A n \in Notice : log[n] \subseteq log'[n]
  PROVE  Covered'
<1>1. \A p \in Publication : OnLog(p) => OnLog(p)'
  BY OnLogGrows
<1>2. pubs \subseteq Publication /\ owed \subseteq Publication /\ watermark \in Nat
  BY TedBounds DEF IngestInv, TypeOK
<1>3. SUFFICES ASSUME NEW p \in owed', FarBack, p.day <= watermark,
                      p.notice \notin Bare \union Linkless
               PROVE  OnLog(p)'
  BY DEF Covered, FarBack
<1>4. CASE p \in owed
  BY <1>1, <1>2, <1>3, <1>4 DEF IngestInv, Covered, FarBack
<1>5. CASE p \notin owed
  <2>1. p.day = watermark + 1
    BY <1>3, <1>5 DEF OfTheDay
  <2>. QED  BY <1>2, <1>3, <2>1
<1>. QED  BY <1>4, <1>5

\* A run starts, or reads a day.
LEMMA LaunchInv ==
  ASSUME IngestInv, LaunchDaily \/ (\E j \in Bulk : LaunchBulk(j)) \/ SearchDay
  PROVE  IngestInv'
<1>1. TypeOK'
  BY LaunchTypes DEF IngestInv
<1>2. job \in [Job -> JobState] /\ Daily \in Job
  BY DailyIsAJob DEF IngestInv, TypeOK
<1>3. AppliedIsLogged'
  BY AppliedInv DEF LaunchDaily, LaunchBulk, SearchDay
<1>4. CASE LaunchDaily
  <2>. DEFINE since == IF watermark # 0 THEN watermark + 1
                       ELSE IF today > Lookback THEN today - Lookback ELSE 1
  <2>1. /\ job' = [job EXCEPT ![Daily] = [Begin EXCEPT !.day = since]]
        /\ since <= today
    BY <1>4 DEF LaunchDaily
  <2>2. job'[Daily] = [Begin EXCEPT !.day = since]
    BY <1>2, <2>1
  <2>3. /\ job'[Daily].pc = "day" /\ job'[Daily].day = since /\ job'[Daily].until = today
        /\ job'[Daily].cur = {} /\ job'[Daily].seen = {}
    BY <2>2 DEF Begin, Idle
  <2>4. FarBack => since = watermark + 1
    BY TedBounds DEF FarBack, IngestInv, TypeOK
  <2>5. Span' /\ DayIsNext'
    BY <1>4, <2>1, <2>3, <2>4 DEF Span, DayIsNext, FarBack, LaunchDaily
  <2>6. OneInHand' /\ MetAreKnown'
    BY <1>2, <1>4, <2>1, <2>3 DEF OneInHand, MetAreKnown, LaunchDaily, IngestInv
  <2>7. DayInHand' /\ Owed'
    BY <1>4, <2>3 DEF DayInHand, Owed, Loading, LaunchDaily, IngestInv
  <2>8. Covered'
    BY <1>4 DEF LaunchDaily, Covered, IngestInv, OnLog
  <2>. QED  BY <1>1, <1>3, <2>5, <2>6, <2>7, <2>8 DEF IngestInv
<1>5. CASE \E j \in Bulk : LaunchBulk(j)
  <2>1. PICK j \in Bulk : LaunchBulk(j)
    BY <1>5
  <2>2. PICK rescore \in BOOLEAN, named \in Named :
          job' = [job EXCEPT ![j] = [Begin EXCEPT !.pc = "next", !.rescore = rescore,
                                                 !.todo = named]]
    BY <2>1 DEF LaunchBulk
  <2>3. j \in Job /\ j # Daily
    BY JobAssumption DEF Job
  <2>4. job'[Daily] = job[Daily] /\ job'[j].cur = {} /\ job'[j].seen = {}
    BY <1>2, <2>2, <2>3 DEF Begin, Idle
  <2>5. OneInHand' /\ MetAreKnown'
    <3>1. \A k \in Job : k # j => job'[k] = job[k]
      BY <1>2, <2>2
    <3>2. known' = known
      BY <2>1 DEF LaunchBulk
    <3>. QED  BY <2>4, <3>1, <3>2 DEF OneInHand, MetAreKnown, IngestInv
  <2>6. Span' /\ DayIsNext' /\ DayInHand' /\ Owed' /\ Covered'
    BY <2>1, <2>4, BulkLedger DEF LaunchBulk
  <2>. QED  BY <1>1, <1>3, <2>5, <2>6 DEF IngestInv
<1>6. CASE SearchDay
  <2>1. At(Daily, "day") /\ owed' = owed \union OfTheDay
    BY <1>6 DEF SearchDay, OfTheDay
  <2>2. job' = [job EXCEPT ![Daily] = [@ EXCEPT !.pc = "next", !.todo = OfTheDay,
                                                !.done = {}, !.failed = {}]]
    BY <1>6 DEF SearchDay, OfTheDay
  <2>3. job'[Daily] = [job[Daily] EXCEPT !.pc = "next", !.todo = OfTheDay,
                                         !.done = {}, !.failed = {}]
    BY <1>2, <2>2
  <2>4. /\ job'[Daily].pc = "next" /\ job'[Daily].todo = OfTheDay
        /\ job'[Daily].done = {} /\ job'[Daily].day = job[Daily].day
        /\ job'[Daily].until = job[Daily].until /\ job'[Daily].cur = job[Daily].cur
        /\ job'[Daily].seen = job[Daily].seen /\ job'[Daily].lost = job[Daily].lost
    BY <1>2, <2>3 DEF JobState
  <2>5. Span' /\ DayIsNext'
    BY <1>6, <2>1, <2>4 DEF Span, DayIsNext, FarBack, At, SearchDay, IngestInv
  <2>6. OneInHand' /\ MetAreKnown'
    <3>1. \A j \in Job : j # Daily => job'[j] = job[j]
      BY <1>2, <2>2
    <3>2. known' = known /\ job[Daily].cur = {}
      BY <1>2, <1>6, <2>1 DEF SearchDay, IngestInv, OneInHand, At
    <3>. QED  BY <2>4, <3>1, <3>2 DEF OneInHand, MetAreKnown, IngestInv
  <2>7. OfTheDay' = OfTheDay
    BY <1>6, <2>4 DEF OfTheDay, SearchDay
  <2>8. DayInHand'
    <3>1. job[Daily].cur = {}
      BY <1>2, <2>1 DEF IngestInv, OneInHand, At
    <3>. QED  BY <2>4, <2>7, <3>1 DEF DayInHand
  <2>10. Owed'
    <3>1. pubs' = pubs /\ OfTheDay \subseteq pubs /\ owed \subseteq pubs
      BY <1>6 DEF SearchDay, OfTheDay, IngestInv, Owed
    <3>2. \A p \in pubs : p.day = job[Daily].day => p \in OfTheDay
      BY DEF OfTheDay
    <3>. QED  BY <2>1, <2>4, <3>1, <3>2 DEF Owed
  <2>9. Covered'
    BY <1>6, <2>1, CoveredStays DEF SearchDay, IngestInv, DayIsNext, At
  <2>. QED  BY <1>1, <1>3, <2>5, <2>6, <2>8, <2>9, <2>10 DEF IngestInv
<1>. QED  BY <1>4, <1>5, <1>6

\* What a job is when it is through with a notice.
LEMMA TookFields ==
  ASSUME TypeOK, NEW j \in Job, NEW p
  PROVE  /\ \A r \in {Took(j, p), Handled(j, p), Failed(j, p)} :
              /\ r.pc = "next" /\ r.todo = job[j].todo \ {p} /\ r.cur = {}
              /\ r.day = job[j].day /\ r.until = job[j].until
              /\ r.seen = job[j].seen /\ r.lost = job[j].lost
         /\ Took(j, p).done = job[j].done /\ Failed(j, p).done = job[j].done
         /\ Handled(j, p).done = job[j].done \union Counted(j, p)
<1>1. job[j] \in JobState
  BY DEF TypeOK
<1>. QED  BY <1>1 DEF Took, Handled, Failed, JobState

\* What a step of job j has to keep of the sets it carries.
LEMMA SetsKept ==
  ASSUME IngestInv, NEW j \in Job, NEW r, job' = [job EXCEPT ![j] = r],
         r.cur # {} => r.pc \in {"gate", "emit"}, \A p, q \in r.cur : p = q,
         known \subseteq known', r.seen \subseteq known' \union r.lost
  PROVE  OneInHand' /\ MetAreKnown'
<1>1. job'[j] = r /\ \A k \in Job : k # j => job'[k] = job[k]
  BY DEF IngestInv, TypeOK
<1>. QED  BY <1>1 DEF OneInHand, MetAreKnown, IngestInv

\* What a step of the daily job at record p has to keep of the day's ledger.
LEMMA DailyLedger ==
  ASSUME IngestInv, UNCHANGED <<pubs, watermark>>, Loading, Loading',
         NEW p \in Publication,
         job'[Daily].day = job[Daily].day, job'[Daily].until = job[Daily].until,
         job'[Daily].todo \subseteq job[Daily].todo,
         job[Daily].todo \subseteq job'[Daily].todo \union {p},
         job'[Daily].cur \subseteq job'[Daily].todo,
         job'[Daily].done \subseteq job[Daily].done \union {p},
         p \in job[Daily].todo,
         p \in job'[Daily].done => p \in job[Daily].done \/ p.notice \in Bare \/ OnLog(p)',
         owed' \subseteq owed,
         p \in owed' /\ p.notice \notin Bare \union Linkless =>
           p \in job'[Daily].todo \/ OnLog(p)',
         \A n \in Notice : log[n] \subseteq log'[n]
  PROVE  Span' /\ DayIsNext' /\ DayInHand' /\ Owed' /\ Covered'
<1>1. \A q \in Publication : OnLog(q) => OnLog(q)'
  BY OnLogGrows
<1>2. pubs \subseteq Publication /\ owed \subseteq pubs
  BY DEF IngestInv, TypeOK, Owed
<1>3. OfTheDay' = OfTheDay /\ OfTheDay \subseteq pubs
  BY DEF OfTheDay
<1>4. Span' /\ DayIsNext'
  BY DEF IngestInv, Span, DayIsNext, FarBack, At, Loading
<1>5. DayInHand'
  <2>1. /\ job[Daily].todo \subseteq OfTheDay /\ job[Daily].done \subseteq OfTheDay
        /\ \A q \in job[Daily].done : q.notice \in Bare \/ OnLog(q)
    BY DEF IngestInv, DayInHand
  <2>2. \A q \in job'[Daily].done : q.notice \in Bare \/ OnLog(q)'
    BY <1>1, <1>2, <1>3, <2>1
  <2>. QED  BY <1>3, <2>1, <2>2 DEF DayInHand
<1>6. Owed'
  <2>1. SUFFICES ASSUME NEW q \in owed', q.day = job[Daily].day,
                        q.notice \notin Bare \union Linkless
                 PROVE  q \in job'[Daily].todo \/ OnLog(q)'
    BY <1>2 DEF Owed
  <2>2. q \in job[Daily].todo \/ OnLog(q)
    BY <2>1 DEF IngestInv, Owed
  <2>. QED  BY <1>1, <1>2, <2>1, <2>2
<1>7. Covered'
  BY <1>1, <1>2 DEF IngestInv, Covered
<1>. QED  BY <1>4, <1>5, <1>6, <1>7

\* What the graph makes the gate refuse is on the log.
LEMMA RefusedIsOnLog ==
  ASSUME IngestInv, NEW p \in Publication, ~ShouldIngest(p)
  PROVE  OnLog(p)
<1>1. /\ graph[p.notice].identified /\ ~(p.version > graph[p.notice].version)
      /\ graph[p.notice] \in Copy /\ p.notice \in Notice
  BY DEF ShouldIngest, IngestInv, TypeOK, Publication
<1>2. graph[p.notice].version \in Int /\ p.version \in Int
  BY <1>1, TedBounds DEF Copy, Publication
<1>3. graph[p.notice].version \in log[p.notice]
  BY <1>1 DEF IngestInv, AppliedIsLogged
<1>. QED  BY <1>1, <1>2, <1>3 DEF OnLog

\* The daily job screens a record of the day.
LEMMA ScreenInv ==
  ASSUME IngestInv, NEW p \in job[Daily].todo, Screen(p)
  PROVE  IngestInv'
<1>1. /\ Daily \in Job /\ job \in [Job -> JobState] /\ TypeOK
      /\ p \in Publication
  BY DailyIsAJob DEF IngestInv, TypeOK, JobState
<1>2. TypeOK'
  BY <1>1, HandlingTypes
<1>3. AppliedIsLogged' /\ Loading
  BY AppliedInv DEF Screen, Loading, At
<1>4. /\ job'[Daily].day = job[Daily].day /\ job'[Daily].until = job[Daily].until
      /\ job'[Daily].pc \in {"next", "gate"}
      /\ job'[Daily].todo \in {job[Daily].todo, job[Daily].todo \ {p}}
      /\ job'[Daily].cur \subseteq job'[Daily].todo \intersect {p}
      /\ job'[Daily].cur # {} => job'[Daily].pc = "gate"
      /\ job'[Daily].done \in {job[Daily].done, job[Daily].done \union {p}}
      /\ job'[Daily].done = job[Daily].done \/ ~ShouldIngest(p)
      /\ p \in job'[Daily].todo \/ ~ShouldIngest(p) \/ p.notice \in Linkless
      /\ job'[Daily].seen = job[Daily].seen /\ job'[Daily].lost = job[Daily].lost
  <2>1. CASE job'[Daily] = Handled(Daily, p) /\ ~ShouldIngest(p)
    BY <1>1, <2>1, TookFields DEF Counted
  <2>2. CASE job'[Daily] = Took(Daily, p) /\ p.notice \in Linkless
    BY <1>1, <2>2, TookFields
  <2>3. CASE job'[Daily] = [job[Daily] EXCEPT !.pc = "gate", !.cur = {p}]
    BY <1>1, <2>3 DEF JobState
  <2>. QED  BY <1>1, <2>1, <2>2, <2>3 DEF Screen
<1>5. /\ UNCHANGED <<pubs, known, watermark, owed, log>>
      /\ job' = [job EXCEPT ![Daily] = job'[Daily]]
  BY <1>1 DEF Screen
<1>6. OneInHand' /\ MetAreKnown'
  BY <1>1, <1>4, <1>5, SetsKept DEF IngestInv, MetAreKnown
<1>7. ~ShouldIngest(p) => OnLog(p)'
  BY <1>1, <1>5, RefusedIsOnLog DEF OnLog
<1>8. Span' /\ DayIsNext' /\ DayInHand' /\ Owed' /\ Covered'
  BY <1>1, <1>3, <1>4, <1>5, <1>7, DailyLedger DEF Loading
<1>. QED  BY <1>2, <1>3, <1>6, <1>8 DEF IngestInv

\* A job asks the gate, or fails before.
LEMMA GateInv ==
  ASSUME IngestInv, NEW j \in Job, NEW p \in InHand(j), GateNotice(j, p) \/ GateFails(j, p) \/ GateRetries(j, p)
  PROVE  IngestInv'
<1>1. /\ Daily \in Job /\ job \in [Job -> JobState] /\ TypeOK
      /\ p \in Publication
  BY DailyIsAJob DEF IngestInv, TypeOK, JobState, InHand
<1>2. TypeOK'
  BY <1>1, HandlingTypes
<1>3. AppliedIsLogged'
  BY AppliedInv DEF GateNotice, GateFails, GateRetries, Transient
<1>4. j = Daily => Loading /\ p \in job[Daily].todo
  <2>1. j = Daily => Loading /\ p \in job[Daily].cur
    BY JobAssumption DEF InHand, At, Loading
  <2>. QED  BY <2>1 DEF IngestInv, DayInHand
<1>5. /\ job'[j].day = job[j].day /\ job'[j].until = job[j].until
      /\ job'[j].pc \in {"next", "gate", "emit"}
      /\ job'[j].todo \in {job[j].todo, job[j].todo \ {p}}
      /\ job'[j].cur \subseteq {p} /\ (job'[j].cur # {} => job'[j].todo = job[j].todo)
      /\ job'[j].cur # {} => job'[j].pc \in {"gate", "emit"}
      /\ job'[j].done \in {job[j].done, job[j].done \union Counted(j, p)}
      /\ job'[j].done = job[j].done \/ ~ShouldIngest(p)
      /\ p \in job[j].todo => p \in job'[j].todo \/ ~ShouldIngest(p) \/ GateFails(j, p)
      /\ job'[j].seen = job[j].seen /\ job'[j].lost = job[j].lost
  <2>1. CASE job'[j] = Handled(j, p) /\ ~ShouldIngest(p)
    BY <1>1, <2>1, TookFields
  <2>2. CASE job'[j] = Failed(j, p) /\ GateFails(j, p)
    BY <1>1, <2>2, TookFields
  <2>3. CASE job'[j] = [job[j] EXCEPT !.pc = "emit", !.cur = {p}]
    BY <1>1, <2>3 DEF JobState
  <2>4. CASE job'[j] = Again(j, p) /\ Transient(j)
    BY <1>1, <2>4, AgainTypes
  <2>. QED  BY <1>1, <2>1, <2>2, <2>3, <2>4 DEF GateNotice, GateFails, GateRetries
<1>6. /\ UNCHANGED <<pubs, known, watermark, log>>
      /\ job' = [job EXCEPT ![j] = job'[j]]
      /\ owed' = owed \/ (owed' = owed \ Counted(j, p) /\ GateFails(j, p))
      /\ GateFails(j, p) => owed' = owed \ Counted(j, p)
  BY <1>1 DEF GateNotice, GateFails, GateRetries, Transient
<1>7. OneInHand' /\ MetAreKnown'
  BY <1>1, <1>5, <1>6, SetsKept DEF IngestInv, MetAreKnown
<1>8. ~ShouldIngest(p) => OnLog(p)'
  BY <1>1, <1>6, RefusedIsOnLog DEF OnLog
<1>9. CASE j = Daily
  <2>1. Counted(j, p) = {p}
    BY <1>9 DEF Counted
  <2>2. Span' /\ DayIsNext' /\ DayInHand' /\ Owed' /\ Covered'
    BY <1>1, <1>4, <1>5, <1>6, <1>8, <1>9, <2>1, DailyLedger DEF Loading
  <2>. QED  BY <1>2, <1>3, <1>7, <2>2 DEF IngestInv
<1>10. CASE j # Daily
  <2>1. owed' = owed /\ job'[Daily] = job[Daily]
    BY <1>1, <1>6, <1>10 DEF Counted
  <2>2. Span' /\ DayIsNext' /\ DayInHand' /\ Owed' /\ Covered'
    BY <1>6, <2>1, BulkLedger
  <2>. QED  BY <1>2, <1>3, <1>7, <2>2 DEF IngestInv
<1>. QED  BY <1>9, <1>10

\* A job emits a notice: what it announces is known before, what it emits is on
\* the log.
LEMMA EmitInv ==
  ASSUME IngestInv, NEW j \in Job, NEW p \in job[j].cur, EmitNotice(j, p)
  PROVE  IngestInv'
<1>1. /\ Daily \in Job /\ job \in [Job -> JobState] /\ TypeOK
      /\ p \in Publication /\ p.notice \in Notice
  <2>1. TypeOK /\ Daily \in Job /\ job \in [Job -> JobState]
    BY DailyIsAJob DEF IngestInv, TypeOK
  <2>2. p \in Publication
    BY <2>1 DEF JobState
  <2>. QED  BY <2>1, <2>2 DEF Publication
<1>2. TypeOK'
  BY <1>1, EmitTypes
<1>. DEFINE r == [Handled(j, p) EXCEPT !.seen = @ \union Parties(p.notice)]
<1>3. /\ job' = [job EXCEPT ![j] = r]
      /\ known' = known \union Announced(j, p.notice)
      /\ UNCHANGED <<pubs, watermark, owed, graph>>
      /\ At(j, "emit")
  BY DEF EmitNotice
<1>4. /\ r.pc = "next" /\ r.todo = job[j].todo \ {p} /\ r.cur = {}
      /\ r.day = job[j].day /\ r.until = job[j].until /\ r.lost = job[j].lost
      /\ r.done = job[j].done \union Counted(j, p)
      /\ r.seen = job[j].seen \union Parties(p.notice)
  <2>1. Handled(j, p) \in JobState
    BY <1>1, TookTypes
  <2>. QED  BY <1>1, <2>1, TookFields DEF JobState
<1>. HIDE DEF r
<1>5. /\ \A n \in Notice : log[n] \subseteq log'[n]
      /\ p.notice \in Bare \/ p.version \in log'[p.notice]
  <2>1. CASE p.notice \in Bare
    BY <2>1 DEF EmitNotice
  <2>2. CASE p.notice \notin Bare
    <3>1. log' = [log EXCEPT ![p.notice] = @ \union {p.version}]
      BY <2>2 DEF EmitNotice
    <3>. QED  BY <1>1, <3>1 DEF TypeOK
  <2>. QED  BY <2>1, <2>2
<1>6. AppliedIsLogged'
  <2>1. \A n \in Notice : graph[n].identified => graph[n].version \in log'[n]
    BY <1>5 DEF IngestInv, AppliedIsLogged
  <2>2. queue \in Seq(Publication)
    BY <1>1 DEF TypeOK
  <2>3. ASSUME NEW i \in 1..Len(queue')
        PROVE  queue'[i].version \in log'[queue'[i].notice]
    <3>1. CASE i \in 1..Len(queue) /\ queue'[i] = queue[i]
      <4>1. queue[i] \in Publication
        BY <2>2, <3>1
      <4>2. queue[i].notice \in Notice
        BY <4>1 DEF Publication
      <4>3. queue[i].version \in log[queue[i].notice]
        BY <3>1 DEF IngestInv, AppliedIsLogged
      <4>. QED  BY <1>5, <3>1, <4>2, <4>3
    <3>2. CASE queue' = Append(queue, p) /\ i = Len(queue) + 1 /\ p.notice \notin Bare
      BY <1>5, <2>2, <3>2
    <3>3. queue' = queue \/ (queue' = Append(queue, p) /\ p.notice \notin Bare)
      BY DEF EmitNotice
    <3>. QED  BY <2>2, <2>3, <3>1, <3>2, <3>3
  <2>. QED  BY <1>3, <2>1, <2>3 DEF AppliedIsLogged
<1>7. OneInHand' /\ MetAreKnown'
  <2>1. r.seen \subseteq known' \union r.lost
    BY <1>3, <1>4 DEF IngestInv, MetAreKnown, Announced
  <2>. QED  BY <1>3, <1>4, <2>1, SetsKept
<1>8. p.notice \in Bare \/ OnLog(p)'
  <2>1. p.version >= p.version
    BY <1>1, TedBounds DEF Publication
  <2>. QED  BY <1>5, <2>1 DEF OnLog
<1>9. CASE j = Daily
  <2>1. job'[Daily] = r /\ Counted(j, p) = {p}
    BY <1>1, <1>3, <1>9 DEF Counted
  <2>2. Loading /\ Loading' /\ p \in job[Daily].todo
    <3>1. Loading
      BY <1>3, <1>9 DEF Loading, At
    <3>. QED  BY <1>4, <1>9, <2>1, <3>1 DEF IngestInv, DayInHand, Loading
  <2>3. Span' /\ DayIsNext' /\ DayInHand' /\ Owed' /\ Covered'
    BY <1>1, <1>3, <1>4, <1>5, <1>8, <1>9, <2>1, <2>2, DailyLedger
  <2>. QED  BY <1>2, <1>6, <1>7, <2>3 DEF IngestInv
<1>10. CASE j # Daily
  <2>1. job'[Daily] = job[Daily]
    BY <1>1, <1>3, <1>10
  <2>2. Span' /\ DayIsNext' /\ DayInHand' /\ Owed' /\ Covered'
    BY <1>3, <1>5, <2>1, BulkLedger
  <2>. QED  BY <1>2, <1>6, <1>7, <2>2 DEF IngestInv
<1>. QED  BY <1>9, <1>10

\* The batch of a notice is rolled back.
LEMMA EmitFailsInv ==
  ASSUME IngestInv, NEW j \in Job, NEW p \in job[j].cur, EmitFails(j, p)
  PROVE  IngestInv'
<1>1. /\ Daily \in Job /\ job \in [Job -> JobState] /\ TypeOK
      /\ p \in Publication
  BY DailyIsAJob DEF IngestInv, TypeOK, JobState
<1>2. TypeOK'
  BY <1>1, EmitTypes
<1>3. AppliedIsLogged'
  BY AppliedInv DEF EmitFails
<1>4. PICK k \in 0..Len(Parents[p.notice]) :
        /\ job' = [job EXCEPT ![j] = RolledBack(Failed(j, p), p.notice, k)]
        /\ owed' = owed \ Counted(j, p)
  BY DEF EmitFails
<1>. DEFINE r == RolledBack(Failed(j, p), p.notice, k)
<1>5. /\ r.pc = "next" /\ r.todo = job[j].todo \ {p} /\ r.cur = {}
      /\ r.day = job[j].day /\ r.until = job[j].until
      /\ r.done = job[j].done /\ r.seen \subseteq known \union r.lost
  <2>1. Failed(j, p) \in JobState /\ p.notice \in Notice
    BY <1>1, TookTypes DEF Publication
  <2>2. job[j].seen \subseteq known \union job[j].lost
    BY DEF IngestInv, MetAreKnown
  <2>. QED  BY <1>1, <2>1, <2>2, RolledTypes, TookFields
<1>6. /\ UNCHANGED <<pubs, known, watermark, log>> /\ At(j, "emit")
      /\ job' = [job EXCEPT ![j] = r]
  BY <1>4 DEF EmitFails
<1>. HIDE DEF r
<1>7. OneInHand' /\ MetAreKnown'
  BY <1>5, <1>6, SetsKept
<1>8. CASE j = Daily
  <2>1. job'[Daily] = r /\ Counted(j, p) = {p}
    BY <1>1, <1>6, <1>8 DEF Counted
  <2>2. Loading /\ Loading' /\ p \in job[Daily].todo
    <3>1. Loading
      BY <1>6, <1>8 DEF Loading, At
    <3>. QED  BY <1>5, <1>8, <2>1, <3>1 DEF IngestInv, DayInHand, Loading
  <2>3. p \notin owed' /\ owed' \subseteq owed
    BY <1>4, <2>1
  <2>4. Span' /\ DayIsNext' /\ DayInHand' /\ Owed' /\ Covered'
    BY <1>1, <1>5, <1>6, <1>8, <2>1, <2>2, <2>3, DailyLedger
  <2>. QED  BY <1>2, <1>3, <1>7, <2>4 DEF IngestInv
<1>9. CASE j # Daily
  <2>1. job'[Daily] = job[Daily] /\ owed' = owed
    BY <1>1, <1>4, <1>6, <1>9 DEF Counted
  <2>2. Span' /\ DayIsNext' /\ DayInHand' /\ Owed' /\ Covered'
    BY <1>6, <2>1, BulkLedger
  <2>. QED  BY <1>2, <1>3, <1>7, <2>2 DEF IngestInv
<1>. QED  BY <1>8, <1>9

\* The batch is rolled back and the notice is tried again.
LEMMA EmitRetriesInv ==
  ASSUME IngestInv, NEW j \in Job, NEW p \in job[j].cur, EmitRetries(j, p)
  PROVE  IngestInv'
<1>1. /\ Daily \in Job /\ job \in [Job -> JobState] /\ TypeOK
      /\ p \in Publication /\ p.notice \in Notice
  <2>1. TypeOK /\ Daily \in Job /\ job \in [Job -> JobState]
    BY DailyIsAJob DEF IngestInv, TypeOK
  <2>2. p \in Publication
    BY <2>1 DEF JobState
  <2>. QED  BY <2>1, <2>2 DEF Publication
<1>2. TypeOK'
  BY <1>1, EmitTypes
<1>3. AppliedIsLogged'
  BY AppliedInv DEF EmitRetries, Transient
<1>4. PICK k \in 0..Len(Parents[p.notice]) - 1 :
        job' = [job EXCEPT ![j] = RolledBack(Again(j, p), p.notice, k)]
  BY DEF EmitRetries
<1>. DEFINE r == RolledBack(Again(j, p), p.notice, k)
<1>5. /\ r.pc = "gate" /\ r.todo = job[j].todo /\ r.cur = {p}
      /\ r.day = job[j].day /\ r.until = job[j].until
      /\ r.done = job[j].done /\ r.seen \subseteq known \union r.lost
  <2>1. k \in 0..Len(Parents[p.notice])
    BY <1>1, PartiesAreEntities
  <2>2. job[j].seen \subseteq known \union job[j].lost
    BY DEF IngestInv, MetAreKnown
  <2>. DEFINE again == Again(j, p)
  <2>3. Transient(j) /\ TypeOK
    BY DEF EmitRetries, IngestInv
  <2>4. again \in JobState /\ again.pc = "gate" /\ again.cur = {p}
    BY <1>1, <2>3, AgainTypes
  <2>5. /\ again.todo = job[j].todo /\ again.day = job[j].day /\ again.until = job[j].until
        /\ again.done = job[j].done /\ again.seen = job[j].seen /\ again.lost = job[j].lost
    BY <1>1, <2>3, AgainTypes
  <2>. HIDE DEF again
  <2>6. r = RolledBack(again, p.notice, k) /\ p.notice \in Notice
    BY <1>1 DEF again
  <2>7. /\ r.pc = again.pc /\ r.todo = again.todo /\ r.cur = again.cur
        /\ r.day = again.day /\ r.until = again.until /\ r.done = again.done
    BY <2>1, <2>4, <2>6, RolledTypes
  <2>8. /\ r.seen = again.seen \union Met(p.notice, k)
        /\ r.lost = again.lost \union (Met(p.notice, k) \ again.seen)
    BY <2>1, <2>4, <2>6, RolledTypes
  <2>. HIDE DEF r
  <2>9. r.seen \subseteq known \union r.lost
    BY <2>2, <2>5, <2>8
  <2>. QED  BY <2>4, <2>5, <2>7, <2>9
<1>6. /\ UNCHANGED <<pubs, known, watermark, log, owed>> /\ At(j, "emit")
      /\ job' = [job EXCEPT ![j] = r]
  BY <1>4 DEF EmitRetries, Transient
<1>. HIDE DEF r
<1>7. OneInHand' /\ MetAreKnown'
  <2>1. r.cur # {} => r.pc \in {"gate", "emit"}
    BY <1>5
  <2>2. \A q, o \in r.cur : q = o
    BY <1>5
  <2>3. known \subseteq known' /\ r.seen \subseteq known' \union r.lost
    BY <1>5, <1>6
  <2>4. job' = [job EXCEPT ![j] = r]
    BY <1>6
  <2>. QED  BY <2>1, <2>2, <2>3, <2>4, SetsKept
<1>8. CASE j = Daily
  <2>1. job'[Daily] = r
    BY <1>1, <1>6, <1>8
  <2>2. Loading /\ Loading' /\ p \in job[Daily].todo
    <3>1. Loading
      BY <1>6, <1>8 DEF Loading, At
    <3>. QED  BY <1>5, <1>8, <2>1, <3>1 DEF IngestInv, DayInHand, Loading
  <2>3. p \in job[Daily].done => p.notice \in Bare \/ OnLog(p)
    BY <2>2 DEF IngestInv, DayInHand
  <2>4. Span' /\ DayIsNext' /\ DayInHand' /\ Owed' /\ Covered'
    BY <1>1, <1>5, <1>6, <1>8, <2>1, <2>2, <2>3, DailyLedger
  <2>. QED  BY <1>2, <1>3, <1>7, <2>4 DEF IngestInv
<1>9. CASE j # Daily
  <2>1. job'[Daily] = job[Daily]
    BY <1>1, <1>6, <1>9
  <2>2. Span' /\ DayIsNext' /\ DayInHand' /\ Owed' /\ Covered'
    BY <1>6, <2>1, BulkLedger
  <2>. QED  BY <1>2, <1>3, <1>7, <2>2 DEF IngestInv
<1>. QED  BY <1>8, <1>9

\* A day is finished: what is owed of it is on the log, and it was next.
LEMMA FinishDayInv ==
  ASSUME IngestInv, FinishDay
  PROVE  IngestInv'
<1>1. /\ Daily \in Job /\ job \in [Job -> JobState] /\ TypeOK /\ Span
  BY DailyIsAJob DEF IngestInv, TypeOK
<1>2. TypeOK'
  BY <1>1, EndTypes
<1>3. AppliedIsLogged'
  BY AppliedInv DEF FinishDay
<1>4. /\ UNCHANGED <<pubs, log, known, owed>> /\ At(Daily, "next")
      /\ job[Daily].todo = {}
      /\ watermark' \in {watermark, job[Daily].day}
      /\ watermark' # watermark => watermark' = job[Daily].day
      /\ watermark \in Nat /\ job[Daily].day \in Nat /\ job[Daily].until \in Nat
  BY <1>1, TedBounds DEF FinishDay, Advanced, TypeOK, JobState
<1>5. \/ job'[Daily] = Idle
      \/ /\ job'[Daily] = [job[Daily] EXCEPT !.pc = "day", !.day = job[Daily].day + 1]
         /\ job[Daily].day # job[Daily].until
         /\ watermark' = Advanced(Daily)
  BY <1>1 DEF FinishDay
<1>6. /\ job'[Daily].pc \in {"idle", "day"}
      /\ job'[Daily].cur = {}
      /\ job'[Daily].seen \subseteq known \union job'[Daily].lost
      /\ job'[Daily].pc = "day" => /\ job'[Daily].day = job[Daily].day + 1
                                   /\ job'[Daily].until = job[Daily].until
                                   /\ job[Daily].day # job[Daily].until
                                   /\ watermark' = Advanced(Daily)
  <2>1. CASE job'[Daily] = Idle
    BY <2>1 DEF Idle
  <2>2. CASE job'[Daily] # Idle
    <3>1. job'[Daily] = [job[Daily] EXCEPT !.pc = "day", !.day = job[Daily].day + 1]
      BY <1>5, <2>2
    <3>2. job[Daily].cur = {} /\ job[Daily].seen \subseteq known \union job[Daily].lost
      BY <1>1, <1>4 DEF IngestInv, OneInHand, MetAreKnown, At
    <3>3. job[Daily] \in JobState
      BY <1>1
    <3>. QED  BY <1>5, <2>2, <3>1, <3>2, <3>3 DEF JobState
  <2>. QED  BY <2>1, <2>2
<1>7. job' = [job EXCEPT ![Daily] = job'[Daily]]
  BY <1>1 DEF FinishDay
<1>8. OneInHand' /\ MetAreKnown'
  BY <1>1, <1>4, <1>6, <1>7, SetsKept
<1>9. FarBack => job[Daily].day = watermark + 1
  BY <1>4 DEF IngestInv, DayIsNext, At
<1>10. Span' /\ DayIsNext'
  <2>1. Span'
    BY <1>1, <1>4, <1>6 DEF Span, At
  <2>2. DayIsNext'
    BY <1>4, <1>6, <1>9 DEF DayIsNext, FarBack, At, Advanced
  <2>. QED  BY <2>1, <2>2
<1>11. DayInHand' /\ Owed'
  BY <1>4, <1>6 DEF DayInHand, Owed, Loading, IngestInv
<1>12. Covered'
  <2>1. SUFFICES ASSUME NEW p \in owed, FarBack, p.day <= watermark',
                        p.notice \notin Bare \union Linkless
                 PROVE  OnLog(p)
    BY <1>4 DEF Covered, FarBack, OnLog
  <2>2. p.day \in Nat
    BY <1>1, TedBounds DEF TypeOK, Publication
  <2>3. CASE p.day <= watermark
    BY <2>1, <2>3 DEF IngestInv, Covered, FarBack
  <2>4. CASE p.day = job[Daily].day
    BY <1>4, <2>1, <2>4 DEF IngestInv, Owed, Loading, At
  <2>. QED  BY <1>4, <1>9, <2>1, <2>2, <2>3, <2>4
<1>. QED  BY <1>2, <1>3, <1>8, <1>10, <1>11, <1>12 DEF IngestInv

\* A job stops.
LEMMA StopInv ==
  ASSUME IngestInv, NEW j \in Job, FinishBulk(j) \/ Abort(j)
  PROVE  IngestInv'
<1>1. /\ Daily \in Job /\ job \in [Job -> JobState] /\ TypeOK /\ Span
  BY DailyIsAJob DEF IngestInv, TypeOK
<1>2. TypeOK'
  BY <1>1, EndTypes DEF FinishBulk
<1>3. AppliedIsLogged'
  BY AppliedInv DEF FinishBulk, Abort
<1>4. /\ UNCHANGED <<pubs, log, known, watermark, owed>>
      /\ job' = [job EXCEPT ![j] = Idle]
  BY DEF FinishBulk, Abort
<1>5. Idle.pc = "idle" /\ Idle.cur = {} /\ Idle.seen = {}
  BY DEF Idle
<1>6. OneInHand' /\ MetAreKnown'
  BY <1>4, <1>5, SetsKept
<1>7. CASE j = Daily
  <2>1. job'[Daily] = Idle
    BY <1>1, <1>4, <1>7
  <2>2. At(Daily, "idle")' /\ ~Loading'
    BY <1>5, <2>1 DEF At, Loading
  <2>3. Span' /\ DayIsNext' /\ DayInHand' /\ Owed'
    BY <1>4, <2>2 DEF Span, DayIsNext, DayInHand, Owed, IngestInv
  <2>4. Covered'
    BY <1>4 DEF Covered, IngestInv, OnLog
  <2>. QED  BY <1>2, <1>3, <1>6, <2>3, <2>4 DEF IngestInv
<1>8. CASE j # Daily
  <2>1. job'[Daily] = job[Daily]
    BY <1>1, <1>4, <1>8
  <2>2. Span' /\ DayIsNext' /\ DayInHand' /\ Owed' /\ Covered'
    BY <1>4, <2>1, BulkLedger
  <2>. QED  BY <1>2, <1>3, <1>6, <2>2 DEF IngestInv
<1>. QED  BY <1>7, <1>8

LEMMA NextInv == IngestInv /\ [Next]_vars => IngestInv'
<1>. SUFFICES ASSUME IngestInv, [Next]_vars PROVE IngestInv'
  OBVIOUS
<1>1. \A j \in Job : Ingest(j) => IngestInv'
  BY GateInv, EmitInv DEF Ingest
<1>2. CASE (\E n \in Notice : Publish(n)) \/ NextDay \/ Sink
  BY <1>2, UpstreamInv
<1>3. CASE LaunchDaily \/ (\E j \in Bulk : LaunchBulk(j)) \/ SearchDay
  BY <1>3, LaunchInv
<1>4. CASE \E p \in job[Daily].todo : Screen(p)
  BY <1>4, ScreenInv
<1>5. CASE FinishDay
  BY <1>5, FinishDayInv
<1>6. CASE (\E j \in Bulk : FinishBulk(j)) \/ (\E j \in Job : Abort(j))
  BY <1>6, StopInv, DailyIsAJob
<1>7. CASE \E j \in Job : \E p \in job[j].cur : EmitRetries(j, p) \/ EmitFails(j, p)
  BY <1>7, EmitRetriesInv, EmitFailsInv
<1>9. CASE \E j \in Job : \E p \in InHand(j) : GateRetries(j, p)
  BY <1>9, GateInv
<1>8. CASE UNCHANGED vars
  <2>1. UNCHANGED <<today, pubs, log, known, queue, graph, watermark, job, owed, faults>>
    BY <1>8 DEF vars
  <2>2. TypeOK' /\ Span' /\ OneInHand' /\ MetAreKnown' /\ AppliedIsLogged'
    BY <2>1 DEF IngestInv, TypeOK, Span, OneInHand, MetAreKnown, AppliedIsLogged, At
  <2>3. DayIsNext' /\ DayInHand' /\ Owed' /\ Covered'
    BY <2>1 DEF IngestInv, DayIsNext, FarBack, At, DayInHand, Loading, OfTheDay, Owed,
                OnLog, Covered
  <2>. QED  BY <2>2, <2>3 DEF IngestInv
<1>. QED
  BY <1>1, <1>2, <1>3, <1>4, <1>5, <1>6, <1>7, <1>8, <1>9, DailyIsAJob
  DEF Next, DailyStep, BulkStep, JobFails

----------------------------------------------------------------------------
(* The theorems.                                                           *)

\* The inductive invariant.
THEOREM IngestInvariant == Spec => []IngestInv
  BY InitInv, NextInv, PTL DEF Spec

\* Every reachable state is well-typed: the watermark is a day that has come,
\* and no job leaves its span of days.
THEOREM IngestTypes == Spec => []TypeOK
<1>1. IngestInv => TypeOK
  BY DEF IngestInv
<1>. QED  BY <1>1, IngestInvariant, PTL

\* Every notice that the search listed on a day up to the watermark is on the
\* log, in its version or a newer one, or was logged as FAILED, however many
\* jobs load at once and whatever fails.
THEOREM NothingIsSkipped == Spec => []Covered
<1>1. IngestInv => Covered
  BY DEF IngestInv
<1>. QED  BY <1>1, IngestInvariant, PTL

\* The watermark passes a day with failures only if a notice of it was loaded.
THEOREM DatesAreNotSkipped == Spec => NoDateSkipped
<1>1. IngestInv /\ [Next]_vars =>
        [watermark' # watermark /\ job[Daily].failed # {} =>
           \E p \in pubs : p.day = watermark' /\ (p.notice \in Bare \/ OnLog(p))]_vars
  <2>. SUFFICES ASSUME IngestInv, Next, watermark' # watermark, job[Daily].failed # {}
                PROVE  \E p \in pubs : p.day = watermark' /\ (p.notice \in Bare \/ OnLog(p))
    OBVIOUS
  <2>1. FinishDay
    BY DEF Next, Publish, NextDay, Sink, LaunchDaily, DailyStep, SearchDay, Screen, Ingest,
           GateNotice, GateFails, EmitNotice, LaunchBulk, BulkStep, FinishBulk, JobFails,
           Abort, GateRetries, EmitRetries, Transient, EmitFails
  <2>2. /\ watermark' = job[Daily].day /\ Loading
        /\ job[Daily].done # {}
    BY <2>1 DEF FinishDay, Advanced, AllErrored, Loading, At
  <2>3. PICK p \in job[Daily].done : TRUE
    BY <2>2
  <2>4. p \in OfTheDay /\ (p.notice \in Bare \/ OnLog(p))
    BY <2>2 DEF IngestInv, DayInHand
  <2>. QED  BY <2>2, <2>4 DEF OfTheDay
<1>. QED  BY <1>1, IngestInvariant, PTL DEF Spec, NoDateSkipped

\* A contract is announced after the organisations it points to, except those
\* that the same run met in a batch it rolled back.
THEOREM StubsAreNeverMade == Spec => NoStubs
<1>1. IngestInv /\ [Next]_vars =>
        [\A j \in Job : \A p \in job[j].cur :
           At(j, "emit") /\ log' # log /\ job'[j] # job[j] =>
             Parties(p.notice) \subseteq known' \union job[j].lost]_vars
  <2>. SUFFICES ASSUME IngestInv, Next, NEW j \in Job, NEW p \in job[j].cur,
                       At(j, "emit"), log' # log, job'[j] # job[j]
                PROVE  Parties(p.notice) \subseteq known' \union job[j].lost
    OBVIOUS
  <2>1. \E k \in Job : \E q \in job[k].cur : EmitNotice(k, q)
    BY DailyIsAJob
    DEF Next, Publish, NextDay, Sink, LaunchDaily, DailyStep, SearchDay, Screen, Ingest,
        GateNotice, GateFails, FinishDay, LaunchBulk, BulkStep, FinishBulk, JobFails,
        Abort, GateRetries, EmitRetries, Transient, EmitFails
  <2>2. PICK k \in Job : \E q \in job[k].cur : EmitNotice(k, q)
    BY <2>1
  <2>3. PICK q \in job[k].cur : EmitNotice(k, q)
    BY <2>2
  <2>4. k = j
    BY <2>3 DEF EmitNotice, IngestInv, TypeOK
  <2>5. q = p
    BY <2>4 DEF IngestInv, OneInHand
  <2>6. job[j].seen \subseteq known \union job[j].lost
    BY DEF IngestInv, MetAreKnown
  <2>. QED  BY <2>3, <2>4, <2>5, <2>6 DEF EmitNotice, Announced
<1>. QED  BY <1>1, IngestInvariant, PTL DEF Spec, NoStubs

----------------------------------------------------------------------------
(* ContractValue: what is counted is plausible, and a leaked factor is undone. *)

ValueInv == facts \in NoticeMoney /\ (Decided => valued = Applied(facts))

\* The score: what is not low is at most 10^10, and agrees with its estimate.
LEMMA ScoreIsSane ==
  ASSUME NEW f, f.est \in Int, f.tot \in Int, f.pay \in Int,
         ~Score(f).low, Score(f).value # Missing
  PROVE  /\ Score(f).value = ChosenOf(f) /\ Positive(ChosenOf(f))
         /\ ChosenOf(f) <= 10
         /\ Positive(f.est) => f.est = ChosenOf(f)
<1>. DEFINE c == ChosenOf(f)
           p == Plausibility(c)
           s == Consistency(f)
<1>1. c \in Int /\ (c = Missing \/ Positive(c))
  BY DEF ChosenOf, Positive, Missing
<1>2. p \in {0, 20, 60, 100} /\ (p >= 50 => c <= 10)
  BY <1>1 DEF Plausibility
<1>3. \A a, b \in Int : Agreement(a, b) \in {0, 13, 100} /\ (Agreement(a, b) = 100 => a = b)
  BY DEF Agreement, Gap
<1>4. s \in 0..100 /\ (Positive(f.est) /\ s >= 50 => f.est = c)
  <2>. DEFINE paid == IF Positive(f.tot) /\ Positive(f.pay) THEN Agreement(c, f.pay) ELSE 0
             a == Agreement(c, f.est)
  <2>1. paid \in {0, 13, 100} /\ a \in {0, 13, 100} /\ (a = 100 => c = f.est)
    BY <1>1, <1>3
  <2>2. (10 * a + 4 * paid) \div 14 \in 0..100 /\ ((10 * a + 4 * paid) \div 14 >= 50 => a = 100)
    BY <2>1
  <2>3. s = IF Positive(f.est)
              THEN IF Positive(f.tot) /\ Positive(f.pay) THEN (10 * a + 4 * paid) \div 14 ELSE a
              ELSE IF (Positive(f.tot) /\ Positive(f.pay)) /\ Gap(c, f.pay) = 0 THEN 75 ELSE 60
    BY DEF Consistency
  <2>. HIDE DEF a, paid, s
  <2>. QED BY <2>1, <2>2, <2>3
<1>5. ((s * p) \div 100 >= 50) => p >= 50 /\ s >= 50
  <2>. SUFFICES ASSUME NEW x \in 0..100, x = s PROVE ((x * p) \div 100 >= 50) => p >= 50 /\ x >= 50
    BY <1>4
  <2>. HIDE DEF s, p
  <2>1. CASE p = 0 BY <2>1
  <2>2. CASE p = 20 BY <2>2
  <2>3. CASE p = 60 BY <2>3
  <2>4. CASE p = 100 BY <2>4
  <2>. QED BY <1>2, <2>1, <2>2, <2>3, <2>4
<1>. DEFINE q == (s * p) \div 100
<1>6. c # Missing /\ BelowZero \notin {f.tot, f.pay}
  <2>1. CASE BelowZero \in {f.tot, f.pay}
    <3>1. Score(f).low BY <2>1 DEF Score
    <3>. QED BY <3>1
  <2>2. CASE BelowZero \notin {f.tot, f.pay} /\ c = Missing
    <3>1. Score(f).low <=> 0 < 50 BY <2>2 DEF Score
    <3>. QED BY <3>1
  <2>. QED BY <2>1, <2>2
<1>7. Score(f).value = c /\ (Score(f).low <=> q < 50)
  BY <1>6 DEF Score
<1>8. q \in Int
  BY <1>2, <1>4
<1>. HIDE DEF c, s, p, q
<1>9. q >= 50
  BY <1>7, <1>8
<1>10. p >= 50 /\ s >= 50
  BY <1>5, <1>9 DEF q
<1>. QED BY <1>1, <1>2, <1>4, <1>6, <1>7, <1>10 DEF c

\* What is scored has whole powers of ten, or codes, as the notice has.
LEMMA RescaledIsMoney ==
  ASSUME NEW f \in NoticeMoney
  PROVE  /\ f.est \in Int /\ f.tot \in Int /\ f.pay \in Int
         /\ Rescaled(f).money.est \in Int /\ Rescaled(f).money.tot \in Int
         /\ Rescaled(f).money.pay \in Int
<1>. DEFINE Ints(m) == m.est \in Int /\ m.tot \in Int /\ m.pay \in Int
           Fields == {"est", "tot", "pay"}
           Rec(m) == Fields \subseteq DOMAIN m /\ m = [x \in DOMAIN m |-> m[x]]
<1>1. Ints(f) /\ Rec(f)
  BY ContractValueBounds DEF NoticeMoney, Amount, Power, Missing, BelowZero, Nil
<1>2. \A a \in Int : Scaled(a) \in Int
  BY DEF Scaled
<1>3. ASSUME NEW m, Rec(m), Ints(m)
      PROVE  /\ Rec(RatioCorrected(m)) /\ Ints(RatioCorrected(m))
             /\ Rec(PriorCorrected(m)) /\ Ints(PriorCorrected(m))
  BY <1>2, <1>3 DEF RatioCorrected, PriorCorrected
<1>4. \A r, tier, applies, corrected :
        Step(r, tier, applies, corrected) \in {r, [money |-> corrected, tier |-> tier]}
  BY DEF Step
<1>. HIDE DEF Ints, Rec
<1>5. LET r == AfterRatio(f) IN Ints(r.money) /\ Rec(r.money)
  <2>1. AfterRatio(f) \in {[money |-> f, tier |-> "none"],
                           [money |-> RatioCorrected(f), tier |-> "ratio"]}
    BY <1>4 DEF AfterRatio
  <2>. QED BY <1>1, <1>3, <2>1
<1>6. Rescaled(f) \in {AfterRatio(f),
          [money |-> PriorCorrected(AfterRatio(f).money), tier |-> "country_prior"]}
  BY <1>4 DEF Rescaled
<1>7. Ints(Rescaled(f).money)
  BY <1>3, <1>5, <1>6
<1>. QED BY <1>1, <1>7 DEF Ints

\* AggregatedIsSane, of what the rules make of a notice.
LEMMA AppliedIsSane ==
  ASSUME NEW f \in NoticeMoney, Applied(f).value # Missing, ~Applied(f).low
  PROVE  /\ Applied(f).value <= 10
         /\ Positive(Applied(f).est) => Applied(f).est = Applied(f).value
<1>. DEFINE r == Rescaled(f)
           money == IF PeerOutlier(r.money) THEN f ELSE r.money
           score == Score(money)
<1>1. money.est \in Int /\ money.tot \in Int /\ money.pay \in Int
  BY RescaledIsMoney
<1>2. /\ Applied(f).value = score.value /\ Applied(f).est = money.est
      /\ Applied(f).low = score.low
  BY DEF Applied, Event
<1>. HIDE DEF money, score
<1>3. ~score.low /\ score.value # Missing
  BY <1>2
<1>4. /\ score.value = ChosenOf(money) /\ ChosenOf(money) <= 10
      /\ Positive(money.est) => money.est = ChosenOf(money)
  BY <1>1, <1>3, ScoreIsSane DEF score
<1>. QED BY <1>2, <1>4

\* Amounts that agree, and are plausible, are counted.
LEMMA AgreedIsScored ==
  ASSUME NEW a \in 0..8, NEW m, m.est = a, m.tot = a, m.pay \in {Missing, a}
  PROVE  LET s == Score(m) IN s.flag = "ok" /\ s.value = a /\ ~s.low
<1>1. /\ ChosenOf(m) = a /\ a # Missing /\ Positive(a) /\ Plausibility(a) = 100
      /\ BelowZero \notin {m.tot, m.pay}
  BY DEF ChosenOf, Positive, Missing, Plausibility, BelowZero
<1>2. Consistency(m) = 100
  <2>1. Agreement(a, a) = 100 BY DEF Agreement, Gap
  <2>2. CASE m.pay = Missing
    BY <1>1, <2>1, <2>2 DEF Consistency, Positive, Missing
  <2>3. CASE m.pay = a
    <3>1. Consistency(m) = (10 * 100 + 4 * 100) \div 14
      BY <1>1, <2>1, <2>3 DEF Consistency
    <3>. QED BY <3>1
  <2>. QED BY <2>2, <2>3
<1>3. (Consistency(m) * Plausibility(ChosenOf(m))) \div 100 = 100
  BY <1>1, <1>2
<1>4. 100 >= 50 /\ ~(100 < 50)
  OBVIOUS
<1>5. ChosenOf(m) # Missing
  BY <1>1
<1>6. Score(m).value = ChosenOf(m) /\ (Score(m).low <=> 100 < 50)
  BY <1>1, <1>3, <1>5 DEF Score
<1>7. Score(m).flag = "ok"
  BY <1>1, <1>3, <1>4, <1>5 DEF Score
<1>. QED BY <1>1, <1>4, <1>6, <1>7

\* LeakUndone, of the same.
LEMMA LeakIsUndone ==
  ASSUME NEW f \in NoticeMoney, NEW true \in 0..8, NEW leaked \in SUBSET {"est", "tot"},
         f.country = "PRT",
         [est |-> f.est, tot |-> f.tot] = LeakOf(true, leaked),
         f.pay \in {Missing, f.tot},
         leaked = {"est", "tot"} => true >= 6,
         ~PeerOutlier(Rescaled(f).money)
  PROVE  Applied(f).value = true /\ ~Applied(f).low
<1>. DEFINE Restored(m) == m.est = true /\ m.tot = true /\ m.pay \in {Missing, true}
<1>1. /\ f.est = IF "est" \in leaked THEN true + 3 ELSE true
      /\ f.tot = IF "tot" \in leaked THEN true + 3 ELSE true
  BY DEF LeakOf
<1>2. \A m : Restored(m) /\ m.country = "PRT" => ~PriorTier(m)
  BY DEF PriorTier, Missing
<1>3. f = [f EXCEPT !.est = f.est] /\ {"est", "tot", "pay"} \subseteq DOMAIN f
  BY DEF NoticeMoney
<1>4. f.tot # Missing /\ ChosenOf(f) # Missing /\ Measurable(f)
  BY <1>1 DEF ChosenOf, Measurable, Missing, Positive
<1>5. PICK m : m = Rescaled(f).money /\ Restored(m)
  <2>1. CASE leaked = {}
    <3>1. Restored(f) BY <1>1, <2>1
    <3>2. ~RatioTier(f)
      BY <3>1 DEF RatioTier, TotalLeaks, EstimateLeaks, PayableLeaks, IsX1000, Missing
    <3>3. AfterRatio(f).money = f BY <3>2 DEF AfterRatio, Step
    <3>4. Rescaled(f).money = f BY <1>2, <3>1, <3>3 DEF Rescaled, Step
    <3>. QED BY <3>1, <3>4
  <2>2. CASE leaked = {"tot"}
    <3>1. f.est = true /\ f.tot = true + 3 BY <1>1, <2>2
    <3>2. TotalLeaks(f) BY <3>1 DEF TotalLeaks, IsX1000, Positive, RatioCorrectable
    <3>3. Restored(RatioCorrected(f)) /\ RatioCorrected(f).country = "PRT"
      BY <1>3, <3>1, <3>2 DEF RatioCorrected, Scaled, IsX1000, Positive, Missing
    <3>4. AfterRatio(f).money = RatioCorrected(f)
      BY <1>4, <3>2 DEF AfterRatio, Step, RatioTier
    <3>5. Rescaled(f).money = RatioCorrected(f)
      BY <1>2, <3>3, <3>4 DEF Rescaled, Step
    <3>. QED BY <3>3, <3>5
  <2>3. CASE leaked = {"est"}
    <3>1. f.est = true + 3 /\ f.tot = true BY <1>1, <2>3
    <3>2. EstimateLeaks(f) /\ ~TotalLeaks(f)
      BY <3>1 DEF EstimateLeaks, TotalLeaks, IsX1000, Positive, RatioCorrectable
    <3>3. Restored(RatioCorrected(f)) /\ RatioCorrected(f).country = "PRT"
      BY <1>3, <3>1, <3>2 DEF RatioCorrected, Scaled, IsX1000, Positive, Missing
    <3>4. AfterRatio(f).money = RatioCorrected(f)
      BY <1>4, <3>2 DEF AfterRatio, Step, RatioTier
    <3>5. Rescaled(f).money = RatioCorrected(f)
      BY <1>2, <3>3, <3>4 DEF Rescaled, Step
    <3>. QED BY <3>3, <3>5
  <2>4. CASE leaked = {"est", "tot"}
    <3>1. f.est = true + 3 /\ f.tot = true + 3 /\ true >= 6 BY <1>1, <2>4
    <3>2. ~RatioTier(f)
      BY <3>1 DEF RatioTier, TotalLeaks, EstimateLeaks, PayableLeaks, IsX1000, Missing
    <3>3. AfterRatio(f).money = f BY <3>2 DEF AfterRatio, Step
    <3>4. PriorTier(f)
      BY <3>1, <3>2 DEF PriorTier, IsX1000, Missing
    <3>5. Rescaled(f).money = PriorCorrected(f)
      BY <1>4, <3>3, <3>4 DEF Rescaled, Step
    <3>6. Restored(PriorCorrected(f))
      BY <1>3, <3>1 DEF PriorCorrected, Scaled, Positive, Missing
    <3>. QED BY <3>5, <3>6
  <2>5. leaked \in {{}, {"tot"}, {"est"}, {"est", "tot"}} OBVIOUS
  <2>. QED BY <2>1, <2>2, <2>3, <2>4, <2>5
<1>6. Score(m).flag = "ok" /\ Score(m).value = true /\ ~Score(m).low
  BY <1>5, AgreedIsScored
<1>7. ~Quarantined(Score(m))
  BY <1>6 DEF Quarantined, ReviewFlags
<1>8. /\ Applied(f).value = Score(m).value
      /\ Applied(f).low = Score(m).low
  BY <1>5, <1>7 DEF Applied, Event
<1>. QED BY <1>6, <1>8

\* The value rules of load_ted_contracts.py: a value that is counted is at most
\* ten billion and agrees with its estimate, and of a Portuguese notice whose
\* amounts were inflated a thousandfold the true value is counted unless a peer
\* speaks against it.
THEOREM CountedMoneyIsSane == ValueSpec => []StatedValueIsSane
<1>1. ValueInit => ValueInv
  BY DEF ValueInit, ValueInv, Decided
<1>2. ValueInv /\ [ValueNext]_valueVars => ValueInv'
  BY DEF ValueInv, ValueNext, Decide, Decided, valueVars
<1>3. ValueInv => AggregatedIsSane
  BY AppliedIsSane DEF ValueInv, AggregatedIsSane
<1>4. ValueInv => LeakUndone
  <2>. SUFFICES ASSUME ValueInv, NEW true \in 0..8, NEW leaked \in SUBSET {"est", "tot"},
                 Decided, facts.country = "PRT",
                 [est |-> facts.est, tot |-> facts.tot] = LeakOf(true, leaked),
                 facts.pay \in {Missing, facts.tot},
                 leaked = {"est", "tot"} => true >= 6,
                 ~PeerOutlier(Rescaled(facts).money)
               PROVE  valued.value = true /\ ~valued.low
    BY DEF LeakUndone
  <2>1. facts \in NoticeMoney /\ valued = Applied(facts)
    BY DEF ValueInv
  <2>. QED BY <2>1, LeakIsUndone
<1>. QED BY <1>1, <1>2, <1>3, <1>4, PTL DEF ValueSpec, StatedValueIsSane

----------------------------------------------------------------------------
(* TedSuppliers: what is resolved is announced, and a number is only ever  *)
(* resolved to the company that the matcher remembers for it.              *)

LEMMA LeastNumber ==
  ASSUME NEW T, T \subseteq Nat, T # {}
  PROVE  \E x \in T : \A y \in T : x <= y
<1>. DEFINE Less == {p \in Nat \X Nat : p[1] < p[2]}
<1>1. IsWellFoundedOn(Less, Nat)
  BY NatLessThanWellFounded DEF OpToRel
<1>2. ASSUME NEW x \in Nat, NEW y \in Nat, x < y
      PROVE  <<x, y>> \in Less
  BY <1>2
<1>. HIDE DEF Less
<1>3. PICK x \in T : \A y \in T : ~(<<y, x>> \in Less)
  BY <1>1, WFMin, Zenon
<1>4. ASSUME NEW y \in T
      PROVE  x <= y
  <2>1. ~(y < x)
    BY <1>2, <1>3, Zenon
  <2>. QED  BY <2>1
<1>. QED  BY <1>4

LEMMA MinIsLeast ==
  ASSUME NEW S, S \subseteq Nat, S # {}
  PROVE  Min(S) \in S
  BY LeastNumber DEF Min

\* A withheld name is one that no company writes, if a legal form vouches for it.
LEMMA WithheldIsNoName ==
  ASSUME NEW o, Withheld(o), o.legalForm
  PROVE  o.signals \intersect {"scheme", "italian", "multiple", "placeholder"} # {}
<1>1. PICK i \in DOMAIN NameRules : Hits(NameRules[i], o) BY DEF Withheld
<1>2. NameRules[i] \in {"italian", "multiple", "several", "annex", "na", "url", "placeholder"}
  BY DEF NameRules
<1>3. NameRules[i] \notin {"several", "annex", "na"} BY <1>1 DEF Hits
<1>4. CASE NameRules[i] = "url" BY <1>1, <1>4 DEF Hits
<1>5. CASE NameRules[i] \in {"italian", "multiple", "placeholder"}
  <2>1. NameRules[i] \in o.signals BY <1>1, <1>5 DEF Hits
  <2>. QED BY <1>5, <2>1
<1>. QED BY <1>2, <1>3, <1>4, <1>5

LEMMA IdentifierIs ==
  ASSUME NEW o \in Organisation
  PROVE  Identifier(o) \in Vat \union {NoVat}
<1>1. o.vat \in Vat \union {NoVat}
  BY SuppliersAssumption DEF OrganisationFacts
<1>. QED BY <1>1 DEF Identifier, BaseIdentifier, PrefixedIdentifier

(* The inductive invariant.                                                *)

SupplierTypes ==
  /\ awards \in Seq([org : Organisation, winner : BOOLEAN])
  /\ DOMAIN resolved \subseteq Usable(awards)
  /\ DOMAIN cache \subseteq Vat /\ \A v \in DOMAIN cache : cache[v] \in GmrId
  /\ idsOf = [v \in Vat |-> idsOf[v]]

\* What was resolved was announced.
ResolvedIsAnnounced == \A i \in DOMAIN resolved : resolved[i] \in GmrId \intersect announced

\* A number was only ever resolved to what the matcher remembers.
CacheIsKept ==
  \A v \in Vat : idsOf[v] \subseteq IF v \in DOMAIN cache THEN {cache[v]} ELSE {}

SupplierInv == SupplierTypes /\ ResolvedIsAnnounced /\ CacheIsKept /\ Accounted

LEMMA MatchIsCompany ==
  ASSUME SupplierInv, NEW o \in Organisation, NEW a \in Matched
  PROVE  Match(o, a) \in GmrId
<1>1. Identifier(o) \in Vat \union {NoVat} BY IdentifierIs
<1>2. Accepted(a) => a.company \in Company BY DEF Accepted, Matched
<1>3. CASE Identifier(o) # NoVat /\ Identifier(o) \in DOMAIN cache
  BY <1>3 DEF Match, SupplierInv, SupplierTypes
<1>4. CASE ~(Identifier(o) # NoVat /\ Identifier(o) \in DOMAIN cache)
  BY <1>1, <1>2, <1>4 DEF Match, GmrId
<1>. QED BY <1>3, <1>4

LEMMA NobodyToAccountFor ==
  /\ ToSet(NoContract.of) = {} /\ {w.org : w \in NoContract.withheld} = {}
  /\ {p.id : p \in NoContract.parties} \union ({NoContract.primary} \ {NoCompany}) = {}
  /\ NoContract.primary = NoCompany
  BY DEF NoContract, ToSet

LEMMA SuppliersBegin == SuppliersInit => SupplierInv
<1>. SUFFICES ASSUME SuppliersInit PROVE SupplierInv OBVIOUS
<1>1. PICK held \in SUBSET Vat : cache \in [held -> {[by |-> "graph", of |-> c] : c \in Company}]
  BY DEF SuppliersInit
<1>2. \A v \in DOMAIN cache : cache[v] \in GmrId BY <1>1 DEF GmrId
<1>3. SupplierTypes BY <1>1, <1>2 DEF SuppliersInit, SupplierTypes
<1>4. CacheIsKept BY DEF SuppliersInit, CacheIsKept
<1>5. Accounted BY NobodyToAccountFor DEF SuppliersInit, Accounted
<1>. QED BY <1>3, <1>4, <1>5 DEF SupplierInv, ResolvedIsAnnounced, SuppliersInit

LEMMA TakeNoticeKeeps ==
  ASSUME SupplierInv, TakeNotice
  PROVE  SupplierInv'
<1>1. PICK n \in 1..MaxAwards : awards' \in [1..n -> [org : Organisation, winner : BOOLEAN]]
  BY DEF TakeNotice
<1>2. awards' \in Seq([org : Organisation, winner : BOOLEAN])
  <2>1. n \in Nat BY SuppliersAssumption
  <2>2. PICK S : S = [org : Organisation, winner : BOOLEAN] OBVIOUS
  <2>3. awards' \in [1..n -> S] BY <1>1, <2>2
  <2>4. awards' \in Seq(S) BY <2>1, <2>3 DEF Seq
  <2>. QED BY <2>2, <2>4
<1>3. /\ UNCHANGED <<resolved, cache, announced, idsOf>> /\ contract' = NoContract
      /\ awards = <<>> /\ SupplierTypes
  BY DEF TakeNotice, SupplierInv
<1>4. DOMAIN resolved = {} BY <1>3 DEF SupplierTypes, Usable
<1>5. SupplierTypes' BY <1>2, <1>3, <1>4 DEF SupplierTypes
<1>6. Accounted' BY <1>3, NobodyToAccountFor DEF Accounted
<1>. QED BY <1>3, <1>5, <1>6 DEF SupplierInv, ResolvedIsAnnounced, CacheIsKept

LEMMA ResolveNextKeeps ==
  ASSUME SupplierInv, ResolveNext
  PROVE  SupplierInv'
<1>. DEFINE i == Min(ToResolve)
           org == awards[i].org
<1>1. PICK a \in Matched :
        LET id == Match(org, a)
            v == Identifier(org)
        IN /\ cache' = Remembered(org, id, a)
           /\ announced' = announced \union {id}
           /\ resolved' = [k \in DOMAIN resolved \union {i} |-> IF k = i THEN id ELSE resolved[k]]
           /\ idsOf' = IF v = NoVat THEN idsOf ELSE [idsOf EXCEPT ![v] = @ \union {id}]
  BY DEF ResolveNext
<1>2. SupplierTypes /\ UNCHANGED <<awards, contract, notices>> /\ ToResolve # {}
  BY DEF ResolveNext, SupplierInv
<1>3. i \in ToResolve /\ i \in Usable(awards) /\ i \in DOMAIN awards
  <2>1. ToResolve \subseteq Nat BY <1>2 DEF SupplierTypes, ToResolve, Usable
  <2>. QED BY <1>2, <2>1, MinIsLeast DEF ToResolve, Usable
<1>4. org \in Organisation
  <2>1. PICK S : S = [org : Organisation, winner : BOOLEAN] OBVIOUS
  <2>2. awards \in Seq(S) BY <1>2, <2>1 DEF SupplierTypes
  <2>3. awards[i] \in S BY <1>3, <2>2
  <2>. QED BY <2>1, <2>3
<1>. HIDE DEF i, org
<1>5. PICK id : id = Match(org, a) /\ id \in GmrId BY <1>4, MatchIsCompany
<1>6. PICK v : v = Identifier(org) /\ v \in Vat \union {NoVat} BY <1>4, IdentifierIs
<1>7. /\ announced' = announced \union {id}
      /\ resolved' = [k \in DOMAIN resolved \union {i} |-> IF k = i THEN id ELSE resolved[k]]
      /\ idsOf' = IF v = NoVat THEN idsOf ELSE [idsOf EXCEPT ![v] = @ \union {id}]
      /\ cache' = IF v = NoVat \/ v \in DOMAIN cache THEN cache
                  ELSE [w \in DOMAIN cache \union {v} |-> IF w = v THEN id ELSE cache[w]]
  BY <1>1, <1>5, <1>6 DEF Remembered
<1>8. DOMAIN resolved' \subseteq Usable(awards)
  BY <1>2, <1>3, <1>7 DEF SupplierTypes
<1>9. /\ DOMAIN cache' \subseteq Vat /\ \A w \in DOMAIN cache' : cache'[w] \in GmrId
      /\ idsOf' = [w \in Vat |-> idsOf'[w]]
  BY <1>2, <1>5, <1>6, <1>7 DEF SupplierTypes
<1>10. SupplierTypes' BY <1>2, <1>8, <1>9 DEF SupplierTypes, Usable, Withheld
<1>11. ResolvedIsAnnounced' BY <1>5, <1>7 DEF SupplierInv, ResolvedIsAnnounced
<1>12. CacheIsKept'
  <2>1. CASE v = NoVat BY <1>7, <2>1 DEF SupplierInv, CacheIsKept
  <2>2. CASE v # NoVat /\ v \in DOMAIN cache
    <3>1. id = cache[v] BY <1>5, <1>6, <2>2 DEF Match
    <3>2. \A w \in Vat : idsOf'[w] = IF w = v THEN idsOf[w] \union {id} ELSE idsOf[w]
      BY <1>2, <1>6, <1>7, <2>2 DEF SupplierTypes
    <3>. QED BY <1>7, <2>2, <3>1, <3>2 DEF SupplierInv, CacheIsKept
  <2>3. CASE v # NoVat /\ v \notin DOMAIN cache
    <3>1. \A w \in Vat : idsOf'[w] = IF w = v THEN idsOf[w] \union {id} ELSE idsOf[w]
      BY <1>2, <1>6, <1>7, <2>3 DEF SupplierTypes
    <3>. QED BY <1>6, <1>7, <2>3, <3>1 DEF SupplierInv, CacheIsKept
  <2>. QED BY <2>1, <2>2, <2>3
<1>13. Accounted' BY <1>2, <1>7 DEF SupplierInv, Accounted
<1>. QED BY <1>10, <1>11, <1>12, <1>13 DEF SupplierInv

LEMMA EmitContractKeeps ==
  ASSUME SupplierInv, EmitContract
  PROVE  SupplierInv'
<1>. DEFINE each == ToSet(awards)
           out == {a.org : a \in {b \in each : Withheld(b.org)}}
           named == {k \in DOMAIN resolved : awards[k].org.name # NoName}
<1>1. /\ contract' =
           [parties |-> {[id |-> resolved[i], role |-> Role(awards[i])] : i \in named},
            withheld |-> {[org |-> o, reason |-> Reason(o),
                           winner |-> \E a \in each : a.org = o /\ a.winner] : o \in out},
            primary |-> Primary, of |-> awards]
      /\ awards' = <<>> /\ resolved' = <<>> /\ ToResolve = {} /\ SupplierTypes
      /\ UNCHANGED <<cache, announced, idsOf>>
  BY DEF EmitContract, SupplierInv
<1>2. DOMAIN resolved = Usable(awards) /\ awards \in Seq([org : Organisation, winner : BOOLEAN])
  BY <1>1 DEF SupplierTypes, ToResolve
<1>3. each = {awards[i] : i \in DOMAIN awards} /\ DOMAIN awards \subseteq Nat
  BY <1>2 DEF ToSet
<1>4. {w.org : w \in contract'.withheld} = out
  <2>1. contract'.withheld = {[org |-> o, reason |-> Reason(o),
                              winner |-> \E a \in each : a.org = o /\ a.winner] : o \in out}
    BY <1>1
  <2>. HIDE DEF out, each
  <2>2. \A w \in contract'.withheld : w.org \in out BY <2>1
  <2>3. ASSUME NEW o \in out PROVE \E w \in contract'.withheld : w.org = o
    <3>1. PICK w : w = [org |-> o, reason |-> Reason(o), winner |-> \E a \in each : a.org = o /\ a.winner]
      OBVIOUS
    <3>2. w \in contract'.withheld BY <2>1, <3>1
    <3>. QED BY <3>1, <3>2
  <2>. QED BY <2>2, <2>3
<1>5. ASSUME NEW a \in each
      PROVE  a.org \in out <=> Withheld(a.org)
  OBVIOUS
<1>. HIDE DEF out
<1>6. ASSUME NEW a \in each
      PROVE  IF a.org \in out
               THEN a.org.legalForm =>
                      a.org.signals \intersect {"scheme", "italian", "multiple", "placeholder"} # {}
               ELSE a.org.name # NoName => \E p \in contract'.parties : p.role = Role(a)
  <2>1. CASE a.org \in out BY <1>5, <2>1, WithheldIsNoName
  <2>2. CASE a.org \notin out /\ a.org.name # NoName
    <3>1. PICK i \in DOMAIN awards : a = awards[i] BY <1>3
    <3>2. i \in named BY <1>2, <1>5, <2>2, <3>1 DEF Usable
    <3>3. [id |-> resolved[i], role |-> Role(awards[i])] \in contract'.parties BY <1>1, <3>2
    <3>. QED BY <2>2, <3>1, <3>3
  <2>. QED BY <2>1, <2>2
<1>. DEFINE winners == {i \in DOMAIN resolved : awards[i].winner}
<1>7. /\ winners # {} => Primary \in GmrId \intersect announced
      /\ winners = {} => Primary = NoCompany
  <2>1. winners # {} => Min(winners) \in winners
    <3>1. winners \subseteq Nat BY <1>2, <1>3 DEF Usable
    <3>. QED BY <3>1, MinIsLeast
  <2>2. winners # {} => Primary = resolved[Min(winners)] BY DEF Primary
  <2>3. winners = {} => Primary = NoCompany BY DEF Primary
  <2>. QED BY <2>1, <2>2, <2>3 DEF SupplierInv, ResolvedIsAnnounced
<1>8. Primary # NoCompany <=> winners # {} BY <1>7, NoCompanyAssumption
<1>9. winners # {} <=> \E a \in each : a.winner /\ a.org \notin out
  <2>1. ASSUME NEW i \in winners PROVE \E a \in each : a.winner /\ a.org \notin out
    <3>1. i \in DOMAIN awards /\ ~Withheld(awards[i].org) /\ awards[i].winner
      BY <1>2 DEF Usable
    <3>2. awards[i] \in each BY <1>3, <3>1
    <3>. QED BY <1>5, <3>1, <3>2
  <2>2. ASSUME NEW a \in each, a.winner, a.org \notin out PROVE winners # {}
    <3>1. PICK i \in DOMAIN awards : a = awards[i] BY <1>3
    <3>2. i \in winners BY <1>2, <1>5, <2>2, <3>1 DEF Usable
    <3>. QED BY <3>2
  <2>. QED BY <2>1, <2>2
<1>10. {p.id : p \in contract'.parties} \union ({contract'.primary} \ {NoCompany}) \subseteq announced
  <2>1. \A p \in contract'.parties : p.id \in announced
    BY <1>1 DEF SupplierInv, ResolvedIsAnnounced
  <2>2. contract'.primary = Primary BY <1>1
  <2>. QED BY <1>7, <1>8, <2>1, <2>2
<1>11. Accounted'
  <2>1. contract'.of = awards /\ contract'.primary = Primary /\ ToSet(contract'.of) = each BY <1>1
  <2>. HIDE DEF each, named, winners
  <2>2. (contract'.primary # NoCompany) = (\E a \in each : a.winner /\ a.org \notin out)
    BY <1>8, <1>9, <2>1
  <2>. QED BY <1>1, <1>4, <1>6, <1>10, <2>1, <2>2 DEF Accounted, Role
<1>12. SupplierTypes' BY <1>1 DEF SupplierTypes
<1>. QED BY <1>1, <1>11, <1>12 DEF SupplierInv, ResolvedIsAnnounced, CacheIsKept

LEMMA SuppliersKeep == SupplierInv /\ [SuppliersNext]_supplierVars => SupplierInv'
<1>. SUFFICES ASSUME SupplierInv, [SuppliersNext]_supplierVars PROVE SupplierInv' OBVIOUS
<1>1. CASE UNCHANGED supplierVars
  BY <1>1 DEF supplierVars, SupplierInv, SupplierTypes, Usable, Withheld, ResolvedIsAnnounced,
              CacheIsKept, Accounted
<1>2. CASE SuppliersNext
  BY <1>2, TakeNoticeKeeps, ResolveNextKeeps, EmitContractKeeps DEF SuppliersNext
<1>. QED BY <1>1, <1>2

LEMMA OneCompanyPerVat == SupplierInv => OneIdPerVat
<1>. SUFFICES ASSUME SupplierInv, NEW v \in Vat PROVE Cardinality(idsOf[v]) <= 1
  BY DEF OneIdPerVat
<1>1. idsOf[v] = {} \/ \E id : idsOf[v] = {id}
  BY DEF SupplierInv, CacheIsKept
<1>2. \A id : Cardinality({id}) = 1 BY FS_Singleton
<1>3. Cardinality({}) = 0 BY FS_EmptySet
<1>4. Cardinality(idsOf[v]) \in {0, 1} BY <1>1, <1>2, <1>3
<1>. QED BY <1>4

\* The suppliers of load_ted_contracts.py: every organisation of an emitted
\* contract is a party of it or withheld with a reason, the primary supplier is an
\* announced winner whenever there is one, and one VAT number never gets two
\* companies, for any organisations, candidates, awards and notices.
THEOREM AwardsAreAccountedFor == SuppliersSpec => []AwardsAreAttributed
<1>1. SupplierInv => AwardsAreAttributed
  BY OneCompanyPerVat DEF SupplierInv, AwardsAreAttributed
<1>. QED BY <1>1, SuppliersBegin, SuppliersKeep, PTL DEF SuppliersSpec
=============================================================================
