--------------------------- MODULE ConsoleProofs ---------------------------
(***************************************************************************)
(* Proofs about what operators, reviewers and users are shown: ValueReview, *)
(* RunMonitor, QueryStudio, NutsNames and ContractPages, for any number of *)
(* reviewers, jobs, checks, rows, queries, threads, regions, contracts,    *)
(* merges and failures.                                                    *)
(***************************************************************************)
EXTENDS ValueReview, RunMonitor, QueryStudio, NutsNames, ContractPages,
        FiniteSetTheorems, FunctionTheorems, SequenceTheorems, WellFoundedInduction, TLAPS

----------------------------------------------------------------------------
(* ValueReview: a decision is on the log before the queue shows it, and a  *)
(* value that is withheld is in the queue.                                 *)

(* The inductive invariant.                                                *)

ReviewTypes ==
  /\ events \in Seq(Kind) /\ row \in Row /\ lost \in Nat /\ unqueued \in BOOLEAN
  /\ desk \in [Reviewer -> [at : {"away", "read", "emitted"},
                            decision : Decision \union {"none"}]]

\* A reviewer decides on a row of the queue, and has a decision from then on;
\* there is no decision before there is a row.
DesksSeeRows ==
  \A r \in Reviewer : desk[r].at # "away" => row # NoRow /\ desk[r].decision \in Decision
NoDecisionUnqueued == row = NoRow => \A d \in Decision : ~Logged(d)
EmittedIsLogged ==
  \A r \in Reviewer : desk[r].at = "emitted" => Logged(desk[r].decision)

\* The loader and the back-fill queue a value before they withhold it.
BatchIsQueued ==
  loader = "batch" \/ backfill = "batch" => unqueued \/ row # NoRow

ReviewInv ==
  /\ ReviewTypes /\ DesksSeeRows /\ NoDecisionUnqueued /\ EmittedIsLogged
  /\ BatchIsQueued /\ DecisionIsOnLog /\ WithheldIsQueued

LEMMA Statuses ==
  /\ StatusOf("correct") = "corrected" /\ StatusOf("bogus") = "confirmed_bogus"
  /\ \A d \in Decision : StatusOf(d) \in Row /\ StatusOf(d) \notin {NoRow, "pending"}
  /\ \A d, e \in Decision : StatusOf(d) = StatusOf(e) => d = e
  BY DEF StatusOf, Decision, Row, NoRow

\* An event adds itself to what is logged, and takes nothing away.
LEMMA EmitLogs ==
  ASSUME events \in Seq(Kind), NEW k \in Kind, Emit(k)
  PROVE  /\ events' \in Seq(Kind)
         /\ \A e \in Kind : Logged(e)' <=> Logged(e) \/ e = k
<1>1. events' = Append(events, k)
  BY DEF Emit
<1>2. /\ events' \in Seq(Kind)
      /\ DOMAIN events' = 1..Len(events) + 1 /\ DOMAIN events = 1..Len(events)
      /\ events'[Len(events) + 1] = k
      /\ \A i \in 1..Len(events) : events'[i] = events[i]
  BY <1>1
<1>3. Len(events) + 1 \in DOMAIN events' /\ DOMAIN events \subseteq DOMAIN events'
  BY <1>2
<1>4. \A i \in DOMAIN events' : i \in DOMAIN events \/ i = Len(events) + 1
  BY <1>2
<1>. QED  BY <1>2, <1>3, <1>4 DEF Logged

\* Steps that write neither the log, nor the queue, nor a desk.
LEMMA QuietInv ==
  ASSUME ReviewInv, UNCHANGED <<events, row, desk, unqueued>>, lost' \in Nat, lost' >= lost,
         loader' = "batch" \/ backfill' = "batch" => loader = "batch" \/ backfill = "batch"
  PROVE  ReviewInv'
<1>1. ReviewTypes' /\ DesksSeeRows' /\ NoDecisionUnqueued' /\ EmittedIsLogged'
  BY DEF ReviewInv, ReviewTypes, DesksSeeRows, NoDecisionUnqueued, EmittedIsLogged, Logged
<1>2. BatchIsQueued' /\ WithheldIsQueued'
  BY DEF ReviewInv, BatchIsQueued, WithheldIsQueued, Logged
<1>3. lost > 0 => lost' > 0
  BY DEF ReviewInv, ReviewTypes
<1>4. DecisionIsOnLog'
  BY <1>3 DEF ReviewInv, DecisionIsOnLog, Logged
<1>. QED  BY <1>1, <1>2, <1>4 DEF ReviewInv

\* A job emits an event that is no decision.
LEMMA JobEmitsInv ==
  ASSUME ReviewInv, NEW k \in Kind \ Decision, Emit(k),
         UNCHANGED <<row, desk, lost, unqueued>>,
         loader' = "batch" \/ backfill' = "batch" => loader = "batch" \/ backfill = "batch",
         k = "withheld" => loader = "batch" \/ backfill = "batch"
  PROVE  ReviewInv'
<1>1. /\ events' \in Seq(Kind)
      /\ \A e \in Kind : Logged(e)' <=> Logged(e) \/ e = k
  BY EmitLogs DEF ReviewInv, ReviewTypes
<1>2. Decision \subseteq Kind /\ "withheld" \in Kind
  BY DEF Kind
<1>3. \A d \in Decision : Logged(d)' <=> Logged(d)
  BY <1>1, <1>2
<1>4. ReviewTypes' /\ DesksSeeRows' /\ NoDecisionUnqueued'
  BY <1>1, <1>3 DEF ReviewInv, ReviewTypes, DesksSeeRows, NoDecisionUnqueued
<1>5. EmittedIsLogged'
  BY <1>3 DEF ReviewInv, EmittedIsLogged, DesksSeeRows
<1>6. BatchIsQueued' /\ WithheldIsQueued'
  BY <1>1, <1>2 DEF ReviewInv, BatchIsQueued, WithheldIsQueued
<1>7. DecisionIsOnLog'
  BY <1>3 DEF ReviewInv, DecisionIsOnLog
<1>. QED  BY <1>4, <1>5, <1>6, <1>7 DEF ReviewInv

\* A job queues the notice, or fails to.
LEMMA EnqueueInv ==
  ASSUME ReviewInv, Enqueue, UNCHANGED <<events, desk>>
  PROVE  ReviewInv'
<1>1. /\ row' = row \/ (row = NoRow /\ row' = "pending")
      /\ unqueued' \/ row' # NoRow
      /\ lost' \in Nat /\ lost' >= lost /\ row' \in Row /\ unqueued' \in BOOLEAN
  <2>1. row \in Row /\ lost \in Nat /\ unqueued \in BOOLEAN /\ "pending" \in Row
    BY DEF ReviewInv, ReviewTypes, Row
  <2>2. CASE row' = Enqueued /\ UNCHANGED <<lost, unqueued>>
    <3>1. row' = (IF row = NoRow THEN "pending" ELSE row) /\ lost' = lost
      BY <2>2 DEF Enqueued
    <3>2. unqueued' \in BOOLEAN
      BY <2>1, <2>2
    <3>. QED  BY <2>1, <3>1, <3>2 DEF NoRow
  <2>3. CASE Fail /\ unqueued' = TRUE /\ UNCHANGED row
    <3>1. lost' = lost + 1
      BY <2>3 DEF Fail
    <3>. QED  BY <2>1, <2>3, <3>1
  <2>. QED  BY <2>2, <2>3 DEF Enqueue
<1>2. ReviewTypes'
  BY <1>1 DEF ReviewInv, ReviewTypes
<1>3. DesksSeeRows' /\ NoDecisionUnqueued' /\ EmittedIsLogged' /\ BatchIsQueued'
  BY <1>1 DEF ReviewInv, DesksSeeRows, NoDecisionUnqueued, EmittedIsLogged, BatchIsQueued,
              Logged, NoRow
<1>4. WithheldIsQueued'
  BY <1>1 DEF ReviewInv, WithheldIsQueued, Logged
<1>5. lost > 0 => lost' > 0
  BY <1>1 DEF ReviewInv, ReviewTypes
<1>6. DecisionIsOnLog'
  BY <1>1, <1>5, Statuses DEF ReviewInv, DecisionIsOnLog, NoDecisionUnqueued, Logged
<1>. QED  BY <1>2, <1>3, <1>4, <1>6 DEF ReviewInv

\* A reviewer reads the queue: the row is there, so its value was queued.
LEMMA DeskReadsInv ==
  ASSUME ReviewInv, NEW r \in Reviewer, DeskReads(r)
  PROVE  ReviewInv'
<1>1. PICK d \in Decision : desk' = [desk EXCEPT ![r] = [at |-> "read", decision |-> d]]
  BY DEF DeskReads
<1>2. /\ row = "pending" /\ row # NoRow /\ desk[r].at = "away"
      /\ UNCHANGED <<events, row, loader, backfill, lost, unqueued>>
  BY DEF DeskReads, NoRow
<1>3. desk \in [Reviewer -> [at : {"away", "read", "emitted"},
                             decision : Decision \union {"none"}]]
  BY DEF ReviewInv, ReviewTypes
<1>4. /\ desk'[r] = [at |-> "read", decision |-> d]
      /\ \A q \in Reviewer : q # r => desk'[q] = desk[q]
  BY <1>1, <1>3
<1>5. ReviewTypes'
  BY <1>1, <1>2, <1>3 DEF ReviewInv, ReviewTypes
<1>6. DesksSeeRows' /\ EmittedIsLogged'
  BY <1>2, <1>4 DEF ReviewInv, DesksSeeRows, EmittedIsLogged, Logged
<1>7. NoDecisionUnqueued' /\ BatchIsQueued' /\ WithheldIsQueued'
  BY <1>2 DEF ReviewInv, NoDecisionUnqueued, BatchIsQueued, WithheldIsQueued, Logged
<1>8. DecisionIsOnLog'
  <2>1. ASSUME NEW e \in Decision, Logged(e)
        PROVE  lost > 0 \/ \E q \in Reviewer : desk'[q] = [at |-> "emitted", decision |-> e]
    <3>1. lost > 0 \/ \E q \in Reviewer : desk[q] = [at |-> "emitted", decision |-> e]
      BY <1>2, <2>1 DEF ReviewInv, DecisionIsOnLog
    <3>2. ASSUME NEW q \in Reviewer, desk[q] = [at |-> "emitted", decision |-> e]
          PROVE  desk'[q] = [at |-> "emitted", decision |-> e]
      BY <1>2, <1>4, <3>2
    <3>. QED  BY <3>1, <3>2
  <2>. QED  BY <1>2, <2>1, Statuses DEF DecisionIsOnLog, Logged
<1>. QED  BY <1>5, <1>6, <1>7, <1>8 DEF ReviewInv

\* The decision goes to the log; the desk still has to update the row.
LEMMA DeskEmitsInv ==
  ASSUME ReviewInv, NEW r \in Reviewer, DeskEmits(r)
  PROVE  ReviewInv'
<1>. DEFINE d == desk[r].decision
<1>1. /\ desk \in [Reviewer -> [at : {"away", "read", "emitted"},
                                decision : Decision \union {"none"}]]
      /\ events \in Seq(Kind)
  BY DEF ReviewInv, ReviewTypes
<1>2. /\ desk[r].at = "read" /\ Emit(d) /\ desk' = [desk EXCEPT ![r].at = "emitted"]
      /\ UNCHANGED <<row, loader, backfill, lost, unqueued>>
  BY DEF DeskEmits
<1>3. d \in Decision /\ row # NoRow /\ Decision \subseteq Kind
      /\ "withheld" \in Kind \ Decision
  BY <1>2 DEF ReviewInv, DesksSeeRows, Kind, Decision
<1>4. /\ events' \in Seq(Kind)
      /\ \A e \in Kind : Logged(e)' <=> Logged(e) \/ e = d
  BY <1>1, <1>2, <1>3, EmitLogs
<1>5. /\ desk'[r] = [at |-> "emitted", decision |-> d]
      /\ \A q \in Reviewer : q # r => desk'[q] = desk[q]
  BY <1>1, <1>2
<1>. HIDE DEF d
<1>6. ReviewTypes'
  BY <1>1, <1>2, <1>4 DEF ReviewInv, ReviewTypes
<1>7. DesksSeeRows' /\ EmittedIsLogged'
  <2>1. \A q \in Reviewer : desk[q].at = "emitted" => desk[q].decision \in Kind
    BY <1>3 DEF ReviewInv, DesksSeeRows
  <2>. QED  BY <1>2, <1>3, <1>4, <1>5, <2>1 DEF ReviewInv, DesksSeeRows, EmittedIsLogged
<1>8. NoDecisionUnqueued' /\ BatchIsQueued' /\ WithheldIsQueued'
  BY <1>2, <1>3, <1>4 DEF ReviewInv, NoDecisionUnqueued, BatchIsQueued, WithheldIsQueued
<1>9. DecisionIsOnLog'
  <2>1. ASSUME NEW e \in Decision, Logged(e)', row = "pending"
        PROVE  lost > 0 \/ \E q \in Reviewer : desk'[q] = [at |-> "emitted", decision |-> e]
    <3>1. CASE e = d
      BY <1>5, <3>1
    <3>2. CASE e # d
      <4>1. lost > 0 \/ \E q \in Reviewer : desk[q] = [at |-> "emitted", decision |-> e]
        BY <1>3, <1>4, <2>1, <3>2 DEF ReviewInv, DecisionIsOnLog
      <4>2. ASSUME NEW q \in Reviewer, desk[q] = [at |-> "emitted", decision |-> e]
            PROVE  desk'[q] = [at |-> "emitted", decision |-> e]
        BY <1>2, <1>5, <4>2
      <4>. QED  BY <4>1, <4>2
    <3>. QED  BY <3>1, <3>2
  <2>2. \A e \in Decision : row' = StatusOf(e) => Logged(e)'
    BY <1>2, <1>3, <1>4 DEF ReviewInv, DecisionIsOnLog
  <2>. QED  BY <1>2, <2>1, <2>2 DEF DecisionIsOnLog
<1>. QED  BY <1>6, <1>7, <1>8, <1>9 DEF ReviewInv

\* The row gets a decision that is on the log, or the request dies.
LEMMA DeskLeavesInv ==
  ASSUME ReviewInv, NEW r \in Reviewer, DeskUpdates(r) \/ DeskDies(r)
  PROVE  ReviewInv'
<1>1. /\ desk \in [Reviewer -> [at : {"away", "read", "emitted"},
                                decision : Decision \union {"none"}]]
      /\ desk' = [desk EXCEPT ![r] = Away]
      /\ UNCHANGED <<events, loader, backfill, unqueued>>
  BY DEF ReviewInv, ReviewTypes, DeskUpdates, DeskDies
<1>2. /\ desk'[r] = Away /\ Away.at = "away"
      /\ \A q \in Reviewer : q # r => desk'[q] = desk[q]
  BY <1>1 DEF Away
<1>3. desk' \in [Reviewer -> [at : {"away", "read", "emitted"},
                              decision : Decision \union {"none"}]]
  BY <1>1 DEF Away
<1>4. row # NoRow
  BY DEF ReviewInv, DesksSeeRows, DeskUpdates, DeskDies
<1>5. CASE DeskUpdates(r)
  <2>1. /\ row' = StatusOf(desk[r].decision) /\ lost' = lost
        /\ desk[r].decision \in Decision /\ Logged(desk[r].decision)
    BY <1>5 DEF DeskUpdates, ReviewInv, DesksSeeRows, EmittedIsLogged
  <2>2. row' \in Row /\ row' # NoRow /\ row' # "pending"
    BY <2>1, Statuses
  <2>3. ReviewTypes' /\ DesksSeeRows' /\ NoDecisionUnqueued' /\ EmittedIsLogged'
    BY <1>1, <1>2, <1>3, <2>1, <2>2
    DEF ReviewInv, ReviewTypes, DesksSeeRows, NoDecisionUnqueued, EmittedIsLogged, Logged
  <2>4. BatchIsQueued' /\ WithheldIsQueued'
    BY <2>2 DEF BatchIsQueued, WithheldIsQueued
  <2>5. DecisionIsOnLog'
    BY <1>1, <2>1, <2>2, Statuses DEF DecisionIsOnLog, Logged
  <2>. QED  BY <2>3, <2>4, <2>5 DEF ReviewInv
<1>6. CASE DeskDies(r)
  <2>1. row' = row /\ lost' = lost + 1 /\ lost \in Nat
    BY <1>6 DEF DeskDies, Fail, ReviewInv, ReviewTypes
  <2>2. lost' \in Nat /\ lost' > 0
    BY <2>1
  <2>3. ReviewTypes' /\ DesksSeeRows' /\ NoDecisionUnqueued' /\ EmittedIsLogged'
    BY <1>1, <1>2, <1>3, <1>4, <2>1, <2>2
    DEF ReviewInv, ReviewTypes, DesksSeeRows, NoDecisionUnqueued, EmittedIsLogged, Logged
  <2>4. BatchIsQueued' /\ WithheldIsQueued'
    BY <1>4, <2>1 DEF BatchIsQueued, WithheldIsQueued
  <2>5. DecisionIsOnLog'
    BY <1>1, <2>1, <2>2 DEF ReviewInv, DecisionIsOnLog, Logged
  <2>. QED  BY <2>3, <2>4, <2>5 DEF ReviewInv
<1>. QED  BY <1>5, <1>6

LEMMA ReviewInitInv == ReviewInit => ReviewInv
<1>. SUFFICES ASSUME ReviewInit PROVE ReviewInv
  OBVIOUS
<1>1. Away.at = "away" /\ Away \in [at : {"away", "read", "emitted"},
                                    decision : Decision \union {"none"}]
  BY DEF Away
<1>2. events \in Seq(Kind)
  <2>1. "claimed" \in Kind
    BY DEF Kind
  <2>2. <<>> \in Seq(Kind) /\ <<"claimed">> \in Seq(Kind)
    BY <2>1
  <2>. QED  BY <2>2 DEF ReviewInit
<1>3. \A k \in Decision \union {"withheld"} : ~Logged(k)
  BY DEF ReviewInit, Logged, Decision
<1>4. ReviewTypes
  BY <1>1, <1>2 DEF ReviewInit, ReviewTypes, Row
<1>5. DesksSeeRows /\ NoDecisionUnqueued /\ EmittedIsLogged /\ BatchIsQueued
  BY <1>1, <1>3 DEF ReviewInit, DesksSeeRows, NoDecisionUnqueued, EmittedIsLogged,
                    BatchIsQueued
<1>6. DecisionIsOnLog /\ WithheldIsQueued
  BY <1>3, Statuses DEF ReviewInit, DecisionIsOnLog, WithheldIsQueued
<1>. QED  BY <1>4, <1>5, <1>6 DEF ReviewInv

LEMMA ReviewNextInv == ReviewInv /\ [ReviewNext]_reviewVars => ReviewInv'
<1>. SUFFICES ASSUME ReviewInv, [ReviewNext]_reviewVars PROVE ReviewInv'
  OBVIOUS
<1>1. lost \in Nat /\ lost + 1 \in Nat /\ lost + 1 >= lost
  BY DEF ReviewInv, ReviewTypes
<1>2. CASE Render \/ LoaderRollsBack \/ ScalerReads
  BY <1>1, <1>2, QuietInv DEF Render, LoaderRollsBack, ScalerReads, Fail
<1>3. CASE LoaderWithholds \/ BackfillScans
  BY <1>3, EnqueueInv DEF LoaderWithholds, BackfillScans
<1>4. CASE LoaderCommits \/ BackfillCommits
  <2>1. "withheld" \in Kind \ Decision
    BY DEF Kind, Decision
  <2>. QED  BY <1>4, <2>1, JobEmitsInv DEF LoaderCommits, BackfillCommits
<1>5. CASE LoaderPublishes \/ ScalerEmits
  <2>1. "sane" \in Kind \ Decision /\ "scaled" \in Kind \ Decision
    BY DEF Kind, Decision
  <2>. QED  BY <1>5, <2>1, JobEmitsInv DEF LoaderPublishes, ScalerEmits
<1>6. CASE \E r \in Reviewer :
             DeskReads(r) \/ DeskEmits(r) \/ DeskUpdates(r) \/ DeskDies(r)
  BY <1>6, DeskReadsInv, DeskEmitsInv, DeskLeavesInv
<1>7. CASE UNCHANGED reviewVars
  BY <1>1, <1>7, QuietInv DEF reviewVars
<1>. QED  BY <1>2, <1>3, <1>4, <1>5, <1>6, <1>7 DEF ReviewNext

\* A row of the queue shows a decision only with the decision on the log, and
\* a logged decision is shown, but for requests between their two commits and
\* those that failed.
THEOREM DecisionsAreLogged == ReviewSpec => []DecisionIsOnLog
<1>1. ReviewInv => DecisionIsOnLog
  BY DEF ReviewInv
<1>. QED  BY <1>1, ReviewInitInv, ReviewNextInv, PTL DEF ReviewSpec

\* Nor is a value withheld on the log without a row in the queue, unless the
\* insert itself failed.
THEOREM QueueFollowsLog == ReviewSpec => []QueueMatchesLog
<1>1. ReviewInv => QueueMatchesLog
  BY DEF ReviewInv, QueueMatchesLog
<1>. QED  BY <1>1, ReviewInitInv, ReviewNextInv, PTL DEF ReviewSpec

----------------------------------------------------------------------------
(* RunMonitor: the newest row of a job tells how its execution went, and the *)
(* page of the checks counts back to the run where a check began to fail.  *)

RunStatus == {"running", "success", "failed", "crashed"}
RunRow == [job : Job, started : Nat, status : RunStatus]
Phase == {"none", "starts", "runs", "exits0", "exits1"}
Outcome == {"never", "never started", "complete", "failed", "failed off the record"}

RunsType ==
  /\ clock \in Nat /\ missed \in Nat
  /\ etlRuns \in Seq(RunRow)
  /\ jobs \in [Job -> [since : Int, pods : Nat]]
  /\ pod \in [Job -> Phase] /\ podRow \in [Job -> Nat]
  /\ ended \in [Job -> Outcome]

\* Its deadline reaches the reaper, or is not beyond the reaper's default.
Covered(j) == j \in HandsOver \/ Deadline[j] <= DefaultDeadline

\* Row i is the newest of j.
IsNewest(i, j) ==
  /\ i \in DOMAIN etlRuns /\ etlRuns[i].job = j
  /\ \A k \in DOMAIN etlRuns : k > i => etlRuns[k].job # j

\* The newest row of j says one of S.
Tells(j, S) == \E i \in DOMAIN etlRuns : IsNewest(i, j) /\ etlRuns[i].status \in S

Execution(j) ==
  Active(j) =>
    /\ jobs[j].since >= 0 /\ jobs[j].since <= clock /\ clock <= jobs[j].since + Deadline[j]
    /\ jobs[j].pods # 0 /\ j \in onRecord => Tells(j, RunStatus \ {"success"})

LivePod(j) ==
  /\ pod[j] # "none" => Active(j) /\ jobs[j].pods # 0
  /\ pod[j] = "runs" =>
       /\ j \in onRecord /\ IsNewest(podRow[j], j)
       /\ jobs[j].since <= etlRuns[podRow[j]].started
       /\ Covered(j) => etlRuns[podRow[j]].status = "running"
  /\ pod[j] = "exits0" /\ Covered(j) => Tells(j, {"success"})

Ending(j) ==
  ~Active(j) =>
    /\ ended[j] = "failed" => Tells(j, RunStatus \ {"success"})
    /\ ended[j] = "complete" /\ Covered(j) => Tells(j, {"success"})

OpenRow(i) ==
  etlRuns[i].status = "running" =>
    /\ clock <= etlRuns[i].started + RowDeadline(etlRuns[i]) + missed + 1
    /\ reaped => clock <= etlRuns[i].started + RowDeadline(etlRuns[i]) + missed

RunsInv ==
  /\ RunsType
  /\ \A j \in Job : Execution(j) /\ LivePod(j) /\ Ending(j)
  /\ \A i \in DOMAIN etlRuns : OpenRow(i)

LEMMA RowDeadlineType ==
  ASSUME NEW r \in RunRow PROVE RowDeadline(r) \in Nat /\ RowDeadline(r) < StuckAfter
<1>1. r.job \in Job BY DEF RunRow
<1>. QED BY <1>1, RunMonitorAssumption DEF RowDeadline

\* Rows that change in nothing but their status.
LEMMA SameRows ==
  ASSUME RunsType, NEW j \in Job, NEW S, NEW T,
         etlRuns' \in Seq(RunRow), Len(etlRuns') = Len(etlRuns),
         \A i \in 1..Len(etlRuns) :
           /\ etlRuns'[i].job = etlRuns[i].job
           /\ etlRuns[i].job = j /\ etlRuns[i].status \in S => etlRuns'[i].status \in T
  PROVE /\ \A i \in DOMAIN etlRuns : IsNewest(i, j) => IsNewest(i, j)'
        /\ Tells(j, S) => Tells(j, T)'
<1>1. DOMAIN etlRuns = 1..Len(etlRuns) /\ DOMAIN etlRuns' = 1..Len(etlRuns)
  BY LenProperties DEF RunsType
<1>2. \A i \in DOMAIN etlRuns : IsNewest(i, j) => IsNewest(i, j)' BY <1>1 DEF IsNewest
<1>. QED BY <1>1, <1>2 DEF Tells, IsNewest

LEMMA AddedRow ==
  ASSUME RunsType, NEW r \in RunRow, etlRuns' = Append(etlRuns, r)
  PROVE /\ etlRuns' \in Seq(RunRow) /\ Len(etlRuns') = Len(etlRuns) + 1
        /\ DOMAIN etlRuns = 1..Len(etlRuns) /\ DOMAIN etlRuns' = 1..Len(etlRuns) + 1
        /\ Len(etlRuns) \in Nat
        /\ \A i \in 1..Len(etlRuns) : etlRuns'[i] = etlRuns[i]
        /\ etlRuns'[Len(etlRuns) + 1] = r
<1>1. etlRuns \in Seq(RunRow) BY DEF RunsType
<1>2. /\ Append(etlRuns, r) \in Seq(RunRow) /\ Len(Append(etlRuns, r)) = Len(etlRuns) + 1
      /\ \A i \in 1..Len(etlRuns) : Append(etlRuns, r)[i] = etlRuns[i]
      /\ Append(etlRuns, r)[Len(etlRuns) + 1] = r
  BY <1>1, AppendProperties
<1>3. DOMAIN etlRuns = 1..Len(etlRuns) /\ Len(etlRuns) \in Nat BY <1>1, LenProperties
<1>4. DOMAIN Append(etlRuns, r) = 1..Len(etlRuns) + 1 BY <1>2, LenProperties
<1>. QED BY <1>2, <1>3, <1>4

LEMMA NotActiveType == NotActive \in [since : Int, pods : Nat] BY DEF NotActive

LEMMA RunsInitially == RunsInit => RunsInv
<1>. SUFFICES ASSUME RunsInit PROVE RunsInv OBVIOUS
<1>1. etlRuns \in Seq(RunRow) /\ DOMAIN etlRuns = {} BY EmptySeq DEF RunsInit
<1>2. RunsType BY <1>1 DEF RunsInit, RunsType, NotActive, Phase, Outcome
<1>3. ASSUME NEW j \in Job PROVE Execution(j) /\ LivePod(j) /\ Ending(j)
  BY <1>3 DEF RunsInit, Execution, LivePod, Ending, Active
<1>. QED BY <1>1, <1>2, <1>3 DEF RunsInv

\* The rows, and the clock, of a step that concerns the execution of one job.
LEMMA FiresKeeps ==
  ASSUME RunsInv, NEW j \in Job, Fires(j) PROVE RunsInv'
<1>0. RunsType BY DEF RunsInv
<1>1. /\ jobs' = [jobs EXCEPT ![j] = [since |-> clock, pods |-> 0]] /\ ~Active(j)
      /\ ended' = [ended EXCEPT ![j] = "never"]
      /\ UNCHANGED <<clock, pod, podRow, etlRuns, onRecord, reaped, missed>>
  BY DEF Fires
<1>2. RunsType'
  <2>0. clock \in Nat BY <1>0 DEF RunsType
  <2>1. [since |-> clock, pods |-> 0] \in [since : Int, pods : Nat] BY <2>0
  <2>2. ended' \in [Job -> Outcome] BY <1>0, <1>1 DEF RunsType, Outcome
  <2>. QED BY <1>0, <1>1, <2>1, <2>2 DEF RunsType
<1>3. ASSUME NEW k \in Job PROVE Execution(k)' /\ LivePod(k)' /\ Ending(k)'
  <2>0. Execution(k) /\ LivePod(k) /\ Ending(k) BY DEF RunsInv
  <2>1. CASE k # j
    <3>1. jobs'[k] = jobs[k] /\ ended'[k] = ended[k] BY <1>0, <1>1, <2>1 DEF RunsType
    <3>2. \A S : Tells(k, S) => Tells(k, S)' BY <1>1 DEF Tells, IsNewest
    <3>3. Execution(k)' BY <1>1, <2>0, <3>1, <3>2 DEF Execution, Active
    <3>4. Ending(k)' BY <1>1, <2>0, <3>1, <3>2 DEF Ending, Active
    <3>5. LivePod(k)' BY <1>1, <2>0, <3>1, <3>2 DEF LivePod, Active, IsNewest, Covered
    <3>. QED BY <3>3, <3>4, <3>5
  <2>2. CASE k = j
    <3>1. jobs'[k] = [since |-> clock, pods |-> 0] BY <1>0, <1>1, <2>2 DEF RunsType
    <3>2. pod'[k] = "none" BY <1>1, <2>0, <2>2 DEF LivePod
    <3>3. clock \in Nat /\ clock' = clock BY <1>0, <1>1 DEF RunsType
    <3>4. jobs'[k].since = clock /\ jobs'[k].pods = 0 BY <3>1
    <3>5. Active(k)' BY <3>3, <3>4 DEF Active, NotActive
    <3>6. Deadline[k] \in Nat BY RunMonitorAssumption
    <3>. QED BY <3>2, <3>3, <3>4, <3>5, <3>6 DEF Execution, LivePod, Ending
  <2>. QED BY <2>1, <2>2
<1>4. ASSUME NEW i \in DOMAIN etlRuns' PROVE OpenRow(i)'
  <2>1. i \in DOMAIN etlRuns BY <1>1
  <2>2. OpenRow(i) BY <2>1 DEF RunsInv
  <2>. QED BY <1>1, <2>2 DEF OpenRow
<1>. QED BY <1>2, <1>3, <1>4 DEF RunsInv

LEMMA StartPodKeeps ==
  ASSUME RunsInv, NEW j \in Job, StartPod(j) PROVE RunsInv'
<1>0. RunsType BY DEF RunsInv
<1>1. /\ jobs' = [jobs EXCEPT ![j].pods = @ + 1] /\ Active(j) /\ pod[j] = "none"
      /\ pod' = [pod EXCEPT ![j] = "starts"] /\ onRecord' = onRecord \ {j}
      /\ UNCHANGED <<clock, podRow, etlRuns, ended, reaped, missed>>
  BY DEF StartPod
<1>2. jobs \in [Job -> [since : Int, pods : Nat]] /\ pod \in [Job -> Phase] BY <1>0 DEF RunsType
<1>3. RunsType'
  <2>1. jobs' \in [Job -> [since : Int, pods : Nat]] BY <1>1, <1>2, SMTT(30)
  <2>2. pod' \in [Job -> Phase] BY <1>1, <1>2 DEF Phase
  <2>. QED BY <1>0, <1>1, <2>1, <2>2 DEF RunsType
<1>4. ASSUME NEW k \in Job PROVE Execution(k)' /\ LivePod(k)' /\ Ending(k)'
  <2>0. Execution(k) /\ LivePod(k) /\ Ending(k) BY DEF RunsInv
  <2>1. \A S : Tells(k, S) => Tells(k, S)' BY <1>1 DEF Tells, IsNewest
  <2>2. CASE k # j
    <3>1. jobs'[k] = jobs[k] /\ pod'[k] = pod[k] /\ (k \in onRecord' <=> k \in onRecord)
      BY <1>1, <1>2, <2>2
    <3>2. Execution(k)' BY <1>1, <2>0, <2>1, <3>1 DEF Execution, Active
    <3>3. Ending(k)' BY <1>1, <2>0, <2>1, <3>1 DEF Ending, Active
    <3>4. LivePod(k)' BY <1>1, <2>0, <2>1, <3>1 DEF LivePod, Active, IsNewest, Covered
    <3>. QED BY <3>2, <3>3, <3>4
  <2>3. CASE k = j
    <3>1. jobs'[k].since = jobs[k].since /\ jobs'[k].pods = jobs[k].pods + 1
          /\ pod'[k] = "starts" /\ k \notin onRecord'
      BY <1>1, <1>2, <2>3
    <3>2. Active(k) /\ jobs[k].since >= 0 BY <1>1, <2>0, <2>3 DEF Execution
    <3>3. jobs[k].pods \in Nat BY <1>2
    <3>4. Active(k)' BY <3>1, <3>2 DEF Active, NotActive
    <3>5. Execution(k)' BY <1>1, <2>0, <3>1, <3>2 DEF Execution
    <3>. QED BY <3>1, <3>3, <3>4, <3>5 DEF LivePod, Ending
  <2>. QED BY <2>2, <2>3
<1>5. ASSUME NEW i \in DOMAIN etlRuns' PROVE OpenRow(i)'
  <2>1. OpenRow(i) BY <1>1 DEF RunsInv
  <2>. QED BY <1>1, <2>1 DEF OpenRow
<1>. QED BY <1>3, <1>4, <1>5 DEF RunsInv

LEMMA OpenRunLogKeeps ==
  ASSUME RunsInv, NEW j \in Job, OpenRunLog(j) PROVE RunsInv'
<1>0. RunsType BY DEF RunsInv
<1>r. PICK r : r = [job |-> j, started |-> clock, status |-> "running"] OBVIOUS
<1>n. PICK n \in Nat : n = Len(etlRuns) BY <1>0, LenProperties DEF RunsType
<1>1. /\ pod[j] = "starts" /\ pod' = [pod EXCEPT ![j] = "runs"]
      /\ etlRuns' = Append(etlRuns, r)
      /\ podRow' = [podRow EXCEPT ![j] = Len(etlRuns')]
      /\ onRecord' = onRecord \union {j}
      /\ UNCHANGED <<clock, jobs, ended, reaped, missed>>
  BY <1>r DEF OpenRunLog
<1>2. r \in RunRow BY <1>0, <1>r DEF RunRow, RunsType, RunStatus
<1>3. /\ etlRuns' \in Seq(RunRow) /\ Len(etlRuns') = n + 1
      /\ DOMAIN etlRuns = 1..n /\ DOMAIN etlRuns' = 1..n + 1
      /\ \A i \in 1..n : etlRuns'[i] = etlRuns[i]
      /\ etlRuns'[n + 1] = r
  BY <1>0, <1>1, <1>2, <1>n, AddedRow
<1>4. r.job = j /\ r.started = clock /\ r.status = "running" BY <1>r
<1>5. podRow' = [podRow EXCEPT ![j] = n + 1] BY <1>1, <1>3
<1>6. RunsType'
  <2>1. pod' \in [Job -> Phase] BY <1>0, <1>1 DEF RunsType, Phase
  <2>3. podRow \in [Job -> Nat] BY <1>0 DEF RunsType
  <2>4. podRow' \in [Job -> Nat] BY <1>5, <2>3
  <2>5. etlRuns' \in Seq(RunRow) BY <1>3
  <2>. QED BY <1>0, <1>1, <2>1, <2>4, <2>5 DEF RunsType
<1>7. ASSUME NEW k \in Job PROVE Execution(k)' /\ LivePod(k)' /\ Ending(k)'
  <2>0. Execution(k) /\ LivePod(k) /\ Ending(k) BY DEF RunsInv
  <2>1. CASE k # j
    <3>1. /\ jobs'[k] = jobs[k] /\ pod'[k] = pod[k] /\ podRow'[k] = podRow[k]
          /\ ended'[k] = ended[k] /\ (k \in onRecord' <=> k \in onRecord)
      BY <1>0, <1>1, <1>5, <2>1 DEF RunsType
    <3>2. \A i \in DOMAIN etlRuns : IsNewest(i, k) => IsNewest(i, k)'
      BY <1>3, <1>4, <2>1 DEF IsNewest
    <3>3. \A S : Tells(k, S) => Tells(k, S)' BY <1>3, <3>2 DEF Tells
    <3>4. Execution(k)' BY <1>1, <2>0, <3>1, <3>3 DEF Execution, Active
    <3>5. Ending(k)' BY <1>1, <2>0, <3>1, <3>3 DEF Ending, Active
    <3>6. LivePod(k)'
      BY <1>1, <1>3, <2>0, <3>1, <3>2, <3>3, SMTT(30) DEF LivePod, Active, IsNewest, Covered
    <3>. QED BY <3>4, <3>5, <3>6
  <2>2. CASE k = j
    <3>1. pod'[k] = "runs" /\ podRow'[k] = n + 1 /\ k \in onRecord' /\ jobs'[k] = jobs[k]
      BY <1>0, <1>1, <1>5, <2>2 DEF RunsType
    <3>2. Active(k) /\ jobs[k].pods # 0 /\ jobs[k].since <= clock
      BY <1>1, <2>0, <2>2 DEF LivePod, Execution
    <3>4. Active(k)' BY <3>1, <3>2 DEF Active
    <3>5. IsNewest(n + 1, k)' BY <1>3, <1>4, <2>2 DEF IsNewest
    <3>6. Tells(k, RunStatus \ {"success"})' BY <1>3, <1>4, <3>5 DEF Tells, RunStatus
    <3>7. Execution(k)' BY <1>1, <2>0, <3>1, <3>2, <3>6 DEF Execution
    <3>r. n + 1 \in 1..n + 1 BY <1>n
    <3>p. IsNewest(podRow[k], k)' BY <3>1, <3>5 DEF IsNewest
    <3>s. etlRuns'[podRow'[k]].started = clock /\ etlRuns'[podRow'[k]].status = "running"
      BY <1>3, <1>4, <3>1
    <3>8. LivePod(k)' BY <3>1, <3>2, <3>4, <3>p, <3>s DEF LivePod
    <3>9. Ending(k)' BY <3>4 DEF Ending
    <3>. QED BY <3>7, <3>8, <3>9
  <2>. QED BY <2>1, <2>2
<1>8. ASSUME NEW i \in DOMAIN etlRuns' PROVE OpenRow(i)'
  <2>1. CASE i = n + 1
    <3>1. RowDeadline(r) \in Nat BY <1>2, RowDeadlineType
    <3>2. clock' = clock /\ clock \in Nat /\ missed' = missed /\ missed \in Nat
      BY <1>0, <1>1 DEF RunsType
    <3>3. etlRuns'[i] = r BY <1>3, <2>1
    <3>. QED BY <1>4, <3>1, <3>2, <3>3 DEF OpenRow
  <2>2. CASE i \in 1..n
    <3>1. OpenRow(i) BY <1>3, <2>2 DEF RunsInv
    <3>. QED BY <1>1, <1>3, <2>2, <3>1 DEF OpenRow
  <2>. QED BY <1>3, <2>1, <2>2
<1>. QED BY <1>6, <1>7, <1>8 DEF RunsInv

\* Job j is over, or has no pod for the moment.
LEMMA PodEndsKeeps ==
  ASSUME RunsInv, NEW j \in Job, NEW exitCode, PodEnds(j, exitCode), pod[j] # "none",
         exitCode = 0 => pod[j] = "exits0"
  PROVE RunsInv'
<1>0. RunsType BY DEF RunsInv
<1>1. /\ jobs \in [Job -> [since : Int, pods : Nat]] /\ ended \in [Job -> Outcome]
      /\ pod \in [Job -> Phase] /\ podRow \in [Job -> Nat]
  BY <1>0 DEF RunsType
<1>2. /\ pod' = [pod EXCEPT ![j] = "none"] /\ podRow' = [podRow EXCEPT ![j] = 0]
      /\ UNCHANGED <<clock, etlRuns, reaped, missed>>
  BY DEF PodEnds, NoPod
<1>3. Execution(j) /\ LivePod(j) /\ Ending(j) BY DEF RunsInv
<1>4. Active(j) /\ jobs[j].pods # 0 BY <1>3 DEF LivePod
<1>e. PICK how \in Outcome : how = IF exitCode = 0 THEN "complete" ELSE Failure(j)
  BY DEF Outcome, Failure
<1>5. \/ /\ jobs' = [jobs EXCEPT ![j] = NotActive] /\ onRecord' = onRecord \ {j}
         /\ ended' = [ended EXCEPT ![j] = how]
      \/ exitCode # 0 /\ UNCHANGED <<jobs, ended, onRecord>>
  BY <1>e DEF PodEnds, Over
<1>6. jobs' \in [Job -> [since : Int, pods : Nat]] /\ ended' \in [Job -> Outcome]
  <2>1. CASE jobs' = [jobs EXCEPT ![j] = NotActive] /\ ended' = [ended EXCEPT ![j] = how]
    <3>1. PICK none \in [since : Int, pods : Nat] : none = NotActive BY NotActiveType
    <3>2. jobs' = [jobs EXCEPT ![j] = none] BY <2>1, <3>1
    <3>. QED BY <1>1, <2>1, <3>2
  <2>2. CASE UNCHANGED <<jobs, ended>> BY <2>2, <1>1
  <2>. QED BY <2>1, <2>2, <1>5
<1>7. RunsType'
  <2>1. pod' \in [Job -> Phase] BY <1>1, <1>2 DEF Phase
  <2>2. podRow' \in [Job -> Nat] BY <1>1, <1>2
  <2>. QED BY <1>0, <1>2, <1>6, <2>1, <2>2 DEF RunsType
<1>8. \A S : \A k \in Job : Tells(k, S) => Tells(k, S)' BY <1>2 DEF Tells, IsNewest
<1>9. ASSUME NEW k \in Job, k # j PROVE Execution(k)' /\ LivePod(k)' /\ Ending(k)'
  <2>0. Execution(k) /\ LivePod(k) /\ Ending(k) BY DEF RunsInv
  <2>1. /\ jobs'[k] = jobs[k] /\ pod'[k] = pod[k] /\ podRow'[k] = podRow[k]
        /\ ended'[k] = ended[k] /\ (k \in onRecord' <=> k \in onRecord)
    BY <1>1, <1>2, <1>5, <1>9
  <2>2. Execution(k)' BY <1>2, <1>8, <2>0, <2>1 DEF Execution, Active
  <2>3. Ending(k)' BY <1>8, <2>0, <2>1 DEF Ending, Active
  <2>4. LivePod(k)' BY <1>2, <1>8, <2>0, <2>1 DEF LivePod, Active, IsNewest, Covered
  <2>. QED BY <2>2, <2>3, <2>4
<1>10. Execution(j)' /\ LivePod(j)' /\ Ending(j)'
  <2>1. pod'[j] = "none" BY <1>1, <1>2
  <2>2. exitCode = 0 /\ Covered(j) => Tells(j, {"success"})' BY <1>3, <1>8 DEF LivePod
  <2>3. j \in onRecord => Tells(j, RunStatus \ {"success"})' BY <1>3, <1>4, <1>8 DEF Execution
  <2>4. CASE /\ jobs' = [jobs EXCEPT ![j] = NotActive]
             /\ ended' = [ended EXCEPT ![j] = how]
    <3>1. jobs'[j] = NotActive /\ ended'[j] = how BY <1>1, <2>4
    <3>2. ~Active(j)' BY <3>1 DEF Active, NotActive
    <3>3. Covered(j)' <=> Covered(j) BY DEF Covered
    <3>4. how = "failed" => j \in onRecord BY <1>e DEF Failure
    <3>5. how = "complete" => exitCode = 0 BY <1>e DEF Failure
    <3>. QED BY <2>1, <2>2, <2>3, <3>1, <3>2, <3>3, <3>4, <3>5 DEF Execution, LivePod, Ending
  <2>5. CASE exitCode # 0 /\ UNCHANGED <<jobs, ended, onRecord>>
    <3>1. Active(j)' BY <1>4, <2>5 DEF Active
    <3>. QED BY <1>2, <1>3, <1>4, <2>1, <2>3, <2>5, <3>1 DEF Execution, LivePod, Ending
  <2>. QED BY <1>5, <2>4, <2>5
<1>11. ASSUME NEW i \in DOMAIN etlRuns' PROVE OpenRow(i)'
  <2>1. OpenRow(i) BY <1>2 DEF RunsInv
  <2>. QED BY <1>2, <2>1 DEF OpenRow
<1>. QED BY <1>7, <1>9, <1>10, <1>11 DEF RunsInv

LEMMA PodGoneKeeps ==
  ASSUME RunsInv, NEW j \in Job, PodExits(j) \/ RunLogFails(j) \/ PodKilled(j) PROVE RunsInv'
<1>1. PICK exitCode \in {0, 1, 137} :
        /\ PodEnds(j, exitCode) /\ pod[j] # "none"
        /\ exitCode = 0 => pod[j] = "exits0"
  BY DEF PodExits, RunLogFails, PodKilled
<1>. QED BY <1>1, PodEndsKeeps

\* The row of a pod that runs says no success.
LEMMA LiveRow ==
  ASSUME RunsInv, NEW j \in Job, pod[j] = "runs"
  PROVE /\ podRow[j] \in 1..Len(etlRuns) /\ etlRuns[podRow[j]] \in RunRow
        /\ IsNewest(podRow[j], j) /\ j \in onRecord
        /\ etlRuns[podRow[j]].status # "success"
        /\ Covered(j) => etlRuns[podRow[j]].status = "running"
<1>1. etlRuns \in Seq(RunRow) BY DEF RunsInv, RunsType
<1>2. DOMAIN etlRuns = 1..Len(etlRuns) /\ Len(etlRuns) \in Nat BY <1>1, LenProperties
<1>3. Execution(j) /\ LivePod(j) BY DEF RunsInv
<1>4. /\ IsNewest(podRow[j], j) /\ Tells(j, RunStatus \ {"success"}) /\ j \in onRecord
      /\ Covered(j) => etlRuns[podRow[j]].status = "running"
  BY <1>3 DEF Execution, LivePod
<1>5. PICK i \in DOMAIN etlRuns : IsNewest(i, j) /\ etlRuns[i].status # "success"
  BY <1>4 DEF Tells
<1>6. i = podRow[j] BY <1>2, <1>4, <1>5 DEF IsNewest
<1>7. podRow[j] \in 1..Len(etlRuns) BY <1>2, <1>4 DEF IsNewest
<1>. QED BY <1>1, <1>4, <1>5, <1>6, <1>7, ElementOfSeq

LEMMA LoaderEndsKeeps ==
  ASSUME RunsInv, NEW j \in Job, LoaderEnds(j) PROVE RunsInv'
<1>0. RunsType BY DEF RunsInv
<1>p. PICK p : p = podRow[j] OBVIOUS
<1>1. PICK outcome \in {"zero", "nonzero", "raises"} :
        /\ \E status \in ({etlRuns[podRow[j]].status} \ {"running"}) \union {Recorded(outcome)} :
             etlRuns' = [etlRuns EXCEPT ![podRow[j]].status = status]
        /\ pod' = [pod EXCEPT ![j] = IF outcome = "zero" THEN "exits0" ELSE "exits1"]
        /\ onRecord' = IF outcome = "zero" THEN onRecord \ {j} ELSE onRecord
  BY DEF LoaderEnds
<1>2. PICK status \in ({etlRuns[p].status} \ {"running"}) \union {Recorded(outcome)} :
        etlRuns' = [etlRuns EXCEPT ![p].status = status]
  BY <1>1, <1>p
<1>3. /\ pod[j] = "runs" /\ podRow' = [podRow EXCEPT ![j] = 0]
      /\ UNCHANGED <<clock, jobs, ended, reaped, missed>>
  BY DEF LoaderEnds
<1>4. /\ p \in 1..Len(etlRuns) /\ etlRuns[p] \in RunRow /\ etlRuns[p].status # "success"
      /\ IsNewest(p, j) /\ (Covered(j) => etlRuns[p].status = "running")
  BY <1>3, <1>p, LiveRow
<1>5. /\ status \in RunStatus /\ status # "running"
      /\ outcome = "zero" /\ Covered(j) => status = "success"
      /\ outcome # "zero" => status # "success"
  BY <1>2, <1>4 DEF RunRow, RunStatus, Recorded
<1>6. etlRuns \in Seq(RunRow) BY <1>0 DEF RunsType
<1>7. PICK r : r = [etlRuns[p] EXCEPT !.status = status] OBVIOUS
<1>8. r \in RunRow BY <1>4, <1>5, <1>7 DEF RunRow
<1>9. r.job = etlRuns[p].job /\ r.started = etlRuns[p].started /\ r.status = status
  BY <1>4, <1>7 DEF RunRow
<1>10. etlRuns' = [etlRuns EXCEPT ![p] = r] BY <1>2, <1>7
<1>11. /\ [etlRuns EXCEPT ![p] = r] \in Seq(RunRow)
       /\ Len([etlRuns EXCEPT ![p] = r]) = Len(etlRuns)
       /\ \A i \in 1..Len(etlRuns) :
            [etlRuns EXCEPT ![p] = r][i] = IF i = p THEN r ELSE etlRuns[i]
  BY <1>4, <1>6, <1>8, ExceptSeq
<1>12. /\ etlRuns' \in Seq(RunRow) /\ Len(etlRuns') = Len(etlRuns)
       /\ \A i \in 1..Len(etlRuns) : etlRuns'[i] = IF i = p THEN r ELSE etlRuns[i]
  BY <1>10, <1>11
<1>13. \A i \in 1..Len(etlRuns) :
         /\ etlRuns'[i].job = etlRuns[i].job /\ etlRuns'[i].started = etlRuns[i].started
         /\ i # p => etlRuns'[i] = etlRuns[i]
         /\ etlRuns'[i].status = "running" => etlRuns[i].status = "running"
  BY <1>5, <1>9, <1>12
<1>14. etlRuns'[p].status = status BY <1>4, <1>9, <1>12
<1>15. DOMAIN etlRuns = 1..Len(etlRuns) /\ DOMAIN etlRuns' = 1..Len(etlRuns)
  <2>1. DOMAIN etlRuns = 1..Len(etlRuns) BY <1>6, LenProperties
  <2>2. DOMAIN etlRuns' = 1..Len(etlRuns') BY <1>12, LenProperties
  <2>. QED BY <1>12, <2>1, <2>2
<1>16. RunsType'
  <2>1. pod' \in [Job -> Phase] BY <1>0, <1>1 DEF RunsType, Phase
  <2>2. podRow' \in [Job -> Nat] BY <1>0, <1>3 DEF RunsType
  <2>. QED BY <1>0, <1>3, <1>12, <2>1, <2>2 DEF RunsType
<1>17. ASSUME NEW k \in Job, k # j PROVE Execution(k)' /\ LivePod(k)' /\ Ending(k)'
  <2>0. Execution(k) /\ LivePod(k) /\ Ending(k) BY DEF RunsInv
  <2>1. /\ jobs'[k] = jobs[k] /\ pod'[k] = pod[k] /\ podRow'[k] = podRow[k]
        /\ ended'[k] = ended[k] /\ (k \in onRecord' <=> k \in onRecord)
    BY <1>0, <1>1, <1>3, <1>17 DEF RunsType
  <2>2. \A i \in DOMAIN etlRuns : etlRuns[i].job = k => etlRuns'[i] = etlRuns[i]
    BY <1>4, <1>13, <1>15, <1>17 DEF IsNewest
  <2>3. \A i \in DOMAIN etlRuns : IsNewest(i, k) => IsNewest(i, k)' BY <1>13, <1>15 DEF IsNewest
  <2>4. \A S : Tells(k, S) => Tells(k, S)' BY <1>15, <2>2, <2>3 DEF Tells, IsNewest
  <2>5. Execution(k)' BY <1>3, <2>0, <2>1, <2>4 DEF Execution, Active
  <2>6. Ending(k)' BY <1>3, <2>0, <2>1, <2>4 DEF Ending, Active
  <2>7. LivePod(k)' BY <1>15, <2>0, <2>1, <2>2, <2>3, <2>4 DEF LivePod, Active, IsNewest, Covered
  <2>. QED BY <2>5, <2>6, <2>7
<1>18. Execution(j)' /\ LivePod(j)' /\ Ending(j)'
  <2>0. Execution(j) /\ LivePod(j) BY DEF RunsInv
  <2>1. Active(j) /\ jobs[j].pods # 0 /\ jobs'[j] = jobs[j] BY <1>3, <2>0 DEF LivePod
  <2>2. Active(j)' BY <2>1 DEF Active
  <2>3. pod'[j] = IF outcome = "zero" THEN "exits0" ELSE "exits1" BY <1>0, <1>1 DEF RunsType
  <2>4. IsNewest(p, j)' BY <1>4, <1>13, <1>15 DEF IsNewest
  <2>5. \A S : status \in S => Tells(j, S)' BY <1>4, <1>14, <1>15, <2>4 DEF Tells
  <2>6. outcome # "zero" => Tells(j, RunStatus \ {"success"})' BY <1>5, <2>5
  <2>7. outcome = "zero" /\ Covered(j) => Tells(j, {"success"})' BY <1>5, <2>5
  <2>8. outcome = "zero" => j \notin onRecord' BY <1>1
  <2>9. Execution(j)' BY <1>3, <2>0, <2>1, <2>6, <2>8 DEF Execution
  <2>. QED BY <2>1, <2>2, <2>3, <2>7, <2>9 DEF LivePod, Ending, Covered
<1>19. ASSUME NEW i \in DOMAIN etlRuns' PROVE OpenRow(i)'
  <2>1. OpenRow(i) BY <1>15 DEF RunsInv
  <2>2. i \in 1..Len(etlRuns) BY <1>15
  <2>3. /\ etlRuns'[i].job = etlRuns[i].job /\ etlRuns'[i].started = etlRuns[i].started
        /\ etlRuns'[i].status = "running" => etlRuns[i].status = "running"
    BY <1>13, <2>2
  <2>4. RowDeadline(etlRuns[i])' = RowDeadline(etlRuns[i]) BY <2>3 DEF RowDeadline
  <2>. QED BY <1>3, <2>1, <2>3, <2>4 DEF OpenRow
<1>. QED BY <1>16, <1>17, <1>18, <1>19 DEF RunsInv

LEMMA DeadlinePassesKeeps ==
  ASSUME RunsInv, NEW j \in Job, DeadlinePasses(j) PROVE RunsInv'
<1>0. RunsType BY DEF RunsInv
<1>1. /\ jobs \in [Job -> [since : Int, pods : Nat]] /\ ended \in [Job -> Outcome]
      /\ pod \in [Job -> Phase] /\ podRow \in [Job -> Nat]
  BY <1>0 DEF RunsType
<1>e. PICK how \in Outcome : how = IF jobs[j].pods = 0 THEN "never started" ELSE Failure(j)
  BY DEF Outcome, Failure
<1>2. /\ jobs' = [jobs EXCEPT ![j] = NotActive] /\ onRecord' = onRecord \ {j} /\ Active(j)
      /\ pod' = [pod EXCEPT ![j] = "none"] /\ podRow' = [podRow EXCEPT ![j] = 0]
      /\ ended' = [ended EXCEPT ![j] = how]
      /\ UNCHANGED <<clock, etlRuns, reaped, missed>>
  BY <1>e DEF DeadlinePasses, NoPod, Over
<1>3. RunsType'
  <2>1. jobs' \in [Job -> [since : Int, pods : Nat]] BY <1>1, <1>2, NotActiveType
  <2>2. ended' \in [Job -> Outcome] /\ podRow' \in [Job -> Nat] BY <1>1, <1>2
  <2>3. pod' \in [Job -> Phase] BY <1>1, <1>2 DEF Phase
  <2>. QED BY <1>0, <1>2, <2>1, <2>2, <2>3 DEF RunsType
<1>4. \A S : \A k \in Job : Tells(k, S) => Tells(k, S)' BY <1>2 DEF Tells, IsNewest
<1>5. ASSUME NEW k \in Job PROVE Execution(k)' /\ LivePod(k)' /\ Ending(k)'
  <2>0. Execution(k) /\ LivePod(k) /\ Ending(k) BY DEF RunsInv
  <2>1. CASE k # j
    <3>1. /\ jobs'[k] = jobs[k] /\ pod'[k] = pod[k] /\ podRow'[k] = podRow[k]
          /\ ended'[k] = ended[k] /\ (k \in onRecord' <=> k \in onRecord)
      BY <1>1, <1>2, <2>1
    <3>2. Execution(k)' BY <1>2, <1>4, <2>0, <3>1 DEF Execution, Active
    <3>3. Ending(k)' BY <1>4, <2>0, <3>1 DEF Ending, Active
    <3>4. LivePod(k)' BY <1>2, <1>4, <2>0, <3>1 DEF LivePod, Active, IsNewest, Covered
    <3>. QED BY <3>2, <3>3, <3>4
  <2>2. CASE k = j
    <3>1. jobs'[k] = NotActive /\ pod'[k] = "none" /\ ended'[k] = how BY <1>1, <1>2, <2>2
    <3>2. how = "failed" => jobs[k].pods # 0 /\ k \in onRecord BY <1>e, <2>2 DEF Failure
    <3>3. how = "failed" => Tells(k, RunStatus \ {"success"})'
      BY <1>2, <1>4, <2>0, <2>2, <3>2 DEF Execution
    <3>4. how # "complete" BY <1>e DEF Failure
    <3>5. ~Active(k)' BY <3>1 DEF Active, NotActive
    <3>. QED BY <3>1, <3>3, <3>4, <3>5 DEF Execution, LivePod, Ending
  <2>. QED BY <2>1, <2>2
<1>6. ASSUME NEW i \in DOMAIN etlRuns' PROVE OpenRow(i)'
  <2>1. OpenRow(i) BY <1>2 DEF RunsInv
  <2>. QED BY <1>2, <2>1 DEF OpenRow
<1>. QED BY <1>3, <1>5, <1>6 DEF RunsInv

LEMMA ReapKeeps == ASSUME RunsInv, Reap PROVE RunsInv'
<1>0. RunsType BY DEF RunsInv
<1>1. /\ reaped' = TRUE /\ ~reaped /\ UNCHANGED <<clock, jobs, pod, podRow, ended, onRecord, missed>>
      /\ etlRuns' = [i \in DOMAIN etlRuns |->
           IF Expired(etlRuns[i]) THEN [etlRuns[i] EXCEPT !.status = "crashed"] ELSE etlRuns[i]]
  BY DEF Reap
<1>2. etlRuns \in Seq(RunRow) /\ DOMAIN etlRuns = 1..Len(etlRuns) /\ Len(etlRuns) \in Nat
  BY <1>0, LenProperties DEF RunsType
<1>3. ASSUME NEW i \in 1..Len(etlRuns)
      PROVE /\ etlRuns[i] \in RunRow /\ etlRuns'[i] \in RunRow
            /\ etlRuns'[i].job = etlRuns[i].job /\ etlRuns'[i].started = etlRuns[i].started
            /\ etlRuns'[i].status =
                 IF Expired(etlRuns[i]) THEN "crashed" ELSE etlRuns[i].status
  <2>1. etlRuns[i] \in RunRow BY <1>2, ElementOfSeq
  <2>2. etlRuns'[i] = IF Expired(etlRuns[i]) THEN [etlRuns[i] EXCEPT !.status = "crashed"]
                      ELSE etlRuns[i]
    BY <1>1, <1>2
  <2>. QED BY <2>1, <2>2 DEF RunRow, RunStatus
<1>4. etlRuns' \in [1..Len(etlRuns) -> RunRow] BY <1>1, <1>2, <1>3
<1>5. etlRuns' \in Seq(RunRow) BY <1>2, <1>4, SeqDef
<1>6. Len(etlRuns') = Len(etlRuns) /\ DOMAIN etlRuns' = 1..Len(etlRuns)
  BY <1>2, <1>4, <1>5, LenProperties
<1>7. RunsType' BY <1>0, <1>1, <1>5 DEF RunsType
<1>8. ASSUME NEW k \in Job PROVE Execution(k)' /\ LivePod(k)' /\ Ending(k)'
  <2>0. Execution(k) /\ LivePod(k) /\ Ending(k) BY DEF RunsInv
  <2>1. \A i \in DOMAIN etlRuns : IsNewest(i, k) => IsNewest(i, k)' BY <1>2, <1>3, <1>6 DEF IsNewest
  <2>2. Tells(k, RunStatus \ {"success"}) => Tells(k, RunStatus \ {"success"})'
    BY <1>2, <1>3, <1>6, <2>1 DEF Tells, RunStatus
  <2>3. Tells(k, {"success"}) => Tells(k, {"success"})'
    BY <1>2, <1>3, <1>6, <2>1 DEF Tells, Expired
  <2>4. Execution(k)' BY <1>1, <2>0, <2>2 DEF Execution, Active
  <2>5. Ending(k)' BY <1>1, <2>0, <2>2, <2>3 DEF Ending, Active
  <2>6. LivePod(k)'
    <3>1. CASE pod[k] # "runs" BY <1>1, <2>0, <2>3, <3>1 DEF LivePod, Active, Covered
    <3>2. CASE pod[k] = "runs"
      <4>p. PICK p : p = podRow[k] OBVIOUS
      <4>1. /\ Active(k) /\ jobs[k].pods # 0 /\ k \in onRecord
            /\ IsNewest(p, k) /\ jobs[k].since <= etlRuns[p].started
            /\ Covered(k) => etlRuns[p].status = "running"
        BY <2>0, <3>2, <4>p DEF LivePod
      <4>2. p \in 1..Len(etlRuns) /\ etlRuns[p].job = k BY <1>2, <4>1 DEF IsNewest
      <4>3. clock <= jobs[k].since + Deadline[k] BY <2>0, <4>1 DEF Execution
      <4>4. Covered(k) => ~Expired(etlRuns[p])
        <5>1. clock \in Nat /\ jobs[k].since \in Int /\ Deadline[k] \in Nat /\ DefaultDeadline \in Nat
          <6>1. clock \in Nat /\ jobs \in [Job -> [since : Int, pods : Nat]] BY <1>0 DEF RunsType
          <6>. QED BY <6>1, RunMonitorAssumption
        <5>2. etlRuns[p].started \in Nat BY <1>3, <4>2 DEF RunRow
        <5>3. RowDeadline(etlRuns[p]) = IF k \in HandsOver THEN Deadline[k] ELSE DefaultDeadline
          BY <4>2 DEF RowDeadline
        <5>. QED BY <4>1, <4>3, <5>1, <5>2, <5>3 DEF Expired, Covered
      <4>5. IsNewest(p, k)' BY <2>1, <1>2, <4>1, <4>2
      <4>6. etlRuns'[p].started = etlRuns[p].started
            /\ (Covered(k) => etlRuns'[p].status = "running")
        BY <1>3, <4>1, <4>2, <4>4
      <4>7. pod'[k] = "runs" /\ podRow'[k] = p /\ jobs'[k] = jobs[k] BY <1>1, <3>2, <4>p
      <4>8. Active(k)' BY <4>1, <4>7 DEF Active
      <4>9. IsNewest(podRow[k], k)' BY <4>5, <4>7 DEF IsNewest
      <4>. QED BY <1>1, <4>1, <4>6, <4>7, <4>8, <4>9 DEF LivePod, Covered
    <3>. QED BY <3>1, <3>2
  <2>. QED BY <2>4, <2>5, <2>6
<1>9. ASSUME NEW i \in DOMAIN etlRuns' PROVE OpenRow(i)'
  <2>1. i \in 1..Len(etlRuns) BY <1>6
  <2>2. SUFFICES ASSUME etlRuns'[i].status = "running"
                 PROVE clock' <= etlRuns'[i].started + RowDeadline(etlRuns'[i]) + missed'
    <3>1. RowDeadline(etlRuns'[i]) \in Nat BY <1>3, <2>1, RowDeadlineType
    <3>2. clock' \in Nat /\ missed' \in Nat BY <1>7 DEF RunsType
    <3>3. etlRuns'[i].started \in Nat BY <1>3, <2>1 DEF RunRow
    <3>. QED BY <3>1, <3>2, <3>3 DEF OpenRow, RowDeadline
  <2>3. etlRuns[i].status = "running" /\ ~Expired(etlRuns[i]) BY <1>3, <2>1, <2>2
  <2>4. RowDeadline(etlRuns'[i]) = RowDeadline(etlRuns[i]) BY <1>3, <2>1 DEF RowDeadline
  <2>5. RowDeadline(etlRuns[i]) \in Nat BY <1>3, <2>1, RowDeadlineType
  <2>6. clock \in Nat /\ missed \in Nat BY <1>0 DEF RunsType
  <2>7. etlRuns[i].started \in Nat BY <1>3, <2>1 DEF RunRow
  <2>. QED BY <1>1, <1>3, <2>1, <2>3, <2>4, <2>5, <2>6, <2>7 DEF Expired
<1>. QED BY <1>7, <1>8, <1>9 DEF RunsInv

LEMMA ReaperFailsKeeps == ASSUME RunsInv, ReaperFails PROVE RunsInv'
<1>0. RunsType BY DEF RunsInv
<1>1. /\ ~reaped /\ reaped' = TRUE /\ missed' = missed + 1
      /\ UNCHANGED <<clock, jobs, pod, podRow, etlRuns, ended, onRecord>>
  BY DEF ReaperFails
<1>2. RunsType'
  <2>0. missed \in Nat BY <1>0 DEF RunsType
  <2>1. missed' \in Nat BY <1>1, <2>0
  <2>. QED BY <1>0, <1>1, <2>1 DEF RunsType
<1>3. \A S : \A k \in Job : Tells(k, S) => Tells(k, S)' BY <1>1 DEF Tells, IsNewest
<1>4. ASSUME NEW k \in Job PROVE Execution(k)' /\ LivePod(k)' /\ Ending(k)'
  <2>0. Execution(k) /\ LivePod(k) /\ Ending(k) BY DEF RunsInv
  <2>1. Execution(k)' BY <1>1, <1>3, <2>0 DEF Execution, Active
  <2>2. Ending(k)' BY <1>1, <1>3, <2>0 DEF Ending, Active
  <2>3. LivePod(k)' BY <1>1, <1>3, <2>0 DEF LivePod, Active, IsNewest, Covered
  <2>. QED BY <2>1, <2>2, <2>3
<1>5. ASSUME NEW i \in DOMAIN etlRuns' PROVE OpenRow(i)'
  <2>1. i \in 1..Len(etlRuns) /\ etlRuns \in Seq(RunRow) /\ i \in DOMAIN etlRuns
    BY <1>0, <1>1, LenProperties DEF RunsType
  <2>2. OpenRow(i) BY <2>1 DEF RunsInv
  <2>3. etlRuns[i] \in RunRow BY <2>1, ElementOfSeq
  <2>4. RowDeadline(etlRuns[i]) \in Nat /\ etlRuns[i].started \in Nat
    BY <2>3, RowDeadlineType DEF RunRow
  <2>5. clock \in Nat /\ missed \in Nat BY <1>0 DEF RunsType
  <2>. QED BY <1>1, <2>2, <2>4, <2>5 DEF OpenRow, RowDeadline
<1>. QED BY <1>2, <1>4, <1>5 DEF RunsInv

LEMMA HourPassesKeeps == ASSUME RunsInv, HourPasses PROVE RunsInv'
<1>0. RunsType BY DEF RunsInv
<1>1. /\ reaped /\ reaped' = FALSE /\ clock' = clock + 1
      /\ \A j \in Job : Active(j) => clock < jobs[j].since + Deadline[j]
      /\ UNCHANGED <<jobs, pod, podRow, etlRuns, ended, onRecord, missed>>
  BY DEF HourPasses
<1>2. RunsType'
  <2>0. clock \in Nat BY <1>0 DEF RunsType
  <2>1. clock' \in Nat BY <1>1, <2>0
  <2>. QED BY <1>0, <1>1, <2>1 DEF RunsType
<1>3. \A S : \A k \in Job : Tells(k, S) => Tells(k, S)' BY <1>1 DEF Tells, IsNewest
<1>4. ASSUME NEW k \in Job PROVE Execution(k)' /\ LivePod(k)' /\ Ending(k)'
  <2>0. Execution(k) /\ LivePod(k) /\ Ending(k) BY DEF RunsInv
  <2>1. Execution(k)'
    <3>1. jobs[k].since \in Int /\ Deadline[k] \in Nat
      <4>1. jobs \in [Job -> [since : Int, pods : Nat]] BY <1>0 DEF RunsType
      <4>. QED BY <4>1, RunMonitorAssumption
    <3>2. clock \in Nat BY <1>0 DEF RunsType
    <3>3. Active(k)' <=> Active(k) BY <1>1 DEF Active
    <3>4. Active(k) => clock < jobs[k].since + Deadline[k] BY <1>1
    <3>. QED BY <1>1, <1>3, <2>0, <3>1, <3>2, <3>3, <3>4 DEF Execution
  <2>2. Ending(k)' BY <1>1, <1>3, <2>0 DEF Ending, Active
  <2>3. LivePod(k)' BY <1>1, <1>3, <2>0 DEF LivePod, Active, IsNewest, Covered
  <2>. QED BY <2>1, <2>2, <2>3
<1>5. ASSUME NEW i \in DOMAIN etlRuns' PROVE OpenRow(i)'
  <2>1. i \in 1..Len(etlRuns) /\ etlRuns \in Seq(RunRow) /\ i \in DOMAIN etlRuns
    BY <1>0, <1>1, LenProperties DEF RunsType
  <2>2. OpenRow(i) BY <2>1 DEF RunsInv
  <2>3. etlRuns[i] \in RunRow BY <2>1, ElementOfSeq
  <2>4. RowDeadline(etlRuns[i]) \in Nat /\ etlRuns[i].started \in Nat
    BY <2>3, RowDeadlineType DEF RunRow
  <2>5. clock \in Nat /\ missed \in Nat BY <1>0 DEF RunsType
  <2>. QED BY <1>1, <2>2, <2>4, <2>5 DEF OpenRow, RowDeadline
<1>. QED BY <1>2, <1>4, <1>5 DEF RunsInv

LEMMA RunsStep == RunsInv /\ [RunsNext]_runVars => RunsInv'
<1>. SUFFICES ASSUME RunsInv, [RunsNext]_runVars PROVE RunsInv' OBVIOUS
<1>1. ASSUME NEW j \in Job,
             \/ Fires(j) \/ StartPod(j) \/ OpenRunLog(j) \/ LoaderEnds(j) \/ PodExits(j)
             \/ RunLogFails(j) \/ PodKilled(j) \/ DeadlinePasses(j)
      PROVE RunsInv'
  BY <1>1, FiresKeeps, StartPodKeeps, OpenRunLogKeeps, LoaderEndsKeeps, PodGoneKeeps,
     DeadlinePassesKeeps
<1>2. CASE Reap BY <1>2, ReapKeeps
<1>3. CASE ReaperFails BY <1>3, ReaperFailsKeeps
<1>4. CASE HourPasses BY <1>4, HourPassesKeeps
<1>5. CASE UNCHANGED runVars
  <2>1. UNCHANGED <<clock, jobs, pod, podRow, etlRuns, ended, onRecord, reaped, missed>> BY <1>5 DEF runVars
  <2>2. RunsType' BY <2>1 DEF RunsInv, RunsType
  <2>3. ASSUME NEW k \in Job PROVE Execution(k)' /\ LivePod(k)' /\ Ending(k)'
    <3>1. Execution(k) /\ LivePod(k) /\ Ending(k) BY DEF RunsInv
    <3>2. \A S : Tells(k, S) => Tells(k, S)' BY <2>1 DEF Tells, IsNewest
    <3>. QED BY <2>1, <3>1, <3>2 DEF Execution, LivePod, Ending, Active, IsNewest, Covered
  <2>4. ASSUME NEW i \in DOMAIN etlRuns' PROVE OpenRow(i)'
    <3>1. OpenRow(i) BY <2>1 DEF RunsInv
    <3>. QED BY <2>1, <3>1 DEF OpenRow, RowDeadline
  <2>. QED BY <2>2, <2>3, <2>4 DEF RunsInv
<1>. QED BY <1>1, <1>2, <1>3, <1>4, <1>5 DEF RunsNext

LEMMA NewestRow ==
  ASSUME RunsType, NEW j \in Job, NEW i \in DOMAIN etlRuns, IsNewest(i, j)
  PROVE LastRow(j) = etlRuns[i]
<1>. DEFINE rows == {k \in DOMAIN etlRuns : etlRuns[k].job = j}
<1>1. DOMAIN etlRuns = 1..Len(etlRuns) /\ Len(etlRuns) \in Nat
  BY LenProperties DEF RunsType
<1>2. i \in rows /\ \A k \in rows : i >= k BY <1>1 DEF IsNewest
<1>3. \A m \in rows : (\A k \in rows : m >= k) => m = i BY <1>1, <1>2
<1>4. Max(rows) = i BY <1>2, <1>3 DEF Max
<1>. QED BY <1>4 DEF LastRow

LEMMA RunsAreTold ==
  RunsInv => LiveRunsStayOpen /\ DeadRunsAreClosed /\ RowsMatchJobs
<1>. SUFFICES ASSUME RunsInv PROVE LiveRunsStayOpen /\ DeadRunsAreClosed /\ RowsMatchJobs
  OBVIOUS
<1>0. RunsType BY DEF RunsInv
<1>1. LiveRunsStayOpen BY DEF RunsInv, LivePod, Covered, LiveRunsStayOpen
<1>2. DeadRunsAreClosed
  <2>. SUFFICES ASSUME NEW i \in DOMAIN etlRuns
               PROVE /\ etlRuns[i].status = "running" =>
                          clock <= etlRuns[i].started + RowDeadline(etlRuns[i]) + 1 + missed
                     /\ Stuck(etlRuns[i]) => missed > 0
    BY DEF DeadRunsAreClosed
  <2>1. i \in 1..Len(etlRuns) /\ etlRuns \in Seq(RunRow) BY <1>0, LenProperties DEF RunsType
  <2>2. OpenRow(i) BY DEF RunsInv
  <2>3. etlRuns[i] \in RunRow BY <2>1, ElementOfSeq
  <2>4. /\ RowDeadline(etlRuns[i]) \in Nat /\ RowDeadline(etlRuns[i]) < StuckAfter
        /\ etlRuns[i].started \in Nat /\ StuckAfter \in Nat
    BY <2>3, RowDeadlineType, RunMonitorAssumption DEF RunRow
  <2>5. clock \in Nat /\ missed \in Nat BY <1>0 DEF RunsType
  <2>. QED BY <2>2, <2>4, <2>5 DEF OpenRow, Stuck
<1>3. RowsMatchJobs
  <2>. SUFFICES ASSUME NEW j \in Job, ~Active(j)
               PROVE /\ ended[j] = "failed" => LastRow(j).status # "success"
                     /\ ended[j] = "complete" /\ Covered(j) => LastRow(j).status = "success"
    BY DEF RowsMatchJobs, Covered
  <2>1. /\ ended[j] = "failed" => Tells(j, RunStatus \ {"success"})
        /\ ended[j] = "complete" /\ Covered(j) => Tells(j, {"success"})
    BY DEF RunsInv, Ending
  <2>2. \A i \in DOMAIN etlRuns : IsNewest(i, j) => LastRow(j) = etlRuns[i]
    BY <1>0, NewestRow
  <2>. QED BY <2>1, <2>2 DEF Tells
<1>. QED BY <1>1, <1>2, <1>3

Verdicts == {"pass", "warn", "fail", "error"}

\* Run r passes c after run k, or the streak of c's failures that run is in began at k.
Passed(c, k) == \E r \in DOMAIN results : r > k /\ results[r][c] = "pass"

FailsFrom(c, k, r) == \A l \in k..r : results[l][c] # "pass"

ResultsType ==
  /\ results \in Seq([Check -> Verdicts])
  /\ catalogueRun.got \in UNION {[D -> Verdicts] : D \in SUBSET Check}
  /\ DOMAIN catalogueRun = {"pc", "got", "graph", "excess"}
  /\ DOMAIN monitor = {"pc", "run", "failing", "since", "last", "of"}
  /\ "spine" \in Check

SpineInv ==
  /\ graphActs \in Nat /\ mirrorActs \in Nat
  /\ ~wiped => graphActs <= mirrorActs
  /\ catalogueRun.pc = "mirror" => catalogueRun.graph \in Nat
  /\ ~wiped /\ catalogueRun.pc = "mirror" => catalogueRun.graph <= mirrorActs
  /\ catalogueRun.excess => wiped

LastPassInv ==
  /\ monitor.of \in monitor.failing
  /\ \/ Passed(monitor.of, monitor.run)
     \/ /\ monitor.last \in 0..monitor.run - 1
        /\ monitor.last # 0 => results[monitor.last][monitor.of] = "pass"
        /\ FailsFrom(monitor.of, monitor.last + 1, monitor.run)

MonitorInv ==
  /\ monitor.pc # "idle" => monitor.run \in DOMAIN results
  /\ monitor.pc = "rows" => DOMAIN monitor.since = {}
  /\ monitor.pc \in {"loop", "since", "done"} =>
       /\ monitor.failing = FailingRows(monitor.run)
       /\ \A c \in DOMAIN monitor.since :
            Passed(c, monitor.run) \/ monitor.since[c] = FailingSince(c, monitor.run)
  /\ monitor.pc = "since" => LastPassInv
  /\ monitor.pc = "done" => DOMAIN monitor.since = monitor.failing

ChecksInv == ResultsType /\ SpineInv /\ MonitorInv

LEMMA ChecksInitially == ChecksInit => ChecksInv
<1>. SUFFICES ASSUME ChecksInit PROVE ChecksInv OBVIOUS
<1>1. /\ catalogueRun = NoRun /\ monitor = NoRequest /\ results = <<>>
      /\ graphActs = 0 /\ mirrorActs = 0 /\ wiped = FALSE
  BY DEF ChecksInit
<1>2. /\ catalogueRun.pc = "idle" /\ ~catalogueRun.excess /\ monitor.pc = "idle"
      /\ DOMAIN catalogueRun = {"pc", "got", "graph", "excess"}
      /\ DOMAIN monitor = {"pc", "run", "failing", "since", "last", "of"}
      /\ catalogueRun.got = [c \in {} |-> "pass"]
  BY <1>1 DEF NoRun, NoRequest
<1>3. results \in Seq([Check -> Verdicts]) BY <1>1, EmptySeq
<1>4. [c \in {} |-> "pass"] \in [{} -> Verdicts] /\ {} \in SUBSET Check OBVIOUS
<1>5. catalogueRun.got \in UNION {[D -> Verdicts] : D \in SUBSET Check} BY <1>2, <1>4
<1>6. ResultsType BY <1>2, <1>3, <1>5, RunMonitorAssumption DEF ResultsType
<1>. QED BY <1>1, <1>2, <1>6 DEF ChecksInv, SpineInv, MonitorInv

\* A catalogue that is persisted while the page is put together takes nothing back.
Grown ==
  /\ Len(results') >= Len(results)
  /\ DOMAIN results = 1..Len(results) /\ DOMAIN results' = 1..Len(results')
  /\ Len(results) \in Nat /\ Len(results') \in Nat
  /\ \A r \in 1..Len(results) : results'[r] = results[r]

LEMMA MonitorUntouched ==
  ASSUME ChecksInv, Grown, UNCHANGED monitor PROVE MonitorInv'
<1>1. \A c, k : Passed(c, k) => Passed(c, k)' BY DEF Grown, Passed
<1>2. ASSUME NEW r \in DOMAIN results PROVE FailingRows(r)' = FailingRows(r)
  BY DEF Grown, FailingRows
<1>3. ASSUME NEW r \in DOMAIN results, NEW c PROVE FailingSince(c, r)' = FailingSince(c, r)
  <2>1. \A k \in 1..r : \A l \in k..r : results'[l] = results[l] BY DEF Grown
  <2>2. {k \in 1..r : \A l \in k..r : results'[l][c] # "pass"}
          = {k \in 1..r : \A l \in k..r : results[l][c] # "pass"}
    BY <2>1
  <2>. QED BY <2>2 DEF FailingSince
<1>4. MonitorInv BY DEF ChecksInv
<1>5. monitor.pc # "idle" => monitor.run \in DOMAIN results /\ monitor.run \in DOMAIN results'
  BY <1>4 DEF MonitorInv, Grown
<1>6. monitor.pc = "since" => LastPassInv'
  <2>. SUFFICES ASSUME monitor.pc = "since" PROVE LastPassInv' OBVIOUS
  <2>1. LastPassInv /\ monitor.run \in 1..Len(results) BY <1>4, <1>5 DEF MonitorInv, Grown
  <2>2. \A r \in 1..monitor.run : results'[r] = results[r] BY <2>1 DEF Grown
  <2>. QED BY <1>1, <2>1, <2>2 DEF LastPassInv, FailsFrom, Grown
<1>. QED BY <1>1, <1>2, <1>3, <1>4, <1>5, <1>6 DEF MonitorInv

LEMMA NothingPersisted ==
  ASSUME ChecksInv, UNCHANGED results PROVE Grown
<1>1. results \in Seq([Check -> Verdicts]) BY DEF ChecksInv, ResultsType
<1>2. Len(results) \in Nat /\ DOMAIN results = 1..Len(results) BY <1>1, LenProperties
<1>. QED BY <1>2 DEF Grown

LEMMA WorldKeeps ==
  ASSUME ChecksInv, WorldChanges \/ MirrorGrows \/ SpineCatchesUp \/ MirrorIsWiped
  PROVE ChecksInv'
<1>0. ResultsType /\ SpineInv BY DEF ChecksInv
<1>1. UNCHANGED <<catalogueRun, results, monitor>>
  BY DEF WorldChanges, MirrorGrows, SpineCatchesUp, MirrorIsWiped, Unchecked
<1>2. MonitorInv' BY <1>1, NothingPersisted, MonitorUntouched
<1>3. ResultsType' BY <1>0, <1>1 DEF ResultsType
<1>4. SpineInv'
  <2>1. CASE WorldChanges BY <1>0, <1>1, <2>1 DEF WorldChanges, SpineInv
  <2>2. CASE MirrorGrows BY <1>0, <1>1, <2>2 DEF MirrorGrows, SpineInv
  <2>3. CASE SpineCatchesUp BY <1>0, <1>1, <2>3 DEF SpineCatchesUp, SpineInv
  <2>4. CASE MirrorIsWiped BY <1>0, <1>1, <2>4 DEF MirrorIsWiped, SpineInv
  <2>. QED BY <2>1, <2>2, <2>3, <2>4
<1>. QED BY <1>2, <1>3, <1>4 DEF ChecksInv

LEMMA VerdictType == \A c, answer : Verdict(c, answer) \in Verdicts BY DEF Verdict, Verdicts

LEMMA GotMore ==
  ASSUME NEW got \in UNION {[D -> Verdicts] : D \in SUBSET Check},
         NEW c \in Check, NEW v \in Verdicts
  PROVE [d \in DOMAIN got \union {c} |-> IF d = c THEN v ELSE got[d]]
          \in UNION {[D -> Verdicts] : D \in SUBSET Check}
<1>1. PICK D \in SUBSET Check : got \in [D -> Verdicts] OBVIOUS
<1>2. D \union {c} \in SUBSET Check /\ DOMAIN got = D BY <1>1
<1>3. [d \in D \union {c} |-> IF d = c THEN v ELSE got[d]] \in [D \union {c} -> Verdicts]
  BY <1>1
<1>. QED BY <1>2, <1>3

LEMMA CatalogueKeeps ==
  ASSUME ChecksInv,
         StartCatalogue \/ (\E c \in Check : Evaluate(c)) \/ CountGraph \/ CountMirror
           \/ CatalogueDies
  PROVE ChecksInv'
<1>0. ResultsType /\ SpineInv BY DEF ChecksInv
<1>1. UNCHANGED <<world, graphActs, mirrorActs, wiped, results, monitor>>
  BY DEF StartCatalogue, Evaluate, CountGraph, CountMirror, CatalogueDies, Untouched
<1>2. MonitorInv' BY <1>1, NothingPersisted, MonitorUntouched
<1>3. /\ DOMAIN catalogueRun = {"pc", "got", "graph", "excess"}
      /\ catalogueRun.got \in UNION {[D -> Verdicts] : D \in SUBSET Check}
      /\ "spine" \in Check
  BY <1>0 DEF ResultsType
<1>4. /\ DOMAIN catalogueRun' = {"pc", "got", "graph", "excess"}
      /\ catalogueRun'.got \in UNION {[D -> Verdicts] : D \in SUBSET Check}
      /\ SpineInv'
  <2>1. CASE StartCatalogue \/ CatalogueDies
    <3>1. catalogueRun' = NoRun \/ catalogueRun' = [NoRun EXCEPT !.pc = "checks"]
      BY <2>1 DEF StartCatalogue, CatalogueDies
    <3>2. /\ DOMAIN catalogueRun' = {"pc", "got", "graph", "excess"} /\ ~catalogueRun'.excess
          /\ catalogueRun'.got = [c \in {} |-> "pass"] /\ catalogueRun'.pc # "mirror"
      BY <3>1 DEF NoRun
    <3>3. [c \in {} |-> "pass"] \in [{} -> Verdicts] /\ {} \in SUBSET Check OBVIOUS
    <3>4. SpineInv' BY <1>0, <1>1, <3>2 DEF SpineInv
    <3>. QED BY <3>2, <3>3, <3>4
  <2>2. ASSUME NEW c \in Check, Evaluate(c)
        PROVE /\ DOMAIN catalogueRun' = {"pc", "got", "graph", "excess"}
              /\ catalogueRun'.got \in UNION {[D -> Verdicts] : D \in SUBSET Check}
              /\ SpineInv'
    <3>v. PICK v \in Verdicts : v = Verdict(c, world[c]) BY VerdictType
    <3>g. PICK got : got = [d \in DOMAIN catalogueRun.got \union {c} |->
                              IF d = c THEN v ELSE catalogueRun.got[d]]
      OBVIOUS
    <3>1. catalogueRun' = [catalogueRun EXCEPT !.got = got]
      BY <2>2, <3>v, <3>g DEF Evaluate
    <3>2. got \in UNION {[D -> Verdicts] : D \in SUBSET Check}
      <4>1. catalogueRun.got \in UNION {[D -> Verdicts] : D \in SUBSET Check} /\ c \in Check
        BY <1>3
      <4>2. [d \in DOMAIN catalogueRun.got \union {c} |->
               IF d = c THEN v ELSE catalogueRun.got[d]]
              \in UNION {[D -> Verdicts] : D \in SUBSET Check}
        BY <4>1, GotMore
      <4>. QED BY <3>g, <4>2
    <3>3. /\ DOMAIN catalogueRun' = {"pc", "got", "graph", "excess"}
          /\ catalogueRun'.got = got /\ catalogueRun'.pc = catalogueRun.pc
          /\ catalogueRun'.graph = catalogueRun.graph
          /\ catalogueRun'.excess = catalogueRun.excess
      BY <1>3, <3>1
    <3>4. SpineInv' BY <1>0, <1>1, <3>3 DEF SpineInv
    <3>. QED BY <3>2, <3>3, <3>4
  <2>3. CASE CountGraph
    <3>1. catalogueRun' = [catalogueRun EXCEPT !.pc = "mirror", !.graph = graphActs]
      BY <2>3 DEF CountGraph
    <3>2. /\ DOMAIN catalogueRun' = {"pc", "got", "graph", "excess"}
          /\ catalogueRun'.got = catalogueRun.got /\ catalogueRun'.graph = graphActs
          /\ catalogueRun'.excess = catalogueRun.excess
      BY <1>3, <3>1
    <3>3. SpineInv' BY <1>0, <1>1, <3>2 DEF SpineInv
    <3>. QED BY <1>3, <3>2, <3>3
  <2>4. CASE CountMirror
    <3>v. PICK v \in Verdicts : v = Verdict("spine", SpineAnswer(catalogueRun.graph, mirrorActs))
      BY VerdictType
    <3>g. PICK got : got = [d \in DOMAIN catalogueRun.got \union {"spine"} |->
                              IF d = "spine" THEN v ELSE catalogueRun.got[d]]
      OBVIOUS
    <3>0. [d \in DOMAIN catalogueRun.got \union {"spine"} |->
             IF d = "spine" THEN Verdict(d, SpineAnswer(catalogueRun.graph, mirrorActs))
             ELSE catalogueRun.got[d]] = got
      BY <3>v, <3>g
    <3>1. catalogueRun' = [catalogueRun EXCEPT !.pc = "checks",
            !.excess = @ \/ catalogueRun.graph > mirrorActs, !.got = got]
      BY <2>4, <3>0 DEF CountMirror
    <3>2. got \in UNION {[D -> Verdicts] : D \in SUBSET Check}
      <4>1. catalogueRun.got \in UNION {[D -> Verdicts] : D \in SUBSET Check} /\ "spine" \in Check
        BY <1>3
      <4>2. [d \in DOMAIN catalogueRun.got \union {"spine"} |->
               IF d = "spine" THEN v ELSE catalogueRun.got[d]]
              \in UNION {[D -> Verdicts] : D \in SUBSET Check}
        BY <4>1, GotMore
      <4>. QED BY <3>g, <4>2
    <3>3. /\ DOMAIN catalogueRun' = {"pc", "got", "graph", "excess"}
          /\ catalogueRun'.got = got /\ catalogueRun'.pc = "checks"
      BY <1>3, <3>1
    <3>4. catalogueRun'.excess <=> catalogueRun.excess \/ catalogueRun.graph > mirrorActs
      BY <1>3, <3>1
    <3>5. catalogueRun.pc = "mirror" BY <2>4 DEF CountMirror
    <3>6. SpineInv' BY <1>0, <1>1, <3>3, <3>4, <3>5 DEF SpineInv
    <3>. QED BY <3>2, <3>3, <3>6
  <2>. QED BY <2>1, <2>2, <2>3, <2>4
<1>5. ResultsType' BY <1>0, <1>1, <1>4 DEF ResultsType
<1>. QED BY <1>2, <1>4, <1>5 DEF ChecksInv

LEMMA PersistKeeps == ASSUME ChecksInv, Persist PROVE ChecksInv'
<1>0. ResultsType /\ SpineInv BY DEF ChecksInv
<1>g. PICK got : got = catalogueRun.got OBVIOUS
<1>1. /\ results' = Append(results, got) /\ catalogueRun' = NoRun /\ DOMAIN got = Check
      /\ UNCHANGED <<graphActs, mirrorActs, wiped, monitor>>
  BY <1>g DEF Persist, Untouched
<1>2. got \in [Check -> Verdicts] BY <1>0, <1>1, <1>g DEF ResultsType
<1>3. results \in Seq([Check -> Verdicts]) BY <1>0 DEF ResultsType
<1>4. /\ results' \in Seq([Check -> Verdicts]) /\ Len(results') = Len(results) + 1
      /\ \A r \in 1..Len(results) : results'[r] = results[r]
  BY <1>1, <1>2, <1>3, AppendProperties
<1>5. DOMAIN results = 1..Len(results) /\ Len(results) \in Nat BY <1>3, LenProperties
<1>6. DOMAIN results' = 1..Len(results') BY <1>4, LenProperties
<1>7. Grown BY <1>4, <1>5, <1>6 DEF Grown
<1>8. MonitorInv' BY <1>1, <1>7, MonitorUntouched
<1>9. /\ DOMAIN catalogueRun' = {"pc", "got", "graph", "excess"} /\ ~catalogueRun'.excess
      /\ catalogueRun'.got = [c \in {} |-> "pass"] /\ catalogueRun'.pc # "mirror"
  BY <1>1 DEF NoRun
<1>10. [c \in {} |-> "pass"] \in [{} -> Verdicts] /\ {} \in SUBSET Check OBVIOUS
<1>11. catalogueRun'.got \in UNION {[D -> Verdicts] : D \in SUBSET Check} BY <1>9, <1>10
<1>12. ResultsType' BY <1>0, <1>1, <1>4, <1>9, <1>11 DEF ResultsType
<1>13. SpineInv' BY <1>0, <1>1, <1>9 DEF SpineInv
<1>. QED BY <1>8, <1>12, <1>13 DEF ChecksInv

LEMMA GreatestNumber ==
  ASSUME NEW n \in Nat, NEW T, T \subseteq 0..n, T # {}
  PROVE \E x \in T : \A y \in T : x >= y
<1>. DEFINE Less == {p \in Nat \X Nat : p[1] < p[2]}
           Left == {n - x : x \in T}
<1>1. IsWellFoundedOn(Less, Nat) BY NatLessThanWellFounded DEF OpToRel
<1>2. ASSUME NEW x \in Nat, NEW y \in Nat, x < y PROVE <<x, y>> \in Less BY <1>2
<1>3. Left \subseteq Nat /\ Left # {}
  <2>1. \A x \in T : n - x \in Nat OBVIOUS
  <2>. QED BY <2>1
<1>4. ASSUME NEW x \in T PROVE n - x \in Left OBVIOUS
<1>5. ASSUME NEW m \in Left PROVE \E x \in T : m = n - x OBVIOUS
<1>. HIDE DEF Less, Left
<1>6. PICK m \in Left : \A l \in Left : ~(<<l, m>> \in Less) BY <1>1, <1>3, WFMin, Zenon
<1>7. PICK x \in T : m = n - x BY <1>5
<1>8. ASSUME NEW y \in T PROVE x >= y
  <2>1. n - y \in Nat /\ m \in Nat BY <1>3, <1>4
  <2>2. ~(n - y < m) BY <1>2, <1>4, <1>6, <2>1, Zenon
  <2>. QED BY <1>7, <2>1, <2>2
<1>. QED BY <1>8

LEMMA Least ==
  ASSUME NEW T, NEW x \in T, x \in Int, \A y \in T : x <= y /\ y \in Int
  PROVE Min(T) = x
<1>1. \A m \in T : (\A y \in T : m <= y) => m = x OBVIOUS
<1>. QED BY <1>1 DEF Min

\* Where a streak of failures begins.
LEMMA StreakBegins ==
  ASSUME ResultsType, NEW c, NEW r \in DOMAIN results, NEW last \in 0..r - 1,
         last # 0 => results[last][c] = "pass", FailsFrom(c, last + 1, r)
  PROVE /\ FailingSince(c, r) = last + 1
        /\ FirstFailAfter(c, last) = last + 1
<1>1. DOMAIN results = 1..Len(results) /\ Len(results) \in Nat
  BY LenProperties DEF ResultsType
<1>2. r \in Nat /\ r <= Len(results) /\ last \in Nat /\ last + 1 <= r BY <1>1
<1>3. FailingSince(c, r) = last + 1
  <2>. DEFINE streak == {k \in 1..r : \A l \in k..r : results[l][c] # "pass"}
  <2>1. last + 1 \in streak BY <1>2 DEF FailsFrom
  <2>2. ASSUME NEW k \in streak PROVE last + 1 <= k /\ k \in Int
    <3>. SUFFICES ASSUME k <= last PROVE FALSE BY <1>2
    <3>1. last \in k..r /\ last # 0 BY <1>2
    <3>. QED BY <3>1
  <2>. QED BY <1>2, <2>1, <2>2, Least DEF FailingSince
<1>4. FirstFailAfter(c, last) = last + 1
  <2>. DEFINE later == {k \in DOMAIN results : k > last /\ results[k][c] # "pass"}
  <2>1. last + 1 \in later BY <1>1, <1>2 DEF FailsFrom
  <2>2. ASSUME NEW k \in later PROVE last + 1 <= k /\ k \in Int BY <1>1, <1>2
  <2>3. Min(later) = last + 1 BY <1>2, <2>1, <2>2, Least
  <2>. QED BY <2>1, <2>3 DEF FirstFailAfter
<1>. QED BY <1>3, <1>4

\* The last pass is the end of the streak before the shown run, unless a later run passes.
LEMMA LastPassIsLast ==
  ASSUME ResultsType, NEW c, NEW r \in DOMAIN results, results[r][c] # "pass"
  PROVE \/ Passed(c, r)
        \/ /\ LastPass(c) \in 0..r - 1
           /\ LastPass(c) # 0 => results[LastPass(c)][c] = "pass"
           /\ FailsFrom(c, LastPass(c) + 1, r)
<1>. DEFINE passes == {0} \union {k \in DOMAIN results : results[k][c] = "pass"}
<1>1. DOMAIN results = 1..Len(results) /\ Len(results) \in Nat
  BY LenProperties DEF ResultsType
<1>2. passes \subseteq 0..Len(results) /\ passes # {} BY <1>1
<1>3. \E x \in passes : \A y \in passes : x >= y BY <1>1, <1>2, GreatestNumber
<1>p. PICK p : p = LastPass(c) OBVIOUS
<1>4. p \in passes /\ \A y \in passes : p >= y BY <1>3, <1>p DEF LastPass, Max
<1>5. p \in 0..Len(results) /\ (p # 0 => p \in DOMAIN results /\ results[p][c] = "pass")
  BY <1>2, <1>4
<1>6. p # r BY <1>1, <1>5
<1>7. CASE p > r BY <1>1, <1>5, <1>7 DEF Passed
<1>8. CASE p < r
  <2>1. FailsFrom(c, p + 1, r)
    <3>. SUFFICES ASSUME NEW l \in p + 1..r, results[l][c] = "pass" PROVE FALSE BY DEF FailsFrom
    <3>1. l \in DOMAIN results /\ l > p BY <1>1, <1>5
    <3>. QED BY <1>4, <1>5, <3>1
  <2>. QED BY <1>1, <1>5, <1>8, <1>p, <2>1
<1>. QED BY <1>1, <1>5, <1>6, <1>7, <1>8

LEMMA MonitorKeeps ==
  ASSUME ChecksInv,
         OpenMonitor \/ ReadRows \/ (\E c \in Check : ReadLastPass(c)) \/ ReadFirstFail
           \/ AnswerMonitor
  PROVE ChecksInv'
<1>0. ResultsType /\ SpineInv /\ MonitorInv BY DEF ChecksInv
<1>1. UNCHANGED <<graphActs, mirrorActs, wiped, catalogueRun, results>>
  BY DEF OpenMonitor, ReadRows, ReadLastPass, ReadFirstFail, AnswerMonitor, Untouched
<1>2. SpineInv' BY <1>0, <1>1 DEF SpineInv
<1>3. DOMAIN monitor = {"pc", "run", "failing", "since", "last", "of"} BY <1>0 DEF ResultsType
<1>4. DOMAIN results = 1..Len(results) /\ Len(results) \in Nat
  BY <1>0, LenProperties DEF ResultsType
<1>5. /\ \A c, k : Passed(c, k)' <=> Passed(c, k)
      /\ \A r : FailingRows(r)' = FailingRows(r)
      /\ \A c, r : FailingSince(c, r)' = FailingSince(c, r)
      /\ \A c, k, r : FailsFrom(c, k, r)' <=> FailsFrom(c, k, r)
  BY <1>1 DEF Passed, FailingRows, FailingSince, FailsFrom
<1>6. DOMAIN monitor' = {"pc", "run", "failing", "since", "last", "of"} /\ MonitorInv'
  <2>1. CASE OpenMonitor
    <3>1. monitor' = [NoRequest EXCEPT !.pc = "rows", !.run = Len(results)] /\ results # <<>>
      BY <2>1 DEF OpenMonitor
    <3>2. /\ DOMAIN monitor' = {"pc", "run", "failing", "since", "last", "of"}
          /\ monitor'.pc = "rows" /\ monitor'.run = Len(results) /\ DOMAIN monitor'.since = {}
      BY <3>1 DEF NoRequest
    <3>3. Len(results) # 0 BY <1>0, <3>1, EmptySeq DEF ResultsType
    <3>4. Len(results) \in DOMAIN results' BY <1>1, <1>4, <3>3
    <3>5. monitor'.run \in DOMAIN results' BY <3>2, <3>4
    <3>6. /\ monitor'.pc \notin {"loop", "since", "done"}
          /\ monitor'.pc # "since" /\ monitor'.pc # "done"
      BY <3>2
    <3>7. MonitorInv' BY <3>2, <3>5, <3>6 DEF MonitorInv
    <3>. QED BY <3>2, <3>7
  <2>2. CASE ReadRows
    <3>1. /\ monitor' = [monitor EXCEPT !.pc = "loop", !.failing = FailingRows(monitor.run)]
          /\ monitor.pc = "rows"
      BY <2>2 DEF ReadRows
    <3>2. /\ DOMAIN monitor' = {"pc", "run", "failing", "since", "last", "of"}
          /\ monitor'.pc = "loop" /\ monitor'.run = monitor.run /\ monitor'.since = monitor.since
          /\ monitor'.failing = FailingRows(monitor.run)
      BY <1>3, <3>1
    <3>3. monitor.run \in DOMAIN results /\ DOMAIN monitor.since = {}
      BY <1>0, <3>1 DEF MonitorInv
    <3>4. DOMAIN monitor'.since = {} /\ monitor'.run \in DOMAIN results'
      BY <1>1, <3>2, <3>3
    <3>5. (monitor.failing = FailingRows(monitor.run))' BY <1>1, <3>2 DEF FailingRows
    <3>. QED BY <3>2, <3>4, <3>5 DEF MonitorInv
  <2>3. ASSUME NEW c \in Check, ReadLastPass(c)
        PROVE /\ DOMAIN monitor' = {"pc", "run", "failing", "since", "last", "of"}
              /\ MonitorInv'
    <3>p. PICK p : p = LastPass(c) OBVIOUS
    <3>1. /\ monitor' = [monitor EXCEPT !.pc = "since", !.of = c, !.last = p]
          /\ monitor.pc = "loop" /\ c \in monitor.failing
      BY <2>3, <3>p DEF ReadLastPass
    <3>2. /\ DOMAIN monitor' = {"pc", "run", "failing", "since", "last", "of"}
          /\ monitor'.pc = "since" /\ monitor'.run = monitor.run /\ monitor'.since = monitor.since
          /\ monitor'.failing = monitor.failing /\ monitor'.of = c /\ monitor'.last = p
      BY <1>3, <3>1
    <3>3. /\ monitor.run \in DOMAIN results /\ monitor.failing = FailingRows(monitor.run)
          /\ \A d \in DOMAIN monitor.since :
               Passed(d, monitor.run) \/ monitor.since[d] = FailingSince(d, monitor.run)
      BY <1>0, <3>1 DEF MonitorInv
    <3>4. results[monitor.run][c] # "pass" BY <3>1, <3>3 DEF FailingRows
    <3>5. \/ Passed(c, monitor.run)
          \/ /\ p \in 0..monitor.run - 1
             /\ p # 0 => results[p][c] = "pass"
             /\ FailsFrom(c, p + 1, monitor.run)
      BY <1>0, <3>3, <3>4, <3>p, LastPassIsLast
    <3>6. LastPassInv'
      <4>1. monitor'.of \in monitor'.failing BY <3>1, <3>2
      <4>2. CASE Passed(c, monitor.run)
        <5>1. Passed(monitor.of, monitor.run)' BY <1>1, <3>2, <4>2 DEF Passed
        <5>. QED BY <4>1, <5>1 DEF LastPassInv
      <4>3. CASE /\ p \in 0..monitor.run - 1
                 /\ p # 0 => results[p][c] = "pass"
                 /\ FailsFrom(c, p + 1, monitor.run)
        <5>1. FailsFrom(monitor.of, monitor.last + 1, monitor.run)'
          BY <1>1, <3>2, <4>3 DEF FailsFrom
        <5>2. /\ monitor'.last \in 0..monitor'.run - 1
              /\ monitor'.last # 0 => results'[monitor'.last][monitor'.of] = "pass"
          BY <1>1, <3>2, <4>3
        <5>. QED BY <4>1, <5>1, <5>2 DEF LastPassInv
      <4>. QED BY <3>5, <4>2, <4>3
    <3>. QED BY <1>1, <1>5, <3>2, <3>3, <3>6 DEF MonitorInv
  <2>4. CASE ReadFirstFail
    <3>c. PICK c : c = monitor.of OBVIOUS
    <3>f. PICK f : f = FirstFailAfter(c, monitor.last) OBVIOUS
    <3>s. PICK s : s = [d \in DOMAIN monitor.since \union {c} |->
                          IF d = c THEN f ELSE monitor.since[d]]
      OBVIOUS
    <3>1. /\ monitor' = [monitor EXCEPT !.pc = "loop", !.of = "nothing", !.last = 0, !.since = s]
          /\ monitor.pc = "since"
      BY <2>4, <3>c, <3>f, <3>s DEF ReadFirstFail
    <3>2. /\ DOMAIN monitor' = {"pc", "run", "failing", "since", "last", "of"}
          /\ monitor'.pc = "loop" /\ monitor'.run = monitor.run /\ monitor'.since = s
          /\ monitor'.failing = monitor.failing
      BY <1>3, <3>1
    <3>3. /\ monitor.run \in DOMAIN results /\ monitor.failing = FailingRows(monitor.run)
          /\ \A d \in DOMAIN monitor.since :
               Passed(d, monitor.run) \/ monitor.since[d] = FailingSince(d, monitor.run)
          /\ LastPassInv
      BY <1>0, <3>1 DEF MonitorInv
    <3>4. Passed(c, monitor.run) \/ f = FailingSince(c, monitor.run)
      BY <1>0, <3>3, <3>c, <3>f, StreakBegins DEF LastPassInv
    <3>5. \A d \in DOMAIN s : Passed(d, monitor.run) \/ s[d] = FailingSince(d, monitor.run)
      BY <3>3, <3>4, <3>s
    <3>. QED BY <1>1, <1>5, <3>2, <3>3, <3>5 DEF MonitorInv
  <2>5. CASE AnswerMonitor
    <3>1. /\ monitor' = [monitor EXCEPT !.pc = "done"]
          /\ monitor.pc = "loop" /\ DOMAIN monitor.since = monitor.failing
      BY <2>5 DEF AnswerMonitor
    <3>2. /\ DOMAIN monitor' = {"pc", "run", "failing", "since", "last", "of"}
          /\ monitor'.pc = "done" /\ monitor'.run = monitor.run /\ monitor'.since = monitor.since
          /\ monitor'.failing = monitor.failing
      BY <1>3, <3>1
    <3>. QED BY <1>0, <1>1, <1>5, <3>1, <3>2 DEF MonitorInv
  <2>. QED BY <2>1, <2>2, <2>3, <2>4, <2>5
<1>7. ResultsType' BY <1>0, <1>1, <1>6 DEF ResultsType
<1>. QED BY <1>2, <1>6, <1>7 DEF ChecksInv

LEMMA ChecksStep == ChecksInv /\ [ChecksNext]_checkVars => ChecksInv'
<1>. SUFFICES ASSUME ChecksInv, [ChecksNext]_checkVars PROVE ChecksInv' OBVIOUS
<1>1. CASE WorldChanges \/ MirrorGrows \/ SpineCatchesUp \/ MirrorIsWiped
  BY <1>1, WorldKeeps
<1>2. CASE StartCatalogue \/ (\E c \in Check : Evaluate(c)) \/ CountGraph \/ CountMirror
             \/ CatalogueDies
  BY <1>2, CatalogueKeeps
<1>3. CASE Persist BY <1>3, PersistKeeps
<1>4. CASE OpenMonitor \/ ReadRows \/ (\E c \in Check : ReadLastPass(c)) \/ ReadFirstFail
             \/ AnswerMonitor
  BY <1>4, MonitorKeeps
<1>5. CASE UNCHANGED checkVars
  <2>1. UNCHANGED <<graphActs, mirrorActs, wiped, catalogueRun, results, monitor>>
    BY <1>5 DEF checkVars
  <2>2. MonitorInv' BY <2>1, NothingPersisted, MonitorUntouched
  <2>3. ResultsType' /\ SpineInv' BY <2>1 DEF ChecksInv, ResultsType, SpineInv
  <2>. QED BY <2>2, <2>3 DEF ChecksInv
<1>. QED BY <1>1, <1>2, <1>3, <1>4, <1>5 DEF ChecksNext

LEMMA ChecksAreTold == ChecksInv => FailingSinceIsTrue /\ ExcessMeansAWipe
<1>. SUFFICES ASSUME ChecksInv PROVE FailingSinceIsTrue /\ ExcessMeansAWipe OBVIOUS
<1>1. ExcessMeansAWipe BY DEF ChecksInv, SpineInv, ExcessMeansAWipe
<1>2. ASSUME monitor.pc = "done", NEW c \in FailingRows(monitor.run)
      PROVE \/ monitor.since[c] = FailingSince(c, monitor.run)
            \/ \E k \in monitor.run + 1..Len(results) : results[k][c] = "pass"
  <2>1. Passed(c, monitor.run) \/ monitor.since[c] = FailingSince(c, monitor.run)
    BY <1>2 DEF ChecksInv, MonitorInv
  <2>2. monitor.run \in DOMAIN results BY <1>2 DEF ChecksInv, MonitorInv
  <2>3. DOMAIN results = 1..Len(results) /\ Len(results) \in Nat
    BY LenProperties DEF ChecksInv, ResultsType
  <2>. QED BY <2>1, <2>2, <2>3 DEF Passed
<1>. QED BY <1>1, <1>2 DEF FailingSinceIsTrue

\* The Jobs and their rows (_run_wrapper.py and the reaper), and the page of the
\* data quality checks: no row of a running pod is closed, no row stays open much
\* beyond its deadline unless the reaper failed, the newest row of a job tells how
\* it ended if its last pod did not die before the row was opened or after it had been
\* closed as a success, a failing check is dated back to the run where its streak began, and
\* the spine is reported to outlive its mirror only after a wipe; for any jobs,
\* deadlines, checks, runs and failures.
THEOREM WhatOperatorsAreTold == MonitorSpec => []OperatorsAreTold
<1>1. RunsInit => RunsInv BY RunsInitially
<1>2. RunsInv /\ [RunsNext]_runVars => RunsInv' BY RunsStep
<1>3. ChecksInit => ChecksInv BY ChecksInitially
<1>4. ChecksInv /\ [ChecksNext]_checkVars => ChecksInv' BY ChecksStep
<1>5. RunsInv /\ ChecksInv => OperatorsAreTold
  BY RunsAreTold, ChecksAreTold DEF OperatorsAreTold
<1>. QED BY <1>1, <1>2, <1>3, <1>4, <1>5, PTL DEF MonitorSpec

----------------------------------------------------------------------------
(* QueryStudio: the thread that builds a schema has its lock, and what it read is *)
(* no older than what the cache had, which is still expired.               *)

\* What a schema that was read may say, where the store has changed n times.
SeenBy(n) == {Unread} \union 0..n

StudioTypes ==
  /\ tick \in Nat /\ schemaOf \in [SchemaLang -> 0..MaxSchema]
  /\ DOMAIN schemaCache = SchemaLang /\ DOMAIN building = SchemaLang /\ DOMAIN thread = Thread
  /\ \A c \in Thread :
       /\ DOMAIN thread[c] = {"pc", "lang", "parts"}
       /\ thread[c].pc \in {"rest", "waits", "builds"}
       /\ thread[c].pc # "rest" => thread[c].lang \in SchemaLang
       /\ thread[c].pc = "waits" => thread[c].parts = <<>>

\* What is cached was read: once, by the clock, and no later than now.
CacheInv ==
  \A l \in SchemaLang : schemaCache[l] # NotCached =>
    /\ schemaCache[l].at \in 0..tick
    /\ schemaCache[l].parts \in Seq(SeenBy(schemaOf[l]))
    /\ Len(schemaCache[l].parts) = Statements(l)

\* A thread that builds has the lock to itself; what the cache had is still expired, and
\* shows no more than what has been read.
Builds(c, l) ==
  /\ building[l] = c /\ StillExpired(l)
  /\ thread[c].parts \in Seq(SeenBy(schemaOf[l])) /\ Len(thread[c].parts) <= Statements(l)
  /\ schemaCache[l] # NotCached =>
       \A i \in 1..Len(thread[c].parts) :
         thread[c].parts[i] = Unread \/ thread[c].parts[i] >= schemaCache[l].parts[i]

BuildInv == \A c \in Thread : thread[c].pc = "builds" => Builds(c, thread[c].lang)

StudioInv == StudioTypes /\ CacheInv /\ BuildInv

LEMMA StatementNumbers == \A l \in SchemaLang : Statements(l) \in Nat
BY StudioAssumption DEF Statements

LEMMA StudioInitially == StudioInit => StudioInv
<1>. SUFFICES ASSUME StudioInit PROVE StudioInv
  OBVIOUS
<1>1. /\ tick = 0 /\ schemaOf = [l \in SchemaLang |-> 0]
      /\ schemaCache = [l \in SchemaLang |-> NotCached]
      /\ building = [l \in SchemaLang |-> Free] /\ thread = [c \in Thread |-> AtRest]
  BY DEF StudioInit
<1>2. \A c \in Thread : thread[c] = AtRest
  BY <1>1
<1>3. AtRest.pc = "rest" /\ DOMAIN AtRest = {"pc", "lang", "parts"}
  BY DEF AtRest
<1>4. StudioTypes
  BY <1>1, <1>2, <1>3, StudioAssumption DEF StudioTypes
<1>5. CacheInv /\ BuildInv
  BY <1>1, <1>2, <1>3 DEF CacheInv, BuildInv
<1>. QED  BY <1>4, <1>5 DEF StudioInv

\* Steps that leave the schemas, the cache and the threads alone; the clock may go on.
LEMMA StudioWaits ==
  ASSUME StudioInv, tick' \in Nat, tick' >= tick,
         UNCHANGED <<schemaOf, schemaCache, building, thread>>
  PROVE  StudioInv'
<1>0. StudioTypes /\ CacheInv /\ BuildInv
  BY DEF StudioInv
<1>1. StudioTypes'
  BY <1>0 DEF StudioTypes
<1>2. CacheInv'
  <2>1. \A x \in 0..tick : x \in 0..tick'
    BY <1>0 DEF StudioTypes
  <2>. QED  BY <1>0, <2>1 DEF CacheInv
<1>3. BuildInv'
  <2>. SUFFICES ASSUME NEW c \in Thread, thread[c].pc = "builds"
                PROVE  Builds(c, thread[c].lang)'
    BY DEF BuildInv
  <2>l. PICK l \in SchemaLang : l = thread[c].lang
    BY <1>0 DEF StudioTypes
  <2>1. Builds(c, l)
    BY <1>0, <2>l DEF BuildInv
  <2>2. StillExpired(l)'
    <3>1. CASE schemaCache[l] = NotCached
      BY <3>1 DEF StillExpired, UpToDate
    <3>2. CASE schemaCache[l] # NotCached
      <4>1. schemaCache[l].at \in Nat /\ tick \in Nat /\ ~(tick - schemaCache[l].at < SchemaTtl)
        BY <1>0, <2>1, <3>2 DEF CacheInv, StudioTypes, Builds, StillExpired, UpToDate
      <4>2. ~(tick' - schemaCache[l].at < SchemaTtl)
        BY <4>1, StudioAssumption
      <4>. QED  BY <4>2 DEF StillExpired, UpToDate
    <3>. QED  BY <3>1, <3>2
  <2>3. Builds(c, l)'
    BY <2>1, <2>2 DEF Builds
  <2>. QED  BY <2>3, <2>l
<1>. QED  BY <1>1, <1>2, <1>3 DEF StudioInv

\* Steps that change what threads do, but those that keep building go on as they were.
LEMMA OthersBuildOn ==
  ASSUME StudioInv, StudioTypes', UNCHANGED <<tick, schemaOf, schemaCache>>,
         NEW c \in Thread, (thread[c].pc = "builds" => Builds(c, thread[c].lang))',
         \A d \in Thread \ {c} : thread'[d] = thread[d] /\
           (thread[d].pc = "builds" => building'[thread[d].lang] = building[thread[d].lang])
  PROVE  StudioInv'
<1>0. StudioTypes /\ CacheInv /\ BuildInv
  BY DEF StudioInv
<1>1. CacheInv'
  BY <1>0 DEF CacheInv
<1>2. BuildInv'
  <2>1. ASSUME NEW d \in Thread, d # c
        PROVE  (thread[d].pc = "builds" => Builds(d, thread[d].lang))'
    <3>l. PICK l : l = thread[d].lang
      OBVIOUS
    <3>1. thread'[d] = thread[d] /\ thread'[d].lang = l
      BY <2>1, <3>l
    <3>2. thread[d].pc = "builds" => Builds(d, l)
      BY <1>0, <3>l DEF BuildInv
    <3>3. thread[d].pc = "builds" => building'[l] = building[l]
      BY <2>1, <3>l
    <3>4. thread[d].pc = "builds" => Builds(d, l)'
      BY <3>1, <3>2, <3>3 DEF Builds, StillExpired, UpToDate
    <3>. QED  BY <3>1, <3>4
  <2>2. \A d \in Thread : (thread[d].pc = "builds" => Builds(d, thread[d].lang))'
    BY <2>1, Zenon
  <2>. QED  BY <2>2 DEF BuildInv
<1>. QED  BY <1>1, <1>2 DEF StudioInv

\* The shape of a thread that changes.
LEMMA ThreadTypes ==
  ASSUME StudioTypes, NEW c \in Thread, NEW new,
         thread' = [thread EXCEPT ![c] = new],
         DOMAIN new = {"pc", "lang", "parts"}, new.pc \in {"rest", "waits", "builds"},
         new.pc # "rest" => new.lang \in SchemaLang, new.pc = "waits" => new.parts = <<>>,
         UNCHANGED <<tick, schemaOf>>, DOMAIN schemaCache' = SchemaLang,
         DOMAIN building' = SchemaLang
  PROVE  /\ StudioTypes'
         /\ thread'[c] = new /\ \A d \in Thread \ {c} : thread'[d] = thread[d]
<1>1. /\ DOMAIN thread' = Thread /\ thread'[c] = new
      /\ \A d \in Thread \ {c} : thread'[d] = thread[d]
  BY DEF StudioTypes
<1>. QED  BY <1>1 DEF StudioTypes

LEMMA AskSchemaKeeps ==
  ASSUME StudioInv, NEW c \in Thread, NEW l \in SchemaLang, AskSchema(c, l)
  PROVE  StudioInv'
<1>0. StudioTypes
  BY DEF StudioInv
<1>new. PICK new : new = [AtRest EXCEPT !.pc = "waits", !.lang = l]
  OBVIOUS
<1>1. /\ thread' = [thread EXCEPT ![c] = new]
      /\ UNCHANGED <<tick, schemaOf, schemaCache, building>>
  BY <1>new DEF AskSchema
<1>2. /\ DOMAIN new = {"pc", "lang", "parts"} /\ new.pc = "waits" /\ new.lang = l
      /\ new.parts = <<>>
  BY <1>new DEF AtRest
<1>3. StudioTypes' /\ thread'[c] = new /\ \A d \in Thread \ {c} : thread'[d] = thread[d]
  BY <1>0, <1>1, <1>2, ThreadTypes DEF StudioTypes
<1>. QED  BY <1>1, <1>2, <1>3, OthersBuildOn

\* Whoever takes the lock looks again; no other thread builds the same schema.
LEMMA TakeLockKeeps == ASSUME StudioInv, NEW c \in Thread, TakeLock(c) PROVE StudioInv'
<1>0. StudioTypes /\ BuildInv
  BY DEF StudioInv
<1>l. PICK l \in SchemaLang : l = thread[c].lang
  BY <1>0 DEF StudioTypes, TakeLock
<1>1. /\ thread[c].pc = "waits" /\ building[l] = Free /\ thread[c].parts = <<>>
      /\ UNCHANGED <<tick, schemaOf, schemaCache>>
      /\ \A d \in Thread \ {c} : thread[d].pc = "builds" => thread[d].lang # l
  <2>1. \A d \in Thread : d # Free
    BY StudioAssumption DEF Free
  <2>. QED  BY <1>0, <1>l, <2>1 DEF TakeLock, StudioTypes, BuildInv, Builds
<1>2. CASE StillExpired(l)
  <2>new. PICK new : new = [thread[c] EXCEPT !.pc = "builds"]
    OBVIOUS
  <2>1. thread' = [thread EXCEPT ![c] = new] /\ building' = [building EXCEPT ![l] = c]
    BY <1>2, <1>l, <2>new DEF TakeLock
  <2>2. /\ DOMAIN new = {"pc", "lang", "parts"} /\ new.pc = "builds" /\ new.lang = l
        /\ new.parts = <<>>
    BY <1>0, <1>1, <1>l, <2>new DEF StudioTypes
  <2>3. DOMAIN building' = SchemaLang /\ building'[l] = c
        /\ \A k \in SchemaLang \ {l} : building'[k] = building[k]
    BY <1>0, <2>1 DEF StudioTypes
  <2>4. StudioTypes' /\ thread'[c] = new /\ \A d \in Thread \ {c} : thread'[d] = thread[d]
    BY <1>0, <1>1, <2>1, <2>2, <2>3, ThreadTypes DEF StudioTypes
  <2>5. Builds(c, l)'
    <3>1. <<>> \in Seq(SeenBy(schemaOf[l])) /\ Len(<<>>) = 0 /\ Statements(l) \in Nat
      BY StatementNumbers
    <3>2. StillExpired(l)'
      BY <1>1, <1>2 DEF StillExpired, UpToDate
    <3>3. thread'[c].parts = <<>> /\ building'[l] = c /\ schemaOf' = schemaOf
      BY <1>1, <2>2, <2>3, <2>4
    <3>4. 0 <= Statements(l) /\ 1..0 = {}
      BY <3>1
    <3>. QED  BY <3>1, <3>2, <3>3, <3>4 DEF Builds
  <2>6. \A d \in Thread \ {c} :
          thread[d].pc = "builds" => building'[thread[d].lang] = building[thread[d].lang]
    BY <1>0, <1>1, <2>3 DEF StudioTypes
  <2>7. (thread[c].pc = "builds" => Builds(c, thread[c].lang))'
    BY <2>2, <2>4, <2>5
  <2>. QED  BY <1>1, <2>4, <2>6, <2>7, OthersBuildOn
<1>3. CASE ~StillExpired(l)
  <2>1. thread' = [thread EXCEPT ![c] = AtRest] /\ building' = building
    BY <1>3, <1>l DEF TakeLock
  <2>2. AtRest.pc = "rest" /\ DOMAIN AtRest = {"pc", "lang", "parts"}
    BY DEF AtRest
  <2>3. StudioTypes' /\ thread'[c] = AtRest /\ \A d \in Thread \ {c} : thread'[d] = thread[d]
    BY <1>0, <1>1, <2>1, <2>2, ThreadTypes DEF StudioTypes
  <2>. QED  BY <1>1, <2>1, <2>2, <2>3, OthersBuildOn
<1>. QED  BY <1>2, <1>3

\* What a statement reads is the newest there is.
LEMMA ReadSchemaKeeps == ASSUME StudioInv, NEW c \in Thread, ReadSchema(c) PROVE StudioInv'
<1>0. StudioTypes /\ CacheInv /\ BuildInv
  BY DEF StudioInv
<1>l. PICK l \in SchemaLang : l = thread[c].lang
  BY <1>0 DEF StudioTypes, ReadSchema
<1>n. PICK n \in Nat : n = schemaOf[l]
  BY <1>0 DEF StudioTypes
<1>p. PICK parts : parts = thread[c].parts
  OBVIOUS
<1>1. /\ thread[c].pc = "builds" /\ Len(parts) < Statements(l)
      /\ thread' = [thread EXCEPT ![c].parts = Append(@, n)]
      /\ UNCHANGED <<tick, schemaOf, schemaCache, building>>
  BY <1>l, <1>n, <1>p DEF ReadSchema
<1>2. Builds(c, l)
  BY <1>0, <1>1, <1>l DEF BuildInv
<1>new. PICK new : new = [thread[c] EXCEPT !.parts = Append(parts, n)]
  OBVIOUS
<1>3. /\ thread' = [thread EXCEPT ![c] = new]
      /\ DOMAIN new = {"pc", "lang", "parts"} /\ new.pc = "builds" /\ new.lang = l
      /\ new.parts = Append(parts, n)
  BY <1>0, <1>1, <1>l, <1>p, <1>new DEF StudioTypes
<1>4. StudioTypes' /\ thread'[c] = new /\ \A d \in Thread \ {c} : thread'[d] = thread[d]
  BY <1>0, <1>1, <1>3, ThreadTypes DEF StudioTypes
<1>5. /\ parts \in Seq(SeenBy(n)) /\ n \in SeenBy(n) /\ Len(parts) \in Nat /\ Statements(l) \in Nat
  BY <1>2, <1>n, <1>p, StatementNumbers, LenProperties DEF Builds, SeenBy
<1>6. /\ Append(parts, n) \in Seq(SeenBy(n)) /\ Len(Append(parts, n)) = Len(parts) + 1
      /\ Append(parts, n)[Len(parts) + 1] = n
      /\ \A i \in 1..Len(parts) : Append(parts, n)[i] = parts[i]
  BY <1>5, AppendProperties
<1>7. ASSUME schemaCache[l] # NotCached, NEW i \in 1..(Len(parts) + 1)
      PROVE  Append(parts, n)[i] = Unread \/ Append(parts, n)[i] >= schemaCache[l].parts[i]
  <2>1. CASE i \in 1..Len(parts)
    BY <1>2, <1>6, <1>7, <1>p, <2>1 DEF Builds
  <2>2. CASE i \notin 1..Len(parts)
    <3>1. i = Len(parts) + 1 /\ i \in 1..Statements(l)
      BY <1>1, <1>5, <2>2
    <3>2. schemaCache[l].parts \in Seq(SeenBy(n)) /\ Len(schemaCache[l].parts) = Statements(l)
      BY <1>0, <1>7, <1>n DEF CacheInv
    <3>3. schemaCache[l].parts[i] \in SeenBy(n)
      BY <3>1, <3>2
    <3>. QED  BY <1>6, <3>1, <3>3 DEF SeenBy, Unread
  <2>. QED  BY <2>1, <2>2
<1>8. Builds(c, l)'
  <2>1. /\ building'[l] = c /\ StillExpired(l)' /\ schemaOf'[l] = n
        /\ schemaCache' = schemaCache /\ thread'[c].parts = Append(parts, n)
    BY <1>1, <1>2, <1>3, <1>4, <1>n DEF Builds, StillExpired, UpToDate
  <2>2. Append(parts, n) \in Seq(SeenBy(n)) /\ Len(Append(parts, n)) <= Statements(l)
    BY <1>1, <1>5, <1>6
  <2>3. schemaCache[l] # NotCached =>
          \A i \in 1..Len(Append(parts, n)) :
            Append(parts, n)[i] = Unread \/ Append(parts, n)[i] >= schemaCache[l].parts[i]
    BY <1>6, <1>7
  <2>q. PICK q : q = Append(parts, n)
    OBVIOUS
  <2>. QED  BY <2>1, <2>2, <2>3, <2>q DEF Builds
<1>9. (thread[c].pc = "builds" => Builds(c, thread[c].lang))'
  BY <1>3, <1>4, <1>8
<1>. QED  BY <1>1, <1>4, <1>9, OthersBuildOn

\* A statement that fails leaves gaps in the one schema, and ends the build of the others.
LEMMA SchemaFailsKeeps == ASSUME StudioInv, NEW c \in Thread, SchemaFails(c) PROVE StudioInv'
<1>0. StudioTypes /\ CacheInv /\ BuildInv
  BY DEF StudioInv
<1>l. PICK l \in SchemaLang : l = thread[c].lang
  BY <1>0 DEF StudioTypes, SchemaFails
<1>p. PICK parts : parts = thread[c].parts
  OBVIOUS
<1>left. PICK left : left = Statements(l) - Len(parts)
  OBVIOUS
<1>1. /\ thread[c].pc = "builds" /\ left > 0
      /\ UNCHANGED <<tick, schemaOf, schemaCache>>
  BY <1>l, <1>p, <1>left DEF SchemaFails
<1>2. Builds(c, l)
  BY <1>0, <1>1, <1>l DEF BuildInv
<1>3. CASE l = "sparql"
  <2>gaps. PICK gaps : gaps = [i \in 1..left |-> Unread]
    OBVIOUS
  <2>new. PICK new : new = [thread[c] EXCEPT !.parts = parts \o gaps]
    OBVIOUS
  <2>1. thread' = [thread EXCEPT ![c].parts = @ \o gaps] /\ building' = building
    BY <1>3, <1>l, <1>p, <1>left, <2>gaps DEF SchemaFails
  <2>2. /\ thread' = [thread EXCEPT ![c] = new]
        /\ DOMAIN new = {"pc", "lang", "parts"} /\ new.pc = "builds" /\ new.lang = l
        /\ new.parts = parts \o gaps
    BY <1>0, <1>1, <1>l, <1>p, <2>1, <2>new DEF StudioTypes
  <2>3. StudioTypes' /\ thread'[c] = new /\ \A d \in Thread \ {c} : thread'[d] = thread[d]
    BY <1>0, <1>1, <2>1, <2>2, ThreadTypes DEF StudioTypes
  <2>s. PICK S : S = SeenBy(schemaOf[l])
    OBVIOUS
  <2>4. /\ parts \in Seq(S) /\ Len(parts) \in Nat /\ Statements(l) \in Nat /\ left \in Nat
        /\ gaps \in Seq(S) /\ Len(gaps) = left
    <3>1. parts \in Seq(S) /\ Len(parts) \in Nat /\ Statements(l) \in Nat
      BY <1>2, <1>p, <2>s, StatementNumbers, LenProperties DEF Builds
    <3>2. left \in Nat
      BY <1>1, <1>left, <3>1
    <3>3. Unread \in S
      BY <2>s DEF SeenBy
    <3>4. gaps \in Seq(S) /\ DOMAIN gaps = 1..left
      BY <2>gaps, <3>2, <3>3
    <3>. QED  BY <3>1, <3>2, <3>4, LenProperties
  <2>q. PICK q : q = parts \o gaps
    OBVIOUS
  <2>5. /\ q \in Seq(S) /\ Len(q) = Len(parts) + left
        /\ \A i \in 1..Len(q) : q[i] = IF i <= Len(parts) THEN parts[i] ELSE gaps[i - Len(parts)]
    <3>1. /\ parts \o gaps \in Seq(S) /\ Len(parts \o gaps) = Len(parts) + Len(gaps)
          /\ \A i \in 1..Len(parts) + Len(gaps) :
               (parts \o gaps)[i] = IF i <= Len(parts) THEN parts[i] ELSE gaps[i - Len(parts)]
      BY <2>4, ConcatProperties, Zenon
    <3>2. Len(gaps) = left
      BY <2>4
    <3>. QED  BY <3>1, <3>2, <2>q
  <2>6. ASSUME schemaCache[l] # NotCached, NEW i \in 1..Len(q)
        PROVE  q[i] = Unread \/ q[i] >= schemaCache[l].parts[i]
    <3>1. CASE i <= Len(parts)
      <4>1. i \in 1..Len(parts) /\ q[i] = parts[i]
        BY <2>4, <2>5, <3>1
      <4>. QED  BY <1>2, <1>p, <2>6, <4>1 DEF Builds
    <3>2. CASE ~(i <= Len(parts))
      <4>1. i - Len(parts) \in 1..left /\ q[i] = gaps[i - Len(parts)]
        BY <2>4, <2>5, <3>2
      <4>. QED  BY <2>gaps, <4>1
    <3>. QED  BY <3>1, <3>2
  <2>7. /\ building'[l] = c /\ StillExpired(l)' /\ schemaCache' = schemaCache
        /\ schemaOf' = schemaOf /\ thread'[c].parts = q
    BY <1>1, <1>2, <2>1, <2>2, <2>3, <2>q DEF Builds, StillExpired, UpToDate
  <2>8. q \in Seq(SeenBy(schemaOf[l])) /\ Len(q) <= Statements(l)
    BY <1>left, <2>4, <2>5, <2>s
  <2>9. Builds(c, l)'
    BY <2>6, <2>7, <2>8 DEF Builds
  <2>10. (thread[c].pc = "builds" => Builds(c, thread[c].lang))'
    BY <2>2, <2>3, <2>9
  <2>. QED  BY <1>1, <2>1, <2>3, <2>10, OthersBuildOn
<1>4. CASE l # "sparql"
  <2>1. thread' = [thread EXCEPT ![c] = AtRest] /\ building' = [building EXCEPT ![l] = Free]
    BY <1>4, <1>l DEF SchemaFails
  <2>2. AtRest.pc = "rest" /\ DOMAIN AtRest = {"pc", "lang", "parts"}
    BY DEF AtRest
  <2>3. DOMAIN building' = SchemaLang /\ \A k \in SchemaLang \ {l} : building'[k] = building[k]
    BY <1>0, <2>1 DEF StudioTypes
  <2>4. StudioTypes' /\ thread'[c] = AtRest /\ \A d \in Thread \ {c} : thread'[d] = thread[d]
    BY <1>0, <1>1, <2>1, <2>2, <2>3, ThreadTypes DEF StudioTypes
  <2>5. \A d \in Thread \ {c} :
          thread[d].pc = "builds" => building'[thread[d].lang] = building[thread[d].lang]
    BY <1>0, <1>2, <2>3 DEF StudioTypes, BuildInv, Builds
  <2>. QED  BY <1>1, <2>2, <2>4, <2>5, OthersBuildOn
<1>. QED  BY <1>3, <1>4

\* What is kept replaces what had expired, and the lock is free.
LEMMA KeepSchemaKeeps == ASSUME StudioInv, NEW c \in Thread, KeepSchema(c) PROVE StudioInv'
<1>0. StudioTypes /\ CacheInv /\ BuildInv
  BY DEF StudioInv
<1>l. PICK l \in SchemaLang : l = thread[c].lang
  BY <1>0 DEF StudioTypes, KeepSchema
<1>e. PICK entry : entry = [at |-> tick, parts |-> thread[c].parts]
  OBVIOUS
<1>1. /\ thread[c].pc = "builds" /\ Len(thread[c].parts) = Statements(l)
      /\ schemaCache' = [schemaCache EXCEPT ![l] = entry]
      /\ building' = [building EXCEPT ![l] = Free] /\ thread' = [thread EXCEPT ![c] = AtRest]
      /\ UNCHANGED <<tick, schemaOf>>
  BY <1>l, <1>e DEF KeepSchema
<1>2. Builds(c, l)
  BY <1>0, <1>1, <1>l DEF BuildInv
<1>3. AtRest.pc = "rest" /\ DOMAIN AtRest = {"pc", "lang", "parts"}
  BY DEF AtRest
<1>4. /\ DOMAIN schemaCache' = SchemaLang /\ DOMAIN building' = SchemaLang
      /\ schemaCache'[l] = entry
      /\ \A k \in SchemaLang \ {l} :
           schemaCache'[k] = schemaCache[k] /\ building'[k] = building[k]
  BY <1>0, <1>1 DEF StudioTypes
<1>5. StudioTypes' /\ thread'[c] = AtRest /\ \A d \in Thread \ {c} : thread'[d] = thread[d]
  BY <1>0, <1>1, <1>3, <1>4, ThreadTypes DEF StudioTypes
<1>6. CacheInv'
  <2>1. /\ entry.at \in 0..tick /\ entry.parts \in Seq(SeenBy(schemaOf[l]))
        /\ Len(entry.parts) = Statements(l)
    BY <1>0, <1>1, <1>2, <1>e DEF StudioTypes, Builds
  <2>. QED  BY <1>0, <1>1, <1>4, <2>1 DEF CacheInv
<1>7. BuildInv'
  <2>1. ASSUME NEW d \in Thread
        PROVE  (thread[d].pc = "builds" => Builds(d, thread[d].lang))'
    <3>k. PICK k : k = thread[d].lang
      OBVIOUS
    <3>1. CASE d = c
      BY <1>3, <1>5, <3>1
    <3>2. CASE d # c /\ thread[d].pc = "builds"
      <4>1. Builds(d, k) /\ k \in SchemaLang /\ thread'[d] = thread[d]
        BY <1>0, <1>5, <3>k, <3>2 DEF BuildInv, StudioTypes
      <4>2. k # l
        BY <1>2, <3>2, <4>1 DEF Builds
      <4>3. building'[k] = building[k] /\ schemaCache'[k] = schemaCache[k]
        BY <1>4, <4>1, <4>2
      <4>4. Builds(d, k)'
        BY <1>1, <4>1, <4>3 DEF Builds, StillExpired, UpToDate
      <4>. QED  BY <3>k, <4>1, <4>4
    <3>3. CASE d # c /\ thread[d].pc # "builds"
      BY <1>5, <3>3
    <3>. QED  BY <3>1, <3>2, <3>3
  <2>2. \A d \in Thread : (thread[d].pc = "builds" => Builds(d, thread[d].lang))'
    BY <2>1, Zenon
  <2>. QED  BY <2>2 DEF BuildInv
<1>. QED  BY <1>5, <1>6, <1>7 DEF StudioInv

LEMMA ChangeSchemaKeeps ==
  ASSUME StudioInv, NEW l \in SchemaLang, ChangeSchema(l)
  PROVE  StudioInv'
<1>0. StudioTypes /\ CacheInv /\ BuildInv
  BY DEF StudioInv
<1>1. /\ schemaOf[l] < MaxSchema /\ schemaOf' = [schemaOf EXCEPT ![l] = @ + 1]
      /\ UNCHANGED <<tick, schemaCache, building, thread>>
  BY DEF ChangeSchema
<1>2. /\ schemaOf' \in [SchemaLang -> 0..MaxSchema]
      /\ \A k \in SchemaLang : schemaOf[k] \in Nat /\ schemaOf'[k] \in Nat /\ schemaOf[k] <= schemaOf'[k]
  BY <1>0, <1>1, StudioAssumption DEF StudioTypes
<1>3. \A k \in SchemaLang : \A s : s \in Seq(SeenBy(schemaOf[k])) => s \in Seq(SeenBy(schemaOf'[k]))
  <2>. SUFFICES ASSUME NEW k \in SchemaLang, NEW s \in Seq(SeenBy(schemaOf[k]))
                PROVE  s \in Seq(SeenBy(schemaOf'[k]))
    OBVIOUS
  <2>1. SeenBy(schemaOf[k]) \subseteq SeenBy(schemaOf'[k])
    BY <1>2 DEF SeenBy
  <2>2. s \in [1..Len(s) -> SeenBy(schemaOf[k])] /\ Len(s) \in Nat
    BY LenProperties
  <2>3. s \in [1..Len(s) -> SeenBy(schemaOf'[k])]
    BY <2>1, <2>2
  <2>. QED  BY <2>2, <2>3
<1>4. StudioTypes'
  BY <1>0, <1>1, <1>2 DEF StudioTypes
<1>5. CacheInv'
  BY <1>0, <1>1, <1>3 DEF CacheInv
<1>6. BuildInv'
  <2>1. ASSUME NEW d \in Thread, thread[d].pc = "builds"
        PROVE  Builds(d, thread[d].lang)'
    <3>k. PICK k \in SchemaLang : k = thread[d].lang
      BY <1>0, <2>1 DEF StudioTypes
    <3>1. Builds(d, k)
      BY <1>0, <2>1, <3>k DEF BuildInv
    <3>2. Builds(d, k)'
      BY <1>1, <1>3, <3>1 DEF Builds, StillExpired, UpToDate
    <3>. QED  BY <1>1, <3>k, <3>2
  <2>. QED  BY <1>1, <2>1 DEF BuildInv
<1>. QED  BY <1>4, <1>5, <1>6 DEF StudioInv

LEMMA StudioWaitsOn ==
  ASSUME StudioInv, QueriesNext \/ Tick \/ UNCHANGED studioVars
  PROVE  StudioInv' /\ UNCHANGED schemaCache
<1>1. UNCHANGED <<schemaOf, schemaCache, building, thread>> /\ (tick' = tick \/ tick' = tick + 1)
  BY DEF QueriesNext, RunQuery, QueryAnswered, Tick, studioVars
<1>2. tick \in Nat
  BY DEF StudioInv, StudioTypes
<1>. QED  BY <1>1, <1>2, StudioWaits

LEMMA StudioStep == StudioInv /\ [StudioNext]_studioVars => StudioInv'
BY StudioWaitsOn, AskSchemaKeeps, TakeLockKeeps, ReadSchemaKeeps, SchemaFailsKeeps,
   KeepSchemaKeeps, ChangeSchemaKeeps DEF StudioNext, SchemasNext

\* Only the thread that has built replaces what is cached.
LEMMA SchemaIsReplaced ==
  ASSUME StudioInv, [StudioNext]_studioVars
  PROVE  SchemaIsBuiltOnce
<1>0. StudioTypes /\ CacheInv /\ BuildInv
  BY DEF StudioInv
<1>. SUFFICES ASSUME NEW l \in SchemaLang, schemaCache'[l] # schemaCache[l],
                     schemaCache[l] # NotCached
              PROVE  /\ tick - schemaCache[l].at >= SchemaTtl
                     /\ \A i \in 1..Statements(l) :
                          schemaCache'[l].parts[i] \in {Unread} \union schemaCache[l].parts[i]..MaxSchema
  BY DEF SchemaIsBuiltOnce
<1>1. PICK c \in Thread : KeepSchema(c)
  <2>1. schemaCache' # schemaCache
    OBVIOUS
  <2>. QED
    BY <2>1, StudioWaitsOn DEF StudioNext, SchemasNext, AskSchema, TakeLock, ReadSchema,
       SchemaFails, ChangeSchema
<1>2. l = thread[c].lang
  BY <1>0, <1>1 DEF KeepSchema, StudioTypes
<1>p. PICK parts : parts = thread[c].parts
  OBVIOUS
<1>3. /\ thread[c].pc = "builds" /\ Len(parts) = Statements(l)
      /\ schemaCache'[l].parts = parts
  BY <1>0, <1>1, <1>2, <1>p DEF KeepSchema, StudioTypes
<1>4. Builds(c, l)
  BY <1>0, <1>2, <1>3 DEF BuildInv
<1>5. /\ tick \in Nat /\ schemaCache[l].at \in Nat
      /\ schemaCache[l].parts \in Seq(SeenBy(schemaOf[l]))
      /\ Len(schemaCache[l].parts) = Statements(l) /\ schemaOf[l] \in 0..MaxSchema
  BY <1>0 DEF StudioTypes, CacheInv
<1>6. tick - schemaCache[l].at >= SchemaTtl
  <2>1. ~(tick - schemaCache[l].at < SchemaTtl)
    BY <1>4 DEF Builds, StillExpired, UpToDate
  <2>. QED  BY <1>5, <2>1, StudioAssumption
<1>7. ASSUME NEW i \in 1..Statements(l)
      PROVE  parts[i] \in {Unread} \union schemaCache[l].parts[i]..MaxSchema
  <2>1. parts[i] = Unread \/ parts[i] >= schemaCache[l].parts[i]
    BY <1>3, <1>4, <1>p DEF Builds
  <2>2. parts[i] \in SeenBy(schemaOf[l]) /\ schemaCache[l].parts[i] \in SeenBy(schemaOf[l])
    BY <1>3, <1>4, <1>5, <1>p DEF Builds
  <2>. QED  BY <1>5, <2>1, <2>2, StudioAssumption DEF SeenBy, Unread
<1>. QED  BY <1>3, <1>6, <1>7

\* routers/query.py: a cached schema is replaced only when it has expired, however
\* many threads found it so at once, and by one that shows no less of what changed,
\* except for what could not be read; for any threads, lifetimes and failures.
THEOREM SchemasAreBuiltOnce == StudioSpec => [][SchemaIsBuiltOnce]_studioVars
<1>1. StudioInv /\ [StudioNext]_studioVars => [SchemaIsBuiltOnce]_studioVars
  BY SchemaIsReplaced
<1>. QED  BY <1>1, StudioInitially, StudioStep, PTL DEF StudioSpec

----------------------------------------------------------------------------
(* QueryStudio: what is left of a query without its comments and literals holds the *)
(* words that its engine finds, and no others if it reads the query to its end. *)

LEMMA LeastNumber ==
  ASSUME NEW T, T \subseteq Nat, T # {}
  PROVE  \E x \in T : \A y \in T : x <= y
<1>. DEFINE Less == {p \in Nat \X Nat : p[1] < p[2]}
<1>1. IsWellFoundedOn(Less, Nat)
  BY NatLessThanWellFounded DEF OpToRel
<1>2. ASSUME NEW x \in Nat, NEW y \in Nat, x < y
      PROVE  <<x, y>> \in Less
  BY <1>2
<1>. HIDE DEF Less
<1>3. PICK x \in T : \A y \in T : ~(<<y, x>> \in Less)
  BY <1>1, WFMin, Zenon
<1>4. ASSUME NEW y \in T
      PROVE  x <= y
  <2>1. ~(y < x)
    BY <1>2, <1>3, Zenon
  <2>. QED  BY <2>1
<1>. QED  BY <1>4

(* What the three scans of a query do at each place.                       *)

LexSteps(upTo, size, q, lang) ==
  upTo = [i \in 0..size |->
            IF i = 0 THEN [mode |-> "code", words |-> {}] ELSE Reads(upTo[i - 1], q, i, lang)]

\* The engine's reading of any query can be defined sign by sign.
LEMMA LexIsDefined ==
  ASSUME NEW q, NEW lang, NEW size \in Nat
  PROVE  \E upTo : LexSteps(upTo, size, q, lang)
<1>. DEFINE T == {n \in Nat : ~ \E upTo : LexSteps(upTo, n, q, lang)}
<1>. SUFFICES ASSUME T # {} PROVE FALSE OBVIOUS
<1>1. PICK n \in T : \A k \in T : n <= k
  <2>. HIDE DEF T
  <2>1. T \subseteq Nat BY DEF T
  <2>. QED BY <2>1, LeastNumber
<1>2. n \in Nat /\ ~ \E upTo : LexSteps(upTo, n, q, lang) BY <1>1
<1>3. CASE n = 0
  <2>. DEFINE first == [i \in 0..0 |-> [mode |-> "code", words |-> {}]]
  <2>1. LexSteps(first, 0, q, lang) BY DEF LexSteps
  <2>. QED BY <1>2, <1>3, <2>1
<1>4. CASE n # 0
  <2>1. n - 1 \in Nat /\ n - 1 < n BY <1>2, <1>4
  <2>2. PICK before : LexSteps(before, n - 1, q, lang) BY <1>1, <2>1
  <2>. DEFINE Start == [mode |-> "code", words |-> {}]
             step(f, i) == Reads(f[i - 1], q, i, lang)
             upTo == [i \in 0..n |-> IF i = n THEN step(before, n) ELSE before[i]]
  <2>3. \A i \in 0..(n - 1) : before[i] = IF i = 0 THEN Start ELSE step(before, i)
    BY <2>2 DEF LexSteps
  <2>4. \A i \in 0..(n - 1) : upTo[i] = before[i] BY <2>1
  <2>5. upTo[n] = step(upTo, n)
    <3>1. upTo[n] = step(before, n) BY <1>2
    <3>2. n - 1 \in 0..(n - 1) BY <2>1
    <3>3. upTo[n - 1] = before[n - 1] BY <2>4, <3>2
    <3>. HIDE DEF upTo
    <3>. QED BY <3>1, <3>3
  <2>6. \A i \in 0..n : upTo[i] = IF i = 0 THEN Start ELSE step(upTo, i)
    <3>. SUFFICES ASSUME NEW i \in 0..n PROVE upTo[i] = IF i = 0 THEN Start ELSE step(upTo, i) OBVIOUS
    <3>1. CASE i = n BY <1>4, <2>5, <3>1
    <3>2. CASE i # n
      <4>1. i \in 0..(n - 1) /\ (i # 0 => i - 1 \in 0..(n - 1)) BY <1>2, <3>2
      <4>2. i # 0 => upTo[i - 1] = before[i - 1] BY <4>1, <2>4
      <4>. HIDE DEF upTo, Start
      <4>. QED BY <4>1, <4>2, <2>3, <2>4
    <3>. QED BY <3>1, <3>2
  <2>7. upTo = [i \in 0..n |-> IF i = 0 THEN Start ELSE step(upTo, i)]
    <3>1. upTo = [i \in 0..n |-> upTo[i]] OBVIOUS
    <3>. HIDE DEF upTo, step, Start
    <3>. QED BY <3>1, <2>6
  <2>8. LexSteps(upTo, n, q, lang)
    <3>. HIDE DEF upTo
    <3>. QED BY <2>7 DEF LexSteps
  <2>. QED BY <1>2, <2>8
<1>. QED BY <1>3, <1>4

Escapes(q, start, lang) == lang = "cypher" /\ q[start] # "tick"
EndAt(end, i, q, start, lang) ==
  IF i > Len(q) THEN 0
  ELSE IF Escapes(q, start, lang) /\ q[i] = "slash" THEN end[i + 2]
  ELSE IF q[i] = q[start] THEN i ELSE end[i + 1]

FromAt(from, i, q, lang) ==
  IF i > Len(q) THEN {}
  ELSE IF q[i] = "line" THEN from[LineEnd(q, i)]
  ELSE IF q[i] \notin {"open", "quote", "tick"} THEN {i} \union from[i + 1]
  ELSE IF Closing(q, i, lang) = 0 THEN i..Len(q) ELSE from[Closing(q, i, lang) + 1]

\* The first place with a sign.
LEMMA NextOfIs ==
  ASSUME NEW q \in Seq(Sign), NEW i \in Nat \ {0}, NEW sign
  PROVE  LET j == NextOf(q, i, sign) IN
         /\ j = 0 => \A k \in i..Len(q) : q[k] # sign
         /\ j # 0 => /\ j \in i..Len(q) /\ q[j] = sign
                     /\ \A k \in i..(j - 1) : q[k] # sign
<1>. DEFINE at == {j \in i..Len(q) : q[j] = sign}
           least == CHOOSE j \in at : \A k \in at : j <= k
<1>1. Len(q) \in Nat /\ at \subseteq Nat OBVIOUS
<1>2. at # {} => least \in at /\ \A k \in at : least <= k
  <2>. HIDE DEF at
  <2>. QED BY <1>1, LeastNumber
<1>3. NextOf(q, i, sign) = IF at = {} THEN 0 ELSE least BY DEF NextOf
<1>. HIDE DEF least
<1>4. CASE at = {} BY <1>3, <1>4
<1>5. CASE at # {}
  <2>1. least \in i..Len(q) /\ q[least] = sign /\ \A k \in at : least <= k BY <1>2, <1>5
  <2>2. ASSUME NEW k \in i..(least - 1) PROVE q[k] # sign
    <3>1. k \in i..Len(q) /\ ~(least <= k) BY <1>1, <2>1
    <3>. QED BY <2>1, <3>1
  <2>3. least # 0 BY <1>1, <2>1
  <2>. QED BY <1>3, <1>5, <2>1, <2>2, <2>3
<1>. QED BY <1>4, <1>5

\* The two scans look ahead: they are defined from the end of the query backwards, f
\* being right from the place b on.
EndOk(f, b, q, start, lang) ==
  /\ f = [i \in 1..(Len(q) + 2) |-> f[i]]
  /\ \A i \in b..(Len(q) + 2) : f[i] = EndAt(f, i, q, start, lang)
FromOk(f, b, q, lang) ==
  /\ f = [i \in 1..(Len(q) + 1) |-> f[i]]
  /\ \A i \in b..(Len(q) + 1) : f[i] = FromAt(f, i, q, lang)

LEMMA EndLooksAhead ==
  ASSUME NEW q \in Seq(Sign), NEW start, NEW lang, NEW k \in 1..(Len(q) + 2), NEW f, NEW g,
         \A i \in (k + 1)..(Len(q) + 2) : f[i] = g[i]
  PROVE  \A i \in k..(Len(q) + 2) : EndAt(f, i, q, start, lang) = EndAt(g, i, q, start, lang)
<1>. SUFFICES ASSUME NEW i \in k..(Len(q) + 2), i <= Len(q)
             PROVE  EndAt(f, i, q, start, lang) = EndAt(g, i, q, start, lang)
  BY DEF EndAt
<1>1. Len(q) \in Nat /\ i + 1 \in (k + 1)..(Len(q) + 2) /\ i + 2 \in (k + 1)..(Len(q) + 2)
  OBVIOUS
<1>2. f[i + 1] = g[i + 1] /\ f[i + 2] = g[i + 2] BY <1>1
<1>. QED BY <1>2 DEF EndAt

LEMMA EndIsDefined ==
  ASSUME NEW q \in Seq(Sign), NEW start, NEW lang
  PROVE  \E f : EndOk(f, 1, q, start, lang)
<1>. DEFINE N == Len(q) + 2
           T == {n \in Nat : n <= N /\ ~ \E f : EndOk(f, N + 1 - n, q, start, lang)}
<1>1. Len(q) \in Nat /\ N \in Nat /\ N = Len(q) + 2 OBVIOUS
<1>. HIDE DEF N
<1>2. T = {}
  <2>. SUFFICES ASSUME T # {} PROVE FALSE OBVIOUS
  <2>1. PICK n \in T : \A k \in T : n <= k
    <3>1. T \subseteq Nat BY DEF T
    <3>. HIDE DEF T
    <3>. QED BY <3>1, LeastNumber
  <2>2. n \in Nat /\ n <= N /\ ~ \E f : EndOk(f, N + 1 - n, q, start, lang) BY <2>1
  <2>3. CASE n = 0
    <3>. DEFINE none == [i \in 1..N |-> 0]
    <3>1. \A i \in (N + 1)..N : FALSE BY <1>1
    <3>2. EndOk(none, N + 1, q, start, lang)
      <4>1. none = [i \in 1..N |-> none[i]] OBVIOUS
      <4>. HIDE DEF none
      <4>. QED BY <1>1, <3>1, <4>1 DEF EndOk
    <3>3. N + 1 - n = N + 1 BY <1>1, <2>3
    <3>. QED BY <2>2, <3>2, <3>3
  <2>4. CASE n # 0
    <3>1. n - 1 \in Nat /\ n - 1 < n /\ n - 1 <= N BY <1>1, <2>2, <2>4
    <3>2. n - 1 \notin T BY <2>1, <2>2, <3>1
    <3>3. PICK old : EndOk(old, N + 1 - (n - 1), q, start, lang) BY <3>1, <3>2
    <3>k. PICK k : k = N + 1 - n OBVIOUS
    <3>4. k \in 1..N /\ k = N + 1 - n BY <1>1, <2>2, <2>4, <3>k
    <3>5. k + 1 = N + 1 - (n - 1) BY <1>1, <2>2, <3>4
    <3>6. old = [i \in 1..N |-> old[i]] /\ \A i \in (k + 1)..N : old[i] = EndAt(old, i, q, start, lang)
      BY <1>1, <3>3, <3>5 DEF EndOk
    <3>7. PICK new : new = [i \in 1..N |-> IF i = k THEN EndAt(old, k, q, start, lang) ELSE old[i]]
      OBVIOUS
    <3>8. /\ new = [i \in 1..N |-> new[i]] /\ new[k] = EndAt(old, k, q, start, lang)
          /\ \A i \in (k + 1)..N : new[i] = old[i]
      BY <1>1, <3>4, <3>7
    <3>9. \A i \in k..N : EndAt(new, i, q, start, lang) = EndAt(old, i, q, start, lang)
      <4>1. \A i \in (k + 1)..(Len(q) + 2) : new[i] = old[i] BY <1>1, <3>8
      <4>2. k \in 1..(Len(q) + 2) BY <1>1, <3>4
      <4>3. \A i \in k..(Len(q) + 2) : EndAt(new, i, q, start, lang) = EndAt(old, i, q, start, lang)
        BY <4>1, <4>2, EndLooksAhead
      <4>. QED BY <1>1, <4>3
    <3>10. \A i \in k..N : new[i] = EndAt(new, i, q, start, lang)
      <4>. SUFFICES ASSUME NEW i \in k..N PROVE new[i] = EndAt(new, i, q, start, lang) OBVIOUS
      <4>1. CASE i = k BY <3>8, <3>9, <4>1
      <4>2. CASE i # k
        <5>1. i \in (k + 1)..N BY <1>1, <3>4, <4>2
        <5>. QED BY <3>6, <3>8, <3>9, <5>1
      <4>. QED BY <4>1, <4>2
    <3>11. EndOk(new, k, q, start, lang) BY <1>1, <3>8, <3>10 DEF EndOk
    <3>. QED BY <2>2, <3>4, <3>11
  <2>. QED BY <2>3, <2>4
<1>3. N \in Nat /\ N <= N /\ N + 1 - N = 1 BY <1>1
<1>4. N \notin T BY <1>2
<1>. QED BY <1>3, <1>4

\* The scan of a literal, as a function.
LEMMA LiteralEndIs ==
  ASSUME NEW q \in Seq(Sign), NEW start, NEW lang
  PROVE  \E f : EndOk(f, 1, q, start, lang) /\ LiteralEnd(q, start, lang) = f[start + 1]
<1>. DEFINE EndSteps(f) == f = [i \in 1..(Len(q) + 2) |-> EndAt(f, i, q, start, lang)]
           chosen == CHOOSE f : EndSteps(f)
<1>1. PICK f : EndOk(f, 1, q, start, lang) BY EndIsDefined
<1>2. EndSteps(f)
  <2>1. /\ f = [i \in 1..(Len(q) + 2) |-> f[i]]
        /\ \A i \in 1..(Len(q) + 2) : f[i] = EndAt(f, i, q, start, lang)
    BY <1>1 DEF EndOk
  <2>. QED BY <2>1
<1>3. EndSteps(chosen)
  <2>. HIDE DEF EndSteps
  <2>. QED BY <1>2
<1>4. LiteralEnd(q, start, lang) = chosen[start + 1] BY DEF LiteralEnd, EndAt, Escapes
<1>. HIDE DEF chosen
<1>5. EndOk(chosen, 1, q, start, lang)
  <2>1. \A i \in 1..(Len(q) + 2) : chosen[i] = EndAt(chosen, i, q, start, lang) BY <1>3
  <2>2. chosen = [i \in 1..(Len(q) + 2) |-> chosen[i]] BY <1>3, <2>1
  <2>. QED BY <2>1, <2>2 DEF EndOk
<1>. QED BY <1>4, <1>5

\* A literal that ends, ends after its start.
LEMMA LiteralEndIsAhead ==
  ASSUME NEW q \in Seq(Sign), NEW start \in 1..Len(q), NEW lang
  PROVE  LiteralEnd(q, start, lang) \in {0} \union (start + 1)..Len(q)
<1>1. PICK f : EndOk(f, 1, q, start, lang) /\ LiteralEnd(q, start, lang) = f[start + 1]
  BY LiteralEndIs
<1>. DEFINE N == Len(q) + 2
           T == {i \in 0..N : i # 0 /\ f[i] # 0 /\ ~(f[i] \in i..Len(q))}
<1>2. Len(q) \in Nat /\ N \in Nat OBVIOUS
<1>3. T = {}
  <2>. SUFFICES ASSUME T # {} PROVE FALSE OBVIOUS
  <2>1. PICK i \in T : \A k \in T : i >= k
    <3>1. T \subseteq 0..N OBVIOUS
    <3>. HIDE DEF T, N
    <3>. QED BY <1>2, <3>1, GreatestNumber
  <2>2. i \in 1..N /\ f[i] # 0 /\ ~(f[i] \in i..Len(q)) BY <2>1
  <2>3. f[i] = EndAt(f, i, q, start, lang) BY <1>1, <2>2 DEF EndOk
  <2>4. i <= Len(q) BY <2>2, <2>3 DEF EndAt
  <2>5. f[i + 1] \in {0} \union (i + 1)..Len(q) /\ f[i + 2] \in {0} \union (i + 2)..Len(q)
    <3>1. i + 1 \in 0..N /\ i + 2 \in 0..N /\ ~(i >= i + 1) /\ ~(i >= i + 2) BY <1>2, <2>2, <2>4
    <3>2. i + 1 \notin T /\ i + 2 \notin T BY <2>1, <3>1
    <3>3. i + 1 # 0 /\ i + 2 # 0 BY <2>2
    <3>. QED BY <3>1, <3>2, <3>3
  <2>6. f[i] \in {0, i, f[i + 1], f[i + 2]} BY <2>3 DEF EndAt
  <2>. QED BY <1>2, <2>2, <2>4, <2>5, <2>6
<1>4. start + 1 \in 0..N /\ start + 1 # 0 BY <1>2
<1>. QED BY <1>1, <1>2, <1>3, <1>4

LEMMA ClosingIsAhead ==
  ASSUME NEW q \in Seq(Sign), NEW i \in 1..Len(q), NEW lang
  PROVE  /\ Closing(q, i, lang) \in {0} \union (i + 1)..Len(q)
         /\ q[i] = "line" => LineEnd(q, i) \in (i + 1)..(Len(q) + 1)
<1>1. Len(q) \in Nat /\ i \in Nat \ {0} /\ i + 1 \in Nat \ {0} OBVIOUS
<1>2. Closing(q, i, lang) \in {0} \union (i + 1)..Len(q)
  <2>1. NextOf(q, i + 1, "close") \in {0} \union (i + 1)..Len(q) BY <1>1, NextOfIs
  <2>2. LiteralEnd(q, i, lang) \in {0} \union (i + 1)..Len(q) BY LiteralEndIsAhead
  <2>. QED BY <2>1, <2>2 DEF Closing
<1>3. ASSUME q[i] = "line" PROVE LineEnd(q, i) \in (i + 1)..(Len(q) + 1)
  <2>. DEFINE j == NextOf(q, i, "newline")
  <2>1. j # 0 => j \in i..Len(q) /\ q[j] = "newline" BY <1>1, NextOfIs
  <2>2. LineEnd(q, i) = IF j = 0 THEN Len(q) + 1 ELSE j BY DEF LineEnd
  <2>. HIDE DEF j
  <2>3. j # 0 => j # i BY <1>3, <2>1
  <2>. QED BY <1>1, <2>1, <2>2, <2>3
<1>. QED BY <1>2, <1>3

LEMMA FromLooksAhead ==
  ASSUME NEW q \in Seq(Sign), NEW lang, NEW k \in 1..(Len(q) + 1), NEW f, NEW g,
         \A i \in (k + 1)..(Len(q) + 1) : f[i] = g[i]
  PROVE  \A i \in k..(Len(q) + 1) : FromAt(f, i, q, lang) = FromAt(g, i, q, lang)
<1>. SUFFICES ASSUME NEW i \in k..(Len(q) + 1)
             PROVE  FromAt(f, i, q, lang) = FromAt(g, i, q, lang)
  OBVIOUS
<1>0. CASE i > Len(q) BY <1>0 DEF FromAt
<1>. SUFFICES ASSUME i <= Len(q) PROVE FromAt(f, i, q, lang) = FromAt(g, i, q, lang)
  BY <1>0
<1>1. Len(q) \in Nat /\ i \in 1..Len(q) /\ i + 1 \in (k + 1)..(Len(q) + 1) OBVIOUS
<1>2. f[i + 1] = g[i + 1] BY <1>1
<1>3. ASSUME q[i] = "line" PROVE f[LineEnd(q, i)] = g[LineEnd(q, i)]
  <2>1. LineEnd(q, i) \in (i + 1)..(Len(q) + 1) BY <1>1, <1>3, ClosingIsAhead
  <2>2. LineEnd(q, i) \in (k + 1)..(Len(q) + 1) BY <1>1, <2>1
  <2>. QED BY <2>2
<1>4. ASSUME Closing(q, i, lang) # 0 PROVE f[Closing(q, i, lang) + 1] = g[Closing(q, i, lang) + 1]
  <2>1. Closing(q, i, lang) \in (i + 1)..Len(q) BY <1>1, <1>4, ClosingIsAhead
  <2>2. Closing(q, i, lang) + 1 \in (k + 1)..(Len(q) + 1) BY <1>1, <2>1
  <2>. QED BY <2>2
<1>5. CASE q[i] = "line" BY <1>3, <1>5 DEF FromAt
<1>6. CASE q[i] # "line" /\ q[i] \notin {"open", "quote", "tick"} BY <1>2, <1>6 DEF FromAt
<1>7. CASE q[i] \in {"open", "quote", "tick"}
  <2>1. q[i] # "line" BY <1>7
  <2>. QED BY <1>4, <1>7, <2>1 DEF FromAt
<1>. QED BY <1>5, <1>6, <1>7

LEMMA FromIsDefined ==
  ASSUME NEW q \in Seq(Sign), NEW lang
  PROVE  \E f : FromOk(f, 1, q, lang)
<1>. DEFINE N == Len(q) + 1
           T == {n \in Nat : n <= N /\ ~ \E f : FromOk(f, N + 1 - n, q, lang)}
<1>1. Len(q) \in Nat /\ N \in Nat /\ N = Len(q) + 1 OBVIOUS
<1>. HIDE DEF N
<1>2. T = {}
  <2>. SUFFICES ASSUME T # {} PROVE FALSE OBVIOUS
  <2>1. PICK n \in T : \A k \in T : n <= k
    <3>1. T \subseteq Nat BY DEF T
    <3>. HIDE DEF T
    <3>. QED BY <3>1, LeastNumber
  <2>2. n \in Nat /\ n <= N /\ ~ \E f : FromOk(f, N + 1 - n, q, lang) BY <2>1
  <2>3. CASE n = 0
    <3>. DEFINE none == [i \in 1..N |-> 0]
    <3>1. \A i \in (N + 1)..N : FALSE BY <1>1
    <3>2. FromOk(none, N + 1, q, lang)
      <4>1. none = [i \in 1..N |-> none[i]] OBVIOUS
      <4>. HIDE DEF none
      <4>. QED BY <1>1, <3>1, <4>1 DEF FromOk
    <3>3. N + 1 - n = N + 1 BY <1>1, <2>3
    <3>. QED BY <2>2, <3>2, <3>3
  <2>4. CASE n # 0
    <3>1. n - 1 \in Nat /\ n - 1 < n /\ n - 1 <= N BY <1>1, <2>2, <2>4
    <3>2. n - 1 \notin T BY <2>1, <2>2, <3>1
    <3>3. PICK old : FromOk(old, N + 1 - (n - 1), q, lang) BY <3>1, <3>2
    <3>k. PICK k : k = N + 1 - n OBVIOUS
    <3>4. k \in 1..N /\ k = N + 1 - n BY <1>1, <2>2, <2>4, <3>k
    <3>5. k + 1 = N + 1 - (n - 1) BY <1>1, <2>2, <3>4
    <3>6. old = [i \in 1..N |-> old[i]] /\ \A i \in (k + 1)..N : old[i] = FromAt(old, i, q, lang)
      BY <1>1, <3>3, <3>5 DEF FromOk
    <3>7. PICK new : new = [i \in 1..N |-> IF i = k THEN FromAt(old, k, q, lang) ELSE old[i]]
      OBVIOUS
    <3>8. /\ new = [i \in 1..N |-> new[i]] /\ new[k] = FromAt(old, k, q, lang)
          /\ \A i \in (k + 1)..N : new[i] = old[i]
      BY <1>1, <3>4, <3>7
    <3>9. \A i \in k..N : FromAt(new, i, q, lang) = FromAt(old, i, q, lang)
      <4>1. \A i \in (k + 1)..(Len(q) + 1) : new[i] = old[i] BY <1>1, <3>8
      <4>2. k \in 1..(Len(q) + 1) BY <1>1, <3>4
      <4>3. \A i \in k..(Len(q) + 1) : FromAt(new, i, q, lang) = FromAt(old, i, q, lang)
        BY <4>1, <4>2, FromLooksAhead
      <4>. QED BY <1>1, <4>3
    <3>10. \A i \in k..N : new[i] = FromAt(new, i, q, lang)
      <4>. SUFFICES ASSUME NEW i \in k..N PROVE new[i] = FromAt(new, i, q, lang) OBVIOUS
      <4>1. CASE i = k BY <3>8, <3>9, <4>1
      <4>2. CASE i # k
        <5>1. i \in (k + 1)..N BY <1>1, <3>4, <4>2
        <5>. QED BY <3>6, <3>8, <3>9, <5>1
      <4>. QED BY <4>1, <4>2
    <3>11. FromOk(new, k, q, lang) BY <1>1, <3>8, <3>10 DEF FromOk
    <3>. QED BY <2>2, <3>4, <3>11
  <2>. QED BY <2>3, <2>4
<1>3. N \in Nat /\ N <= N /\ N + 1 - N = 1 BY <1>1
<1>4. N \notin T BY <1>2
<1>. QED BY <1>3, <1>4

\* The code of a query, as a function.
LEMMA CodeOfIs ==
  ASSUME NEW q \in Seq(Sign), NEW lang
  PROVE  \E f : FromOk(f, 1, q, lang) /\ CodeOf(q, lang) = f[1]
<1>. DEFINE FromSteps(f) == f = [i \in 1..(Len(q) + 1) |-> FromAt(f, i, q, lang)]
           chosen == CHOOSE f : FromSteps(f)
<1>1. PICK f : FromOk(f, 1, q, lang) BY FromIsDefined
<1>2. FromSteps(f)
  <2>1. /\ f = [i \in 1..(Len(q) + 1) |-> f[i]]
        /\ \A i \in 1..(Len(q) + 1) : f[i] = FromAt(f, i, q, lang)
    BY <1>1 DEF FromOk
  <2>. QED BY <2>1
<1>3. FromSteps(chosen)
  <2>. HIDE DEF FromSteps
  <2>. QED BY <1>2
<1>4. CodeOf(q, lang) = chosen[1] BY DEF CodeOf, FromAt
<1>. HIDE DEF chosen
<1>5. FromOk(chosen, 1, q, lang)
  <2>1. \A i \in 1..(Len(q) + 1) : chosen[i] = FromAt(chosen, i, q, lang) BY <1>3
  <2>2. chosen = [i \in 1..(Len(q) + 1) |-> chosen[i]] BY <1>3, <2>1
  <2>. QED BY <2>1, <2>2 DEF FromOk
<1>. QED BY <1>4, <1>5

\* What the engine has read up to each place.
LEMMA LexedIs ==
  ASSUME NEW q \in Seq(Sign), NEW lang
  PROVE  \E upTo : LexSteps(upTo, Len(q), q, lang) /\ Lexed(q, lang) = upTo[Len(q)]
<1>. DEFINE chosen == CHOOSE upTo : LexSteps(upTo, Len(q), q, lang)
<1>1. Len(q) \in Nat OBVIOUS
<1>2. LexSteps(chosen, Len(q), q, lang) BY <1>1, LexIsDefined
<1>3. Lexed(q, lang) = chosen[Len(q)] BY DEF Lexed, LexSteps
<1>. QED BY <1>2, <1>3

Mode == {"code", "block", "line", "quote", "tick", "escape"}
ModeAfter(mode, s, lang) ==
  CASE mode = "code" -> IF s = "open" THEN "block"
                        ELSE IF s \in {"line", "quote", "tick"} THEN s ELSE "code"
    [] mode = "block" -> IF s = "close" THEN "code" ELSE "block"
    [] mode = "line" -> IF s = "newline" THEN "code" ELSE "line"
    [] mode = "escape" -> "quote"
    [] OTHER -> IF s = mode THEN "code"
                ELSE IF mode = "quote" /\ s = "slash" /\ lang = "cypher" THEN "escape" ELSE mode
States == [mode : Mode, words : SUBSET Nat]
WordsAfter(m, s, i) == IF m.mode = "code" /\ s = "word" THEN m.words \union {i} ELSE m.words

\* One sign: how the engine goes on, and the words it has found.
LEMMA ReadsIs ==
  ASSUME NEW q, NEW lang, NEW i \in Nat, q[i] \in Sign, NEW m \in States
  PROVE  /\ Reads(m, q, i, lang) \in States
         /\ Reads(m, q, i, lang).mode = ModeAfter(m.mode, q[i], lang)
         /\ Reads(m, q, i, lang).words = WordsAfter(m, q[i], i)
<1>1. m.mode \in Mode /\ m.words \in SUBSET Nat /\ m.words \union {i} \in SUBSET Nat
      /\ m = [mode |-> m.mode, words |-> m.words]
  BY DEF States
<1>2. CASE m.mode = "code" BY <1>1, <1>2 DEF Reads, ModeAfter, WordsAfter, States, Mode, Sign
<1>3. CASE m.mode = "block" BY <1>1, <1>3 DEF Reads, ModeAfter, WordsAfter, States, Mode, Sign
<1>4. CASE m.mode = "line" BY <1>1, <1>4 DEF Reads, ModeAfter, WordsAfter, States, Mode, Sign
<1>5. CASE m.mode = "quote" BY <1>1, <1>5 DEF Reads, ModeAfter, WordsAfter, States, Mode, Sign
<1>6. CASE m.mode = "tick" BY <1>1, <1>6 DEF Reads, ModeAfter, WordsAfter, States, Mode, Sign
<1>7. CASE m.mode = "escape" BY <1>1, <1>7 DEF Reads, ModeAfter, WordsAfter, States, Mode, Sign
<1>. QED BY <1>1, <1>2, <1>3, <1>4, <1>5, <1>6, <1>7 DEF Mode

\* The engine's reading, place by place.
Follows(upTo, q, lang) ==
  /\ upTo[0] = [mode |-> "code", words |-> {}]
  /\ \A i \in 0..Len(q) : upTo[i].mode \in Mode
  /\ \A i \in 1..Len(q) :
       /\ upTo[i].mode = ModeAfter(upTo[i - 1].mode, q[i], lang)
       /\ upTo[i].words = IF upTo[i - 1].mode = "code" /\ q[i] = "word"
                          THEN upTo[i - 1].words \union {i} ELSE upTo[i - 1].words

LEMMA LexFollows ==
  ASSUME NEW q \in Seq(Sign), NEW lang, NEW upTo, LexSteps(upTo, Len(q), q, lang)
  PROVE  Follows(upTo, q, lang)
<1>. DEFINE T == {i \in 0..Len(q) : upTo[i] \notin States}
<1>1. Len(q) \in Nat /\ \A i \in 1..Len(q) : q[i] \in Sign OBVIOUS
<1>2. \A i \in 0..Len(q) :
        upTo[i] = IF i = 0 THEN [mode |-> "code", words |-> {}] ELSE Reads(upTo[i - 1], q, i, lang)
  BY DEF LexSteps
<1>3. upTo[0] = [mode |-> "code", words |-> {}] BY <1>1, <1>2
<1>4. \A i \in 1..Len(q) : upTo[i] = Reads(upTo[i - 1], q, i, lang) BY <1>1, <1>2
<1>5. T = {}
  <2>. SUFFICES ASSUME T # {} PROVE FALSE OBVIOUS
  <2>1. PICK n \in T : \A k \in T : n <= k
    <3>1. T \subseteq Nat BY <1>1
    <3>. HIDE DEF T
    <3>. QED BY <3>1, LeastNumber
  <2>2. n \in 0..Len(q) /\ upTo[n] \notin States BY <2>1
  <2>3. upTo[0] \in States BY <1>3 DEF Mode, States
  <2>4. n \in 1..Len(q) /\ n - 1 \in 0..Len(q) /\ ~(n <= n - 1) BY <1>1, <2>2, <2>3
  <2>5. upTo[n - 1] \in States BY <2>1, <2>4
  <2>6. upTo[n] \in States
    <3>1. n \in Nat /\ q[n] \in Sign /\ upTo[n] = Reads(upTo[n - 1], q, n, lang) BY <1>1, <1>4, <2>4
    <3>. QED BY <2>5, <3>1, ReadsIs
  <2>. QED BY <2>2, <2>6
<1>6. \A i \in 0..Len(q) : upTo[i] \in States BY <1>5
<1>7. ASSUME NEW i \in 1..Len(q)
      PROVE  /\ upTo[i].mode = ModeAfter(upTo[i - 1].mode, q[i], lang)
             /\ upTo[i].words = IF upTo[i - 1].mode = "code" /\ q[i] = "word"
                                THEN upTo[i - 1].words \union {i} ELSE upTo[i - 1].words
  <2>1. i - 1 \in 0..Len(q) /\ i \in Nat /\ q[i] \in Sign BY <1>1
  <2>2. upTo[i - 1] \in States BY <1>6, <2>1
  <2>3. upTo[i] = Reads(upTo[i - 1], q, i, lang) BY <1>4
  <2>m. PICK m, next : m = upTo[i - 1] /\ next = upTo[i] OBVIOUS
  <2>4. m \in States /\ next = Reads(m, q, i, lang) BY <2>2, <2>3, <2>m
  <2>5. next.mode = ModeAfter(m.mode, q[i], lang) /\ next.words = WordsAfter(m, q[i], i)
    BY <2>1, <2>4, ReadsIs
  <2>. QED BY <2>5, <2>m DEF WordsAfter
<1>. QED BY <1>3, <1>6, <1>7 DEF Follows, States

\* A comment goes on to its end.
LEMMA CommentGoesOn ==
  ASSUME NEW q \in Seq(Sign), NEW lang, NEW upTo, Follows(upTo, q, lang),
         NEW mode, NEW until, <<mode, until>> \in {<<"block", "close">>, <<"line", "newline">>},
         NEW a \in 0..Len(q), NEW b \in a..Len(q), upTo[a].mode = mode,
         \A k \in (a + 1)..b : q[k] # until
  PROVE  upTo[b].mode = mode /\ upTo[b].words = upTo[a].words
<1>. DEFINE T == {i \in a..b : ~(upTo[i].mode = mode /\ upTo[i].words = upTo[a].words)}
<1>1. Len(q) \in Nat /\ a \in Nat /\ b \in Nat OBVIOUS
<1>2. T = {}
  <2>. SUFFICES ASSUME T # {} PROVE FALSE OBVIOUS
  <2>1. PICK n \in T : \A k \in T : n <= k
    <3>1. T \subseteq Nat BY <1>1
    <3>. HIDE DEF T
    <3>. QED BY <3>1, LeastNumber
  <2>2. n \in a..b /\ ~(upTo[n].mode = mode /\ upTo[n].words = upTo[a].words) BY <2>1
  <2>3. n # a BY <2>2
  <2>4. n - 1 \in a..b /\ ~(n <= n - 1) /\ n \in (a + 1)..b /\ n \in 1..Len(q) BY <1>1, <2>2, <2>3
  <2>5. upTo[n - 1].mode = mode /\ upTo[n - 1].words = upTo[a].words BY <2>1, <2>4
  <2>6. q[n] # until BY <2>4
  <2>7. upTo[n].mode = ModeAfter(mode, q[n], lang) /\ upTo[n].words = upTo[a].words
    BY <2>4, <2>5 DEF Follows
  <2>8. ModeAfter(mode, q[n], lang) = mode BY <2>6 DEF ModeAfter
  <2>. QED BY <2>2, <2>7, <2>8
<1>3. b \in a..b BY <1>1
<1>. QED BY <1>2, <1>3

LEMMA LineGoesOn ==
  ASSUME NEW q \in Seq(Sign), NEW lang, NEW upTo, Follows(upTo, q, lang),
         NEW a \in 0..Len(q), NEW b \in a..Len(q), upTo[a].mode = "line",
         \A k \in (a + 1)..b : q[k] # "newline"
  PROVE  upTo[b].mode = "line" /\ upTo[b].words = upTo[a].words
<1>1. PICK mode, until : mode = "line" /\ until = "newline" OBVIOUS
<1>2. <<mode, until>> \in {<<"block", "close">>, <<"line", "newline">>} BY <1>1
<1>3. upTo[a].mode = mode /\ \A k \in (a + 1)..b : q[k] # until BY <1>1
<1>4. upTo[b].mode = mode /\ upTo[b].words = upTo[a].words BY <1>2, <1>3, CommentGoesOn
<1>. QED BY <1>1, <1>4

\* A literal goes on to the place that the scan finds, or to the end of the query.
LEMMA LiteralGoesOn ==
  ASSUME NEW q \in Seq(Sign), NEW lang, NEW upTo, Follows(upTo, q, lang),
         NEW start \in 1..Len(q), q[start] \in {"quote", "tick"}, upTo[start].mode = q[start]
  PROVE  LET j == LiteralEnd(q, start, lang) IN
         /\ j # 0 => upTo[j].mode = "code" /\ upTo[j].words = upTo[start].words
         /\ j = 0 => /\ upTo[Len(q)].mode \notin {"code", "line"}
                     /\ upTo[Len(q)].words = upTo[start].words
<1>1. PICK f : EndOk(f, 1, q, start, lang) /\ LiteralEnd(q, start, lang) = f[start + 1]
  BY LiteralEndIs
<1>. DEFINE c == q[start]
           N == Len(q) + 1
           Ends(i) ==
             /\ f[i] # 0 => upTo[f[i]].mode = "code" /\ upTo[f[i]].words = upTo[i - 1].words
             /\ f[i] = 0 => /\ upTo[Len(q)].mode \notin {"code", "line"}
                            /\ upTo[Len(q)].words = upTo[i - 1].words
           T == {i \in 0..N : i # 0 /\ upTo[i - 1].mode = c /\ ~ Ends(i)}
<1>2. Len(q) \in Nat /\ N \in Nat /\ c \in {"quote", "tick"} OBVIOUS
<1>3. T = {}
  <2>. SUFFICES ASSUME T # {} PROVE FALSE OBVIOUS
  <2>1. PICK i \in T : \A k \in T : i >= k
    <3>1. T \subseteq 0..N OBVIOUS
    <3>. HIDE DEF T, N
    <3>. QED BY <1>2, <3>1, GreatestNumber
  <2>2. i \in 1..N /\ upTo[i - 1].mode = c /\ ~ Ends(i) BY <2>1
  <2>3. f[i] = EndAt(f, i, q, start, lang)
    <3>1. i \in 1..(Len(q) + 2) BY <1>2, <2>2
    <3>. QED BY <1>1, <3>1 DEF EndOk
  <2>4. ASSUME NEW k \in (i + 1)..N, upTo[k - 1].mode = c PROVE Ends(k)
    <3>1. k \in 0..N /\ k # 0 /\ ~(i >= k) BY <1>2, <2>2, <2>4
    <3>2. k \notin T BY <2>1, <3>1
    <3>. HIDE DEF Ends
    <3>. QED BY <2>4, <3>1, <3>2
  <2>5. CASE i > Len(q)
    <3>1. f[i] = 0 /\ i - 1 = Len(q) BY <1>2, <2>2, <2>3, <2>5 DEF EndAt
    <3>2. upTo[Len(q)].mode \notin {"code", "line"} BY <1>2, <2>2, <3>1
    <3>. QED BY <2>2, <3>1, <3>2
  <2>6. CASE i <= Len(q)
    <3>1. i \in 1..Len(q) /\ i + 1 \in (i + 1)..N /\ (i + 1) - 1 = i BY <1>2, <2>2, <2>6
    <3>2. upTo[i].mode = ModeAfter(c, q[i], lang) /\ upTo[i].words = upTo[i - 1].words
      BY <1>2, <2>2, <3>1 DEF Follows
    <3>3. CASE Escapes(q, start, lang) /\ q[i] = "slash"
      <4>1. c = "quote" /\ lang = "cypher" BY <1>2, <3>3 DEF Escapes
      <4>2. upTo[i].mode = "escape" BY <3>2, <3>3, <4>1 DEF ModeAfter
      <4>3. f[i] = f[i + 2] BY <2>3, <3>1, <3>3 DEF EndAt
      <4>4. CASE i = Len(q)
        <5>1. i + 2 \in 1..(Len(q) + 2) /\ i + 2 > Len(q) BY <1>2, <4>4
        <5>2. f[i + 2] = 0
          <6>1. f[i + 2] = EndAt(f, i + 2, q, start, lang) BY <1>1, <5>1 DEF EndOk
          <6>. QED BY <5>1, <6>1 DEF EndAt
        <5>3. upTo[Len(q)].mode = "escape" /\ upTo[Len(q)].words = upTo[i - 1].words BY <3>2, <4>2, <4>4
        <5>. QED BY <2>2, <4>3, <5>2, <5>3
      <4>5. CASE i # Len(q)
        <5>1. i + 1 \in 1..Len(q) /\ i + 2 \in (i + 1)..N /\ (i + 2) - 1 = i + 1 BY <1>2, <3>1, <4>5
        <5>2. upTo[i + 1].mode = ModeAfter("escape", q[i + 1], lang) /\ upTo[i + 1].words = upTo[i].words
          BY <3>1, <4>2, <5>1 DEF Follows
        <5>3. upTo[i + 1].mode = c BY <4>1, <5>2 DEF ModeAfter
        <5>4. Ends(i + 2) BY <2>4, <5>1, <5>3
        <5>5. upTo[(i + 2) - 1].words = upTo[i - 1].words BY <3>2, <5>1, <5>2
        <5>6. Ends(i) BY <4>3, <5>4, <5>5
        <5>. QED BY <2>2, <5>6
      <4>. QED BY <4>4, <4>5
    <3>4. CASE ~(Escapes(q, start, lang) /\ q[i] = "slash") /\ q[i] = c
      <4>1. f[i] = i BY <1>2, <2>3, <3>1, <3>4 DEF EndAt
      <4>2. upTo[i].mode = "code" BY <1>2, <3>2, <3>4 DEF ModeAfter
      <4>3. i # 0 BY <3>1
      <4>. QED BY <2>2, <3>2, <4>1, <4>2, <4>3
    <3>5. CASE ~(Escapes(q, start, lang) /\ q[i] = "slash") /\ q[i] # c
      <4>1. f[i] = f[i + 1] BY <1>2, <2>3, <3>1, <3>5 DEF EndAt
      <4>2. ~(c = "quote" /\ q[i] = "slash" /\ lang = "cypher") BY <3>5 DEF Escapes
      <4>3. upTo[i].mode = c BY <1>2, <3>2, <3>5, <4>2 DEF ModeAfter
      <4>4. Ends(i + 1) BY <2>4, <3>1, <4>3
      <4>5. upTo[(i + 1) - 1].words = upTo[i - 1].words BY <3>1, <3>2
      <4>6. Ends(i) BY <4>1, <4>4, <4>5
      <4>. QED BY <2>2, <4>6
    <3>. QED BY <3>3, <3>4, <3>5
  <2>. QED BY <1>2, <2>2, <2>5, <2>6
<1>4. start + 1 \in 0..N /\ start + 1 # 0 /\ (start + 1) - 1 = start BY <1>2
<1>5. Ends(start + 1)
  <2>1. start + 1 \notin T BY <1>3
  <2>. HIDE DEF Ends
  <2>. QED BY <1>4, <2>1
<1>. QED BY <1>1, <1>4, <1>5

\* What opens at i is skipped: the engine finds no word before it closes.
LEMMA NothingIsExecuted ==
  ASSUME NEW q \in Seq(Sign), NEW lang, NEW upTo, Follows(upTo, q, lang),
         NEW i \in 1..Len(q), q[i] \in {"open", "quote", "tick"}, upTo[i - 1].mode = "code"
  PROVE  LET j == Closing(q, i, lang) IN
         /\ j # 0 => upTo[j].mode = "code" /\ upTo[j].words = upTo[i - 1].words
         /\ j = 0 => /\ upTo[Len(q)].mode \notin {"code", "line"}
                     /\ upTo[Len(q)].words = upTo[i - 1].words
<1>1. Len(q) \in Nat /\ i \in 0..Len(q) /\ Len(q) \in i..Len(q) OBVIOUS
<1>2. upTo[i].mode = ModeAfter("code", q[i], lang) /\ upTo[i].words = upTo[i - 1].words
  BY DEF Follows
<1>3. CASE q[i] = "open"
  <2>. DEFINE j == NextOf(q, i + 1, "close")
  <2>1. upTo[i].mode = "block" /\ Closing(q, i, lang) = j BY <1>2, <1>3 DEF ModeAfter, Closing
  <2>2. i + 1 \in Nat \ {0} BY <1>1
  <2>3. /\ j = 0 => \A k \in (i + 1)..Len(q) : q[k] # "close"
        /\ j # 0 => /\ j \in (i + 1)..Len(q) /\ q[j] = "close"
                    /\ \A k \in (i + 1)..(j - 1) : q[k] # "close"
    BY <2>2, NextOfIs
  <2>. HIDE DEF j
  <2>4. CASE j = 0
    <3>1. upTo[Len(q)].mode = "block" /\ upTo[Len(q)].words = upTo[i].words
      BY <1>1, <2>1, <2>3, <2>4, CommentGoesOn
    <3>. QED BY <1>2, <2>1, <2>4, <3>1
  <2>5. CASE j # 0
    <3>1. j - 1 \in i..Len(q) /\ j \in 1..Len(q) BY <1>1, <2>3, <2>5
    <3>2. upTo[j - 1].mode = "block" /\ upTo[j - 1].words = upTo[i].words
      BY <1>1, <2>1, <2>3, <2>5, <3>1, CommentGoesOn, SMTT(30)
    <3>3. upTo[j].mode = ModeAfter("block", "close", lang) /\ upTo[j].words = upTo[i].words
      BY <2>3, <2>5, <3>1, <3>2 DEF Follows
    <3>4. upTo[j].mode = "code" BY <3>3 DEF ModeAfter
    <3>. QED BY <1>2, <2>1, <2>5, <3>3, <3>4
  <2>. QED BY <2>4, <2>5
<1>4. CASE q[i] \in {"quote", "tick"}
  <2>1. upTo[i].mode = q[i] /\ Closing(q, i, lang) = LiteralEnd(q, i, lang)
    BY <1>2, <1>4 DEF ModeAfter, Closing
  <2>. QED BY <1>2, <1>4, <2>1, LiteralGoesOn
<1>. QED BY <1>3, <1>4

\* The words that the engine finds are those of the code, all of them if it reads the
\* query to its end.
LEMMA CodeHoldsTheWords ==
  ASSUME NEW q \in Seq(Sign), NEW lang
  PROVE  LET lexed == Lexed(q, lang)
             found == {k \in CodeOf(q, lang) : q[k] = "word"}
         IN  /\ lexed.words \subseteq found
             /\ lexed.mode \in {"code", "line"} => found \subseteq lexed.words
<1>1. PICK upTo : LexSteps(upTo, Len(q), q, lang) /\ Lexed(q, lang) = upTo[Len(q)] BY LexedIs
<1>2. PICK f : FromOk(f, 1, q, lang) /\ CodeOf(q, lang) = f[1] BY CodeOfIs
<1>3. Follows(upTo, q, lang) BY <1>1, LexFollows
<1>. DEFINE N == Len(q) + 1
           W(i) == {k \in f[i] : q[k] = "word"}
           last == upTo[Len(q)]
           Found(i) ==
             /\ last.words \subseteq upTo[i - 1].words \union W(i)
             /\ upTo[i - 1].words \subseteq last.words
             /\ last.mode \in {"code", "line"} => W(i) \subseteq last.words
           T == {i \in 0..N : i # 0 /\ upTo[i - 1].mode = "code" /\ ~ Found(i)}
<1>4. Len(q) \in Nat /\ N \in Nat OBVIOUS
<1>5. T = {}
  <2>. SUFFICES ASSUME T # {} PROVE FALSE OBVIOUS
  <2>1. PICK i \in T : \A k \in T : i >= k
    <3>1. T \subseteq 0..N OBVIOUS
    <3>. HIDE DEF T, N
    <3>. QED BY <1>4, <3>1, GreatestNumber
  <2>2. i \in 1..N /\ upTo[i - 1].mode = "code" /\ ~ Found(i) BY <2>1
  <2>3. f[i] = FromAt(f, i, q, lang) BY <1>2, <2>2 DEF FromOk
  <2>4. ASSUME NEW k \in (i + 1)..N, upTo[k - 1].mode = "code" PROVE Found(k)
    <3>1. k \in 0..N /\ k # 0 /\ ~(i >= k) BY <1>4, <2>2, <2>4
    <3>2. k \notin T BY <2>1, <3>1
    <3>. HIDE DEF Found
    <3>. QED BY <2>4, <3>1, <3>2
  <2>5. CASE i > Len(q)
    <3>1. f[i] = {} /\ i - 1 = Len(q) BY <1>4, <2>2, <2>3, <2>5 DEF FromAt
    <3>. QED BY <2>2, <3>1
  <2>6. CASE i <= Len(q)
    <3>1. i \in 1..Len(q) /\ i + 1 \in (i + 1)..N /\ (i + 1) - 1 = i BY <1>4, <2>2, <2>6
    <3>2. /\ upTo[i].mode = ModeAfter("code", q[i], lang)
          /\ upTo[i].words = IF q[i] = "word" THEN upTo[i - 1].words \union {i} ELSE upTo[i - 1].words
      BY <1>3, <2>2, <3>1 DEF Follows
    <3>3. CASE q[i] = "line"
      <4>. DEFINE j == NextOf(q, i, "newline")
      <4>1. /\ j = 0 => \A k \in i..Len(q) : q[k] # "newline"
            /\ j # 0 => /\ j \in i..Len(q) /\ q[j] = "newline"
                        /\ \A k \in i..(j - 1) : q[k] # "newline"
        <5>1. i \in Nat \ {0} BY <1>4, <3>1
        <5>. QED BY <5>1, NextOfIs
      <4>2. f[i] = f[LineEnd(q, i)] /\ LineEnd(q, i) = IF j = 0 THEN N ELSE j
        BY <2>3, <3>1, <3>3 DEF FromAt, LineEnd
      <4>3. upTo[i].mode = "line" /\ upTo[i].words = upTo[i - 1].words
        BY <3>2, <3>3 DEF ModeAfter
      <4>. HIDE DEF j
      <4>4. CASE j = 0
        <5>1. i \in 0..Len(q) /\ Len(q) \in i..Len(q) BY <1>4, <3>1
        <5>2. \A k \in (i + 1)..Len(q) : q[k] # "newline" BY <1>4, <3>1, <4>1, <4>4
        <5>3. last.mode = "line" /\ last.words = upTo[i].words
          BY <1>3, <4>3, <5>1, <5>2, LineGoesOn
        <5>4. f[i] = {}
          <6>1. N \in 1..(Len(q) + 1) /\ N > Len(q) BY <1>4
          <6>2. f[N] = FromAt(f, N, q, lang) BY <1>2, <6>1 DEF FromOk
          <6>3. f[N] = {} BY <6>1, <6>2 DEF FromAt
          <6>. QED BY <4>2, <4>4, <6>3
        <5>. QED BY <2>2, <4>3, <5>3, <5>4
      <4>5. CASE j # 0
        <5>1. /\ i \in 0..Len(q) /\ j \in (i + 1)..Len(q) /\ j - 1 \in i..Len(q) /\ j \in 1..Len(q)
              /\ j + 1 \in (i + 1)..N /\ (j + 1) - 1 = j
          <6>1. j \in i..Len(q) /\ q[j] = "newline" BY <4>1, <4>5
          <6>2. j # i BY <3>3, <6>1
          <6>. QED BY <1>4, <3>1, <6>1, <6>2
        <5>2. \A k \in (i + 1)..(j - 1) : q[k] # "newline" BY <1>4, <3>1, <4>1, <4>5
        <5>3. upTo[j - 1].mode = "line" /\ upTo[j - 1].words = upTo[i].words
          BY <1>3, <4>3, <5>1, <5>2, LineGoesOn
        <5>4. q[j] = "newline" BY <4>1, <4>5
        <5>5. upTo[j].mode = "code" /\ upTo[j].words = upTo[i - 1].words
          BY <1>3, <4>3, <5>1, <5>3, <5>4 DEF Follows, ModeAfter
        <5>6. Found(j + 1) BY <2>4, <5>1, <5>5
        <5>7. f[i] = {j} \union f[j + 1]
          <6>1. j \in 1..(Len(q) + 1) /\ ~(j > Len(q)) BY <1>4, <5>1
          <6>2. f[j] = FromAt(f, j, q, lang) BY <1>2, <6>1 DEF FromOk
          <6>3. f[j] = {j} \union f[j + 1] BY <5>4, <6>1, <6>2 DEF FromAt
          <6>. QED BY <4>2, <4>5, <6>3
        <5>8. W(i) = W(j + 1) BY <5>4, <5>7
        <5>9. Found(i) BY <5>1, <5>5, <5>6, <5>8
        <5>. QED BY <2>2, <5>9
      <4>. QED BY <4>4, <4>5
    <3>4. CASE q[i] \in {"open", "quote", "tick"}
      <4>c. PICK c : c = Closing(q, i, lang) OBVIOUS
      <4>1. /\ c # 0 => upTo[c].mode = "code" /\ upTo[c].words = upTo[i - 1].words
            /\ c = 0 => last.mode \notin {"code", "line"} /\ last.words = upTo[i - 1].words
        BY <1>3, <2>2, <3>1, <3>4, <4>c, NothingIsExecuted
      <4>2. f[i] = IF c = 0 THEN i..Len(q) ELSE f[c + 1]
        BY <2>3, <3>1, <3>4, <4>c DEF FromAt
      <4>3. c \in {0} \union (i + 1)..Len(q) BY <3>1, <4>c, ClosingIsAhead
      <4>4. CASE c = 0 BY <2>2, <4>1, <4>4
      <4>5. CASE c # 0
        <5>1. c + 1 \in (i + 1)..N /\ (c + 1) - 1 = c BY <1>4, <3>1, <4>3, <4>5
        <5>2. Found(c + 1) BY <2>4, <4>1, <4>5, <5>1
        <5>3. Found(i) BY <4>1, <4>2, <4>5, <5>1, <5>2
        <5>. QED BY <2>2, <5>3
      <4>. QED BY <4>4, <4>5
    <3>5. CASE q[i] # "line" /\ q[i] \notin {"open", "quote", "tick"}
      <4>1. f[i] = {i} \union f[i + 1] BY <2>3, <3>1, <3>5 DEF FromAt
      <4>2. upTo[i].mode = "code" BY <3>2, <3>5 DEF ModeAfter
      <4>3. Found(i + 1) BY <2>4, <3>1, <4>2
      <4>4. W(i) = IF q[i] = "word" THEN {i} \union W(i + 1) ELSE W(i + 1) BY <4>1
      <4>5. Found(i) BY <3>1, <3>2, <4>3, <4>4
      <4>. QED BY <2>2, <4>5
    <3>. QED BY <3>3, <3>4, <3>5
  <2>. QED BY <1>4, <2>2, <2>5, <2>6
<1>6. 1 \in 0..N /\ 1 # 0 /\ 1 - 1 = 0 BY <1>4
<1>7. upTo[0].mode = "code" /\ upTo[0].words = {} BY <1>3 DEF Follows
<1>8. Found(1)
  <2>1. 1 \notin T BY <1>5
  <2>. HIDE DEF Found
  <2>. QED BY <1>6, <1>7, <2>1
<1>. QED BY <1>1, <1>2, <1>6, <1>7, <1>8

\* What is refused has words that the engine may find, and a word that it finds between
\* blanks is refused.
Clear(q, i) == StandsApart(q, i, DOMAIN q)

LEMMA RefusalIsRight ==
  ASSUME NEW q \in Seq(Sign), NEW lang
  PROVE  /\ (\E i \in Lexed(q, lang).words : Clear(q, i)) => Refused(q, lang)
         /\ Refused(q, lang) /\ Lexed(q, lang).mode \in {"code", "line"} =>
              Lexed(q, lang).words # {} \/ Empty(q)
<1>1. PICK lexed, code : lexed = Lexed(q, lang) /\ code = CodeOf(q, lang) OBVIOUS
<1>2. /\ lexed.words \subseteq {k \in code : q[k] = "word"}
      /\ lexed.mode \in {"code", "line"} => {k \in code : q[k] = "word"} \subseteq lexed.words
  BY <1>1, CodeHoldsTheWords
<1>3. Refused(q, lang) <=>
        Empty(q) \/ \E i \in code : q[i] = "word" /\ StandsApart(q, i, code)
  BY <1>1 DEF Refused
<1>4. \A i : Clear(q, i) => StandsApart(q, i, code) BY DEF Clear, StandsApart
<1>. QED BY <1>1, <1>2, <1>3, <1>4

\* The queries: what is asked is judged by its text and what its store says.
LEMMA RunQueryJudges ==
  ASSUME NEW q \in QueryText, RunQuery(q.text, q.lang)
  PROVE  QueriesAreJudged'
<1>0. PICK text, lang : text = q.text /\ lang = q.lang /\ text \in Seq(Sign) BY StudioAssumption
<1>a. PICK asked : asked = [NoQuery EXCEPT !.text = text, !.lang = lang] OBVIOUS
<1>1. asked = [text |-> text, lang |-> lang, store |-> "none", status |-> 0,
               rows |-> 0, all |-> 0, truncated |-> FALSE]
  BY <1>a DEF NoQuery
<1>2. /\ (\E i \in Lexed(text, lang).words : Clear(text, i)) => Refused(text, lang)
      /\ Refused(text, lang) /\ Lexed(text, lang).mode \in {"code", "line"} =>
           Lexed(text, lang).words # {} \/ Empty(text)
  BY <1>0, RefusalIsRight
<1>3. IF Refused(text, lang) THEN query' = [asked EXCEPT !.status = 400]
      ELSE \/ \E n \in 0..(RowCap + 1) :
                query' = [asked EXCEPT !.store = "rows", !.status = 200, !.all = n,
                                       !.rows = IF n < RowCap THEN n ELSE RowCap,
                                       !.truncated = n > RowCap]
           \/ \E trouble \in Troubles :
                /\ trouble = "unset" => lang = "sql"
                /\ trouble = "transient" => lang = "cypher"
                /\ query' = [asked EXCEPT !.store = trouble, !.status = Mark(trouble, lang)]
  BY <1>0, <1>a DEF RunQuery
<1>. DEFINE Judged(r) ==
      /\ r.text = text /\ r.lang = lang
      /\ r.store = "none" <=> Refused(text, lang)
      /\ r.status = 400 /\ lang = "cypher" => r.store # "down"
      /\ r.status = 200 => (r.truncated <=> r.rows < r.all)
<1>4. Judged(query')
  <2>1. CASE Refused(text, lang)
    <3>1. query' = [text |-> text, lang |-> lang, store |-> "none", status |-> 400,
                    rows |-> 0, all |-> 0, truncated |-> FALSE]
      BY <1>1, <1>3, <2>1
    <3>. QED BY <2>1, <3>1
  <2>2. ASSUME ~ Refused(text, lang), NEW n \in 0..(RowCap + 1),
               query' = [asked EXCEPT !.store = "rows", !.status = 200, !.all = n,
                                      !.rows = IF n < RowCap THEN n ELSE RowCap,
                                      !.truncated = n > RowCap]
        PROVE  Judged(query')
    <3>0. n \in Nat /\ RowCap \in Nat BY StudioAssumption
    <3>1. CASE n > RowCap
      <4>1. ~(n < RowCap) /\ (n > RowCap) = TRUE BY <3>0, <3>1
      <4>2. query' = [text |-> text, lang |-> lang, store |-> "rows", status |-> 200,
                      rows |-> RowCap, all |-> n, truncated |-> TRUE]
        <5>1. PICK most, cut : most = (IF n < RowCap THEN n ELSE RowCap) /\ cut = (n > RowCap)
          OBVIOUS
        <5>2. query' = [asked EXCEPT !.store = "rows", !.status = 200, !.all = n,
                                     !.rows = most, !.truncated = cut]
          BY <2>2, <5>1
        <5>3. most = RowCap /\ cut = TRUE BY <4>1, <5>1
        <5>. QED BY <1>1, <5>2, <5>3
      <4>3. query'.store = "rows" /\ query'.status = 200 /\ query'.text = text /\ query'.lang = lang
            /\ query'.truncated /\ query'.rows < query'.all
        BY <3>0, <3>1, <4>2
      <4>. QED BY <2>2, <4>3
    <3>2. CASE ~(n > RowCap)
      <4>1. (IF n < RowCap THEN n ELSE RowCap) = n /\ (n > RowCap) = FALSE BY <3>0, <3>2
      <4>2. query' = [text |-> text, lang |-> lang, store |-> "rows", status |-> 200,
                      rows |-> n, all |-> n, truncated |-> FALSE]
        BY <1>1, <2>2, <4>1
      <4>3. query'.store = "rows" /\ query'.status = 200 /\ query'.text = text /\ query'.lang = lang
            /\ ~ query'.truncated /\ ~(query'.rows < query'.all)
        BY <3>0, <4>2
      <4>. QED BY <2>2, <4>3
    <3>. QED BY <3>1, <3>2
  <2>3. ASSUME ~ Refused(text, lang), NEW trouble \in Troubles,
               query' = [asked EXCEPT !.store = trouble, !.status = Mark(trouble, lang)]
        PROVE  Judged(query')
    <3>1. PICK mark : mark = Mark(trouble, lang) OBVIOUS
    <3>2. query' = [text |-> text, lang |-> lang, store |-> trouble, status |-> mark,
                    rows |-> 0, all |-> 0, truncated |-> FALSE]
      BY <1>1, <2>3, <3>1
    <3>3. trouble # "none" /\ mark # 200
          /\ (mark = 400 /\ lang = "cypher" => trouble # "down")
      BY <2>3, <3>1 DEF Mark, Troubles
    <3>4. query'.store = trouble /\ query'.status = mark /\ query'.text = text /\ query'.lang = lang
      BY <3>2
    <3>. QED BY <2>3, <3>3, <3>4
  <2>. QED BY <1>3, <2>1, <2>2, <2>3
<1>. QED BY <1>2, <1>4 DEF QueriesAreJudged, Clear

LEMMA QueriesStayJudged ==
  ASSUME QueriesAreJudged, [StudioNext]_studioVars
  PROVE  QueriesAreJudged'
<1>1. ASSUME query' \in {query, NoQuery} PROVE QueriesAreJudged'
  BY <1>1 DEF QueriesAreJudged
<1>2. query' \in {query, NoQuery} \/ \E q \in QueryText : RunQuery(q.text, q.lang)
  BY DEF StudioNext, QueriesNext, SchemasNext, QueryAnswered, AskSchema, TakeLock, ReadSchema,
         SchemaFails, KeepSchema, ChangeSchema, Tick, studioVars
<1>. QED BY <1>1, <1>2, RunQueryJudges

LEMMA NoQueryAtFirst == StudioInit => QueriesAreJudged
BY DEF StudioInit, QueriesAreJudged

\* routers/query.py: a query is refused if its engine would execute a forbidden
\* word that stands between blanks and, where the engine reads it to the end, only if a
\* word is outside its comments and literals; a Cypher query whose store is down is not
\* called invalid, and a cut answer says so; and each schema is built once.  For any
\* queries, of any length, and any answers of the stores.
THEOREM StudioStaysSound == StudioSpec => StudioIsSound
<1>1. StudioInv /\ QueriesAreJudged /\ [StudioNext]_studioVars =>
        [QueriesAreJudged' /\ SchemaIsBuiltOnce]_studioVars
  BY SchemaIsReplaced, QueriesStayJudged
<1>2. QueriesAreJudged /\ [StudioNext]_studioVars => QueriesAreJudged' BY QueriesStayJudged
<1>. QED BY <1>1, <1>2, StudioInitially, NoQueryAtFirst, StudioStep, PTL DEF StudioSpec, StudioIsSound

----------------------------------------------------------------------------
(* What ORDER BY and sum() give: a sort puts the rows of a finite set in order, *)
(* and a sum is the same in whatever order it is taken.                    *)

LEMMA MinOfTwo ==
  ASSUME NEW a \in Int, NEW b \in Int
  PROVE  Min({a, b}) = IF a <= b THEN a ELSE b
<1>. DEFINE m == IF a <= b THEN a ELSE b
<1>1. m \in {a, b} /\ \A y \in {a, b} : m <= y OBVIOUS
<1>2. \A x \in {a, b} : (\A y \in {a, b} : x <= y) => x = m OBVIOUS
<1>. QED BY <1>1, <1>2 DEF Min

(* The order of the keys, sequences of n numbers.                          *)

IsKey(s, n) == DOMAIN s = 1..n /\ \A i \in 1..n : s[i] \in Int

LEMMA KeyIrreflexive ==
  ASSUME NEW n \in Nat, NEW s, IsKey(s, n)
  PROVE  ~KeyLess(s, s)
  BY DEF IsKey, KeyLess

LEMMA KeyTransitive ==
  ASSUME NEW n \in Nat, NEW s, NEW t, NEW u, IsKey(s, n), IsKey(t, n), IsKey(u, n),
         KeyLess(s, t), KeyLess(t, u)
  PROVE  KeyLess(s, u)
<1>1. PICK i \in 1..n : s[i] < t[i] /\ \A k \in 1..(i - 1) : s[k] = t[k] BY DEF IsKey, KeyLess
<1>2. PICK j \in 1..n : t[j] < u[j] /\ \A k \in 1..(j - 1) : t[k] = u[k] BY DEF IsKey, KeyLess
<1>3. CASE i <= j
  <2>1. s[i] < u[i]
    <3>1. s[i] \in Int /\ t[i] \in Int /\ u[i] \in Int BY DEF IsKey
    <3>2. s[i] < t[i] /\ (t[i] = u[i] \/ t[i] < u[i])
      <4>1. i = j \/ i \in 1..(j - 1) BY <1>3
      <4>. QED BY <1>1, <1>2, <4>1
    <3>. QED BY <3>1, <3>2
  <2>2. \A k \in 1..(i - 1) : s[k] = u[k] BY <1>1, <1>2, <1>3
  <2>. QED BY <2>1, <2>2 DEF IsKey, KeyLess
<1>4. CASE j < i
  <2>1. s[j] < u[j] BY <1>1, <1>2, <1>4 DEF IsKey
  <2>2. \A k \in 1..(j - 1) : s[k] = u[k] BY <1>1, <1>2, <1>4
  <2>. QED BY <2>1, <2>2 DEF IsKey, KeyLess
<1>. QED BY <1>3, <1>4

LEMMA KeyTotal ==
  ASSUME NEW n \in Nat, NEW s, NEW t, IsKey(s, n), IsKey(t, n),
         \E i \in 1..n : s[i] # t[i]
  PROVE  KeyLess(s, t) \/ KeyLess(t, s)
<1>. DEFINE T == {i \in 1..n : s[i] # t[i]}
<1>1. PICK i \in T : \A k \in T : i <= k
  <2>1. T \subseteq Nat /\ T # {} OBVIOUS
  <2>. HIDE DEF T
  <2>. QED BY <2>1, LeastNumber
<1>2. i \in 1..n /\ s[i] # t[i] OBVIOUS
<1>3. \A k \in 1..(i - 1) : s[k] = t[k] BY <1>1, <1>2
<1>4. s[i] < t[i] \/ t[i] < s[i] BY <1>2 DEF IsKey
<1>5. DOMAIN s = 1..n /\ DOMAIN t = 1..n BY DEF IsKey
<1>. HIDE DEF T
<1>. QED BY <1>2, <1>3, <1>4, <1>5 DEF KeyLess

(* The rows by their keys.                                                 *)

Keyed(key, n) ==
  /\ n \in Nat /\ IsFiniteSet(DOMAIN key)
  /\ \A r \in DOMAIN key : IsKey(key[r], n)
  /\ \A r, s \in DOMAIN key : r # s => \E i \in 1..n : key[r][i] # key[s][i]

Ahead(key, r) == {s \in DOMAIN key : KeyLess(key[s], key[r])}

LEMMA FewerAhead ==
  ASSUME NEW key, NEW n, Keyed(key, n), NEW r \in DOMAIN key
  PROVE  /\ IsFiniteSet(Ahead(key, r))
         /\ Cardinality(Ahead(key, r)) \in Nat
         /\ Cardinality(Ahead(key, r)) < Cardinality(DOMAIN key)
         /\ \A s \in DOMAIN key : KeyLess(key[r], key[s]) =>
              Cardinality(Ahead(key, r)) < Cardinality(Ahead(key, s))
<1>1. /\ n \in Nat /\ IsFiniteSet(DOMAIN key)
      /\ \A s \in DOMAIN key : IsKey(key[s], n)
  BY DEF Keyed
<1>2. Ahead(key, r) \in SUBSET (DOMAIN key) /\ r \notin Ahead(key, r)
  BY <1>1, KeyIrreflexive DEF Ahead
<1>3. IsFiniteSet(Ahead(key, r)) /\ Cardinality(Ahead(key, r)) \in Nat
  BY <1>1, <1>2, FS_Subset, FS_CardinalityType
<1>4. Cardinality(Ahead(key, r)) < Cardinality(DOMAIN key)
  <2>1. Cardinality(Ahead(key, r)) <= Cardinality(DOMAIN key) BY <1>1, <1>2, FS_Subset
  <2>2. Cardinality(Ahead(key, r)) # Cardinality(DOMAIN key) BY <1>1, <1>2, FS_Subset
  <2>. QED BY <1>1, <1>3, <2>1, <2>2, FS_CardinalityType
<1>5. ASSUME NEW s \in DOMAIN key, KeyLess(key[r], key[s])
      PROVE  Cardinality(Ahead(key, r)) < Cardinality(Ahead(key, s))
  <2>1. Ahead(key, r) \subseteq Ahead(key, s)
    <3>. SUFFICES ASSUME NEW q \in Ahead(key, r) PROVE q \in Ahead(key, s) OBVIOUS
    <3>1. q \in DOMAIN key /\ KeyLess(key[q], key[r]) BY DEF Ahead
    <3>2. KeyLess(key[q], key[s]) BY <1>1, <1>5, <3>1, KeyTransitive
    <3>. QED BY <3>1, <3>2 DEF Ahead
  <2>2. r \in Ahead(key, s) BY <1>5 DEF Ahead
  <2>3. IsFiniteSet(Ahead(key, s)) BY <1>1, FS_Subset DEF Ahead
  <2>4. /\ Cardinality(Ahead(key, r)) <= Cardinality(Ahead(key, s))
        /\ Cardinality(Ahead(key, r)) # Cardinality(Ahead(key, s))
    BY <1>2, <2>1, <2>2, <2>3, FS_Subset
  <2>. QED BY <1>3, <2>3, <2>4, FS_CardinalityType
<1>. QED BY <1>3, <1>4, <1>5

\* A sequence of rows that holds the first ones.
FirstOf(top, key) ==
  /\ top \in Seq(DOMAIN key)
  /\ \A i, j \in DOMAIN top : top[i] = top[j] => i = j
  /\ \A i, j \in DOMAIN top : i < j => KeyLess(key[top[i]], key[top[j]])
  /\ \A r \in DOMAIN key :
       (\E i \in DOMAIN top : top[i] = r) \/ \A i \in DOMAIN top : KeyLess(key[top[i]], key[r])

LEMMA TopIs ==
  ASSUME NEW key, NEW n, Keyed(key, n), NEW limit \in Nat
  PROVE  /\ FirstOf(Top(key, limit), key)
         /\ Len(Top(key, limit)) = Min({limit, Cardinality(DOMAIN key)})
<1>1. /\ n \in Nat /\ IsFiniteSet(DOMAIN key)
      /\ \A r \in DOMAIN key : IsKey(key[r], n)
      /\ \A r, s \in DOMAIN key : r # s => \E i \in 1..n : key[r][i] # key[s][i]
  BY DEF Keyed
<1>2. PICK N \in Nat : N = Cardinality(DOMAIN key) BY <1>1, FS_CardinalityType
<1>3. PICK m \in Nat : m = Min({limit, N}) /\ m <= N /\ m <= limit /\ (m = N \/ m = limit)
  BY MinOfTwo
<1>4. PICK rank : rank = [r \in DOMAIN key |-> Cardinality(Ahead(key, r)) + 1] OBVIOUS
<1>5. /\ rank \in [DOMAIN key -> 1..N]
      /\ \A r, s \in DOMAIN key : KeyLess(key[r], key[s]) => rank[r] < rank[s]
  <2>1. ASSUME NEW r \in DOMAIN key
        PROVE  rank[r] \in 1..N
    <3>1. Cardinality(Ahead(key, r)) \in Nat /\ Cardinality(Ahead(key, r)) < N
      BY <1>2, FewerAhead
    <3>. QED BY <3>1, <1>4
  <2>2. ASSUME NEW r \in DOMAIN key, NEW s \in DOMAIN key, KeyLess(key[r], key[s])
        PROVE  rank[r] < rank[s]
    <3>1. /\ Cardinality(Ahead(key, r)) \in Nat /\ Cardinality(Ahead(key, s)) \in Nat
          /\ Cardinality(Ahead(key, r)) < Cardinality(Ahead(key, s))
      BY <2>2, FewerAhead
    <3>. QED BY <3>1, <1>4
  <2>. QED BY <1>4, <2>1, <2>2
<1>6. ASSUME NEW r \in DOMAIN key, NEW s \in DOMAIN key, r # s
      PROVE  /\ KeyLess(key[r], key[s]) \/ KeyLess(key[s], key[r])
             /\ rank[r] # rank[s]
  <2>1. KeyLess(key[r], key[s]) \/ KeyLess(key[s], key[r]) BY <1>1, <1>6, KeyTotal
  <2>. QED BY <2>1, <1>5
<1>7. rank \in Surjection(DOMAIN key, 1..N)
  <2>1. rank \in Injection(DOMAIN key, 1..N) BY <1>5, <1>6 DEF Injection, IsInjective
  <2>2. IsFiniteSet(1..N) /\ Cardinality(1..N) = N BY FS_Interval
  <2>. QED BY <2>1, <2>2, <1>2, FS_Injection
<1>8. PICK top : top = Top(key, limit) OBVIOUS
<1>9. top = [i \in 1..m |-> CHOOSE r \in DOMAIN key : Cardinality(Ahead(key, r)) = i - 1]
  BY <1>2, <1>3, <1>8 DEF Top, Ahead
<1>10. ASSUME NEW i \in 1..m
       PROVE  top[i] \in DOMAIN key /\ rank[top[i]] = i
  <2>1. PICK r \in DOMAIN key : rank[r] = i BY <1>3, <1>7 DEF Surjection
  <2>2. Cardinality(Ahead(key, r)) \in Nat BY FewerAhead
  <2>3. Cardinality(Ahead(key, r)) = i - 1 BY <1>4, <2>1, <2>2
  <2>4. top[i] = CHOOSE q \in DOMAIN key : Cardinality(Ahead(key, q)) = i - 1 BY <1>9
  <2>5. top[i] \in DOMAIN key /\ Cardinality(Ahead(key, top[i])) = i - 1
    BY <2>3, <2>4, Zenon
  <2>. QED BY <2>5, <1>4
<1>11. DOMAIN top = 1..m BY <1>9
<1>12. top \in Seq(DOMAIN key) /\ Len(top) = m
  <2>1. top \in [1..m -> DOMAIN key] BY <1>9, <1>10
  <2>. QED BY <2>1
<1>13. \A i, j \in 1..m : top[i] = top[j] => i = j BY <1>10
<1>14. ASSUME NEW i \in 1..m, NEW j \in 1..m, i < j
       PROVE  KeyLess(key[top[i]], key[top[j]])
  BY <1>5, <1>6, <1>10, <1>14
<1>15. ASSUME NEW r \in DOMAIN key, ~ \E i \in 1..m : top[i] = r, NEW i \in 1..m
       PROVE  KeyLess(key[top[i]], key[r])
  <2>1. rank[r] \in 1..N BY <1>5
  <2>2. ~(rank[r] <= m)
    <3>. SUFFICES ASSUME rank[r] <= m PROVE FALSE OBVIOUS
    <3>1. rank[r] \in 1..m BY <2>1
    <3>2. top[rank[r]] \in DOMAIN key /\ rank[top[rank[r]]] = rank[r] BY <3>1, <1>10
    <3>3. top[rank[r]] = r BY <3>2, <1>6
    <3>. QED BY <3>1, <3>3, <1>15
  <2>3. top[i] \in DOMAIN key /\ rank[top[i]] = i BY <1>10
  <2>4. top[i] # r /\ ~(rank[r] < rank[top[i]]) BY <1>15, <2>1, <2>2, <2>3
  <2>. QED BY <2>3, <2>4, <1>5, <1>6
<1>16. FirstOf(top, key) BY <1>11, <1>12, <1>13, <1>14, <1>15 DEF FirstOf
<1>. QED BY <1>2, <1>3, <1>8, <1>12, <1>16

\* If there is room for every row, every row is there.
Whole(top, key, limit) ==
  /\ Len(top) \in Nat /\ Len(top) <= limit /\ Len(top) <= Cardinality(DOMAIN key)
  /\ Len(top) < limit \/ Cardinality(DOMAIN key) <= limit =>
       /\ Len(top) = Cardinality(DOMAIN key)
       /\ \A r \in DOMAIN key : \E i \in DOMAIN top : top[i] = r

LEMMA TopIsWhole ==
  ASSUME NEW key, NEW n, Keyed(key, n), NEW limit \in Nat
  PROVE  Whole(Top(key, limit), key, limit)
<1>0. PICK top : /\ top = Top(key, limit) /\ FirstOf(top, key)
                 /\ Len(top) = Min({limit, Cardinality(DOMAIN key)})
  BY TopIs
<1>1. IsFiniteSet(DOMAIN key) /\ Cardinality(DOMAIN key) \in Nat
  BY FS_CardinalityType DEF Keyed
<1>2. /\ Len(top) \in Nat /\ Len(top) <= limit /\ Len(top) <= Cardinality(DOMAIN key)
      /\ Len(top) < limit \/ Cardinality(DOMAIN key) <= limit => Len(top) = Cardinality(DOMAIN key)
  BY <1>0, <1>1, MinOfTwo
<1>3. ASSUME Len(top) = Cardinality(DOMAIN key), NEW r \in DOMAIN key
      PROVE  \E i \in DOMAIN top : top[i] = r
  <2>1. top \in [1..Len(top) -> DOMAIN key] /\ DOMAIN top = 1..Len(top)
    BY <1>0 DEF FirstOf
  <2>2. top \in Injection(1..Len(top), DOMAIN key)
    BY <1>0, <2>1 DEF FirstOf, Injection, IsInjective
  <2>3. Cardinality(1..Len(top)) = Len(top)
    <3>1. PICK a \in Int, b \in Int : a = 1 /\ b = Len(top) /\ b >= 0 BY <1>2
    <3>2. Cardinality(a..b) = IF a > b THEN 0 ELSE b - a + 1 BY FS_Interval
    <3>. QED BY <3>1, <3>2
  <2>4. top \in Surjection(1..Len(top), DOMAIN key) BY <1>1, <1>3, <2>2, <2>3, FS_Injection
  <2>. QED BY <2>1, <2>4 DEF Surjection
<1>. QED BY <1>0, <1>2, <1>3 DEF Whole

(* A loop of n turns.                                                      *)

Turns(f, n, start, turn) ==
  f = [i \in 0..n |-> IF i = 0 THEN start ELSE turn[f[i - 1]]]

LEMMA TurnsExist ==
  ASSUME NEW start, NEW turn, NEW size \in Nat
  PROVE  \E f : Turns(f, size, start, turn)
<1>. DEFINE T == {n \in Nat : ~ \E f : Turns(f, n, start, turn)}
<1>. SUFFICES ASSUME T # {} PROVE FALSE OBVIOUS
<1>1. PICK n \in T : \A k \in T : n <= k
  <2>. HIDE DEF T
  <2>1. T \subseteq Nat BY DEF T
  <2>. QED BY <2>1, LeastNumber
<1>2. n \in Nat /\ ~ \E f : Turns(f, n, start, turn) BY <1>1
<1>3. CASE n = 0
  <2>1. Turns([i \in 0..0 |-> start], 0, start, turn) BY DEF Turns
  <2>. QED BY <1>2, <1>3, <2>1
<1>4. CASE n # 0
  <2>1. n - 1 \in Nat /\ n - 1 < n BY <1>2, <1>4
  <2>2. PICK before : Turns(before, n - 1, start, turn) BY <1>1, <2>1
  <2>. DEFINE f == [i \in 0..n |-> IF i = n THEN turn[before[n - 1]] ELSE before[i]]
  <2>3. \A i \in 0..(n - 1) : before[i] = IF i = 0 THEN start ELSE turn[before[i - 1]]
    BY <2>2 DEF Turns
  <2>4. \A i \in 0..(n - 1) : f[i] = before[i] BY <2>1
  <2>5. f[n] = turn[f[n - 1]] BY <2>1, <2>4
  <2>6. \A i \in 0..n : f[i] = IF i = 0 THEN start ELSE turn[f[i - 1]]
    <3>. SUFFICES ASSUME NEW i \in 0..n PROVE f[i] = IF i = 0 THEN start ELSE turn[f[i - 1]] OBVIOUS
    <3>1. CASE i = n BY <1>4, <2>5, <3>1
    <3>2. CASE i # n
      <4>1. i \in 0..(n - 1) /\ (i # 0 => i - 1 \in 0..(n - 1)) BY <1>2, <3>2
      <4>2. i # 0 => f[i - 1] = before[i - 1] BY <4>1, <2>4
      <4>. HIDE DEF f
      <4>. QED BY <4>1, <4>2, <2>3, <2>4
    <3>. QED BY <3>1, <3>2
  <2>7. f = [i \in 0..n |-> IF i = 0 THEN start ELSE turn[f[i - 1]]]
    <3>1. f = [i \in 0..n |-> f[i]] OBVIOUS
    <3>. HIDE DEF f
    <3>. QED BY <3>1, <2>6
  <2>8. Turns(f, n, start, turn)
    <3>. HIDE DEF f
    <3>. QED BY <2>7 DEF Turns
  <2>. QED BY <1>2, <2>8
<1>. QED BY <1>3, <1>4

\* What holds before the first turn and is kept by every turn holds after each.
LEMMA TurnsKeep ==
  ASSUME NEW n \in Nat, NEW f, NEW I,
         f[0] \in I[0], \A i \in 1..n : f[i - 1] \in I[i - 1] => f[i] \in I[i]
  PROVE  \A i \in 0..n : f[i] \in I[i]
<1>. DEFINE T == {i \in 0..n : f[i] \notin I[i]}
<1>. SUFFICES ASSUME T # {} PROVE FALSE OBVIOUS
<1>1. PICK i \in T : \A k \in T : i <= k
  <2>1. T \subseteq Nat OBVIOUS
  <2>. HIDE DEF T
  <2>. QED BY <2>1, LeastNumber
<1>2. i \in 0..n /\ f[i] \notin I[i] OBVIOUS
<1>4. i # 0 BY <1>2
<1>5. i - 1 \in 0..n /\ i \in 1..n BY <1>2, <1>4
<1>6. i - 1 \notin T BY <1>1, <1>2
<1>7. f[i - 1] \in I[i - 1] BY <1>5, <1>6
<1>. HIDE DEF T
<1>. QED BY <1>2, <1>5, <1>7

(* Sums over a finite set, taken element by element.                       *)

SumOver(sum, S, w, pick) ==
  sum = [s \in SUBSET S |-> IF s = {} THEN 0 ELSE w[pick[s]] + sum[s \ {pick[s]}]]

\* What there are sums of, up to some number of elements.
SumsUpTo(sum, n, S, w, pick) ==
  sum = [s \in {t \in SUBSET S : Cardinality(t) <= n} |->
           IF s = {} THEN 0 ELSE w[pick[s]] + sum[s \ {pick[s]}]]

LEMMA SumsExist ==
  ASSUME NEW S, IsFiniteSet(S), NEW w, NEW pick, \A s \in SUBSET S : s # {} => pick[s] \in s
  PROVE  \E sum : SumOver(sum, S, w, pick)
<1>. DEFINE T == {n \in Nat : ~ \E sum : SumsUpTo(sum, n, S, w, pick)}
<1>0. \A s \in SUBSET S : IsFiniteSet(s) /\ Cardinality(s) \in Nat /\ Cardinality(s) <= Cardinality(S)
  BY FS_Subset, FS_CardinalityType
<1>1. ASSUME T # {}
      PROVE  FALSE
  <2>1. PICK n \in T : \A k \in T : n <= k
    <3>. HIDE DEF T
    <3>1. T \subseteq Nat BY DEF T
    <3>. QED BY <1>1, <3>1, LeastNumber
  <2>2. n \in Nat /\ ~ \E sum : SumsUpTo(sum, n, S, w, pick) BY <2>1
  <2>3. PICK few : few = {t \in SUBSET S : Cardinality(t) <= n} OBVIOUS
  <2>4. CASE n = 0
    <3>1. \A s \in few : s = {} BY <1>0, <2>3, <2>4, FS_EmptySet
    <3>2. PICK sum : sum = [s \in few |-> 0] OBVIOUS
    <3>3. sum = [s \in few |-> IF s = {} THEN 0 ELSE w[pick[s]] + sum[s \ {pick[s]}]]
      BY <3>1, <3>2
    <3>4. SumsUpTo(sum, n, S, w, pick) BY <2>3, <3>3 DEF SumsUpTo
    <3>. QED BY <2>2, <3>4
  <2>5. CASE n # 0
    <3>1. n - 1 \in Nat /\ n - 1 < n BY <2>2, <2>5
    <3>2. PICK before : SumsUpTo(before, n - 1, S, w, pick) BY <2>1, <3>1
    <3>3. PICK fewer : fewer = {t \in SUBSET S : Cardinality(t) <= n - 1} OBVIOUS
    <3>4. /\ fewer \subseteq few
          /\ \A s \in fewer : before[s] = IF s = {} THEN 0 ELSE w[pick[s]] + before[s \ {pick[s]}]
      <4>1. fewer \subseteq few BY <1>0, <2>2, <2>3, <3>3
      <4>. QED BY <4>1, <3>2, <3>3 DEF SumsUpTo
    <3>5. ASSUME NEW s \in few, s # {}
          PROVE  s \ {pick[s]} \in fewer
      <4>1. s \in SUBSET S /\ IsFiniteSet(s) /\ Cardinality(s) <= n /\ Cardinality(s) \in Nat /\ pick[s] \in s
        BY <1>0, <2>3, <3>5
      <4>2. Cardinality(s \ {pick[s]}) = Cardinality(s) - 1 BY <4>1, FS_RemoveElement
      <4>. QED BY <2>2, <3>3, <4>1, <4>2
    <3>6. PICK sum : sum = [s \in few |-> IF s \in fewer THEN before[s]
                                         ELSE IF s = {} THEN 0 ELSE w[pick[s]] + before[s \ {pick[s]}]]
      OBVIOUS
    <3>7. \A s \in few : sum[s] = IF s = {} THEN 0 ELSE w[pick[s]] + before[s \ {pick[s]}]
      BY <3>4, <3>6
    <3>8. \A s \in fewer : sum[s] = before[s] BY <3>4, <3>6
    <3>9. \A s \in few : sum[s] = IF s = {} THEN 0 ELSE w[pick[s]] + sum[s \ {pick[s]}]
      BY <3>5, <3>7, <3>8
    <3>10. sum = [s \in few |-> IF s = {} THEN 0 ELSE w[pick[s]] + sum[s \ {pick[s]}]]
      <4>1. sum = [s \in few |-> sum[s]] BY <3>6
      <4>. QED BY <4>1, <3>9
    <3>11. SumsUpTo(sum, n, S, w, pick) BY <2>3, <3>10 DEF SumsUpTo
    <3>. QED BY <2>2, <3>11
  <2>. QED BY <2>4, <2>5
<1>2. Cardinality(S) \in Nat BY FS_CardinalityType
<1>3. PICK sum : SumsUpTo(sum, Cardinality(S), S, w, pick) BY <1>1, <1>2
<1>4. {t \in SUBSET S : Cardinality(t) <= Cardinality(S)} = SUBSET S BY <1>0
<1>5. SumOver(sum, S, w, pick) BY <1>3, <1>4 DEF SumsUpTo, SumOver
<1>. QED BY <1>5

\* The sums over the subsets of S, each with some element taken out first.
Sums(sum, S, w) ==
  /\ sum[{}] = 0
  /\ \A s \in SUBSET S : s # {} => \E x \in s : sum[s] = w[x] + sum[s \ {x}]

LEMMA SumsAreNumbers ==
  ASSUME NEW S, IsFiniteSet(S), NEW w, \A x \in S : w[x] \in Int, NEW sum, Sums(sum, S, w)
  PROVE  \A s \in SUBSET S : sum[s] \in Int
<1>. DEFINE T == {Cardinality(s) : s \in {t \in SUBSET S : sum[t] \notin Int}}
<1>0. \A s \in SUBSET S : IsFiniteSet(s) /\ Cardinality(s) \in Nat
  BY FS_Subset, FS_CardinalityType
<1>. SUFFICES ASSUME T # {} PROVE FALSE OBVIOUS
<1>1. PICK n \in T : \A k \in T : n <= k
  <2>1. T \subseteq Nat BY <1>0
  <2>. HIDE DEF T
  <2>. QED BY <2>1, LeastNumber
<1>2. PICK s \in SUBSET S : sum[s] \notin Int /\ Cardinality(s) = n BY <1>1
<1>3. s # {}
  <2>. HIDE DEF T
  <2>1. sum[{}] = 0 BY DEF Sums
  <2>2. sum[s] # 0 BY <1>2
  <2>. QED BY <2>1, <2>2
<1>4. PICK x \in s : sum[s] = w[x] + sum[s \ {x}] BY <1>3 DEF Sums
<1>5. Cardinality(s \ {x}) = n - 1 /\ n \in Nat BY <1>0, <1>2, FS_RemoveElement
<1>6. Cardinality(s \ {x}) \notin T
  <2>. HIDE DEF T
  <2>1. PICK k : k = Cardinality(s \ {x}) /\ k = n - 1 BY <1>5
  <2>2. k < n /\ ~(n <= k) BY <1>5, <2>1
  <2>. QED BY <1>1, <2>1, <2>2
<1>7. sum[s \ {x}] \in Int BY <1>6
<1>. QED BY <1>2, <1>4, <1>7

\* Any element can be taken out first.
LEMMA SumTakesAny ==
  ASSUME NEW S, IsFiniteSet(S), NEW w, \A x \in S : w[x] \in Int, NEW sum, Sums(sum, S, w)
  PROVE  \A s \in SUBSET S : \A x \in s : \A r : r = s \ {x} => sum[s] = w[x] + sum[r]
<1>. DEFINE Wrong(t) == \E x \in t : sum[t] # w[x] + sum[t \ {x}]
            T == {Cardinality(s) : s \in {t \in SUBSET S : Wrong(t)}}
<1>0. \A s \in SUBSET S : IsFiniteSet(s) /\ Cardinality(s) \in Nat
  BY FS_Subset, FS_CardinalityType
<1>1. \A s \in SUBSET S : sum[s] \in Int BY SumsAreNumbers
<1>. SUFFICES ASSUME T # {} PROVE FALSE
  <2>1. ASSUME NEW s \in SUBSET S, NEW x \in s, T = {}, NEW r, r = s \ {x}
        PROVE  sum[s] = w[x] + sum[r]
    <3>1. Cardinality(s) \in T \/ ~Wrong(s) OBVIOUS
    <3>2. ~Wrong(s) BY <2>1, <3>1
    <3>. QED BY <2>1, <3>2
  <2>. HIDE DEF T
  <2>. QED BY <2>1
<1>2. PICK n \in T : \A k \in T : n <= k
  <2>1. T \subseteq Nat BY <1>0
  <2>. HIDE DEF T
  <2>. QED BY <2>1, LeastNumber
<1>3. PICK s \in SUBSET S : Wrong(s) /\ Cardinality(s) = n BY <1>2
<1>4. PICK x \in s : sum[s] # w[x] + sum[s \ {x}] BY <1>3
<1>5. PICK y \in s : sum[s] = w[y] + sum[s \ {y}] BY <1>4 DEF Sums
<1>6. x # y BY <1>4, <1>5
<1>7. ASSUME NEW z \in s
      PROVE  ~Wrong(s \ {z})
  <2>1. Cardinality(s \ {z}) = n - 1 /\ n \in Nat BY <1>0, <1>3, FS_RemoveElement
  <2>2. Cardinality(s \ {z}) \notin T
    <3>. HIDE DEF T
    <3>1. PICK k : k = Cardinality(s \ {z}) /\ k = n - 1 BY <2>1
    <3>2. k < n /\ ~(n <= k) BY <2>1, <3>1
    <3>. QED BY <1>2, <3>1, <3>2
  <2>. QED BY <2>2
<1>8. /\ sum[s \ {y}] = w[x] + sum[(s \ {y}) \ {x}]
      /\ sum[s \ {x}] = w[y] + sum[(s \ {x}) \ {y}]
  BY <1>6, <1>7
<1>9. (s \ {y}) \ {x} = (s \ {x}) \ {y} OBVIOUS
<1>10. sum[(s \ {x}) \ {y}] \in Int /\ w[x] \in Int /\ w[y] \in Int BY <1>1
<1>11. sum[s] = w[y] + (w[x] + sum[(s \ {x}) \ {y}]) BY <1>5, <1>8, <1>9
<1>. HIDE DEF Wrong, T
<1>. QED BY <1>4, <1>8, <1>10, <1>11

\* Two sums of the same numbers are equal.
LEMMA SumsAgree ==
  ASSUME NEW S, IsFiniteSet(S), NEW w, \A x \in S : w[x] \in Int, NEW sum, Sums(sum, S, w),
         NEW R, IsFiniteSet(R), NEW v, NEW total, Sums(total, R, v),
         NEW b \in Bijection(S, R), \A x \in S : v[b[x]] = w[x]
  PROVE  sum[S] = total[R]
<1>. DEFINE img(s) == {b[x] : x \in s}
            T == {Cardinality(s) : s \in {t \in SUBSET S : sum[t] # total[img(t)]}}
<1>0. \A s \in SUBSET S : IsFiniteSet(s) /\ Cardinality(s) \in Nat
  BY FS_Subset, FS_CardinalityType
<1>1. /\ b \in [S -> R] /\ \A x, y \in S : b[x] = b[y] => x = y
      /\ \A r \in R : \E x \in S : b[x] = r
  BY DEF Bijection, Injection, Surjection, IsInjective
<1>2. \A r \in R : v[r] \in Int BY <1>1
<1>6. \A u \in SUBSET R : \A y \in u : \A r : r = u \ {y} => total[u] = v[y] + total[r]
  <2>. HIDE DEF img, T
  <2>. QED BY <1>2, SumTakesAny
<1>3. ASSUME T # {}
      PROVE  FALSE
  <2>1. PICK n \in T : \A k \in T : n <= k
    <3>1. T \subseteq Nat BY <1>0
    <3>. HIDE DEF T
    <3>. QED BY <1>3, <3>1, LeastNumber
  <2>2. PICK s \in SUBSET S : sum[s] # total[img(s)] /\ Cardinality(s) = n BY <2>1
  <2>3. s # {}
    <3>1. img({}) = {} OBVIOUS
    <3>. QED BY <2>2, <3>1 DEF Sums
  <2>4. PICK x \in s : sum[s] = w[x] + sum[s \ {x}] BY <2>3 DEF Sums
  <2>5. Cardinality(s \ {x}) = n - 1 /\ n \in Nat BY <1>0, <2>2, FS_RemoveElement
  <2>6. Cardinality(s \ {x}) \notin T
    <3>1. ASSUME Cardinality(s \ {x}) \in T
          PROVE  FALSE
      <4>. HIDE DEF T
      <4>1. n <= Cardinality(s \ {x}) BY <2>1, <3>1
      <4>. QED BY <2>5, <4>1
    <3>. QED BY <3>1
  <2>7. sum[s \ {x}] = total[img(s \ {x})] BY <2>6
  <2>8. img(s \ {x}) = img(s) \ {b[x]} BY <1>1
  <2>9. img(s) \in SUBSET R /\ b[x] \in img(s) BY <1>1
  <2>10. total[img(s)] = v[b[x]] + total[img(s) \ {b[x]}]
    <3>. HIDE DEF img, T
    <3>. QED BY <1>6, <2>9
  <2>. QED BY <2>2, <2>4, <2>7, <2>8, <2>10
<1>4. sum[S] = total[img(S)]
  <2>1. ASSUME sum[S] # total[img(S)]
        PROVE  FALSE
    <3>1. S \in {t \in SUBSET S : sum[t] # total[img(t)]} BY <2>1
    <3>2. Cardinality(S) \in T BY <3>1
    <3>. HIDE DEF T, img
    <3>. QED BY <1>3, <3>2
  <2>. QED BY <2>1
<1>5. img(S) = R BY <1>1
<1>. QED BY <1>4, <1>5

----------------------------------------------------------------------------
(* NutsNames: an artifact that a build left has the names of its sources, and *)
(* a search finds a region by what its entry has.                          *)

(* The elements of sequences.                                              *)

LEMMA SetOfSeq ==
  ASSUME NEW S, NEW s \in Seq(S)
  PROVE  ToSet(s) = {s[i] : i \in 1..Len(s)}
<1>1. DOMAIN s = 1..Len(s) OBVIOUS
<1>. QED BY <1>1 DEF ToSet

LEMMA SetOfAppend ==
  ASSUME NEW S, NEW s \in Seq(S), NEW d \in S
  PROVE  /\ Append(s, d) \in Seq(S) /\ Len(Append(s, d)) = Len(s) + 1
         /\ Append(s, d)[Len(s) + 1] = d /\ \A i \in 1..Len(s) : Append(s, d)[i] = s[i]
         /\ ToSet(Append(s, d)) = ToSet(s) \union {d}
<1>1. PICK t : t = Append(s, d) OBVIOUS
<1>2. /\ t \in Seq(S) /\ Len(t) = Len(s) + 1
      /\ t[Len(s) + 1] = d /\ \A i \in 1..Len(s) : t[i] = s[i]
  BY <1>1
<1>3. /\ \A i \in 1..Len(t) : i \in 1..Len(s) \/ i = Len(s) + 1
      /\ 1..Len(s) \subseteq 1..Len(t) /\ Len(s) + 1 \in 1..Len(t)
  BY <1>2
<1>4. ToSet(t) = {t[i] : i \in 1..Len(t)} /\ ToSet(s) = {s[i] : i \in 1..Len(s)}
  BY <1>2, SetOfSeq
<1>5. ToSet(t) = ToSet(s) \union {d}
  <2>. HIDE <1>1
  <2>1. \A x : x \in ToSet(t) <=> \E i \in 1..Len(t) : x = t[i] BY <1>4
  <2>2. \A x : x \in ToSet(s) <=> \E i \in 1..Len(s) : x = s[i] BY <1>4
  <2>3. ASSUME NEW x \in ToSet(t)
        PROVE  x \in ToSet(s) \/ x = d
    <3>1. PICK i \in 1..Len(t) : x = t[i] BY <2>1
    <3>2. CASE i \in 1..Len(s) BY <3>1, <3>2, <1>2, <2>2
    <3>3. CASE i = Len(s) + 1 BY <3>1, <3>3, <1>2
    <3>. QED BY <3>2, <3>3, <1>3
  <2>4. ASSUME NEW x \in ToSet(s)
        PROVE  x \in ToSet(t)
    <3>1. PICK i \in 1..Len(s) : x = s[i] BY <2>2
    <3>. QED BY <3>1, <1>2, <1>3, <2>1
  <2>5. d \in ToSet(t) BY <1>2, <1>3, <2>1
  <2>. QED BY <2>3, <2>4, <2>5
<1>. QED BY <1>1, <1>2, <1>5

LEMMA SetOfConcat ==
  ASSUME NEW S, NEW s \in Seq(S), NEW t \in Seq(S)
  PROVE  /\ s \o t \in Seq(S) /\ Len(s \o t) = Len(s) + Len(t)
         /\ \A i \in 1..Len(s) : (s \o t)[i] = s[i]
         /\ \A i \in 1..Len(t) : (s \o t)[i + Len(s)] = t[i]
         /\ ToSet(s \o t) = ToSet(s) \union ToSet(t)
<1>1. PICK u : u = s \o t OBVIOUS
<1>2. /\ u \in Seq(S) /\ Len(u) = Len(s) + Len(t)
      /\ \A i \in 1..Len(u) : u[i] = IF i <= Len(s) THEN s[i] ELSE t[i - Len(s)]
  BY <1>1, ConcatProperties
<1>3. /\ \A i \in 1..Len(s) : u[i] = s[i] /\ i \in 1..Len(u)
      /\ \A i \in 1..Len(t) : u[i + Len(s)] = t[i] /\ i + Len(s) \in 1..Len(u)
      /\ \A i \in 1..Len(u) : i \in 1..Len(s) \/ i - Len(s) \in 1..Len(t)
  <2>1. Len(s) \in Nat /\ Len(t) \in Nat OBVIOUS
  <2>2. \A i \in 1..Len(s) : u[i] = s[i] /\ i \in 1..Len(u) BY <1>2, <2>1
  <2>3. ASSUME NEW i \in 1..Len(t)
        PROVE  u[i + Len(s)] = t[i] /\ i + Len(s) \in 1..Len(u)
    <3>1. i + Len(s) \in 1..Len(u) /\ ~(i + Len(s) <= Len(s)) /\ (i + Len(s)) - Len(s) = i
      BY <1>2, <2>1
    <3>. QED BY <3>1, <1>2
  <2>4. \A i \in 1..Len(u) : i \in 1..Len(s) \/ i - Len(s) \in 1..Len(t) BY <1>2, <2>1
  <2>. QED BY <2>2, <2>3, <2>4
<1>4. /\ ToSet(u) = {u[i] : i \in 1..Len(u)} /\ ToSet(s) = {s[i] : i \in 1..Len(s)}
      /\ ToSet(t) = {t[i] : i \in 1..Len(t)}
  BY <1>2, SetOfSeq
<1>5. ToSet(u) = ToSet(s) \union ToSet(t)
  <2>1. \A x : x \in ToSet(u) <=> \E i \in 1..Len(u) : x = u[i] BY <1>4
  <2>2. \A x : x \in ToSet(s) <=> \E i \in 1..Len(s) : x = s[i] BY <1>4
  <2>3. \A x : x \in ToSet(t) <=> \E i \in 1..Len(t) : x = t[i] BY <1>4
  <2>4. ASSUME NEW x \in ToSet(u)
        PROVE  x \in ToSet(s) \/ x \in ToSet(t)
    <3>1. PICK i \in 1..Len(u) : x = u[i] BY <2>1
    <3>2. CASE i \in 1..Len(s) BY <3>1, <3>2, <1>3, <2>2
    <3>3. CASE i \notin 1..Len(s)
      <4>1. i - Len(s) \in 1..Len(t) /\ u[i] = t[i - Len(s)] BY <3>3, <1>2, <1>3
      <4>. QED BY <4>1, <3>1, <2>3
    <3>. QED BY <3>2, <3>3
  <2>5. ASSUME NEW x \in ToSet(s)
        PROVE  x \in ToSet(u)
    BY <1>3, <2>1, <2>2
  <2>6. ASSUME NEW x \in ToSet(t)
        PROVE  x \in ToSet(u)
    BY <1>3, <2>1, <2>3
  <2>. QED BY <2>4, <2>5, <2>6
<1>. QED BY <1>1, <1>2, <1>3, <1>5

LEMMA SetOfTail ==
  ASSUME NEW S, NEW s \in Seq(S), s # <<>>
  PROVE  /\ Head(s) \in S /\ Tail(s) \in Seq(S) /\ Len(Tail(s)) = Len(s) - 1
         /\ ToSet(s) = {Head(s)} \union ToSet(Tail(s))
<1>1. Head(s) \in S /\ Tail(s) \in Seq(S) /\ s = <<Head(s)>> \o Tail(s) /\ Len(Tail(s)) = Len(s) - 1
  BY HeadTailProperties
<1>2. ToSet(<<Head(s)>>) = {Head(s)} BY DEF ToSet
<1>3. <<Head(s)>> \in Seq(S) BY <1>1
<1>4. PICK h \in Seq(S), t \in Seq(S) : h = <<Head(s)>> /\ t = Tail(s) BY <1>1, <1>3
<1>5. ToSet(h \o t) = ToSet(h) \union ToSet(t) BY SetOfConcat
<1>. QED BY <1>1, <1>2, <1>4, <1>5

Orders(order) ==
  /\ order \in [RetiredCode -> 1..Cardinality(RetiredCode)]
  /\ \A c, d \in RetiredCode : c # d => order[c] # order[d]

LEMMA NamesSets ==
  /\ IsFiniteSet(NutsRegion) /\ IsFiniteSet(RetiredCode)
  /\ Cardinality(RetiredCode) \in Nat
  /\ \A c \in AnyCode : c \in Seq(STRING) /\ c # <<>> /\ Len(c) \in Nat /\ Len(c) > 0
  /\ NutsRegion \subseteq AnyCode /\ RetiredCode \subseteq AnyCode
<1>1. /\ IsFiniteSet(NutsRegion) /\ IsFiniteSet(RetiredCode)
      /\ \A c \in AnyCode : c \in Seq(STRING) /\ c # <<>>
  BY NamesAssumption
<1>2. \A c \in AnyCode : Len(c) \in Nat /\ Len(c) > 0 BY <1>1, EmptySeq
<1>. QED BY <1>1, <1>2, FS_CardinalityType DEF AnyCode

(* The codes that a code replaced.                                         *)

ReplacedBy(c, s) ==
  {d \in RetiredCode : \A S \in SUBSET RetiredCode :
     (\A x \in S \union {c} : s.replaces[x] \subseteq S) => d \in S}

LEMMA DirectOnes ==
  ASSUME NEW s \in NameSources, NEW c \in AnyCode, NEW order, Orders(order)
  PROVE  /\ Predecessors_Direct(c, s, order) \in Seq(RetiredCode)
         /\ Len(Predecessors_Direct(c, s, order)) <= Cardinality(RetiredCode)
         /\ ToSet(Predecessors_Direct(c, s, order)) = s.replaces[c]
<1>1. s.replaces[c] \subseteq RetiredCode BY NamesAssumption
<1>2. PICK key : key = [d \in s.replaces[c] |-> <<order[d]>>] OBVIOUS
<1>3. DOMAIN key = s.replaces[c] BY <1>2
<1>4. IsFiniteSet(DOMAIN key) /\ Cardinality(DOMAIN key) <= Cardinality(RetiredCode)
  BY <1>1, <1>3, NamesSets, FS_Subset
<1>5. \A d \in DOMAIN key : order[d] \in Int /\ key[d] = <<order[d]>>
  BY <1>1, <1>2 DEF Orders
<1>6. Keyed(key, 1)
  <2>1. \A d \in DOMAIN key : IsKey(key[d], 1) BY <1>5 DEF IsKey
  <2>2. \A c1, d \in DOMAIN key : c1 # d => key[c1][1] # key[d][1]
    BY <1>1, <1>3, <1>5 DEF Orders
  <2>. QED BY <2>1, <2>2, <1>4 DEF Keyed
<1>7. PICK top : top = Predecessors_Direct(c, s, order) OBVIOUS
<1>8. /\ FirstOf(top, key)
      /\ Len(top) = Min({Cardinality(RetiredCode), Cardinality(DOMAIN key)})
  BY <1>2, <1>6, <1>7, TopIs, NamesSets DEF Predecessors_Direct
<1>9. Cardinality(RetiredCode) \in Nat BY NamesSets
<1>10. /\ Len(top) <= Cardinality(RetiredCode)
       /\ \A d \in DOMAIN key : \E i \in DOMAIN top : top[i] = d
  <2>1. PICK m \in Nat : m = Cardinality(RetiredCode) /\ Cardinality(DOMAIN key) <= m BY <1>4, <1>9
  <2>2. top = Top(key, m) BY <1>2, <1>7, <2>1 DEF Predecessors_Direct
  <2>3. PICK n : n = 1 OBVIOUS
  <2>4. Keyed(key, n) BY <1>6, <2>3
  <2>5. Whole(top, key, m) BY <2>2, <2>4, TopIsWhole
  <2>. QED BY <2>1, <2>5 DEF Whole
<1>11. top \in Seq(DOMAIN key) BY <1>8 DEF FirstOf
<1>12. ToSet(top) = DOMAIN key
  <2>1. \A i \in DOMAIN top : top[i] \in DOMAIN key BY <1>11
  <2>. QED BY <2>1, <1>10 DEF ToSet
<1>. QED BY <1>1, <1>3, <1>7, <1>10, <1>11, <1>12

WalkState == [queue : Seq(RetiredCode), seen : Seq(RetiredCode)]

\* After i turns: what was seen or waits was replaced, and what those that were seen
\* replaced was seen or waits.
WalkInv(w, i, c, s) ==
  /\ w \in WalkState
  /\ \A a, b \in DOMAIN w.seen : w.seen[a] = w.seen[b] => a = b
  /\ ToSet(w.queue) \union ToSet(w.seen) \subseteq ReplacedBy(c, s)
  /\ \A x \in ToSet(w.seen) \union {c} :
       s.replaces[x] \subseteq ToSet(w.seen) \union ToSet(w.queue)
  /\ w.queue # <<>> => i + Len(w.queue) <= Cardinality(RetiredCode) * (1 + Len(w.seen))

LEMMA ReplacedIsClosed ==
  ASSUME NEW s, NEW c
  PROVE  /\ s.replaces[c] \subseteq RetiredCode => s.replaces[c] \subseteq ReplacedBy(c, s)
         /\ \A d \in ReplacedBy(c, s) :
              s.replaces[d] \subseteq RetiredCode => s.replaces[d] \subseteq ReplacedBy(c, s)
  BY DEF ReplacedBy

LEMMA WalkTurn ==
  ASSUME NEW s \in NameSources, NEW c \in AnyCode, NEW order, Orders(order),
         NEW i \in Nat, NEW w, WalkInv(w, i, c, s)
  PROVE  WalkInv(NextCode(w, s, order), i + 1, c, s)
<1>1. PICK R \in Nat : R = Cardinality(RetiredCode) BY NamesSets
<1>2. PICK queue \in Seq(RetiredCode), seen \in Seq(RetiredCode) : w = [queue |-> queue, seen |-> seen]
  BY DEF WalkInv, WalkState
<1>3. /\ \A a, b \in DOMAIN seen : seen[a] = seen[b] => a = b
      /\ ToSet(queue) \union ToSet(seen) \subseteq ReplacedBy(c, s)
      /\ \A x \in ToSet(seen) \union {c} : s.replaces[x] \subseteq ToSet(seen) \union ToSet(queue)
      /\ queue # <<>> => i + Len(queue) <= R * (1 + Len(seen))
  BY <1>1, <1>2 DEF WalkInv
<1>4. CASE queue = <<>>
  <2>1. NextCode(w, s, order) = w BY <1>2, <1>4 DEF NextCode
  <2>. QED BY <2>1, <1>2, <1>4 DEF WalkInv
<1>5. CASE queue # <<>>
  <2>1. PICK d \in RetiredCode : d = Head(queue) BY <1>5
  <2>2. PICK rest \in Seq(RetiredCode) :
          /\ rest = Tail(queue) /\ Len(rest) = Len(queue) - 1
          /\ ToSet(queue) = {d} \union ToSet(rest)
    BY <1>5, <2>1, SetOfTail
  <2>3. ToSet(queue) = {d} \union ToSet(rest) BY <2>2
  <2>4. CASE d \in ToSet(seen)
    <3>1. NextCode(w, s, order) = [queue |-> rest, seen |-> seen]
      BY <1>2, <1>5, <2>1, <2>2, <2>4 DEF NextCode
    <3>2. (i + 1) + Len(rest) <= R * (1 + Len(seen)) BY <1>3, <1>5, <2>2
    <3>3. ToSet(seen) \union ToSet(queue) = ToSet(seen) \union ToSet(rest) BY <2>3, <2>4
    <3>. QED BY <3>1, <3>2, <3>3, <1>1, <1>3 DEF WalkInv, WalkState
  <2>5. CASE d \notin ToSet(seen)
    <3>1. PICK more \in Seq(RetiredCode) :
            /\ more = Predecessors_Direct(d, s, order)
            /\ Len(more) <= R /\ ToSet(more) = s.replaces[d]
      BY <1>1, <2>1, DirectOnes, NamesSets
    <3>2. NextCode(w, s, order) = [queue |-> rest \o more, seen |-> Append(seen, d)]
      BY <1>2, <1>5, <2>1, <2>2, <2>5, <3>1 DEF NextCode
    <3>0. /\ Append(seen, d) \in Seq(RetiredCode) /\ Len(Append(seen, d)) = Len(seen) + 1
          /\ Append(seen, d)[Len(seen) + 1] = d
          /\ \A k \in 1..Len(seen) : Append(seen, d)[k] = seen[k]
          /\ ToSet(Append(seen, d)) = ToSet(seen) \union {d}
      BY SetOfAppend
    <3>3. PICK now \in Seq(RetiredCode) :
            /\ now = Append(seen, d) /\ Len(now) = Len(seen) + 1 /\ now[Len(seen) + 1] = d
            /\ \A k \in 1..Len(seen) : now[k] = seen[k]
            /\ ToSet(now) = ToSet(seen) \union {d}
      BY <3>0, Zenon
    <3>4. PICK waits \in Seq(RetiredCode) :
            /\ waits = rest \o more /\ Len(waits) = Len(rest) + Len(more)
            /\ ToSet(waits) = ToSet(rest) \union ToSet(more)
      <4>1. /\ rest \o more \in Seq(RetiredCode)
            /\ Len(rest \o more) = Len(rest) + Len(more)
            /\ ToSet(rest \o more) = ToSet(rest) \union ToSet(more)
        BY SetOfConcat
      <4>. QED BY <4>1, Zenon
    <3>5. ToSet(now) = ToSet(seen) \union {d} BY <3>3
    <3>6. ToSet(waits) = ToSet(rest) \union s.replaces[d] BY <3>1, <3>4
    <3>7. \A a, b \in DOMAIN now : now[a] = now[b] => a = b
      <4>1. \A k \in 1..Len(seen) : seen[k] # d BY <2>5 DEF ToSet
      <4>2. \A k \in DOMAIN now : k \in 1..Len(seen) \/ k = Len(seen) + 1 BY <3>3
      <4>. QED BY <4>1, <4>2, <3>3, <1>3
    <3>8. s.replaces[d] \subseteq ReplacedBy(c, s)
      <4>1. s.replaces[d] \subseteq RetiredCode BY <2>1, NamesAssumption, NamesSets
      <4>. QED BY <4>1, <1>3, <2>3, ReplacedIsClosed
    <3>9. (i + 1) + Len(waits) <= R * (1 + Len(now))
      <4>1. R * (1 + Len(now)) = R * (1 + Len(seen)) + R
        <5>1. Len(seen) \in Nat OBVIOUS
        <5>2. \A x \in Nat : R * (1 + (x + 1)) = R * (1 + x) + R OBVIOUS
        <5>. QED BY <5>1, <5>2, <3>3
      <4>2. PICK P \in Nat : P = R * (1 + Len(seen)) OBVIOUS
      <4>. QED BY <4>1, <4>2, <3>1, <3>4, <2>2, <1>3, <1>5
    <3>10. ToSet(waits) \union ToSet(now) \subseteq ReplacedBy(c, s)
      BY <3>5, <3>6, <3>8, <2>3, <1>3
    <3>11. \A x \in ToSet(now) \union {c} : s.replaces[x] \subseteq ToSet(now) \union ToSet(waits)
      BY <3>5, <3>6, <2>3, <1>3
    <3>12. NextCode(w, s, order) = [queue |-> waits, seen |-> now] BY <3>2, <3>3, <3>4
    <3>. QED BY <3>12, <3>7, <3>9, <3>10, <3>11, <1>1 DEF WalkInv, WalkState
  <2>. QED BY <2>4, <2>5
<1>. QED BY <1>4, <1>5

\* The walk of a code ends with all that it replaced.
LEMMA WalkBegins ==
  ASSUME NEW s \in NameSources, NEW c \in AnyCode, NEW order, Orders(order)
  PROVE  WalkInv([queue |-> Predecessors_Direct(c, s, order), seen |-> <<>>], 0, c, s)
<1>1. PICK R \in Nat : R = Cardinality(RetiredCode) BY NamesSets
<1>2. PICK first \in Seq(RetiredCode) :
        /\ first = Predecessors_Direct(c, s, order)
        /\ Len(first) <= R /\ ToSet(first) = s.replaces[c]
  BY <1>1, DirectOnes
<1>3. s.replaces[c] \subseteq ReplacedBy(c, s) BY ReplacedIsClosed, NamesAssumption
<1>4. PICK none \in Seq(RetiredCode) : none = <<>> /\ Len(none) = 0 /\ DOMAIN none = {} /\ ToSet(none) = {}
  <2>1. <<>> \in Seq(RetiredCode) /\ Len(<<>>) = 0 /\ DOMAIN <<>> = {} OBVIOUS
  <2>2. ToSet(<<>>) = {} BY <2>1 DEF ToSet
  <2>. QED BY <2>1, <2>2
<1>5. PICK w : w = [queue |-> first, seen |-> none] OBVIOUS
<1>6. 0 + Len(first) <= R * (1 + Len(none)) BY <1>2, <1>4
<1>7. w \in WalkState /\ w.queue = first /\ w.seen = none BY <1>5 DEF WalkState
<1>8. WalkInv(w, 0, c, s) BY <1>1, <1>2, <1>3, <1>4, <1>6, <1>7 DEF WalkInv
<1>. QED BY <1>2, <1>4, <1>5, <1>8

LEMMA MoreTimes ==
  ASSUME NEW a \in Nat, NEW b \in Nat, NEW c \in Nat, b <= c
  PROVE  a * b <= a * c
<1>1. PICK d \in Nat : c = b + d
  <2>1. c - b \in Nat /\ c = b + (c - b) OBVIOUS
  <2>. QED BY <2>1
<1>2. a * c = a * b + a * d BY <1>1
<1>3. a * d >= 0 /\ a * b \in Int /\ a * d \in Int OBVIOUS
<1>. QED BY <1>2, <1>3

LEMMA WalkEnds ==
  ASSUME NEW s \in NameSources, NEW c \in AnyCode, NEW w, WalkInv(w, MaxTurns, c, s)
  PROVE  w.seen \in Seq(RetiredCode) /\ ToSet(w.seen) = ReplacedBy(c, s)
<1>1. PICK R \in Nat : R = Cardinality(RetiredCode) BY NamesSets
<1>2. PICK queue \in Seq(RetiredCode), seen \in Seq(RetiredCode) : w = [queue |-> queue, seen |-> seen]
  BY DEF WalkInv, WalkState
<1>3. /\ \A a, b \in DOMAIN seen : seen[a] = seen[b] => a = b
      /\ ToSet(seen) \subseteq ReplacedBy(c, s)
      /\ \A x \in ToSet(seen) \union {c} : s.replaces[x] \subseteq ToSet(seen) \union ToSet(queue)
      /\ queue # <<>> => MaxTurns + Len(queue) <= R * (1 + Len(seen))
  BY <1>1, <1>2 DEF WalkInv
<1>4. Len(seen) <= R /\ Len(seen) \in Nat
  <2>1. seen \in Injection(1..Len(seen), RetiredCode)
    <3>1. seen \in [1..Len(seen) -> RetiredCode] /\ DOMAIN seen = 1..Len(seen) OBVIOUS
    <3>. QED BY <3>1, <1>3 DEF Injection, IsInjective
  <2>2. Len(seen) \in Nat /\ Cardinality(1..Len(seen)) = Len(seen)
    <3>1. PICK n \in Nat : n = Len(seen) OBVIOUS
    <3>2. Cardinality(1..n) = IF 1 > n THEN 0 ELSE n - 1 + 1 BY FS_Interval
    <3>. QED BY <3>1, <3>2
  <2>. QED BY <2>1, <2>2, <1>1, NamesSets, FS_Injection
<1>5. queue = <<>>
  <2>1. R * (1 + Len(seen)) <= R * (R + 1) BY <1>4, MoreTimes
  <2>2. MaxTurns = R * (R + 1) BY <1>1 DEF MaxTurns
  <2>3. PICK most \in Int, some \in Int : most = R * (R + 1) /\ some = R * (1 + Len(seen))
    <3>1. R * (R + 1) \in Int /\ R * (1 + Len(seen)) \in Int BY <1>4
    <3>. QED BY <3>1
  <2>4. queue # <<>> => Len(queue) > 0 OBVIOUS
  <2>. QED BY <2>1, <2>2, <2>3, <2>4, <1>3
<1>6. \A x \in ToSet(seen) \union {c} : s.replaces[x] \subseteq ToSet(seen)
  <2>1. ToSet(queue) = {} BY <1>5 DEF ToSet
  <2>. QED BY <2>1, <1>3
<1>7. ToSet(seen) \in SUBSET RetiredCode BY <1>3 DEF ReplacedBy
<1>8. ReplacedBy(c, s) \subseteq ToSet(seen) BY <1>6, <1>7 DEF ReplacedBy
<1>. QED BY <1>2, <1>3, <1>8

LEMMA PredecessorsAre ==
  ASSUME NEW s \in NameSources, NEW c \in AnyCode, NEW order, Orders(order)
  PROVE  /\ Predecessors(c, s, order) \in Seq(RetiredCode)
         /\ ToSet(Predecessors(c, s, order)) = ReplacedBy(c, s)
<1>. DEFINE Walk(f) == f = [i \in 0..MaxTurns |->
              IF i = 0 THEN [queue |-> Predecessors_Direct(c, s, order), seen |-> <<>>]
              ELSE NextCode(f[i - 1], s, order)]
<1>1. MaxTurns \in Nat BY NamesSets DEF MaxTurns
<1>2. PICK start : start = [queue |-> Predecessors_Direct(c, s, order), seen |-> <<>>] OBVIOUS
<1>3. PICK turn : turn = [w \in WalkState |-> NextCode(w, s, order)] OBVIOUS
<1>4. PICK I : I = [i \in 0..MaxTurns |-> {w \in WalkState : WalkInv(w, i, c, s)}] OBVIOUS
<1>5. PICK f : Turns(f, MaxTurns, start, turn) BY <1>1, TurnsExist
<1>6. start \in I[0]
  <2>1. WalkInv(start, 0, c, s) BY <1>2, WalkBegins
  <2>2. start \in WalkState BY <2>1 DEF WalkInv
  <2>3. 0 \in 0..MaxTurns BY <1>1
  <2>. QED BY <2>1, <2>2, <2>3, <1>4
<1>7. ASSUME NEW i \in 1..MaxTurns, NEW w \in I[i - 1]
      PROVE  turn[w] \in I[i]
  <2>1. i \in 0..MaxTurns /\ i - 1 \in 0..MaxTurns /\ i - 1 \in Nat /\ (i - 1) + 1 = i BY <1>1
  <2>2. w \in WalkState /\ WalkInv(w, i - 1, c, s) BY <2>1, <1>4
  <2>3. WalkInv(NextCode(w, s, order), (i - 1) + 1, c, s) BY <2>1, <2>2, WalkTurn
  <2>4. NextCode(w, s, order) \in WalkState BY <2>3 DEF WalkInv
  <2>. QED BY <2>1, <2>2, <2>3, <2>4, <1>3, <1>4
<1>8. \A i \in 0..MaxTurns : f[i] \in I[i]
  <2>1. f[0] = start /\ \A i \in 1..MaxTurns : f[i] = turn[f[i - 1]]
    <3>1. 0 \in 0..MaxTurns /\ \A i \in 1..MaxTurns : i \in 0..MaxTurns /\ i # 0 BY <1>1
    <3>. QED BY <3>1, <1>5 DEF Turns
  <2>. HIDE DEF Walk
  <2>. QED BY <2>1, <1>1, <1>6, <1>7, TurnsKeep
<1>9. \A i \in 0..MaxTurns : f[i] \in WalkState /\ WalkInv(f[i], i, c, s) BY <1>4, <1>8
<1>10. Walk(f)
  <2>1. \A i \in 0..MaxTurns :
          (IF i = 0 THEN start ELSE turn[f[i - 1]]) =
          (IF i = 0 THEN [queue |-> Predecessors_Direct(c, s, order), seen |-> <<>>]
           ELSE NextCode(f[i - 1], s, order))
    <3>. SUFFICES ASSUME NEW i \in 0..MaxTurns, i # 0
                  PROVE  turn[f[i - 1]] = NextCode(f[i - 1], s, order)
      BY <1>2
    <3>1. i - 1 \in 0..MaxTurns BY <1>1
    <3>. QED BY <3>1, <1>3, <1>9
  <2>2. f = [i \in 0..MaxTurns |-> IF i = 0 THEN start ELSE turn[f[i - 1]]] BY <1>5 DEF Turns
  <2>. QED BY <2>1, <2>2
<1>11. PICK walk : walk = CHOOSE g : Walk(g) OBVIOUS
<1>12. Walk(walk)
  <2>. HIDE DEF Walk
  <2>. QED BY <1>10, <1>11
<1>13. Predecessors(c, s, order) = walk[MaxTurns].seen BY <1>11 DEF Predecessors
<1>14. \A i \in 0..MaxTurns : walk[i] \in I[i]
  <2>1. walk[0] = start /\ \A i \in 1..MaxTurns : walk[i] = NextCode(walk[i - 1], s, order)
    <3>1. 0 \in 0..MaxTurns /\ \A i \in 1..MaxTurns : i \in 0..MaxTurns /\ i # 0 BY <1>1
    <3>. QED BY <3>1, <1>2, <1>12
  <2>2. ASSUME NEW i \in 1..MaxTurns, walk[i - 1] \in I[i - 1]
        PROVE  walk[i] \in I[i]
    <3>1. i - 1 \in 0..MaxTurns BY <1>1
    <3>2. walk[i - 1] \in WalkState BY <2>2, <3>1, <1>4
    <3>3. turn[walk[i - 1]] \in I[i] BY <2>2, <1>7
    <3>. QED BY <3>2, <3>3, <2>1, <1>3
  <2>. HIDE DEF Walk
  <2>. QED BY <2>1, <2>2, <1>1, <1>6, TurnsKeep
<1>15. WalkInv(walk[MaxTurns], MaxTurns, c, s)
  <2>1. MaxTurns \in 0..MaxTurns BY <1>1
  <2>. QED BY <2>1, <1>4, <1>14
<1>. QED BY <1>13, <1>15, WalkEnds

(* The names of an entry.                                                  *)

LEMMA NormalNames ==
  ASSUME NEW n \in Name
  PROVE  /\ Normal(n).letters = n.letters
         /\ Fold(Normal(n)) = n.letters /\ Fold(Normal(n)) = Normal(n).letters
         /\ n.letters \in Seq(STRING) /\ n.letters # <<>>
<1>1. PICK X : X = Seq(STRING) \ {<<>>} OBVIOUS
<1>2. n \in [letters : X, clean : BOOLEAN] BY <1>1 DEF Name
<1>3. Normal(n).letters = n.letters BY <1>2 DEF Normal
<1>4. Normal(n).clean BY <1>2 DEF Normal
<1>5. n.letters \in X BY <1>2
<1>6. Fold(Normal(n)) = Normal(n).letters BY <1>4 DEF Fold
<1>7. n.letters \in Seq(STRING) /\ n.letters # <<>> BY <1>1, <1>5
<1>. QED BY <1>3, <1>6, <1>7

\* A name as an entry has it.
Plain(n) == n.letters \in Seq(STRING) /\ n.letters # <<>> /\ Fold(n) = n.letters

LEMMA NamedAre ==
  ASSUME NEW by, \A l \in Tongues : by[l] \in Name \union {NoLabel}
  PROVE  \A p \in Named(by) : Plain(p[2])
<1>. SUFFICES ASSUME NEW l \in Tongues, by[l] # NoLabel PROVE Plain(Normal(by[l])) BY DEF Named
<1>. QED BY NormalNames DEF Plain

LEMMA SourceNames ==
  ASSUME NEW s \in NameSources
  PROVE  /\ \A c \in AnyCode : /\ \A p \in OwnLabels(c, s) : Plain(p[2])
                               /\ \A a \in OwnAliases(c, s) : Plain(a)
         /\ \A c \in NutsRegion :
              /\ Plain(Normal(s.native[c])) /\ Plain(Normal(s.latn[c]))
              /\ s.metro[c] # NoLabel => Plain(Normal(s.metro[c]))
              /\ ~(Len(c) > 1) => \A p \in Named(s.official[c]) : Plain(p[2])
<1>1. ASSUME NEW c \in AnyCode
      PROVE  /\ \A p \in OwnLabels(c, s) : Plain(p[2])
             /\ \A a \in OwnAliases(c, s) : Plain(a)
  <2>1. \A l \in Tongues : s.labels[c][l] \in Name \union {NoLabel} BY NamesAssumption
  <2>2. s.aliases[c] \subseteq Name BY NamesAssumption
  <2>3. \A p \in OwnLabels(c, s) : Plain(p[2]) BY <2>1, NamedAre DEF OwnLabels
  <2>4. \A a \in OwnAliases(c, s) : Plain(a) BY <2>2, NormalNames DEF OwnAliases, Plain
  <2>. QED BY <2>3, <2>4
<1>2. ASSUME NEW c \in NutsRegion
      PROVE  /\ Plain(Normal(s.native[c])) /\ Plain(Normal(s.latn[c]))
             /\ s.metro[c] # NoLabel => Plain(Normal(s.metro[c]))
             /\ ~(Len(c) > 1) => \A p \in Named(s.official[c]) : Plain(p[2])
  <2>1. /\ s.native[c] \in Name /\ s.latn[c] \in Name
        /\ s.metro[c] \in Name \union {NoLabel}
        /\ Len(c) = 1 => \A l \in Tongues : s.official[c][l] \in Name \union {NoLabel}
    BY NamesAssumption
  <2>2. Len(c) \in Nat /\ Len(c) > 0 BY NamesSets
  <2>3. ASSUME ~(Len(c) > 1)
        PROVE  \A p \in Named(s.official[c]) : Plain(p[2])
    <3>1. Len(c) = 1
      <4>1. PICK n : n = Len(c) OBVIOUS
      <4>2. n \in Nat /\ n > 0 /\ ~(n > 1) BY <2>2, <2>3, <4>1
      <4>. QED BY <4>1, <4>2
    <3>2. \A l \in Tongues : s.official[c][l] \in Name \union {NoLabel} BY <3>1, <2>1
    <3>. QED BY <3>2, NamedAre
  <2>. QED BY <2>1, <2>3, NormalNames DEF Plain
<1>. QED BY <1>1, <1>2

\* The names that an entry has.
EntryNames(e) == {e.native, e.latn} \union {p[2] : p \in e.labels} \union e.aliases

LEMMA EntryIs ==
  ASSUME NEW s \in NameSources, NEW c \in NutsRegion, NEW order,
         Labelled(c, s, order) \in AnyCode
  PROVE  /\ \A n \in EntryNames(GazetteerEntry(c, s, order)) : Plain(n)
         /\ \A n \in {Normal(s.native[c]), Normal(s.latn[c])}
                      \union {Normal(m) : m \in {s.metro[c]} \ {NoLabel}}
                      \union OwnAliases(Labelled(c, s, order), s)
                      \union {p[2] : p \in OwnLabels(Labelled(c, s, order), s)} :
              \E m \in EntryNames(GazetteerEntry(c, s, order)) : Fold(m) = Fold(n)
<1>1. PICK from \in AnyCode : from = Labelled(c, s, order) OBVIOUS
<1>2. PICK native : native = Normal(s.native[c]) OBVIOUS
<1>3. PICK latn : latn = Normal(s.latn[c]) OBVIOUS
<1>4. PICK labels : labels = OwnLabels(from, s) OBVIOUS
<1>5. PICK official : official = IF Len(c) > 1 THEN {} ELSE Named(s.official[c]) OBVIOUS
<1>6. PICK ousted : ousted = {p \in labels : official # {} /\ p \notin official} OBVIOUS
<1>7. PICK kept : kept = official \union {p \in labels : \A o \in official : o[1] # p[1]} OBVIOUS
<1>8. PICK metro : metro = {Normal(n) : n \in {s.metro[c]} \ {NoLabel}} OBVIOUS
<1>9. PICK told : told = {Fold(native), Fold(latn)} \union {Fold(p[2]) : p \in kept} OBVIOUS
<1>10. PICK aliases : aliases = OwnAliases(from, s) \union metro \union {p[2] : p \in ousted} OBVIOUS
<1>11. PICK left : left = {a \in aliases : Fold(a) \notin told} OBVIOUS
<1>12. GazetteerEntry(c, s, order) = [native |-> native, latn |-> latn, labels |-> kept, aliases |-> left]
  BY <1>1, <1>2, <1>3, <1>4, <1>5, <1>6, <1>7, <1>8, <1>9, <1>10, <1>11 DEF GazetteerEntry
<1>13. PICK names : names = EntryNames(GazetteerEntry(c, s, order)) OBVIOUS
<1>14. names = {native, latn} \union {p[2] : p \in kept} \union left
  BY <1>12, <1>13 DEF EntryNames
<1>15. /\ Plain(native) /\ Plain(latn) /\ \A p \in labels : Plain(p[2])
       /\ \A p \in official : Plain(p[2])
       /\ \A n \in metro : Plain(n)
       /\ \A n \in OwnAliases(from, s) : Plain(n)
  BY <1>1, <1>2, <1>3, <1>4, <1>5, <1>8, SourceNames
<1>16. \A n \in names : Plain(n)
  <2>1. \A p \in kept : Plain(p[2]) BY <1>7, <1>15
  <2>2. \A n \in aliases : Plain(n)
    <3>1. \A p \in ousted : Plain(p[2]) BY <1>6, <1>15
    <3>. QED BY <3>1, <1>10, <1>15
  <2>3. \A n \in left : Plain(n) BY <1>11, <2>2
  <2>. QED BY <2>1, <2>3, <1>14, <1>15
<1>17. ASSUME NEW n \in aliases
       PROVE  \E m \in names : Fold(m) = Fold(n)
  <2>1. CASE Fold(n) \in told
    <3>1. Fold(n) = Fold(native) \/ Fold(n) = Fold(latn) \/ \E p \in kept : Fold(n) = Fold(p[2])
      BY <2>1, <1>9
    <3>. QED BY <3>1, <1>14
  <2>2. CASE Fold(n) \notin told
    <3>1. n \in names BY <2>2, <1>11, <1>14
    <3>. QED BY <3>1
  <2>. QED BY <2>1, <2>2
<1>18. ASSUME NEW p \in labels
       PROVE  \E m \in names : Fold(m) = Fold(p[2])
  <2>1. CASE p \in kept BY <2>1, <1>14
  <2>2. CASE p \notin kept
    <3>1. p \in ousted BY <2>2, <1>6, <1>7
    <3>2. p[2] \in aliases BY <3>1, <1>10
    <3>. QED BY <3>2, <1>17
  <2>. QED BY <2>1, <2>2
<1>19. native \in names /\ latn \in names BY <1>14
<1>20. \A n \in metro \union OwnAliases(from, s) : n \in aliases BY <1>10
<1>. QED BY <1>1, <1>2, <1>3, <1>4, <1>8, <1>13, <1>16, <1>17, <1>18, <1>19, <1>20

(* Whose labels an entry shows.                                            *)

LEMMA LeastIndex ==
  ASSUME NEW S, S \subseteq Nat, S # {}
  PROVE  Min(S) \in S /\ \A i \in S : Min(S) <= i
<1>1. \E x \in S : \A y \in S : x <= y BY LeastNumber
<1>. QED BY <1>1 DEF Min

LEMMA LabelsAreFound ==
  ASSUME NEW s \in NameSources, NEW c \in NutsRegion, NEW order, Orders(order)
  PROVE  /\ Labelled(c, s, order) \in AnyCode
         /\ HasLabels(c, s) => Labelled(c, s, order) = c
         /\ ~HasLabels(c, s) /\ (\E d \in ReplacedBy(c, s) : HasLabels(d, s)) =>
              /\ Labelled(c, s, order) \in ReplacedBy(c, s)
              /\ HasLabels(Labelled(c, s, order), s)
<1>0. c \in AnyCode BY NamesSets
<1>1. PICK pre \in Seq(RetiredCode) :
        pre = Predecessors(c, s, order) /\ ToSet(pre) = ReplacedBy(c, s)
  BY <1>0, PredecessorsAre
<1>2. PICK child \in Seq(AnyCode) :
        child = IF Cardinality(ChildrenOf(c)) = 1 THEN <<CHOOSE d \in ChildrenOf(c) : TRUE>> ELSE <<>>
  <2>1. CASE Cardinality(ChildrenOf(c)) = 1
    <3>1. ChildrenOf(c) # {}
      <4>1. PICK S : S = ChildrenOf(c) OBVIOUS
      <4>2. Cardinality(S) = 1 BY <2>1, <4>1
      <4>3. IsFiniteSet(S)
        <5>1. S \in SUBSET NutsRegion BY <4>1 DEF ChildrenOf
        <5>. QED BY <5>1, NamesSets, FS_Subset
      <4>4. Cardinality(S) = 0 <=> S = {} BY <4>3, FS_EmptySet
      <4>. QED BY <4>1, <4>2, <4>4
    <3>2. (CHOOSE d \in ChildrenOf(c) : TRUE) \in ChildrenOf(c) BY <3>1
    <3>3. PICK d \in AnyCode : d = CHOOSE e \in ChildrenOf(c) : TRUE
      BY <3>2, NamesSets DEF ChildrenOf
    <3>4. <<d>> \in Seq(AnyCode) OBVIOUS
    <3>5. <<CHOOSE e \in ChildrenOf(c) : TRUE>> \in Seq(AnyCode) BY <3>3, <3>4
    <3>. WITNESS <<CHOOSE e \in ChildrenOf(c) : TRUE>> \in Seq(AnyCode)
    <3>. QED BY <2>1
  <2>2. CASE Cardinality(ChildrenOf(c)) # 1
    <3>1. <<>> \in Seq(AnyCode) OBVIOUS
    <3>. QED BY <2>2, <3>1
  <2>. QED BY <2>1, <2>2
<1>3. PICK parent \in Seq(AnyCode) :
        parent = IF Len(c) > 1 /\ ParentOf(c) \in NutsRegion /\ ChildrenOf(ParentOf(c)) = {c}
                 THEN <<ParentOf(c)>> ELSE <<>>
  <2>. DEFINE Only == Len(c) > 1 /\ ParentOf(c) \in NutsRegion /\ ChildrenOf(ParentOf(c)) = {c}
  <2>1. CASE Only
    <3>1. PICK p \in AnyCode : p = ParentOf(c) BY <2>1, NamesSets
    <3>2. <<p>> \in Seq(AnyCode) OBVIOUS
    <3>3. <<ParentOf(c)>> \in Seq(AnyCode) BY <3>1, <3>2
    <3>. HIDE DEF Only
    <3>. QED BY <2>1, <3>3 DEF Only
  <2>2. CASE ~Only
    <3>1. <<>> \in Seq(AnyCode) OBVIOUS
    <3>. QED BY <2>2, <3>1
  <2>. QED BY <2>1, <2>2
<1>4. pre \in Seq(AnyCode) BY NamesSets
<1>5. PICK donors \in Seq(AnyCode) :
        /\ donors = Donors(c, s, order)
        /\ Len(pre) <= Len(donors) /\ \A i \in 1..Len(pre) : donors[i] = pre[i]
  <2>1. PICK first \in Seq(AnyCode) : first = pre \o child /\ Len(first) = Len(pre) + Len(child)
                                     /\ \A i \in 1..Len(pre) : first[i] = pre[i]
    <3>1. PICK first : first = pre \o child OBVIOUS
    <3>2. /\ first \in Seq(AnyCode) /\ Len(first) = Len(pre) + Len(child)
          /\ \A i \in 1..Len(pre) : first[i] = pre[i]
      BY <1>4, <3>1, SetOfConcat
    <3>. QED BY <3>1, <3>2
  <2>2. PICK all : all = first \o parent OBVIOUS
  <2>3. /\ all \in Seq(AnyCode) /\ Len(all) = Len(first) + Len(parent)
        /\ \A i \in 1..Len(first) : all[i] = first[i]
    BY <2>2, SetOfConcat
  <2>4. Len(pre) \in Nat /\ Len(child) \in Nat /\ Len(parent) \in Nat BY <1>4
  <2>5. Len(pre) <= Len(all) /\ \A i \in 1..Len(pre) : i \in 1..Len(first) BY <2>1, <2>3, <2>4
  <2>6. all = Donors(c, s, order) BY <1>1, <1>2, <1>3, <2>1, <2>2 DEF Donors
  <2>. QED BY <2>1, <2>3, <2>5, <2>6
<1>6. PICK able : able = {i \in DOMAIN donors : HasLabels(donors[i], s)} OBVIOUS
<1>7. Labelled(c, s, order) = IF HasLabels(c, s) \/ able = {} THEN c ELSE donors[Min(able)]
  BY <1>5, <1>6 DEF Labelled
<1>8. DOMAIN donors = 1..Len(donors) /\ \A i \in DOMAIN donors : donors[i] \in AnyCode OBVIOUS
<1>9. able # {} => Min(able) \in able /\ \A i \in able : Min(able) <= i
  <2>1. able \subseteq Nat BY <1>6, <1>8
  <2>. QED BY <2>1, LeastIndex
<1>10. Labelled(c, s, order) \in AnyCode BY <1>0, <1>6, <1>7, <1>8, <1>9
<1>11. ASSUME ~HasLabels(c, s), NEW d \in ReplacedBy(c, s), HasLabels(d, s)
       PROVE  /\ Labelled(c, s, order) \in ReplacedBy(c, s)
              /\ HasLabels(Labelled(c, s, order), s)
  <2>1. PICK i \in 1..Len(pre) : pre[i] = d
    <3>1. ToSet(pre) = {pre[j] : j \in 1..Len(pre)} BY SetOfSeq
    <3>. QED BY <3>1, <1>1
  <2>2. i \in able
    <3>1. i \in 1..Len(donors) /\ donors[i] = d BY <1>5, <2>1
    <3>. QED BY <3>1, <1>6, <1>8, <1>11
  <2>3. PICK k \in able : k = Min(able) /\ k <= i BY <1>9, <2>2
  <2>4. k \in 1..Len(pre)
    <3>1. k \in 1..Len(donors) /\ k \in Nat BY <1>6, <1>8
    <3>. QED BY <3>1, <2>3
  <2>5. donors[k] = pre[k] /\ pre[k] \in ReplacedBy(c, s)
    <3>1. ToSet(pre) = {pre[j] : j \in 1..Len(pre)} BY SetOfSeq
    <3>. QED BY <3>1, <2>4, <1>1, <1>5
  <2>6. Labelled(c, s, order) = donors[k] BY <1>7, <1>11, <2>3
  <2>7. HasLabels(donors[k], s) BY <1>6
  <2>. QED BY <2>5, <2>6, <2>7
<1>12. HasLabels(c, s) => Labelled(c, s, order) = c BY <1>7
<1>. QED BY <1>10, <1>11, <1>12

(* The search.                                                             *)

Kinds == {"code", "native", "latn", "name", "alias"}

LEMMA WholeIsHeld ==
  ASSUME NEW t \in Seq(STRING), t # <<>>
  PROVE  IsPrefix(t, t) /\ Holds(t, t) /\ AtWord(t, t)
<1>1. IsPrefix(t, t)
  <2>1. Len(t) \in Nat OBVIOUS
  <2>. QED BY <2>1 DEF IsPrefix
<1>2. 1 \in 1..Len(t) /\ SubSeq(t, 1, Len(t)) = t OBVIOUS
<1>. QED BY <1>1, <1>2 DEF Holds, AtWord

LEMMA PrefixIsHeld ==
  ASSUME NEW t \in Seq(STRING), t # <<>>, NEW q, IsPrefix(q, t)
  PROVE  Holds(t, q)
<1>1. 1 \in 1..Len(t) /\ SubSeq(t, 1, Len(t)) = t OBVIOUS
<1>. QED BY <1>1 DEF Holds

LEMMA RankIs ==
  ASSUME NEW f, f.kind \in Kinds, Plain(f.name), NEW q, NEW lang
  PROVE  /\ RankOf(f, q, lang) \in 0..9
         /\ RankOf(f, q, lang) # NoMatch => Holds(Fold(f.name), q)
         /\ q = Fold(f.name) => RankOf(f, q, lang) <= 4
<1>1. PICK text \in Seq(STRING) : text = Fold(f.name) /\ text # <<>> BY DEF Plain
<1>2. PICK rank : rank = RankOf(f, q, lang) OBVIOUS
<1>3. IsPrefix(text, text) /\ Holds(text, text) /\ AtWord(text, text) BY <1>1, WholeIsHeld
<1>4. IsPrefix(q, text) => Holds(text, q) BY <1>1, PrefixIsHeld
<1>5. CASE f.kind = "code"
  <2>1. rank = IF q = text THEN 0 ELSE IF IsPrefix(q, text) THEN 5 ELSE NoMatch
    BY <1>1, <1>2, <1>5 DEF RankOf
  <2>. QED BY <2>1, <1>1, <1>2, <1>3, <1>4 DEF NoMatch
<1>6. CASE f.kind # "code" /\ ~Holds(text, q)
  <2>1. rank = NoMatch BY <1>1, <1>2, <1>6 DEF RankOf
  <2>. QED BY <2>1, <1>1, <1>2, <1>3, <1>6 DEF NoMatch
<1>7. CASE f.kind # "code" /\ Holds(text, q) /\ ~AtWord(text, q)
  <2>1. rank = 5 BY <1>1, <1>2, <1>7 DEF RankOf
  <2>. QED BY <2>1, <1>1, <1>2, <1>3, <1>7 DEF NoMatch
<1>8. CASE f.kind = "alias" /\ Holds(text, q) /\ AtWord(text, q)
  <2>1. rank = 4 BY <1>1, <1>2, <1>8 DEF RankOf
  <2>. QED BY <2>1, <1>1, <1>2, <1>8 DEF NoMatch
<1>9. CASE f.kind = "name" /\ Holds(text, q) /\ AtWord(text, q)
  <2>1. rank = IF f.lang = lang THEN 1 ELSE 3 BY <1>1, <1>2, <1>9 DEF RankOf
  <2>. QED BY <2>1, <1>1, <1>2, <1>9 DEF NoMatch
<1>10. CASE f.kind \in {"native", "latn"} /\ Holds(text, q) /\ AtWord(text, q)
  <2>1. rank = 2 BY <1>1, <1>2, <1>10 DEF RankOf
  <2>. QED BY <2>1, <1>1, <1>2, <1>10 DEF NoMatch
<1>. QED BY <1>5, <1>6, <1>7, <1>8, <1>9, <1>10 DEF Kinds

\* The artifact that was built, or that the API has read.
Built(g) ==
  g = NoArtifact \/ \E order : Orders(order) /\ g = [c \in NutsRegion |-> GazetteerEntry(c, sources, order)]

LEMMA FormsAre ==
  ASSUME sources \in NameSources, Built(loaded), loaded # NoArtifact, NEW c \in NutsRegion
  PROVE  /\ \A f \in Forms(c) : f.kind \in Kinds /\ Plain(f.name)
         /\ \A n \in EntryNames(loaded[c]) : \E f \in Forms(c) : f.name = n
         /\ Forms(c) # {}
<1>1. PICK order : Orders(order) /\ loaded = [d \in NutsRegion |-> GazetteerEntry(d, sources, order)]
  BY DEF Built
<1>2. PICK e : e = loaded[c] OBVIOUS
<1>3. e = GazetteerEntry(c, sources, order) BY <1>1, <1>2
<1>4. Labelled(c, sources, order) \in AnyCode BY <1>1, LabelsAreFound
<1>5. \A n \in EntryNames(e) : Plain(n) BY <1>3, <1>4, EntryIs
<1>6. PICK code : code = [letters |-> c, clean |-> TRUE] OBVIOUS
<1>7. Plain(code)
  <2>1. c \in Seq(STRING) /\ c # <<>> BY NamesSets
  <2>. QED BY <2>1, <1>6 DEF Plain, Fold
<1>8. Forms(c) = {Form("code", c, "any", code),
                  Form("native", c, "any", e.native), Form("latn", c, "any", e.latn)}
                 \union {Form("name", c, p[1], p[2]) : p \in e.labels}
                 \union {Form("alias", c, "any", a) : a \in e.aliases}
  BY <1>2, <1>6 DEF Forms
<1>9. \A k, d, l, n : Form(k, d, l, n).kind = k /\ Form(k, d, l, n).name = n BY DEF Form
<1>10. \A n \in EntryNames(e) : n = e.native \/ n = e.latn \/ (\E p \in e.labels : n = p[2]) \/ n \in e.aliases
  BY DEF EntryNames
<1>11. /\ e.native \in EntryNames(e) /\ e.latn \in EntryNames(e)
       /\ \A p \in e.labels : p[2] \in EntryNames(e)
       /\ \A a \in e.aliases : a \in EntryNames(e)
  BY DEF EntryNames
<1>12. ASSUME NEW f \in Forms(c)
       PROVE  f.kind \in Kinds /\ Plain(f.name)
  <2>1. CASE f = Form("code", c, "any", code) BY <2>1, <1>7, <1>9 DEF Kinds
  <2>2. CASE f = Form("native", c, "any", e.native) BY <2>2, <1>5, <1>9, <1>11 DEF Kinds
  <2>3. CASE f = Form("latn", c, "any", e.latn) BY <2>3, <1>5, <1>9, <1>11 DEF Kinds
  <2>4. ASSUME NEW p \in e.labels, f = Form("name", c, p[1], p[2])
        PROVE  f.kind \in Kinds /\ Plain(f.name)
    BY <2>4, <1>5, <1>9, <1>11 DEF Kinds
  <2>5. ASSUME NEW a \in e.aliases, f = Form("alias", c, "any", a)
        PROVE  f.kind \in Kinds /\ Plain(f.name)
    BY <2>5, <1>5, <1>9, <1>11 DEF Kinds
  <2>. QED BY <1>8, <2>1, <2>2, <2>3, <2>4, <2>5
<1>13. ASSUME NEW n \in EntryNames(e)
       PROVE  \E f \in Forms(c) : f.name = n
  <2>1. CASE n = e.native
    <3>1. Form("native", c, "any", e.native) \in Forms(c) BY <1>8
    <3>. QED BY <3>1, <2>1, <1>9
  <2>2. CASE n = e.latn
    <3>1. Form("latn", c, "any", e.latn) \in Forms(c) BY <1>8
    <3>. QED BY <3>1, <2>2, <1>9
  <2>3. ASSUME NEW p \in e.labels, n = p[2]
        PROVE  \E f \in Forms(c) : f.name = n
    <3>1. Form("name", c, p[1], p[2]) \in Forms(c) BY <1>8
    <3>. QED BY <3>1, <2>3, <1>9
  <2>4. CASE n \in e.aliases
    <3>1. Form("alias", c, "any", n) \in Forms(c) BY <2>4, <1>8
    <3>. QED BY <3>1, <1>9
  <2>. QED BY <1>10, <2>1, <2>2, <2>3, <2>4
<1>14. Forms(c) # {} BY <1>8
<1>. QED BY <1>2, <1>12, <1>13, <1>14

\* The strongest form of a region.
BestRank(c, q, lang) == Min({RankOf(f, q, lang) : f \in Forms(c)})

LEMMA BestForm ==
  ASSUME sources \in NameSources, Built(loaded), loaded # NoArtifact, NEW c \in NutsRegion,
         NEW q, NEW lang
  PROVE  /\ BestRank(c, q, lang) \in 0..9
         /\ \E f \in Forms(c) : RankOf(f, q, lang) = BestRank(c, q, lang)
         /\ \A f \in Forms(c) : BestRank(c, q, lang) <= RankOf(f, q, lang)
<1>1. PICK S : S = {RankOf(f, q, lang) : f \in Forms(c)} OBVIOUS
<1>2. \A f \in Forms(c) : RankOf(f, q, lang) \in 0..9 BY FormsAre, RankIs
<1>3. S \subseteq 0..9 /\ S # {} BY <1>1, <1>2, FormsAre
<1>4. Min(S) \in S /\ \A i \in S : Min(S) <= i
  <2>1. S \subseteq Nat BY <1>3
  <2>. QED BY <2>1, <1>3, LeastIndex
<1>5. \A f \in Forms(c) : RankOf(f, q, lang) \in S BY <1>1
<1>6. \A i \in S : \E f \in Forms(c) : i = RankOf(f, q, lang) BY <1>1
<1>7. \E f \in Forms(c) : RankOf(f, q, lang) = Min(S) BY <1>4, <1>6
<1>8. Min(S) \in 0..9 BY <1>3, <1>4
<1>9. \A f \in Forms(c) : Min(S) <= RankOf(f, q, lang) BY <1>4, <1>5
<1>. QED BY <1>1, <1>7, <1>8, <1>9 DEF BestRank

LEMMA HitsAre ==
  ASSUME sources \in NameSources, Built(loaded), loaded # NoArtifact,
         NEW keep, keep \subseteq NutsRegion, NEW q, NEW lang
  PROVE  /\ IsFiniteSet(RegionHits(q, lang, keep))
         /\ \A h \in RegionHits(q, lang, keep) :
              /\ h.code \in keep /\ h.rank \in 0..9
              /\ \E f \in Forms(h.code) : /\ f.kind \in Kinds /\ Plain(f.name)
                                          /\ RankOf(f, q, lang) = h.rank
              /\ \A f \in Forms(h.code) : RankOf(f, q, lang) = h.rank => Holds(Fold(f.name), q)
         /\ \A g, h \in RegionHits(q, lang, keep) : g.code = h.code => g = h
         /\ \A c \in keep : \A f \in Forms(c) : RankOf(f, q, lang) <= 4 =>
              \E h \in RegionHits(q, lang, keep) : h.code = c /\ h.rank <= 4
<1>1. PICK best : best = [c \in keep |-> BestRank(c, q, lang)] OBVIOUS
<1>2. PICK all : all = {[code |-> c, rank |-> best[c]] : c \in keep} OBVIOUS
<1>3. PICK hits : hits = RegionHits(q, lang, keep) OBVIOUS
<1>4. hits = {h \in all : h.rank # NoMatch}
  <2>1. \A c \in keep : best[c] = Min({RankOf(f, q, lang) : f \in Forms(c)}) BY <1>1 DEF BestRank
  <2>2. {[code |-> c, rank |-> Min({RankOf(f, q, lang) : f \in Forms(c)})] : c \in keep} = all
    BY <1>2, <2>1
  <2>. QED BY <2>2, <1>3 DEF RegionHits
<1>5. \A h \in all : h.code \in keep /\ h = [code |-> h.code, rank |-> best[h.code]] /\ h.rank = best[h.code]
  BY <1>2
<1>6. \A c \in keep : /\ best[c] \in 0..9
                      /\ \E f \in Forms(c) : RankOf(f, q, lang) = best[c]
                      /\ \A f \in Forms(c) : best[c] <= RankOf(f, q, lang)
  <2>. SUFFICES ASSUME NEW c \in keep
                PROVE  /\ best[c] \in 0..9
                       /\ \E f \in Forms(c) : RankOf(f, q, lang) = best[c]
                       /\ \A f \in Forms(c) : best[c] <= RankOf(f, q, lang)
    OBVIOUS
  <2>1. c \in NutsRegion /\ best[c] = BestRank(c, q, lang) BY <1>1
  <2>. QED BY <2>1, BestForm
<1>7. IsFiniteSet(hits)
  <2>1. IsFiniteSet(keep) BY NamesSets, FS_Subset
  <2>2. PICK mk : mk = [c \in keep |-> [code |-> c, rank |-> best[c]]] OBVIOUS
  <2>3. mk \in Surjection(keep, all) BY <1>2, <2>2 DEF Surjection
  <2>4. IsFiniteSet(all) BY <2>1, <2>3, FS_Surjection
  <2>. QED BY <2>4, <1>4, FS_Subset
<1>8. ASSUME NEW h \in hits
      PROVE  /\ h.code \in keep /\ h.rank \in 0..9
             /\ \E f \in Forms(h.code) : /\ f.kind \in Kinds /\ Plain(f.name)
                                          /\ RankOf(f, q, lang) = h.rank
             /\ \A f \in Forms(h.code) : RankOf(f, q, lang) = h.rank => Holds(Fold(f.name), q)
  <2>1. h.code \in keep /\ h.rank = best[h.code] /\ h.rank # NoMatch BY <1>4, <1>5
  <2>2. \A f \in Forms(h.code) : f.kind \in Kinds /\ Plain(f.name) BY <2>1, FormsAre
  <2>3. \A f \in Forms(h.code) : RankOf(f, q, lang) # NoMatch => Holds(Fold(f.name), q)
    BY <2>2, RankIs
  <2>. QED BY <2>1, <2>2, <2>3, <1>6
<1>9. \A g, h \in hits : g.code = h.code => g = h BY <1>4, <1>5
<1>10. ASSUME NEW c \in keep, NEW f \in Forms(c), RankOf(f, q, lang) <= 4
       PROVE  \E h \in hits : h.code = c /\ h.rank <= 4
  <2>1. PICK h : h = [code |-> c, rank |-> best[c]] OBVIOUS
  <2>2. RankOf(f, q, lang) \in 0..9
    <3>1. f.kind \in Kinds /\ Plain(f.name) BY FormsAre
    <3>. QED BY <3>1, RankIs
  <2>3. best[c] <= 4 BY <1>6, <1>10, <2>2
  <2>4. h \in all /\ h.code = c /\ h.rank = best[c] BY <1>2, <2>1
  <2>5. best[c] # NoMatch BY <2>3 DEF NoMatch
  <2>. QED BY <2>3, <2>4, <2>5, <1>4
<1>. QED BY <1>3, <1>7, <1>8, <1>9, <1>10

LEMMA FoundByIts ==
  ASSUME sources \in NameSources, Built(loaded), loaded # NoArtifact, NEW c \in NutsRegion,
         NEW n, Plain(n), NEW m \in EntryNames(loaded[c]), Fold(m) = Fold(n)
  PROVE  FoundBy(c, n)
<1>. SUFFICES ASSUME NEW lang \in Tongues
              PROVE  \E h \in RegionHits(n.letters, lang, NutsRegion) : h.code = c /\ h.rank <= 4
  BY DEF FoundBy
<1>1. PICK q : q = n.letters OBVIOUS
<1>2. PICK f \in Forms(c) : f.kind \in Kinds /\ Plain(f.name) /\ f.name = m BY FormsAre
<1>3. q = Fold(f.name) BY <1>1, <1>2 DEF Plain
<1>4. RankOf(f, q, lang) <= 4 BY <1>2, <1>3, RankIs
<1>5. \E h \in RegionHits(q, lang, NutsRegion) : h.code = c /\ h.rank <= 4 BY <1>4, HitsAre
<1>. QED BY <1>1, <1>5

LEMMA NamesAreKept ==
  ASSUME sources \in NameSources, Built(loaded)
  PROVE  EveryNameIsFound
<1>. SUFFICES ASSUME loaded # NoArtifact, NEW c \in NutsRegion
              PROVE  /\ \A n \in SaidOf(c) : FoundBy(c, n)
                     /\ LET donors == {d \in Replaced(c) : HasLabels(d, sources)} IN
                          ~HasLabels(c, sources) /\ donors # {} =>
                            \E d \in donors : \A n \in OwnAliases(d, sources) \union
                                        {p[2] : p \in OwnLabels(d, sources)} : FoundBy(c, n)
  BY DEF EveryNameIsFound
<1>1. PICK order : Orders(order) /\ loaded = [d \in NutsRegion |-> GazetteerEntry(d, sources, order)]
  BY DEF Built
<1>2. PICK from : from = Labelled(c, sources, order) OBVIOUS
<1>3. /\ from \in AnyCode
      /\ HasLabels(c, sources) => from = c
      /\ ~HasLabels(c, sources) /\ (\E d \in ReplacedBy(c, sources) : HasLabels(d, sources)) =>
           from \in ReplacedBy(c, sources) /\ HasLabels(from, sources)
  BY <1>1, <1>2, LabelsAreFound
<1>4. loaded[c] = GazetteerEntry(c, sources, order) BY <1>1
<1>5. \A n \in {Normal(sources.native[c]), Normal(sources.latn[c])}
               \union {Normal(m) : m \in {sources.metro[c]} \ {NoLabel}}
               \union OwnAliases(from, sources)
               \union {p[2] : p \in OwnLabels(from, sources)} :
        \E m \in EntryNames(loaded[c]) : Fold(m) = Fold(n)
  BY <1>2, <1>3, <1>4, EntryIs
<1>6. /\ \A p \in OwnLabels(from, sources) : Plain(p[2])
      /\ \A a \in OwnAliases(from, sources) : Plain(a)
  BY <1>3, SourceNames
<1>7. /\ Plain(Normal(sources.native[c])) /\ Plain(Normal(sources.latn[c]))
      /\ sources.metro[c] # NoLabel => Plain(Normal(sources.metro[c]))
  BY SourceNames
<1>8. ASSUME NEW n \in OwnAliases(from, sources) \union {p[2] : p \in OwnLabels(from, sources)}
      PROVE  FoundBy(c, n)
  <2>1. Plain(n) BY <1>6
  <2>2. PICK m \in EntryNames(loaded[c]) : Fold(m) = Fold(n) BY <1>5
  <2>. QED BY <2>1, <2>2, FoundByIts
<1>9. ASSUME NEW n \in SaidOf(c)
      PROVE  FoundBy(c, n)
  <2>1. CASE n \in {Normal(sources.native[c]), Normal(sources.latn[c])}
                   \union {Normal(m) : m \in {sources.metro[c]} \ {NoLabel}}
    <3>1. Plain(n) BY <2>1, <1>7
    <3>2. PICK m \in EntryNames(loaded[c]) : Fold(m) = Fold(n) BY <2>1, <1>5
    <3>. QED BY <3>1, <3>2, FoundByIts
  <2>2. CASE n \in OwnAliases(c, sources) \union {p[2] : p \in OwnLabels(c, sources)}
    <3>1. HasLabels(c, sources) BY <2>2 DEF HasLabels
    <3>. QED BY <3>1, <2>2, <1>3, <1>8
  <2>. QED BY <2>1, <2>2 DEF SaidOf
<1>10. Replaced(c) = ReplacedBy(c, sources) BY DEF Replaced, ReplacedBy
<1>11. ASSUME ~HasLabels(c, sources), NEW e \in Replaced(c), HasLabels(e, sources)
       PROVE  \E d \in {d \in Replaced(c) : HasLabels(d, sources)} :
                \A n \in OwnAliases(d, sources) \union {p[2] : p \in OwnLabels(d, sources)} : FoundBy(c, n)
  <2>1. from \in Replaced(c) /\ HasLabels(from, sources) BY <1>3, <1>10, <1>11
  <2>. QED BY <2>1, <1>8
<1>. QED BY <1>9, <1>11

(* The answers.                                                            *)

LEMMA HitsAreKeyed ==
  ASSUME sources \in NameSources, Built(loaded), loaded # NoArtifact,
         NEW keep, keep \subseteq NutsRegion, NEW q, NEW lang
  PROVE  Keyed(HitKeys(RegionHits(q, lang, keep)), 2)
<1>1. PICK hits : hits = RegionHits(q, lang, keep) OBVIOUS
<1>2. /\ IsFiniteSet(hits)
      /\ \A h \in hits : h.code \in keep /\ h.rank \in 0..9
      /\ \A g, h \in hits : g.code = h.code => g = h
  BY <1>1, HitsAre
<1>3. PICK key : key = HitKeys(hits) OBVIOUS
<1>4. DOMAIN key = hits /\ \A h \in hits : key[h] = <<h.rank, CodePlace[h.code]>>
  BY <1>3 DEF HitKeys
<1>5. /\ \A c \in NutsRegion : CodePlace[c] \in Nat
      /\ \A c, d \in NutsRegion : CodePlace[c] = CodePlace[d] => c = d
  BY NamesAssumption
<1>6. ASSUME NEW h \in hits
      PROVE  IsKey(key[h], 2)
  <2>1. PICK k : k = <<h.rank, CodePlace[h.code]>> OBVIOUS
  <2>2. h.rank \in Int /\ CodePlace[h.code] \in Int BY <1>2, <1>5
  <2>3. DOMAIN k = 1..2 /\ k[1] \in Int /\ k[2] \in Int BY <2>1, <2>2
  <2>. QED BY <2>1, <2>3, <1>4 DEF IsKey
<1>7. ASSUME NEW g \in hits, NEW h \in hits, g # h
      PROVE  \E i \in 1..2 : key[g][i] # key[h][i]
  <2>1. CodePlace[g.code] # CodePlace[h.code] BY <1>2, <1>5, <1>7
  <2>2. key[g][2] # key[h][2] BY <2>1, <1>4
  <2>. QED BY <2>2
<1>. QED BY <1>1, <1>2, <1>3, <1>4, <1>6, <1>7 DEF Keyed

LEMMA StrongestFirst ==
  ASSUME sources \in NameSources, Built(loaded), loaded # NoArtifact,
         NEW keep, keep \subseteq NutsRegion, NEW q, NEW lang, NEW limit \in Nat,
         NEW hits, hits = RegionHits(q, lang, keep),
         NEW rows, rows = Top(HitKeys(hits), limit), NEW i \in DOMAIN rows
  PROVE  /\ Holds(Fold(HitShown(rows[i], q, lang).matched), q)
         /\ \A h \in hits : h.rank < HitShown(rows[i], q, lang).rank =>
              \E j \in 1..i : HitShown(rows[j], q, lang).code = h.code
<1>1. PICK key : key = HitKeys(hits) OBVIOUS
<1>2. DOMAIN key = hits /\ \A h \in hits : key[h] = <<h.rank, CodePlace[h.code]>>
  BY <1>1 DEF HitKeys
<1>3. FirstOf(rows, key)
  <2>1. Keyed(key, 2) BY <1>1, HitsAreKeyed
  <2>. QED BY <2>1, <1>1, TopIs
<1>4. /\ rows \in Seq(hits)
      /\ \A r \in hits :
           (\E k \in DOMAIN rows : rows[k] = r) \/ \A k \in DOMAIN rows : KeyLess(key[rows[k]], key[r])
      /\ \A j, k \in DOMAIN rows : j < k => KeyLess(key[rows[j]], key[rows[k]])
  BY <1>2, <1>3 DEF FirstOf
<1>5. DOMAIN rows = 1..Len(rows) /\ Len(rows) \in Nat /\ \A k \in DOMAIN rows : rows[k] \in hits BY <1>4
<1>6. \A h : /\ HitShown(h, q, lang).code = h.code /\ HitShown(h, q, lang).rank = h.rank
             /\ HitShown(h, q, lang).matched = (CHOOSE f \in Forms(h.code) : RankOf(f, q, lang) = h.rank).name
  BY DEF HitShown
<1>7. \A h \in hits : h.rank \in 0..9 BY HitsAre
<1>8. \A g, h \in hits : KeyLess(key[g], key[h]) => g.rank <= h.rank
  <2>. SUFFICES ASSUME NEW g \in hits, NEW h \in hits, KeyLess(key[g], key[h]), g.rank > h.rank
                PROVE  FALSE
    BY <1>7
  <2>1. DOMAIN key[g] = 1..2 /\ key[g][1] = g.rank /\ key[h][1] = h.rank BY <1>2
  <2>2. PICK k \in 1..2 : key[g][k] < key[h][k] /\ \A j \in 1..(k - 1) : key[g][j] = key[h][j]
    BY <2>1 DEF KeyLess
  <2>3. CASE k = 1 BY <2>1, <2>2, <2>3, <1>7
  <2>4. CASE k = 2
    <3>1. 1 \in 1..(k - 1) BY <2>4
    <3>. QED BY <3>1, <2>1, <2>2, <1>7
  <2>. QED BY <2>3, <2>4
<1>9. Holds(Fold(HitShown(rows[i], q, lang).matched), q)
  <2>1. PICK h \in hits : h = rows[i] BY <1>5
  <2>2. /\ \E f \in Forms(h.code) : RankOf(f, q, lang) = h.rank
        /\ \A f \in Forms(h.code) : RankOf(f, q, lang) = h.rank => Holds(Fold(f.name), q)
    BY HitsAre
  <2>3. PICK through : through = CHOOSE f \in Forms(h.code) : RankOf(f, q, lang) = h.rank OBVIOUS
  <2>4. through \in Forms(h.code) /\ RankOf(through, q, lang) = h.rank BY <2>2, <2>3
  <2>5. HitShown(rows[i], q, lang).matched = through.name BY <2>1, <2>3, <1>6
  <2>. QED BY <2>2, <2>4, <2>5
<1>10. ASSUME NEW h \in hits, h.rank < rows[i].rank
       PROVE  \E j \in 1..i : rows[j] = h
  <2>1. rows[i] \in hits BY <1>5
  <2>2. ~KeyLess(key[rows[i]], key[h]) BY <2>1, <1>7, <1>8, <1>10
  <2>3. PICK j \in DOMAIN rows : rows[j] = h BY <2>2, <1>4
  <2>4. ~(i < j) BY <2>2, <2>3, <1>4
  <2>5. j \in 1..i BY <2>4, <1>5
  <2>. QED BY <2>3, <2>5
<1>. QED BY <1>6, <1>9, <1>10

NamesInv ==
  sources \in NameSources /\ Built(gazetteer) /\ Built(loaded) /\ NamesAreFound

LEMMA NamesBegin == ASSUME NamesInit PROVE NamesInv
<1>1. NoAnswerYet.of = "nothing" BY DEF NoAnswerYet
<1>2. AnswersFit BY <1>1 DEF NamesInit, AnswersFit
<1>3. EveryNameIsFound BY DEF NamesInit, EveryNameIsFound
<1>. QED BY <1>2, <1>3 DEF NamesInit, NamesInv, NamesAreFound, Built

LEMMA NamesStep == NamesInv /\ [NamesNext]_namesVars => NamesInv'
<1>. SUFFICES ASSUME NamesInv, [NamesNext]_namesVars PROVE NamesInv' OBVIOUS
<1>. USE DEF NamesInv
<1>0. ASSUME UNCHANGED <<sources, loaded>>
      PROVE  /\ \A q, l, k : RegionHits(q, l, k)' = RegionHits(q, l, k)
             /\ Built(loaded)' /\ sources' \in NameSources
             /\ Built(gazetteer) /\ UNCHANGED gazetteer => Built(gazetteer)'
  BY <1>0 DEF RegionHits, Forms, Built
<1>1. ASSUME UNCHANGED <<sources, loaded, response>>
      PROVE  AnswersFit'
  BY <1>0, <1>1 DEF AnswersFit, NamesAreFound
<1>2. ASSUME Built(loaded)', sources' \in NameSources
      PROVE  EveryNameIsFound'
  <2>1. sources \in NameSources /\ Built(loaded) => EveryNameIsFound BY NamesAreKept
  <2>2. (sources \in NameSources /\ Built(loaded) => EveryNameIsFound)' BY NamesAreKept, PTL
  <2>. QED BY <2>2, <1>2
<1>3. ASSUME BuildGazetteer PROVE NamesInv'
  <2>1. UNCHANGED <<sources, loaded, response>> BY <1>3 DEF BuildGazetteer
  <2>2. Built(gazetteer)'
    <3>1. PICK order \in [RetiredCode -> 1..Cardinality(RetiredCode)] :
            /\ \A c, d \in RetiredCode : c # d => order[c] # order[d]
            /\ gazetteer' = [c \in NutsRegion |-> GazetteerEntry(c, sources, order)]
      BY <1>3 DEF BuildGazetteer
    <3>2. Orders(order) BY <3>1 DEF Orders
    <3>. QED BY <2>1, <3>1, <3>2 DEF Built
  <2>. QED BY <2>1, <2>2, <1>0, <1>1, <1>2 DEF NamesAreFound
<1>4. ASSUME StartNutsApi PROVE NamesInv'
  <2>1. UNCHANGED sources /\ gazetteer' = gazetteer /\ loaded' = gazetteer /\ response' = NoAnswerYet
    BY <1>4 DEF StartNutsApi
  <2>2. Built(gazetteer)' /\ Built(loaded)' BY <2>1 DEF Built
  <2>3. response'.of = "nothing" BY <2>1 DEF NoAnswerYet
  <2>4. AnswersFit' BY <2>3 DEF AnswersFit
  <2>. QED BY <2>1, <2>2, <2>4, <1>2 DEF NamesAreFound
<1>5. ASSUME SearchRegions PROVE NamesInv'
  <2>1. UNCHANGED <<sources, gazetteer, loaded>> /\ loaded # NoArtifact BY <1>5 DEF SearchRegions
  <2>2. PICK q \in SearchText, lang \in Tongues, maxLevel \in {0, 3}, limit \in {1, 100} :
       LET keep == {c \in NutsRegion : Len(c) - 1 <= maxLevel}
           hits == RegionHits(q, lang, keep)
           rows == Top(HitKeys(hits), limit) IN
       response' = [of |-> "search", query |-> q, lang |-> lang, keep |-> keep,
                  total |-> Cardinality(hits),
                  rows |-> [i \in DOMAIN rows |-> HitShown(rows[i], q, lang)]]
    BY <1>5 DEF SearchRegions
  <2>3. PICK keep : keep = {c \in NutsRegion : Len(c) - 1 <= maxLevel} OBVIOUS
  <2>4. keep \subseteq NutsRegion BY <2>3
  <2>5. PICK hits : hits = RegionHits(q, lang, keep) OBVIOUS
  <2>6. PICK rows : rows = Top(HitKeys(hits), limit) OBVIOUS
  <2>7. PICK shown : shown = [i \in DOMAIN rows |-> HitShown(rows[i], q, lang)] OBVIOUS
  <2>8. response' = [of |-> "search", query |-> q, lang |-> lang, keep |-> keep,
                     total |-> Cardinality(hits), rows |-> shown]
    BY <2>2, <2>3, <2>5, <2>6, <2>7
  <2>9. \A i \in DOMAIN rows :
          /\ Holds(Fold(shown[i].matched), q)
          /\ \A h \in hits : h.rank < shown[i].rank => \E j \in 1..i : shown[j].code = h.code
    <3>. SUFFICES ASSUME NEW i \in DOMAIN rows
                  PROVE  /\ Holds(Fold(shown[i].matched), q)
                         /\ \A h \in hits : h.rank < shown[i].rank => \E j \in 1..i : shown[j].code = h.code
      OBVIOUS
    <3>1. limit \in Nat OBVIOUS
    <3>2. /\ Holds(Fold(HitShown(rows[i], q, lang).matched), q)
          /\ \A h \in hits : h.rank < HitShown(rows[i], q, lang).rank =>
               \E j \in 1..i : HitShown(rows[j], q, lang).code = h.code
      BY <2>1, <2>4, <2>5, <2>6, <3>1, StrongestFirst
    <3>3. \A j \in 1..i : j \in DOMAIN rows
      <4>1. PICK key, n : key = HitKeys(hits) /\ n = 2 OBVIOUS
      <4>5. Keyed(key, n)
        <5>1. Keyed(HitKeys(RegionHits(q, lang, keep)), 2) BY <2>1, <2>4, HitsAreKeyed
        <5>. QED BY <5>1, <4>1, <2>5
      <4>6. FirstOf(Top(key, limit), key) BY <3>1, <4>5, TopIs
      <4>0. FirstOf(rows, key) BY <2>6, <4>1, <4>6
      <4>2. rows \in Seq(DOMAIN key) BY <4>0 DEF FirstOf
      <4>3. DOMAIN rows = 1..Len(rows) /\ Len(rows) \in Nat BY <4>2
      <4>. QED BY <4>3
    <3>4. \A j \in DOMAIN rows : shown[j] = HitShown(rows[j], q, lang) BY <2>7
    <3>. QED BY <3>2, <3>3, <3>4
  <2>10. RegionHits(q, lang, keep)' = hits BY <2>1, <2>5, <1>0
  <2>11. AnswersFit'
    <3>1. /\ response'.of = "search" /\ response'.query = q /\ response'.lang = lang
          /\ response'.keep = keep /\ response'.total = Cardinality(hits) /\ response'.rows = shown
      BY <2>8
    <3>2. DOMAIN shown = DOMAIN rows BY <2>7
    <3>3. \A i \in DOMAIN shown :
            /\ Holds(Fold(shown[i].matched), q)
            /\ \A h \in hits : h.rank < shown[i].rank => \E j \in 1..i : shown[j].code = h.code
      BY <2>9, <3>2
    <3>. QED BY <2>10, <3>1, <3>3 DEF AnswersFit
  <2>. QED BY <2>1, <2>11, <1>0, <1>2 DEF NamesAreFound
<1>6. ASSUME OneRegion PROVE NamesInv'
  <2>1. UNCHANGED <<sources, gazetteer, loaded>> BY <1>6 DEF OneRegion
  <2>2. PICK c \in NutsRegion : response'.of = "region" /\ response'.code = c
                                /\ response'.children = ChildrenOf(c)
    BY <1>6 DEF OneRegion
  <2>3. ASSUME NEW d \in ChildrenOf(c)
        PROVE  Ancestors(d)[1] = c
    <3>1. d \in NutsRegion /\ Len(d) = Len(c) + 1 /\ Front(d) = c BY DEF ChildrenOf, ParentOf
    <3>2. Len(c) \in Nat /\ Len(c) > 0 /\ Len(d) \in Nat BY <3>1, NamesSets
    <3>3. PICK n : n = Len(d) OBVIOUS
    <3>4. 1 \in 1..n - 1 BY <3>1, <3>2, <3>3
    <3>5. Ancestors(d)[1] = SubSeq(d, 1, n - 1) BY <3>3, <3>4 DEF Ancestors
    <3>. QED BY <3>1, <3>3, <3>5 DEF Front
  <2>4. AnswersFit' BY <2>2, <2>3 DEF AnswersFit
  <2>. QED BY <2>1, <2>4, <1>0, <1>2 DEF NamesAreFound
<1>7. ASSUME UNCHANGED namesVars PROVE NamesInv'
  <2>1. UNCHANGED <<sources, gazetteer, loaded, response>> BY <1>7 DEF namesVars
  <2>. QED BY <2>1, <1>0, <1>1, <1>2 DEF NamesAreFound
<1>. QED BY <1>3, <1>4, <1>5, <1>6, <1>7 DEF NamesNext

\* build_nuts_gazetteer.py and nuts_api: once the API has read an artifact, a region is
\* found by every name that its sources gave it, and one that Wikidata does not name by
\* all names of one code that it replaced, however long ago; the hits of a search are
\* its strongest, and its total counts those that were cut off; for any regions,
\* retired codes, names, tongues and queries, and any contents of the sources.
THEOREM RegionsAreFoundByName == NamesSpec => []NamesAreFound
<1>1. NamesInit => NamesInv BY NamesBegin
<1>2. NamesInv => NamesAreFound BY DEF NamesInv
<1>. QED BY <1>1, <1>2, NamesStep, PTL DEF NamesSpec

----------------------------------------------------------------------------
(* ContractPages: what a request has read so far is what the graph had then, and *)
(* what was merged, written or counted since is more of it.                *)

LEMMA GreatestIs ==
  ASSUME NEW S, S \subseteq Int, IsFiniteSet(S), S # {}
  PROVE  Max(S) \in S /\ \A y \in S : Max(S) >= y
<1>1. PICK over : over = [x \in S |-> {y \in S : y > x}] OBVIOUS
<1>2. \A x \in S : IsFiniteSet(over[x]) /\ Cardinality(over[x]) \in Nat
  BY <1>1, FS_Subset, FS_CardinalityType
<1>3. PICK T : T = {Cardinality(over[x]) : x \in S} OBVIOUS
<1>4. T \subseteq Nat /\ T # {} BY <1>2, <1>3
<1>5. PICK t \in T : \A u \in T : t <= u BY <1>4, LeastNumber
<1>6. PICK x \in S : \A y \in S : Cardinality(over[x]) <= Cardinality(over[y]) BY <1>3, <1>5
<1>7. ASSUME NEW y \in S, ~(x >= y)
      PROVE  FALSE
  <2>1. y \in over[x] /\ y \notin over[y] BY <1>1, <1>7
  <2>2. over[y] \subseteq over[x]
    <3>. SUFFICES ASSUME NEW z \in over[y] PROVE z \in over[x] OBVIOUS
    <3>1. z \in S /\ z > y BY <1>1
    <3>. QED BY <3>1, <1>1, <1>7
  <2>3. Cardinality(over[y]) < Cardinality(over[x])
    <3>1. over[y] # over[x] BY <2>1
    <3>2. over[y] \in SUBSET over[x] BY <2>2
    <3>3. /\ Cardinality(over[y]) <= Cardinality(over[x])
          /\ Cardinality(over[x]) = Cardinality(over[y]) => over[x] = over[y]
      BY <1>2, <3>2, FS_Subset
    <3>. QED BY <3>1, <3>3, <1>2
  <2>. QED BY <2>3, <1>2, <1>6
<1>8. \E z \in S : \A y \in S : z >= y BY <1>7
<1>. QED BY <1>8 DEF Max

(* The graph.                                                              *)

GraphInv == written \subseteq GraphFact

LEMMA FactsAre ==
  ASSUME GraphInv
  PROVE  /\ IsFiniteSet(written) /\ \A kind : FactsOf(kind) \subseteq GraphFact
         /\ \A n \in FactsOf("notice") :
              /\ n.kind = "notice" /\ n.id \in Nat /\ n.date \in Nat /\ n.worth \in Nat
              /\ n.doubtful \in BOOLEAN /\ n.buyers \subseteq Buyer /\ n.buyers # {}
              /\ n.winners \subseteq PageCompany
         /\ \A n, m \in FactsOf("notice") : n.id = m.id => n = m
         /\ \A f \in FactsOf("merge") : f.pair \subseteq PageCompany \union Buyer
<1>1. IsFiniteSet(written)
  <2>1. written \in SUBSET GraphFact BY DEF GraphInv
  <2>. QED BY <2>1, PagesAssumption, FS_Subset
<1>2. \A kind : \A f \in FactsOf(kind) : f \in GraphFact /\ f.kind = kind BY DEF FactsOf, GraphInv
<1>. QED BY <1>1, <1>2, PagesAssumption

LEMMA ContractsAre ==
  ASSUME GraphInv
  PROVE  /\ IsFiniteSet(PageContracts)
         /\ \A k \in PageContracts :
              /\ Current(k) \in Chain(k) /\ Current(k) \in FactsOf("notice") /\ Current(k).contract = k
              /\ Current(k).id \in Nat /\ Current(k).date \in Nat /\ Current(k).worth \in Nat
              /\ Current(k).doubtful \in BOOLEAN
              /\ BuyersOf(k) # {} /\ BuyersOf(k) \subseteq Buyer /\ WinnersOf(k) \subseteq PageCompany
         /\ \A k, l \in PageContracts : Current(k).id = Current(l).id => k = l
<1>1. IsFiniteSet(PageContracts)
  <2>1. IsFiniteSet(FactsOf("notice"))
    <3>1. FactsOf("notice") \in SUBSET written BY DEF FactsOf
    <3>. QED BY <3>1, FactsAre, FS_Subset
  <2>2. PICK mk : mk = [n \in FactsOf("notice") |-> n.contract] OBVIOUS
  <2>3. mk \in Surjection(FactsOf("notice"), PageContracts) BY <2>2 DEF PageContracts, Surjection
  <2>. QED BY <2>1, <2>3, FS_Surjection
<1>2. ASSUME NEW k \in PageContracts
      PROVE  /\ Current(k) \in Chain(k) /\ BuyersOf(k) # {} /\ BuyersOf(k) \subseteq Buyer
             /\ WinnersOf(k) \subseteq PageCompany
  <2>1. PICK C : C = Chain(k) OBVIOUS
  <2>2. C # {} /\ C \in SUBSET written BY <2>1 DEF PageContracts, Chain, FactsOf
  <2>3. C \subseteq FactsOf("notice") BY <2>1 DEF Chain
  <2>4. PICK ids : ids = {n.id : n \in C} OBVIOUS
  <2>5. IsFiniteSet(C) BY <2>2, FactsAre, FS_Subset
  <2>6. IsFiniteSet(ids)
    <3>1. PICK mk : mk = [n \in C |-> n.id] OBVIOUS
    <3>2. mk \in Surjection(C, ids) BY <3>1, <2>4 DEF Surjection
    <3>. QED BY <3>2, <2>5, FS_Surjection
  <2>7. ids \subseteq Int /\ ids # {} BY <2>2, <2>3, <2>4, FactsAre
  <2>8. Max(ids) \in ids /\ \A y \in ids : Max(ids) >= y BY <2>6, <2>7, GreatestIs
  <2>9. \E n \in C : n.id = Max(ids) BY <2>4, <2>8
  <2>10. \E n \in C : \A m \in C : m.id <= n.id
    <3>1. PICK n \in C : n.id = Max(ids) BY <2>9
    <3>2. ASSUME NEW m \in C PROVE m.id <= n.id
      <4>1. m.id \in ids BY <2>4
      <4>. QED BY <3>1, <4>1, <2>7, <2>8
    <3>. QED BY <3>2
  <2>11. Current(k) \in C
    <3>1. Current(k) = CHOOSE n \in C : \A m \in C : m.id <= n.id BY <2>1 DEF Current
    <3>. QED BY <3>1, <2>10
  <2>. QED BY <2>1, <2>2, <2>3, <2>11, FactsAre DEF BuyersOf, WinnersOf
<1>3. ASSUME NEW k \in PageContracts
      PROVE  Current(k) \in FactsOf("notice") /\ Current(k).contract = k
  BY <1>2 DEF Chain
<1>4. \A k, l \in PageContracts : Current(k).id = Current(l).id => k = l
  BY <1>3, FactsAre
<1>. QED BY <1>1, <1>2, <1>3, <1>4, FactsAre

(* The records that are one entity.                                        *)

Records == PageCompany \union Buyer
Merges == FactsOf("merge")
\* The merges that a set of records has a part in and holds.
Inside(S) == {f \in Merges : f.pair \cap S # {} /\ f.pair \subseteq S}
ClosedSet(S) == \A f \in Merges : f.pair \cap S # {} => f.pair \subseteq S

\* After i turns from x: with everything, or with so many merges.
Reach(S, i, x) ==
  /\ S \subseteq Records /\ x \in S
  /\ \A y \in S : OneEntity(x, y)
  /\ ClosedSet(S) \/ Cardinality(Inside(S)) >= i

LEMMA MergesAre ==
  ASSUME GraphInv
  PROVE  /\ IsFiniteSet(Merges) /\ Merges \subseteq GraphFact
         /\ \A f \in Merges : f.pair \subseteq Records
         /\ \A S : IsFiniteSet(Inside(S)) /\ Cardinality(Inside(S)) \in Nat
<1>1. Merges \in SUBSET GraphFact /\ \A f \in Merges : f.pair \subseteq Records
  BY FactsAre DEF Merges, Records
<1>2. \A S : Inside(S) \in SUBSET GraphFact BY <1>1 DEF Inside
<1>3. IsFiniteSet(GraphFact) BY PagesAssumption
<1>. QED BY <1>1, <1>2, <1>3, FS_Subset, FS_CardinalityType

LEMMA ReachTurn ==
  ASSUME GraphInv, NEW x, NEW i \in Nat, NEW S, Reach(S, i, x)
  PROVE  Reach(Beside(S), i + 1, x)
<1>1. PICK R : R = Beside(S) OBVIOUS
<1>2. \A y : y \in R <=> y \in S \/ \E f \in Merges : f.pair \cap S # {} /\ y \in f.pair
  BY <1>1 DEF Beside, Merges
<1>3. /\ S \subseteq Records /\ x \in S
      /\ \A y \in S : OneEntity(x, y)
      /\ ClosedSet(S) \/ Cardinality(Inside(S)) >= i
  BY DEF Reach
<1>4. R \subseteq Records /\ x \in R BY <1>2, <1>3, MergesAre
<1>5. \A y \in R : OneEntity(x, y)
  <2>. SUFFICES ASSUME NEW y \in R,
                       NEW T \in SUBSET Records, x \in T,
                       \A f \in Merges : f.pair \cap T # {} => f.pair \subseteq T
                PROVE  y \in T
    BY DEF OneEntity, Records, Merges
  <2>1. S \subseteq T BY <1>3 DEF OneEntity, Records, Merges
  <2>2. CASE y \in S BY <2>1, <2>2
  <2>3. ASSUME NEW f \in Merges, f.pair \cap S # {}, y \in f.pair
        PROVE  y \in T
    BY <2>1, <2>3
  <2>. QED BY <1>2, <2>2, <2>3
<1>6. CASE ClosedSet(S)
  <2>1. R = S BY <1>2, <1>6 DEF ClosedSet
  <2>. QED BY <1>1, <1>3, <1>6, <2>1 DEF Reach
<1>7. CASE ~ClosedSet(S)
  <2>1. PICK f \in Merges : f.pair \cap S # {} /\ ~(f.pair \subseteq S) BY <1>7 DEF ClosedSet
  <2>2. S \subseteq R /\ f.pair \subseteq R BY <1>2, <2>1
  <2>3. f \in Inside(R) /\ f \notin Inside(S) BY <2>1, <2>2 DEF Inside
  <2>4. Inside(S) \in SUBSET Inside(R) BY <2>2 DEF Inside
  <2>5. /\ Cardinality(Inside(S)) \in Nat /\ Cardinality(Inside(R)) \in Nat
        /\ IsFiniteSet(Inside(R))
    BY MergesAre
  <2>6. /\ Cardinality(Inside(S)) <= Cardinality(Inside(R))
        /\ Cardinality(Inside(R)) = Cardinality(Inside(S)) => Inside(R) = Inside(S)
    BY <2>4, <2>5, FS_Subset
  <2>7. Cardinality(Inside(R)) >= i + 1 BY <1>3, <1>7, <2>3, <2>5, <2>6
  <2>. QED BY <1>1, <1>4, <1>5, <2>7 DEF Reach
<1>. QED BY <1>6, <1>7

LEMMA IdentityIs ==
  ASSUME GraphInv, NEW x \in Records
  PROVE  IdentityClass(x) \subseteq Records /\ \A y : y \in IdentityClass(x) <=> OneEntity(x, y)
<1>1. PICK N \in Nat : N = Cardinality(GraphFact) BY PagesAssumption, FS_CardinalityType
<1>2. PICK start : start = {x} OBVIOUS
<1>3. PICK turn : turn = [S \in SUBSET Records |-> Beside(S)] OBVIOUS
<1>. DEFINE Reached(r) == r = [i \in 0..N |-> IF i = 0 THEN {x} ELSE Beside(r[i - 1])]
<1>4. PICK I : I = [i \in 0..N |-> {S \in SUBSET Records : Reach(S, i, x)}] OBVIOUS
<1>5. \A i \in 0..N : \A S : S \in I[i] <=> Reach(S, i, x) BY <1>4 DEF Reach
<1>6. start \in I[0]
  <2>1. OneEntity(x, x) BY DEF OneEntity
  <2>2. Cardinality(Inside(start)) >= 0 BY MergesAre
  <2>3. Reach(start, 0, x) BY <1>2, <2>1, <2>2 DEF Reach
  <2>. QED BY <2>3, <1>1, <1>5
<1>7. ASSUME NEW i \in 1..N, NEW S \in I[i - 1]
      PROVE  Beside(S) \in I[i] /\ S \in SUBSET Records
  <2>1. i - 1 \in 0..N /\ i \in 0..N /\ i - 1 \in Nat /\ (i - 1) + 1 = i BY <1>1
  <2>2. Reach(S, i - 1, x) BY <2>1, <1>5
  <2>3. Reach(Beside(S), (i - 1) + 1, x) BY <2>1, <2>2, ReachTurn
  <2>. QED BY <2>1, <2>2, <2>3, <1>5 DEF Reach
<1>8. PICK f : Turns(f, N, start, turn) BY <1>1, TurnsExist
<1>9. f[0] = start /\ \A i \in 1..N : f[i] = turn[f[i - 1]]
  <2>1. 0 \in 0..N /\ \A i \in 1..N : i \in 0..N /\ i # 0 BY <1>1
  <2>. QED BY <2>1, <1>8 DEF Turns
<1>10. \A i \in 0..N : f[i] \in I[i]
  <2>1. ASSUME NEW i \in 1..N, f[i - 1] \in I[i - 1]
        PROVE  f[i] \in I[i]
    BY <2>1, <1>3, <1>7, <1>9
  <2>. HIDE DEF Reached
  <2>. QED BY <2>1, <1>1, <1>6, <1>9, TurnsKeep
<1>11. Reached(f)
  <2>1. \A i \in 0..N :
          (IF i = 0 THEN start ELSE turn[f[i - 1]]) = (IF i = 0 THEN {x} ELSE Beside(f[i - 1]))
    <3>. SUFFICES ASSUME NEW i \in 0..N, i # 0
                  PROVE  turn[f[i - 1]] = Beside(f[i - 1])
      BY <1>2
    <3>1. i - 1 \in 0..N /\ i \in 1..N BY <1>1
    <3>2. f[i - 1] \in SUBSET Records BY <3>1, <1>7, <1>10
    <3>. QED BY <3>2, <1>3
  <2>2. f = [i \in 0..N |-> IF i = 0 THEN start ELSE turn[f[i - 1]]] BY <1>8 DEF Turns
  <2>. QED BY <2>1, <2>2
<1>12. PICK reached : reached = CHOOSE r : Reached(r) OBVIOUS
<1>13. Reached(reached)
  <2>. HIDE DEF Reached
  <2>. QED BY <1>11, <1>12
<1>14. IdentityClass(x) = reached[N] BY <1>1, <1>12 DEF IdentityClass
<1>15. \A i \in 0..N : reached[i] \in I[i]
  <2>1. reached[0] = start /\ \A i \in 1..N : reached[i] = Beside(reached[i - 1])
    <3>1. 0 \in 0..N /\ \A i \in 1..N : i \in 0..N /\ i # 0 BY <1>1
    <3>. QED BY <3>1, <1>2, <1>13
  <2>2. ASSUME NEW i \in 1..N, reached[i - 1] \in I[i - 1]
        PROVE  reached[i] \in I[i]
    BY <2>1, <2>2, <1>7
  <2>. HIDE DEF Reached
  <2>. QED BY <2>1, <2>2, <1>1, <1>6, TurnsKeep
<1>16. PICK S : S = reached[N] OBVIOUS
<1>17. Reach(S, N, x)
  <2>1. N \in 0..N BY <1>1
  <2>. QED BY <2>1, <1>5, <1>15, <1>16
<1>18. ClosedSet(S)
  <2>. SUFFICES ASSUME ~ClosedSet(S) PROVE FALSE OBVIOUS
  <2>1. Cardinality(Inside(S)) >= N BY <1>17 DEF Reach
  <2>2. Inside(S) \in SUBSET GraphFact BY MergesAre DEF Inside
  <2>3. IsFiniteSet(GraphFact) BY PagesAssumption
  <2>4. /\ Cardinality(Inside(S)) <= Cardinality(GraphFact)
        /\ Cardinality(GraphFact) = Cardinality(Inside(S)) => GraphFact = Inside(S)
    BY <2>2, <2>3, FS_Subset
  <2>5. Cardinality(Inside(S)) \in Nat BY MergesAre
  <2>6. GraphFact = Inside(S) BY <1>1, <2>1, <2>4, <2>5
  <2>. QED BY <2>6, MergesAre DEF Inside, ClosedSet
<1>19. ASSUME NEW y, OneEntity(x, y)
       PROVE  y \in S
  <2>1. S \in SUBSET Records /\ x \in S BY <1>17 DEF Reach
  <2>. QED BY <1>18, <1>19, <2>1 DEF OneEntity, ClosedSet, Records, Merges
<1>20. S \subseteq Records /\ \A y \in S : OneEntity(x, y) BY <1>17 DEF Reach
<1>. QED BY <1>14, <1>16, <1>19, <1>20

LEMMA HeldAre ==
  ASSUME GraphInv, NEW side, NEW x \in Records
  PROVE  /\ ContractsOf(side, x) = HeldBy(side, x) /\ ToTotal(side, x) = HeldBy(side, x)
         /\ HeldBy(side, x) \subseteq PageContracts /\ IsFiniteSet(HeldBy(side, x))
<1>1. \A y : y \in IdentityClass(x) <=> OneEntity(x, y) BY IdentityIs
<1>2. \A k \in PageContracts : BuyersOf(k) # {} BY ContractsAre
<1>3. \A T : T \cap IdentityClass(x) # {} <=> \E y \in T : OneEntity(x, y) BY <1>1
<1>4. CompanyContracts(x) = CompanyTotals(x) BY <1>2 DEF CompanyContracts, CompanyTotals
<1>5. side = "company" => CompanyTotals(x) = HeldBy(side, x) BY <1>3 DEF CompanyTotals, HeldBy
<1>6. side # "company" => BuyerContracts(x) = HeldBy(side, x) BY <1>3 DEF BuyerContracts, HeldBy
<1>7. HeldBy(side, x) \in SUBSET PageContracts BY DEF HeldBy
<1>8. IsFiniteSet(HeldBy(side, x)) BY <1>7, ContractsAre, FS_Subset
<1>. QED BY <1>4, <1>5, <1>6, <1>7, <1>8 DEF ContractsOf, ToTotal

\* What is written only adds to what a list shows.
LEMMA MoreIsHeld ==
  ASSUME GraphInv, GraphInv', written \subseteq written', NEW side, NEW x \in Records
  PROVE  /\ Cardinality(HeldBy(side, x)) <= Cardinality(HeldBy(side, x)')
         /\ Cardinality(HeldBy(side, x)) \in Nat /\ Cardinality(HeldBy(side, x)') \in Nat
<1>1. \A kind : FactsOf(kind) \subseteq FactsOf(kind)' BY DEF FactsOf
<1>2. \A y : OneEntity(x, y) => OneEntity(x, y)' BY <1>1 DEF OneEntity
<1>3. /\ PageContracts \subseteq PageContracts'
      /\ \A k : BuyersOf(k) \subseteq BuyersOf(k)' /\ WinnersOf(k) \subseteq WinnersOf(k)'
  BY <1>1 DEF PageContracts, BuyersOf, WinnersOf, Chain
<1>4. HeldBy(side, x) \in SUBSET HeldBy(side, x)' BY <1>2, <1>3 DEF HeldBy
<1>5. IsFiniteSet(HeldBy(side, x)')
  <2>2. (GraphInv => IsFiniteSet(PageContracts))' BY ContractsAre, PTL
  <2>3. HeldBy(side, x)' \in SUBSET PageContracts' BY DEF HeldBy
  <2>4. IsFiniteSet(PageContracts') BY <2>2
  <2>. QED BY <2>3, <2>4, FS_Subset
<1>. QED BY <1>4, <1>5, FS_Subset, FS_CardinalityType

(* The rows of a list.                                                     *)

Sorts == {"recent", "oldest", "value_desc", "value_asc"}
Asked(list) ==
  /\ list.side \in {"company", "buyer", "grants"} /\ list.of \in Records
  /\ list.sort \in Sorts /\ list.limit \in Nat

KeyLength(sort) == IF sort \in {"recent", "oldest"} THEN 3 ELSE 5
RowIs(r) == r.id \in Nat /\ r.date \in Nat /\ r.worth \in Nat

LEMMA OrderIs ==
  ASSUME NEW sort \in Sorts, NEW r, RowIs(r)
  PROVE  IsKey(OrderKey(sort, r), KeyLength(sort)) /\ OrderKey(sort, r)[KeyLength(sort)] = r.id
<1>1. Absent(r.date) \in Int /\ Absent(r.worth) \in Int BY DEF Absent
<1>2. r.id \in Int /\ -r.date \in Int /\ r.date \in Int /\ r.worth \in Int /\ -r.worth \in Int
      /\ 1 - Absent(r.date) \in Int
  BY <1>1 DEF RowIs
<1>3. PICK k : k = OrderKey(sort, r) OBVIOUS
<1>4. CASE sort = "recent"
  <2>1. k = <<Absent(r.date), -r.date, r.id>> BY <1>3, <1>4 DEF OrderKey
  <2>2. DOMAIN k = 1..3 /\ k[1] \in Int /\ k[2] \in Int /\ k[3] \in Int /\ k[3] = r.id BY <2>1, <1>1, <1>2
  <2>. QED BY <2>2, <1>3, <1>4 DEF IsKey, KeyLength
<1>5. CASE sort = "oldest"
  <2>1. k = <<Absent(r.date), r.date, r.id>> BY <1>3, <1>5 DEF OrderKey
  <2>2. DOMAIN k = 1..3 /\ k[1] \in Int /\ k[2] \in Int /\ k[3] \in Int /\ k[3] = r.id BY <2>1, <1>1, <1>2
  <2>. QED BY <2>2, <1>3, <1>5 DEF IsKey, KeyLength
<1>6. CASE sort = "value_desc"
  <2>1. k = <<Absent(r.worth), -r.worth, 1 - Absent(r.date), -r.date, r.id>> BY <1>3, <1>6 DEF OrderKey
  <2>2. DOMAIN k = 1..5 /\ k[1] \in Int /\ k[2] \in Int /\ k[3] \in Int /\ k[4] \in Int /\ k[5] \in Int
        /\ k[5] = r.id
    BY <2>1, <1>1, <1>2
  <2>. QED BY <2>2, <1>3, <1>6 DEF IsKey, KeyLength
<1>7. CASE sort = "value_asc"
  <2>1. k = <<Absent(r.worth), r.worth, 1 - Absent(r.date), -r.date, r.id>> BY <1>3, <1>7 DEF OrderKey
  <2>2. DOMAIN k = 1..5 /\ k[1] \in Int /\ k[2] \in Int /\ k[3] \in Int /\ k[4] \in Int /\ k[5] \in Int
        /\ k[5] = r.id
    BY <2>1, <1>1, <1>2
  <2>. QED BY <2>2, <1>3, <1>7 DEF IsKey, KeyLength
<1>. QED BY <1>4, <1>5, <1>6, <1>7 DEF Sorts

\* A row that the keys put first is none that should have come later.
LEMMA OrderHolds ==
  ASSUME NEW sort \in Sorts, NEW r, RowIs(r), NEW s, RowIs(s),
         KeyLess(OrderKey(sort, r), OrderKey(sort, s)),
         NEW k, Current(k).date = s.date, Current(k).worth = s.worth
  PROVE  NoneBefore(sort, r, k)
<1>1. /\ r.id \in Nat /\ r.date \in Nat /\ r.worth \in Nat
      /\ s.id \in Nat /\ s.date \in Nat /\ s.worth \in Nat
  BY DEF RowIs
<1>2. ASSUME NEW p, NEW q, NEW n \in Nat, n > 2, DOMAIN p = 1..n, p[1] \in Int, q[1] \in Int,
             p[2] \in Int, q[2] \in Int, KeyLess(p, q)
      PROVE  p[1] < q[1] \/ (p[1] = q[1] /\ p[2] <= q[2])
  <2>1. PICK i \in 1..n : p[i] < q[i] /\ \A j \in 1..(i - 1) : p[j] = q[j] BY <1>2 DEF KeyLess
  <2>2. CASE i = 1 BY <2>1, <2>2
  <2>3. CASE i = 2
    <3>1. 1 \in 1..(i - 1) BY <2>3
    <3>. QED BY <3>1, <2>1, <2>3, <1>2
  <2>4. CASE i > 2
    <3>1. 1 \in 1..(i - 1) /\ 2 \in 1..(i - 1) BY <2>4
    <3>. QED BY <3>1, <2>1, <1>2
  <2>. QED BY <2>2, <2>3, <2>4
<1>3. \A x \in Nat : Absent(x) \in Int /\ -x \in Int BY DEF Absent
<1>4. PICK p : p = OrderKey(sort, r) OBVIOUS
<1>5. PICK q : q = OrderKey(sort, s) OBVIOUS
<1>6. IsKey(p, KeyLength(sort)) /\ IsKey(q, KeyLength(sort)) BY <1>4, <1>5, OrderIs
<1>7. KeyLength(sort) \in Nat /\ KeyLength(sort) > 2 BY DEF KeyLength
<1>8. p[1] < q[1] \/ (p[1] = q[1] /\ p[2] <= q[2])
  <2>1. \A i \in 1..KeyLength(sort) : p[i] \in Int /\ q[i] \in Int BY <1>6 DEF IsKey
  <2>2. 1 \in 1..KeyLength(sort) /\ 2 \in 1..KeyLength(sort) BY <1>7
  <2>3. DOMAIN p = 1..KeyLength(sort) /\ KeyLess(p, q) BY <1>4, <1>5, <1>6 DEF IsKey
  <2>4. PICK n \in Nat : n = KeyLength(sort) BY <1>7
  <2>. QED BY <2>1, <2>2, <2>3, <2>4, <1>2, <1>7
<1>9. CASE sort = "recent"
  <2>1. /\ p[1] = Absent(r.date) /\ p[2] = -r.date /\ q[1] = Absent(s.date) /\ q[2] = -s.date
    BY <1>4, <1>5, <1>9 DEF OrderKey
  <2>2. s.date <= r.date BY <2>1, <1>1, <1>8 DEF Absent
  <2>. QED BY <2>2, <1>9 DEF NoneBefore
<1>10. CASE sort = "oldest"
  <2>1. /\ p[1] = Absent(r.date) /\ p[2] = r.date /\ q[1] = Absent(s.date) /\ q[2] = s.date
    BY <1>4, <1>5, <1>10 DEF OrderKey
  <2>2. s.date = 0 \/ (r.date # 0 /\ r.date <= s.date) BY <2>1, <1>1, <1>8 DEF Absent
  <2>. QED BY <2>2, <1>10 DEF NoneBefore
<1>11. CASE sort = "value_desc"
  <2>1. /\ p[1] = Absent(r.worth) /\ p[2] = -r.worth /\ q[1] = Absent(s.worth) /\ q[2] = -s.worth
    BY <1>4, <1>5, <1>11 DEF OrderKey
  <2>2. s.worth <= r.worth BY <2>1, <1>1, <1>8 DEF Absent
  <2>. QED BY <2>2, <1>11 DEF NoneBefore
<1>12. CASE sort = "value_asc"
  <2>1. /\ p[1] = Absent(r.worth) /\ p[2] = r.worth /\ q[1] = Absent(s.worth) /\ q[2] = s.worth
    BY <1>4, <1>5, <1>12 DEF OrderKey
  <2>2. s.worth = 0 \/ (r.worth # 0 /\ r.worth <= s.worth) BY <2>1, <1>1, <1>8 DEF Absent
  <2>. QED BY <2>2, <1>12 DEF NoneBefore
<1>. QED BY <1>9, <1>10, <1>11, <1>12 DEF Sorts

\* Each contract of the list has its row.
RowOf(list, k) == ListRow(k, IF list.side = "company" THEN BuyersOf(k) ELSE WinnersOf(k))
RowMap(list) == [k \in HeldBy(list.side, list.of) |-> RowOf(list, k)]
CountOf(list) ==
  IF list.side = "grants" THEN Cardinality(GrantsOf(list.of))
  ELSE Cardinality(HeldBy(list.side, list.of))

LEMMA RowsAre ==
  ASSUME GraphInv, NEW list, Asked(list)
  PROVE  /\ RowMap(list) \in Bijection(HeldBy(list.side, list.of), ListedRows(list))
         /\ ListedRows(list) = {RowOf(list, k) : k \in HeldBy(list.side, list.of)}
         /\ \A k \in HeldBy(list.side, list.of) :
              /\ RowIs(RowOf(list, k)) /\ RowOf(list, k).id = Current(k).id
              /\ RowOf(list, k).date = Current(k).date /\ RowOf(list, k).worth = Current(k).worth
              /\ RowOf(list, k).doubtful = Current(k).doubtful
         /\ \A r, s \in ListedRows(list) : r.id = s.id => r = s
<1>1. PICK H : H = HeldBy(list.side, list.of) OBVIOUS
<1>2. H = ContractsOf(list.side, list.of) /\ H \subseteq PageContracts BY <1>1, HeldAre DEF Asked
<1>3. PICK rows : rows = ListedRows(list) OBVIOUS
<1>4. rows = {RowOf(list, k) : k \in H} BY <1>2, <1>3 DEF ListedRows, RowOf
<1>5. \A k : /\ RowOf(list, k).id = Current(k).id
             /\ RowOf(list, k).date = Current(k).date /\ RowOf(list, k).worth = Current(k).worth
             /\ RowOf(list, k).doubtful = Current(k).doubtful
  BY DEF RowOf, ListRow
<1>6. \A k \in H : RowIs(RowOf(list, k)) BY <1>2, <1>5, ContractsAre DEF RowIs
<1>7. \A k, l \in H : RowOf(list, k).id = RowOf(list, l).id => k = l BY <1>2, <1>5, ContractsAre
<1>8. PICK map : map = [k \in H |-> RowOf(list, k)] OBVIOUS
<1>9. map \in Bijection(H, rows)
  <2>1. map \in [H -> rows] BY <1>4, <1>8
  <2>2. \A k, l \in H : map[k] = map[l] => k = l BY <1>7, <1>8
  <2>3. \A r \in rows : \E k \in H : map[k] = r BY <1>4, <1>8
  <2>. QED BY <2>1, <2>2, <2>3 DEF Bijection, Injection, Surjection, IsInjective
<1>10. \A r, s \in rows : r.id = s.id => r = s BY <1>4, <1>7
<1>. QED BY <1>1, <1>3, <1>4, <1>5, <1>6, <1>8, <1>9, <1>10 DEF RowMap

LEMMA GrantsAre ==
  ASSUME GraphInv, NEW c
  PROVE  IsFiniteSet(GrantsOf(c)) /\ GrantsOf(c) \subseteq Nat
<1>1. PICK G : G = {g \in FactsOf("grant") : g.company = c} OBVIOUS
<1>2. G \in SUBSET written /\ \A g \in G : g \in GraphFact /\ g.kind = "grant"
  BY <1>1 DEF FactsOf, GraphInv
<1>3. IsFiniteSet(G) BY <1>2, FactsAre, FS_Subset
<1>4. GrantsOf(c) = {f.project : f \in G} BY <1>1 DEF GrantsOf
<1>5. PICK mk : mk = [g \in G |-> g.project] OBVIOUS
<1>6. mk \in Surjection(G, GrantsOf(c)) BY <1>4, <1>5 DEF Surjection
<1>7. IsFiniteSet(GrantsOf(c)) BY <1>3, <1>6, FS_Surjection
<1>. QED BY <1>2, <1>4, <1>7, PagesAssumption

LEMMA KeysAre ==
  ASSUME GraphInv, NEW list, Asked(list)
  PROVE  /\ \E n : Keyed(ListKeys(list), n)
         /\ Cardinality(DOMAIN ListKeys(list)) = CountOf(list)
         /\ list.side # "grants" =>
              /\ DOMAIN ListKeys(list) = ListedRows(list)
              /\ \A r \in ListedRows(list) : ListKeys(list)[r] = OrderKey(list.sort, r)
<1>1. PICK key : key = ListKeys(list) OBVIOUS
<1>2. CASE list.side = "grants"
  <2>1. PICK G : G = GrantsOf(list.of) /\ IsFiniteSet(G) /\ G \subseteq Nat BY GrantsAre
  <2>2. key = [g \in G |-> <<-g>>] BY <1>1, <1>2, <2>1 DEF ListKeys
  <2>3. DOMAIN key = G /\ \A g \in G : key[g] = <<-g>> BY <2>2
  <2>4. ASSUME NEW g \in G
        PROVE  IsKey(key[g], 1)
    <3>1. PICK k : k = <<-g>> OBVIOUS
    <3>2. DOMAIN k = 1..1 /\ k[1] = -g /\ -g \in Int BY <3>1, <2>1
    <3>. QED BY <3>1, <3>2, <2>3 DEF IsKey
  <2>5. ASSUME NEW g \in G, NEW h \in G, g # h
        PROVE  \E i \in 1..1 : key[g][i] # key[h][i]
    <3>1. key[g][1] = -g /\ key[h][1] = -h /\ -g # -h BY <2>1, <2>3, <2>5
    <3>. QED BY <3>1
  <2>6. Keyed(key, 1) BY <2>1, <2>3, <2>4, <2>5 DEF Keyed
  <2>. QED BY <1>1, <1>2, <2>1, <2>3, <2>6 DEF CountOf
<1>3. CASE list.side # "grants"
  <2>1. PICK rows : rows = ListedRows(list) OBVIOUS
  <2>2. DOMAIN key = rows /\ \A r \in rows : key[r] = OrderKey(list.sort, r)
    BY <1>1, <1>3, <2>1 DEF ListKeys
  <2>3. PICK H : H = HeldBy(list.side, list.of) OBVIOUS
  <2>4. IsFiniteSet(H) BY <2>3, HeldAre DEF Asked
  <2>5. PICK map \in Bijection(H, rows) : TRUE BY <2>1, <2>3, RowsAre
  <2>6. IsFiniteSet(rows) /\ Cardinality(rows) = Cardinality(H)
    <3>1. ExistsBijection(H, rows) BY <2>5 DEF ExistsBijection
    <3>. QED BY <2>4, <3>1, FS_Bijection
  <2>7. \A r \in rows : RowIs(r) BY <2>1, RowsAre
  <2>8. PICK n : n = KeyLength(list.sort) OBVIOUS
  <2>9. n \in Nat /\ n \in 1..n BY <2>8 DEF KeyLength
  <2>10. \A r \in rows : IsKey(key[r], n) /\ key[r][n] = r.id BY <2>2, <2>7, <2>8, OrderIs DEF Asked
  <2>11. \A r, s \in rows : r # s => key[r][n] # key[s][n] BY <2>1, <2>10, RowsAre
  <2>12. Keyed(key, n) BY <2>2, <2>6, <2>9, <2>10, <2>11 DEF Keyed
  <2>. QED BY <1>1, <1>3, <2>1, <2>2, <2>3, <2>6, <2>12 DEF CountOf
<1>. QED BY <1>2, <1>3

(* The total of a list.                                                    *)

LEMMA MoneyIs ==
  ASSUME NEW K, IsFiniteSet(K), NEW w, w = [k \in K |-> Trusted(k)]
  PROVE  \E total : Sums(total, K, w) /\ MoneyOf(K) = total[K]
<1>. DEFINE Iter(f) == f = [s \in SUBSET K |->
                             IF s = {} THEN 0
                             ELSE Trusted(CHOOSE x \in s : TRUE) + f[s \ {CHOOSE x \in s : TRUE}]]
<1>1. PICK pick : pick = [s \in SUBSET K |-> CHOOSE x \in s : TRUE] OBVIOUS
<1>2. \A s \in SUBSET K : s # {} => pick[s] \in s BY <1>1
<1>3. PICK f : SumOver(f, K, w, pick) BY <1>2, SumsExist
<1>4. Iter(f)
  <2>1. f = [s \in SUBSET K |-> IF s = {} THEN 0 ELSE w[pick[s]] + f[s \ {pick[s]}]]
    BY <1>3 DEF SumOver
  <2>2. \A s \in SUBSET K :
          (IF s = {} THEN 0 ELSE w[pick[s]] + f[s \ {pick[s]}]) =
          (IF s = {} THEN 0 ELSE Trusted(CHOOSE x \in s : TRUE) + f[s \ {CHOOSE x \in s : TRUE}])
    <3>. SUFFICES ASSUME NEW s \in SUBSET K, s # {}
                  PROVE  /\ w[pick[s]] = Trusted(CHOOSE x \in s : TRUE)
                         /\ pick[s] = CHOOSE x \in s : TRUE
      OBVIOUS
    <3>1. pick[s] = CHOOSE x \in s : TRUE BY <1>1
    <3>2. pick[s] \in K BY <1>2
    <3>. QED BY <3>1, <3>2
  <2>. QED BY <2>1, <2>2
<1>5. PICK iter : iter = CHOOSE g : Iter(g) OBVIOUS
<1>6. Iter(iter)
  <2>. HIDE DEF Iter
  <2>. QED BY <1>4, <1>5
<1>7. MoneyOf(K) = iter[K] BY <1>5 DEF MoneyOf, MapThenSumSet, MapThenFoldSet
<1>8. Sums(iter, K, w)
  <2>1. iter[{}] = 0 BY <1>6
  <2>2. ASSUME NEW s \in SUBSET K, s # {}
        PROVE  \E x \in s : iter[s] = w[x] + iter[s \ {x}]
    <3>1. PICK x \in s : x = CHOOSE y \in s : TRUE BY <2>2
    <3>2. iter[s] = Trusted(x) + iter[s \ {x}] BY <1>6, <2>2, <3>1
    <3>3. w[x] = Trusted(x) OBVIOUS
    <3>. QED BY <3>2, <3>3
  <2>. HIDE DEF Iter
  <2>. QED BY <2>1, <2>2 DEF Sums
<1>. QED BY <1>7, <1>8

\* The total of the rows that a page shows.
WorthOf(r) == IF r.doubtful THEN 0 ELSE r.worth

WorthMap(rows, n) == [i \in 1..n |-> WorthOf(rows[i])]

LEMMA TotalIs ==
  ASSUME NEW rows, NEW n \in Nat, DOMAIN rows = 1..n, \A i \in 1..n : WorthOf(rows[i]) \in Int
  PROVE  \E total : Sums(total, 1..n, WorthMap(rows, n)) /\ TotalOf(rows) = total[1..n]
<1>0. PICK w : w = [i \in 1..n |-> WorthOf(rows[i])] /\ w = WorthMap(rows, n) BY DEF WorthMap
<1>. DEFINE Iter(f) == f = [s \in SUBSET (1..n) |->
                             IF s = {} THEN 0
                             ELSE f[s \ {Max(s)}] + IF rows[Max(s)].doubtful THEN 0 ELSE rows[Max(s)].worth]
<1>1. PICK pick : pick = [s \in SUBSET (1..n) |-> Max(s)] OBVIOUS
<1>2. \A s \in SUBSET (1..n) : s # {} => pick[s] \in s
  <2>. SUFFICES ASSUME NEW s \in SUBSET (1..n), s # {} PROVE Max(s) \in s BY <1>1
  <2>1. IsFiniteSet(s)
    <3>1. IsFiniteSet(1..n) BY FS_Interval
    <3>. QED BY <3>1, FS_Subset
  <2>2. s \subseteq Int OBVIOUS
  <2>. QED BY <2>1, <2>2, GreatestIs
<1>3. IsFiniteSet(1..n) BY FS_Interval
<1>4. PICK f : SumOver(f, 1..n, w, pick) BY <1>2, <1>3, SumsExist
<1>5. f = [s \in SUBSET (1..n) |-> IF s = {} THEN 0 ELSE w[pick[s]] + f[s \ {pick[s]}]]
  BY <1>4 DEF SumOver
<1>6. \A i \in 1..n : w[i] \in Int BY <1>0
<1>7. Sums(f, 1..n, w)
  <2>1. f[{}] = 0 BY <1>5
  <2>2. \A s \in SUBSET (1..n) : s # {} => f[s] = w[pick[s]] + f[s \ {pick[s]}] BY <1>5
  <2>. QED BY <1>2, <2>1, <2>2 DEF Sums
<1>8. \A s \in SUBSET (1..n) : f[s] \in Int BY <1>3, <1>6, <1>7, SumsAreNumbers
<1>9. Iter(f)
  <2>1. ASSUME NEW s \in SUBSET (1..n), s # {}
        PROVE  f[s] = f[s \ {Max(s)}] + IF rows[Max(s)].doubtful THEN 0 ELSE rows[Max(s)].worth
    <3>1. PICK m \in s : m = Max(s) /\ m = pick[s] BY <1>1, <1>2, <2>1
    <3>2. m \in 1..n OBVIOUS
    <3>3. w[m] = IF rows[m].doubtful THEN 0 ELSE rows[m].worth BY <1>0, <3>2 DEF WorthOf
    <3>4. w[m] \in Int BY <1>6, <3>2
    <3>5. PICK r : r = s \ {m} OBVIOUS
    <3>6. f[r] \in Int BY <1>8, <3>5
    <3>7. w[m] + f[r] = f[r] + w[m] BY <3>4, <3>6
    <3>8. f[s] = w[m] + f[r] BY <1>5, <2>1, <3>1, <3>5
    <3>. QED BY <3>1, <3>3, <3>5, <3>7, <3>8
  <2>2. f[{}] = 0 /\ f = [s \in SUBSET (1..n) |-> f[s]] BY <1>5
  <2>3. \A s \in SUBSET (1..n) :
          f[s] = IF s = {} THEN 0
                 ELSE f[s \ {Max(s)}] + IF rows[Max(s)].doubtful THEN 0 ELSE rows[Max(s)].worth
    BY <2>1, <2>2
  <2>. QED BY <2>2, <2>3, Zenon
<1>10. PICK iter : iter = CHOOSE g : Iter(g) OBVIOUS
<1>11. Iter(iter)
  <2>. HIDE DEF Iter
  <2>. QED BY <1>9, <1>10
<1>12. TotalOf(rows) = iter[1..n] BY <1>10 DEF TotalOf, FoldLeft, MapThenFoldSet
<1>13. \A s \in SUBSET (1..n) : iter[s] = f[s]
  <2>. DEFINE Wrong == {s \in SUBSET (1..n) : iter[s] # f[s]}
              T == {Cardinality(s) : s \in Wrong}
  <2>. SUFFICES ASSUME Wrong # {} PROVE FALSE OBVIOUS
  <2>1. \A s \in SUBSET (1..n) : IsFiniteSet(s) /\ Cardinality(s) \in Nat
    BY <1>3, FS_Subset, FS_CardinalityType
  <2>2. T \subseteq Nat /\ T # {} BY <2>1
  <2>3. PICK t \in T : \A u \in T : t <= u
    <3>. HIDE DEF T
    <3>. QED BY <2>2, LeastNumber
  <2>4. PICK s \in Wrong : \A r \in Wrong : Cardinality(s) <= Cardinality(r) BY <2>3
  <2>5. s \in SUBSET (1..n) /\ iter[s] # f[s] BY <2>4
  <2>6. s # {} BY <2>5, <1>9, <1>11
  <2>7. PICK m \in s : m = Max(s) BY <1>1, <1>2, <2>5, <2>6
  <2>8. PICK r : r = s \ {m} OBVIOUS
  <2>9. r \in SUBSET (1..n) BY <2>5, <2>8
  <2>10. Cardinality(r) < Cardinality(s)
    <3>1. r \in SUBSET s /\ r # s BY <2>7, <2>8
    <3>2. Cardinality(r) <= Cardinality(s) /\ (Cardinality(s) = Cardinality(r) => s = r)
      BY <2>1, <2>5, <3>1, FS_Subset
    <3>. QED BY <2>1, <2>5, <2>9, <3>1, <3>2
  <2>11. iter[r] = f[r]
    <3>1. r \notin Wrong BY <2>1, <2>4, <2>5, <2>9, <2>10
    <3>. QED BY <2>9, <3>1
  <2>12. iter[s] = iter[r] + IF rows[m].doubtful THEN 0 ELSE rows[m].worth BY <1>11, <2>5, <2>6, <2>7, <2>8
  <2>13. f[s] = f[r] + IF rows[m].doubtful THEN 0 ELSE rows[m].worth BY <1>9, <2>5, <2>6, <2>7, <2>8
  <2>. HIDE DEF Wrong, T, Iter
  <2>. QED BY <2>5, <2>11, <2>12, <2>13
<1>14. 1..n \in SUBSET (1..n) OBVIOUS
<1>. HIDE DEF Iter
<1>. QED BY <1>0, <1>7, <1>12, <1>13, <1>14

LEMMA TotalAgrees ==
  ASSUME GraphInv, NEW list, Asked(list), list.side # "grants",
         NEW rows \in Seq(ListedRows(list)), \A i, j \in DOMAIN rows : rows[i] = rows[j] => i = j,
         \A r \in ListedRows(list) : \E i \in DOMAIN rows : rows[i] = r
  PROVE  MoneyOf(HeldBy(list.side, list.of)) = TotalOf(rows)
<1>1. PICK H : H = HeldBy(list.side, list.of) OBVIOUS
<1>2. IsFiniteSet(H) /\ H \subseteq PageContracts BY <1>1, HeldAre DEF Asked
<1>3. PICK R : R = ListedRows(list) OBVIOUS
<1>4. PICK n \in Nat : n = Len(rows) /\ DOMAIN rows = 1..n /\ \A i \in 1..n : rows[i] \in R BY <1>3
<1>5. PICK v : v = [k \in H |-> Trusted(k)] OBVIOUS
<1>6. PICK total : Sums(total, H, v) /\ MoneyOf(H) = total[H] BY <1>2, <1>5, MoneyIs
<1>7. /\ R = {RowOf(list, k) : k \in H}
      /\ \A k \in H : /\ RowIs(RowOf(list, k)) /\ RowOf(list, k).id = Current(k).id
                      /\ RowOf(list, k).worth = Current(k).worth
                      /\ RowOf(list, k).doubtful = Current(k).doubtful
  BY <1>1, <1>3, RowsAre
<1>8. \A k, l \in H : RowOf(list, k) = RowOf(list, l) => k = l BY <1>2, <1>7, ContractsAre
<1>9. \A k \in H : v[k] = WorthOf(RowOf(list, k)) /\ v[k] \in Int
  <2>. SUFFICES ASSUME NEW k \in H PROVE v[k] = WorthOf(RowOf(list, k)) /\ v[k] \in Int OBVIOUS
  <2>1. v[k] = IF Current(k).doubtful THEN 0 ELSE Current(k).worth BY <1>5 DEF Trusted
  <2>2. Current(k).doubtful \in BOOLEAN /\ Current(k).worth \in Int BY <1>2, ContractsAre
  <2>3. WorthOf(RowOf(list, k)) = IF RowOf(list, k).doubtful THEN 0 ELSE RowOf(list, k).worth BY DEF WorthOf
  <2>4. RowOf(list, k).doubtful = Current(k).doubtful /\ RowOf(list, k).worth = Current(k).worth
    BY <1>7
  <2>. QED BY <2>1, <2>2, <2>3, <2>4
<1>10. PICK w : w = [i \in 1..n |-> WorthOf(rows[i])] OBVIOUS
<1>11. PICK b : b = [i \in 1..n |-> CHOOSE k \in H : RowOf(list, k) = rows[i]] OBVIOUS
<1>12. \A i \in 1..n : b[i] \in H /\ RowOf(list, b[i]) = rows[i] /\ v[b[i]] = w[i] /\ w[i] \in Int
  <2>. SUFFICES ASSUME NEW i \in 1..n
                PROVE  b[i] \in H /\ RowOf(list, b[i]) = rows[i] /\ v[b[i]] = w[i] /\ w[i] \in Int
    OBVIOUS
  <2>1. \E k \in H : RowOf(list, k) = rows[i] BY <1>4, <1>7
  <2>2. b[i] \in H /\ RowOf(list, b[i]) = rows[i] BY <1>11, <2>1
  <2>3. w[i] = WorthOf(rows[i]) BY <1>10
  <2>. QED BY <1>9, <2>2, <2>3
<1>13. b \in Bijection(1..n, H)
  <2>1. b \in [1..n -> H] BY <1>11, <1>12
  <2>2. \A i, j \in 1..n : b[i] = b[j] => i = j BY <1>4, <1>12
  <2>3. \A k \in H : \E i \in 1..n : b[i] = k
    <3>. SUFFICES ASSUME NEW k \in H PROVE \E i \in 1..n : b[i] = k OBVIOUS
    <3>1. RowOf(list, k) \in R BY <1>7
    <3>2. PICK i \in 1..n : rows[i] = RowOf(list, k) BY <1>3, <1>4, <3>1
    <3>. QED BY <3>2, <1>8, <1>12
  <2>. QED BY <2>1, <2>2, <2>3 DEF Bijection, Injection, Surjection, IsInjective
<1>14. IsFiniteSet(1..n) BY FS_Interval
<1>15. \A i \in 1..n : WorthOf(rows[i]) \in Int BY <1>10, <1>12
<1>16. PICK sum : Sums(sum, 1..n, w) /\ TotalOf(rows) = sum[1..n]
  <2>1. DOMAIN rows = 1..n BY <1>4
  <2>2. w = WorthMap(rows, n) BY <1>10 DEF WorthMap
  <2>. QED BY <2>1, <2>2, <1>15, TotalIs
<1>17. sum[1..n] = total[H]
  <2>1. PICK D : D = 1..n OBVIOUS
  <2>2. (\A i \in D : w[i] \in Int) /\ \A i \in D : v[b[i]] = w[i] BY <1>12, <2>1
  <2>3. Sums(sum, D, w) /\ Sums(total, H, v) /\ IsFiniteSet(D) /\ b \in Bijection(D, H)
    BY <1>6, <1>13, <1>14, <1>16, <2>1
  <2>4. sum[D] = total[H] BY <2>2, <2>3, <1>2, SumsAgree
  <2>. QED BY <2>1, <2>4
<1>. QED BY <1>1, <1>6, <1>16, <1>17

(* What holds between the statements of a list.                            *)

ListFields == {"pc", "calm", "side", "of", "sort", "limit"}
RowsInv ==
  view.pc = "rows" => DOMAIN view = ListFields /\ Asked(view) /\ view.calm \in BOOLEAN
TotalsInv ==
  view.pc = "totals" =>
    /\ DOMAIN view = ListFields \union {"rows"} /\ Asked(view) /\ view.calm \in BOOLEAN
    /\ Len(view.rows) \in Nat /\ Len(view.rows) <= CountOf(view)
    /\ view.side # "grants" =>
         \A i, j \in DOMAIN view.rows : view.rows[i].id = view.rows[j].id => i = j
    /\ view.calm => view.rows = Top(ListKeys(view), view.limit)

LEMMA Quiet == view.pc # "answered" => PagesAgree
  BY DEF PagesAgree, ListsAgree, DetailIsOfTheNotice, LinksOpenTheNotice, SearchIsWhole, Answers

\* What a list of the graph shows.
LEMMA TopRows ==
  ASSUME GraphInv, NEW list, Asked(list), NEW rows, rows = Top(ListKeys(list), list.limit)
  PROVE  /\ Len(rows) \in Nat /\ CountOf(list) \in Nat
         /\ Len(rows) = Min({list.limit, CountOf(list)}) /\ Len(rows) <= CountOf(list)
         /\ list.side # "grants" =>
              /\ rows \in Seq(ListedRows(list))
              /\ \A i, j \in DOMAIN rows : rows[i].id = rows[j].id => i = j
              /\ \A r \in ListedRows(list) :
                   (\E i \in DOMAIN rows : rows[i] = r)
                   \/ \A i \in DOMAIN rows : KeyLess(OrderKey(list.sort, rows[i]), OrderKey(list.sort, r))
              /\ CountOf(list) <= list.limit =>
                   \A r \in ListedRows(list) : \E i \in DOMAIN rows : rows[i] = r
<1>1. PICK key : key = ListKeys(list) OBVIOUS
<1>2. PICK n : Keyed(key, n) BY <1>1, KeysAre
<1>3. PICK limit \in Nat : limit = list.limit BY DEF Asked
<1>4. Cardinality(DOMAIN key) = CountOf(list) BY <1>1, KeysAre
<1>5. FirstOf(rows, key) /\ Len(rows) = Min({limit, Cardinality(DOMAIN key)})
  BY <1>1, <1>2, <1>3, TopIs
<1>6. CountOf(list) \in Nat BY <1>2, <1>4, FS_CardinalityType DEF Keyed
<1>7. /\ Len(rows) \in Nat /\ Len(rows) <= Cardinality(DOMAIN key)
      /\ Len(rows) < limit \/ Cardinality(DOMAIN key) <= limit =>
           \A r \in DOMAIN key : \E i \in DOMAIN rows : rows[i] = r
  <2>1. Whole(rows, key, limit) BY <1>1, <1>2, <1>3, TopIsWhole
  <2>. QED BY <2>1 DEF Whole
<1>8. ASSUME list.side # "grants"
      PROVE  /\ rows \in Seq(ListedRows(list))
             /\ \A i, j \in DOMAIN rows : rows[i].id = rows[j].id => i = j
             /\ \A r \in ListedRows(list) :
                  (\E i \in DOMAIN rows : rows[i] = r)
                  \/ \A i \in DOMAIN rows : KeyLess(OrderKey(list.sort, rows[i]), OrderKey(list.sort, r))
             /\ CountOf(list) <= list.limit =>
                  \A r \in ListedRows(list) : \E i \in DOMAIN rows : rows[i] = r
  <2>1. PICK R : R = ListedRows(list) OBVIOUS
  <2>2. DOMAIN key = R /\ \A r \in R : key[r] = OrderKey(list.sort, r) BY <1>1, <1>8, <2>1, KeysAre
  <2>3. /\ rows \in Seq(R)
        /\ \A i, j \in DOMAIN rows : rows[i] = rows[j] => i = j
        /\ \A r \in R : (\E i \in DOMAIN rows : rows[i] = r)
                        \/ \A i \in DOMAIN rows : KeyLess(key[rows[i]], key[r])
    BY <1>5, <2>2 DEF FirstOf
  <2>4. \A i \in DOMAIN rows : rows[i] \in R BY <2>3
  <2>5. \A r, s \in R : r.id = s.id => r = s BY <2>1, RowsAre
  <2>6. \A i, j \in DOMAIN rows : rows[i].id = rows[j].id => i = j BY <2>3, <2>4, <2>5
  <2>7. \A r \in R : (\E i \in DOMAIN rows : rows[i] = r)
          \/ \A i \in DOMAIN rows : KeyLess(OrderKey(list.sort, rows[i]), OrderKey(list.sort, r))
    BY <2>2, <2>3, <2>4
  <2>8. CountOf(list) <= list.limit => \A r \in R : \E i \in DOMAIN rows : rows[i] = r
    BY <1>3, <1>4, <1>7, <2>2
  <2>. QED BY <2>1, <2>3, <2>6, <2>7, <2>8
<1>. QED BY <1>3, <1>4, <1>5, <1>6, <1>7, <1>8

LEMMA StillGraph ==
  ASSUME UNCHANGED written
  PROVE  /\ \A kind : FactsOf(kind)' = FactsOf(kind)
         /\ PageContracts' = PageContracts
         /\ \A k : /\ Chain(k)' = Chain(k) /\ Current(k)' = Current(k)
                   /\ BuyersOf(k)' = BuyersOf(k) /\ WinnersOf(k)' = WinnersOf(k)
         /\ \A s, x : HeldBy(s, x)' = HeldBy(s, x) /\ InGraph(s, x)' = InGraph(s, x)
         /\ \A sort, r, k : NoneBefore(sort, r, k)' = NoneBefore(sort, r, k)
         /\ \A c : GrantsOf(c)' = GrantsOf(c)
<1>1. \A kind : FactsOf(kind)' = FactsOf(kind) BY DEF FactsOf
<1>2. PageContracts' = PageContracts BY <1>1 DEF PageContracts
<1>3. \A k : Chain(k)' = Chain(k) BY <1>1 DEF Chain
<1>4. \A k : Current(k)' = Current(k) BY <1>3 DEF Current
<1>5. \A k : BuyersOf(k)' = BuyersOf(k) /\ WinnersOf(k)' = WinnersOf(k) BY <1>3 DEF BuyersOf, WinnersOf
<1>6. \A x, y : OneEntity(x, y)' <=> OneEntity(x, y) BY <1>1 DEF OneEntity
<1>7. \A s, x : HeldBy(s, x)' = HeldBy(s, x) BY <1>2, <1>5, <1>6 DEF HeldBy
<1>8. \A s, x : InGraph(s, x)' = InGraph(s, x) BY <1>1 DEF InGraph
<1>9. \A sort, r, k : NoneBefore(sort, r, k)' = NoneBefore(sort, r, k)
  <2>. SUFFICES ASSUME NEW sort, NEW r, NEW k
                PROVE  NoneBefore(sort, r, k)' = NoneBefore(sort, r, k)
    OBVIOUS
  <2>1. PICK n : n = Current(k) /\ n = Current(k)' BY <1>4
  <2>. QED BY <2>1 DEF NoneBefore
<1>10. \A c : GrantsOf(c)' = GrantsOf(c) BY <1>1 DEF GrantsOf
<1>. QED BY <1>1, <1>2, <1>3, <1>4, <1>5, <1>7, <1>8, <1>9, <1>10

LEMMA StillListed ==
  ASSUME UNCHANGED written
  PROVE  \A list : ListKeys(list)' = ListKeys(list) /\ CountOf(list)' = CountOf(list)
<1>1. \A S : Beside(S)' = Beside(S) BY StillGraph DEF Beside
<1>2. \A x : IdentityClass(x)' = IdentityClass(x) BY <1>1 DEF IdentityClass
<1>3. \A s, x : ContractsOf(s, x)' = ContractsOf(s, x)
  BY <1>2, StillGraph DEF ContractsOf, CompanyContracts, BuyerContracts
<1>4. \A k, others : ListRow(k, others)' = ListRow(k, others) BY StillGraph DEF ListRow
<1>5. \A list : ListedRows(list)' = ListedRows(list) BY <1>3, <1>4, StillGraph DEF ListedRows
<1>6. \A list : ListKeys(list)' = ListKeys(list) BY <1>5, StillGraph DEF ListKeys
<1>7. \A list : CountOf(list)' = CountOf(list) BY StillGraph DEF CountOf
<1>. QED BY <1>6, <1>7

LEMMA SameList ==
  ASSUME NEW l, NEW m, l.side = m.side, l.of = m.of, l.sort = m.sort
  PROVE  ListKeys(l) = ListKeys(m) /\ CountOf(l) = CountOf(m)
<1>1. ListedRows(l) = ListedRows(m) BY DEF ListedRows
<1>. QED BY <1>1 DEF ListKeys, CountOf

(* The statements of a list.                                               *)

\* The parts of PagesAgree that are about other pages.
NotListed == ~Answers("found") /\ ~Answers("titled") /\ ~Answers("link") /\ ~Answers("hits")

LEMMA ListAlone == ListsAgree /\ NotListed => PagesAgree
  BY DEF PagesAgree, DetailIsOfTheNotice, LinksOpenTheNotice, SearchIsWhole, NotListed

LEMMA ListAsked ==
  ASSUME GraphInv, NEW list \in ListQuery, AskList(list)
  PROVE  (RowsInv /\ TotalsInv /\ PagesAgree)' /\ view'.pc \in {"rows", "answered"}
<1>1. Asked(list) /\ DOMAIN list = {"side", "of", "sort", "limit"}
  <2>1. list \in [side : {"company", "buyer", "grants"}, of : PageCompany \union Buyer,
                  sort : {"recent", "oldest", "value_desc", "value_asc"}, limit : Nat]
    BY PagesAssumption
  <2>. QED BY <2>1 DEF Asked, Records, Sorts
<1>2. CASE InGraph(list.side, list.of)
  <2>1. view' = With(list, [pc |-> "rows", calm |-> TRUE]) BY <1>2 DEF AskList, Request
  <2>2. /\ DOMAIN view' = ListFields /\ view'.pc = "rows" /\ view'.calm = TRUE
        /\ view'.side = list.side /\ view'.of = list.of /\ view'.sort = list.sort /\ view'.limit = list.limit
    BY <2>1, <1>1 DEF With, ListFields
  <2>3. PagesAgree'
    <3>1. (view.pc # "answered" => PagesAgree)' BY Quiet, PTL
    <3>. QED BY <3>1, <2>2
  <2>4. Asked(view)' BY <1>1, <2>2 DEF Asked, Records
  <2>. QED BY <2>2, <2>3, <2>4 DEF RowsInv, TotalsInv
<1>3. CASE ~InGraph(list.side, list.of)
  <2>1. PICK none : none = [rows |-> <<>>, count |-> 0, money |-> 0] OBVIOUS
  <2>2. view' = With(With(none, list), [pc |-> "answered", calm |-> TRUE])
    BY <1>3, <2>1 DEF AskList, Request
  <2>3. PICK fields : fields = With(none, list) OBVIOUS
  <2>4. /\ DOMAIN fields = {"rows", "count", "money", "side", "of", "sort", "limit"}
        /\ fields.rows = <<>> /\ fields.count = 0 /\ fields.money = 0
        /\ fields.side = list.side /\ fields.of = list.of /\ fields.limit = list.limit
    BY <2>1, <2>3, <1>1 DEF With
  <2>5. view' = With(fields, [pc |-> "answered", calm |-> TRUE]) BY <2>2, <2>3
  <2>6. /\ DOMAIN view' = {"rows", "count", "money", "side", "of", "sort", "limit", "pc", "calm"}
        /\ view'.pc = "answered" /\ view'.rows = <<>> /\ view'.count = 0
        /\ view'.side = list.side /\ view'.of = list.of /\ view'.limit = list.limit
    BY <2>4, <2>5 DEF With
  <2>7. NotListed' BY <2>6 DEF NotListed, Answers
  <2>8. ~InGraph(view.side, view.of)'
    <3>1. UNCHANGED written BY DEF AskList
    <3>2. \A s, x : InGraph(s, x)' = InGraph(s, x) BY <3>1, StillGraph
    <3>. QED BY <1>3, <2>6, <3>2
  <2>9. Len(view'.rows) = Min({view'.limit, view'.count})
    <3>1. Min({list.limit, 0}) = 0 BY <1>1, MinOfTwo DEF Asked
    <3>. QED BY <3>1, <2>6
  <2>10. ListsAgree'
    <3>1. Len(view'.rows) <= view'.count /\ DOMAIN view'.rows = {} BY <2>6
    <3>. QED BY <2>6, <2>8, <2>9, <3>1 DEF ListsAgree
  <2>11. PagesAgree' BY <2>7, <2>10, ListAlone, PTL
  <2>. QED BY <2>6, <2>11 DEF RowsInv, TotalsInv
<1>. QED BY <1>2, <1>3

LEMMA ListRead ==
  ASSUME GraphInv, RowsInv, ListRows
  PROVE  (RowsInv /\ TotalsInv /\ PagesAgree)' /\ view'.pc = "totals"
<1>1. PICK rows : rows = Top(ListKeys(view), view.limit) OBVIOUS
<1>2. DOMAIN view = ListFields /\ Asked(view) /\ view.calm \in BOOLEAN /\ view.pc = "rows"
  BY DEF RowsInv, ListRows
<1>3. view' = With([rows |-> rows], [view EXCEPT !.pc = "totals"]) /\ UNCHANGED written
  BY <1>1 DEF ListRows, Then
<1>4. PICK v : v = view' OBVIOUS
<1>5. /\ DOMAIN v = ListFields \union {"rows"} /\ v.pc = "totals" /\ v.rows = rows
      /\ v.side = view.side /\ v.of = view.of /\ v.sort = view.sort /\ v.limit = view.limit
      /\ v.calm = view.calm
  BY <1>2, <1>3, <1>4 DEF With, ListFields
<1>6. ListKeys(v) = ListKeys(view) /\ CountOf(v) = CountOf(view) BY <1>5, SameList
<1>7. /\ Len(rows) \in Nat /\ Len(rows) <= CountOf(v)
      /\ v.side # "grants" => \A i, j \in DOMAIN rows : rows[i].id = rows[j].id => i = j
      /\ rows = Top(ListKeys(v), v.limit)
  BY <1>1, <1>2, <1>5, <1>6, TopRows
<1>8. ListKeys(view)' = ListKeys(v) /\ CountOf(view)' = CountOf(v) BY <1>3, <1>4, StillListed
<1>9. Asked(view)' BY <1>2, <1>4, <1>5 DEF Asked, Records
<1>10. TotalsInv' BY <1>2, <1>4, <1>5, <1>7, <1>8, <1>9 DEF TotalsInv
<1>11. PagesAgree'
  <2>1. (view.pc # "answered" => PagesAgree)' BY Quiet, PTL
  <2>. QED BY <2>1, <1>4, <1>5
<1>. QED BY <1>4, <1>5, <1>10, <1>11 DEF RowsInv

LEMMA ListCounted ==
  ASSUME GraphInv, TotalsInv, ListTotals
  PROVE  PagesAgree' /\ view'.pc = "answered"
<1>1. /\ DOMAIN view = ListFields \union {"rows"} /\ Asked(view) /\ view.calm \in BOOLEAN
      /\ Len(view.rows) <= CountOf(view)
      /\ view.side # "grants" =>
           \A i, j \in DOMAIN view.rows : view.rows[i].id = view.rows[j].id => i = j
      /\ view.calm => view.rows = Top(ListKeys(view), view.limit)
  BY DEF TotalsInv, ListTotals
<1>2. PICK list : list = view OBVIOUS
<1>3. PICK H : H = HeldBy(view.side, view.of) OBVIOUS
<1>4. ToTotal(view.side, view.of) = H BY <1>1, <1>3, HeldAre DEF Asked
<1>5. PICK money : money = IF view.side = "grants" THEN 0 ELSE MoneyOf(H) OBVIOUS
<1>6. view' = With([count |-> CountOf(view), money |-> money], [view EXCEPT !.pc = "answered"])
  BY <1>3, <1>4, <1>5 DEF ListTotals, Answered, CountOf
<1>7. PICK v : v = view' OBVIOUS
<1>8. /\ DOMAIN v = ListFields \union {"rows", "count", "money"} /\ v.pc = "answered"
      /\ v.count = CountOf(view) /\ v.money = money /\ v.rows = view.rows
      /\ v.side = view.side /\ v.of = view.of /\ v.sort = view.sort /\ v.limit = view.limit
      /\ v.calm = view.calm
  BY <1>1, <1>6, <1>7 DEF With, ListFields
<1>9. UNCHANGED written BY DEF ListTotals
<1>10. NotListed' BY <1>7, <1>8 DEF NotListed, Answers, ListFields
<1>11. view.calm =>
         /\ Len(view.rows) \in Nat
         /\ Len(view.rows) = Min({view.limit, CountOf(view)})
         /\ view.side # "grants" =>
              /\ view.rows \in Seq(ListedRows(view))
              /\ \A r \in ListedRows(view) :
                   (\E i \in DOMAIN view.rows : view.rows[i] = r)
                   \/ \A i \in DOMAIN view.rows :
                        KeyLess(OrderKey(view.sort, view.rows[i]), OrderKey(view.sort, r))
              /\ CountOf(view) <= view.limit =>
                   \A r \in ListedRows(view) : \E i \in DOMAIN view.rows : view.rows[i] = r
  BY <1>1, TopRows
<1>12. ASSUME view.calm, view.side # "grants", NEW r \in ToSet(view.rows), NEW k \in H
       PROVE  Current(k).id \in {s.id : s \in ToSet(view.rows)} \/ NoneBefore(view.sort, r, k)
  <2>1. PICK R : R = ListedRows(view) OBVIOUS
  <2>2. PICK s \in R : /\ RowIs(s) /\ s.id = Current(k).id /\ s.date = Current(k).date
                       /\ s.worth = Current(k).worth
    BY <1>1, <1>3, <1>12, <2>1, RowsAre
  <2>3. PICK rows \in Seq(R) : rows = view.rows BY <1>11, <1>12, <2>1
  <2>4. ToSet(rows) = {rows[i] : i \in DOMAIN rows} BY DEF ToSet
  <2>5. PICK i \in DOMAIN rows : r = rows[i] BY <1>12, <2>3, <2>4
  <2>6. CASE \E j \in DOMAIN rows : rows[j] = s
    <3>1. s \in ToSet(rows) BY <2>4, <2>6
    <3>. QED BY <3>1, <2>2, <2>3
  <2>7. CASE ~ \E j \in DOMAIN rows : rows[j] = s
    <3>1. KeyLess(OrderKey(view.sort, r), OrderKey(view.sort, s))
      BY <1>11, <1>12, <2>1, <2>3, <2>5, <2>7
    <3>2. r \in R BY <2>5
    <3>3. RowIs(r)
      <4>1. \E l \in H : r = RowOf(view, l) BY <1>1, <1>3, <1>12, <2>1, <3>2, RowsAre
      <4>. QED BY <4>1, <1>1, <1>3, <1>12, RowsAre
    <3>4. view.sort \in Sorts BY <1>1 DEF Asked
    <3>. QED BY <3>1, <3>3, <3>4, <2>2, OrderHolds
  <2>. QED BY <2>6, <2>7
<1>13. ASSUME view.calm, view.side # "grants", CountOf(view) <= view.limit
       PROVE  money = TotalOf(view.rows)
  <2>1. PICK R : R = ListedRows(view) OBVIOUS
  <2>2. /\ view.rows \in Seq(R) /\ \A r \in R : \E i \in DOMAIN view.rows : view.rows[i] = r
        /\ \A i, j \in DOMAIN view.rows : view.rows[i] = view.rows[j] => i = j
    BY <1>1, <1>11, <1>13, <2>1
  <2>3. MoneyOf(HeldBy(view.side, view.of)) = TotalOf(view.rows)
    BY <1>1, <1>13, <2>1, <2>2, TotalAgrees
  <2>. QED BY <2>3, <1>3, <1>5, <1>13
<1>14. ListsAgree'
  <2>1. HeldBy(view.side, view.of)' = H
    <3>1. \A s, x : HeldBy(s, x)' = HeldBy(s, x) BY <1>9, StillGraph
    <3>. QED BY <3>1, <1>3, <1>7, <1>8
  <2>2. (\A k : Current(k)' = Current(k)) /\ \A sort, r, k : NoneBefore(sort, r, k)' = NoneBefore(sort, r, k)
    BY <1>9, StillGraph
  <2>3. view.side # "grants" => CountOf(view) = Cardinality(H) BY <1>3 DEF CountOf
  <2>5. view' = v BY <1>7
  <2>6. /\ Len(v.rows) <= v.count
        /\ v.side # "grants" => \A i, j \in DOMAIN v.rows : v.rows[i].id = v.rows[j].id => i = j
        /\ v.calm => Len(v.rows) = Min({v.limit, v.count})
        /\ v.calm /\ v.side # "grants" => v.count = Cardinality(H)
        /\ v.calm /\ v.side # "grants" /\ v.count <= v.limit => v.money = TotalOf(v.rows)
    BY <1>1, <1>8, <1>11, <1>13, <2>3
  <2>7. v.calm /\ v.side # "grants" =>
          \A r \in ToSet(v.rows), k \in H :
             Current(k)'.id \in {s.id : s \in ToSet(v.rows)} \/ NoneBefore(v.sort, r, k)'
    BY <1>8, <1>12, <2>2
  <2>. QED BY <2>1, <2>5, <2>6, <2>7 DEF ListsAgree
<1>15. PagesAgree' BY <1>10, <1>14, ListAlone, PTL
<1>. QED BY <1>7, <1>8, <1>15

(* The page of one contract.                                               *)

DetailFields == {"pc", "calm", "notice", "found", "contract", "own", "worth", "buyer", "winner",
                 "framework", "undisclosed"}
DetailIs(v) ==
  /\ v.calm \in BOOLEAN /\ v.found = TRUE
  /\ v.contract \in PageContracts /\ \E n \in Chain(v.contract) : n.id = v.notice
  /\ v.calm => v.own = Current(v.contract).id
  /\ v.undisclosed => v.winner = Nobody
SiblingsInv == view.pc = "siblings" => DOMAIN view = DetailFields /\ DetailIs(view)
CountInv ==
  view.pc = "siblingCount" =>
    /\ DOMAIN view = DetailFields \union {"siblings"} /\ DetailIs(view)
    /\ view.calm =>
         /\ \A s \in ToSet(view.siblings) : s.contract # view.contract
         /\ Len(view.siblings) = Min({SiblingLimit, Cardinality(SiblingsOf)})

NotDetailed == ~Answers("rows") /\ ~Answers("link") /\ ~Answers("hits")

LEMMA DetailAlone == DetailIsOfTheNotice /\ NotDetailed => PagesAgree
  BY DEF PagesAgree, ListsAgree, LinksOpenTheNotice, SearchIsWhole, NotDetailed

\* The first statement of the page of contract k.
DetailOf(id, k, a, c) ==
  LET own == Current(k)
  IN  [notice |-> id, found |-> TRUE, contract |-> k, own |-> own.id, worth |-> own.worth,
       buyer |-> a, winner |-> c, framework |-> own.framework,
       undisclosed |-> c = Nobody /\ WithheldSuppliers(own.withheld, own.rules) # <<>>]
ShowsDetail(id, k, a, c) ==
  view' = IF Current(k).framework = NoKey
          THEN Request("answered", With([siblings |-> <<>>, count |-> 0, linked |-> FALSE],
                                        DetailOf(id, k, a, c)))
          ELSE Request("siblings", DetailOf(id, k, a, c))

LEMMA DetailAsked ==
  ASSUME GraphInv, NEW id, AskDetail(id)
  PROVE  (SiblingsInv /\ CountInv /\ PagesAgree)' /\ view'.pc \in {"siblings", "answered"}
<1>1. PICK v : v = view' OBVIOUS
<1>2. /\ UNCHANGED written /\ FactsOf("notice")' = FactsOf("notice") /\ PageContracts' = PageContracts
      /\ \A k : Chain(k)' = Chain(k) /\ Current(k)' = Current(k)
  BY StillGraph DEF AskDetail
<1>3. CASE /\ ~ \E k \in NoticeOf(id) : BuyersOf(k) # {}
           /\ view' = Request("answered", [notice |-> id, found |-> FALSE])
  <2>1. /\ DOMAIN v = {"pc", "calm", "notice", "found"} /\ v.pc = "answered"
        /\ v.notice = id /\ v.found = FALSE
    BY <1>1, <1>3 DEF Request, With
  <2>2. ~ \E n \in FactsOf("notice") : n.id = id
    <3>. SUFFICES ASSUME NEW n \in FactsOf("notice"), n.id = id PROVE FALSE OBVIOUS
    <3>1. n.contract \in PageContracts /\ n \in Chain(n.contract) BY DEF PageContracts, Chain
    <3>2. n.contract \in NoticeOf(id) BY <3>1 DEF NoticeOf
    <3>. QED BY <3>1, <3>2, <1>3, ContractsAre
  <2>3. NotDetailed' BY <1>1, <2>1 DEF NotDetailed, Answers
  <2>4. ~Answers("titled")' BY <1>1, <2>1 DEF Answers
  <2>5. DetailIsOfTheNotice' BY <1>1, <1>2, <2>1, <2>2, <2>4 DEF DetailIsOfTheNotice
  <2>6. PagesAgree' BY <2>3, <2>5, DetailAlone, PTL
  <2>. QED BY <1>1, <2>1, <2>6 DEF SiblingsInv, CountInv
<1>4. ASSUME NEW k \in NoticeOf(id), NEW a \in Buyer, NEW c \in PageCompany \union {Nobody},
             ShowsDetail(id, k, a, c)
      PROVE  (SiblingsInv /\ CountInv /\ PagesAgree)' /\ view'.pc \in {"siblings", "answered"}
  <2>0. PICK own, detail : own = Current(k) /\ detail = DetailOf(id, k, a, c) OBVIOUS
  <2>1. /\ DOMAIN detail = DetailFields \ {"pc", "calm"}
        /\ detail.notice = id /\ detail.found = TRUE /\ detail.contract = k /\ detail.own = own.id
        /\ detail.winner = c
        /\ detail.undisclosed => c = Nobody
    BY <2>0 DEF DetailFields, DetailOf
  <2>2. k \in PageContracts /\ \E n \in Chain(k) : n.id = id BY DEF NoticeOf
  <2>3. CASE own.framework = NoKey
    <3>1. PICK fields : fields = With([siblings |-> <<>>, count |-> 0, linked |-> FALSE], detail) OBVIOUS
    <3>2. /\ DOMAIN fields = (DetailFields \ {"pc", "calm"}) \union {"siblings", "count", "linked"}
          /\ fields.siblings = <<>> /\ fields.count = 0
          /\ fields.notice = id /\ fields.found = TRUE /\ fields.contract = k
          /\ fields.winner = c /\ fields.undisclosed = detail.undisclosed
      BY <2>1, <3>1 DEF With, DetailFields
    <3>3. v = With(fields, [pc |-> "answered", calm |-> TRUE])
      BY <1>1, <1>4, <2>0, <2>3, <3>1 DEF Request, ShowsDetail
    <3>4. /\ DOMAIN v = DetailFields \union {"siblings", "count", "linked"}
          /\ v.pc = "answered" /\ v.siblings = <<>> /\ v.count = 0
          /\ v.notice = id /\ v.found = TRUE /\ v.contract = k
          /\ v.winner = c /\ v.undisclosed = detail.undisclosed
      BY <3>2, <3>3 DEF With, DetailFields
    <3>5. NotDetailed' BY <1>1, <3>4 DEF NotDetailed, Answers, DetailFields
    <3>6. ~Answers("titled")' BY <1>1, <3>4 DEF Answers, DetailFields
    <3>7. Min({SiblingLimit, 0}) = 0
      <4>1. SiblingLimit \in Nat BY PagesAssumption
      <4>. QED BY <4>1, MinOfTwo
    <3>8. Len(v.siblings) = 0 /\ ToSet(v.siblings) = {} BY <3>4 DEF ToSet
    <3>9. \E n \in FactsOf("notice") : n.id = id BY <2>2 DEF Chain
    <3>10. DetailIsOfTheNotice'
      BY <1>1, <1>2, <2>1, <2>2, <3>4, <3>6, <3>7, <3>8, <3>9 DEF DetailIsOfTheNotice
    <3>11. PagesAgree' BY <3>5, <3>10, DetailAlone, PTL
    <3>. QED BY <1>1, <3>4, <3>11 DEF SiblingsInv, CountInv
  <2>4. CASE own.framework # NoKey
    <3>1. v = With(detail, [pc |-> "siblings", calm |-> TRUE])
      BY <1>1, <1>4, <2>0, <2>4 DEF Request, ShowsDetail
    <3>2. /\ DOMAIN v = DetailFields /\ v.pc = "siblings" /\ v.calm = TRUE
          /\ v.notice = id /\ v.found = TRUE /\ v.contract = k /\ v.own = own.id
          /\ v.winner = c /\ v.undisclosed = detail.undisclosed
      BY <2>1, <3>1 DEF With, DetailFields
    <3>3. DetailIs(view)'
      <4>1. v.calm \in BOOLEAN /\ v.found = TRUE BY <3>2
      <4>2. v.contract \in PageContracts' BY <1>2, <2>2, <3>2
      <4>3. \E n \in Chain(v.contract)' : n.id = v.notice BY <1>2, <2>2, <3>2
      <4>4. v.own = Current(v.contract)'.id BY <1>2, <2>0, <3>2
      <4>5. v.undisclosed => v.winner = Nobody BY <2>1, <3>2
      <4>. QED BY <1>1, <4>1, <4>2, <4>3, <4>4, <4>5 DEF DetailIs, Nobody
    <3>4. (view.pc # "answered" => PagesAgree)' BY Quiet, PTL
    <3>5. view'.pc = "siblings" /\ DOMAIN view' = DetailFields BY <1>1, <3>2
    <3>6. SiblingsInv' BY <3>3, <3>5 DEF SiblingsInv
    <3>7. CountInv' BY <3>5 DEF CountInv
    <3>. QED BY <3>4, <3>5, <3>6, <3>7
  <2>. QED BY <2>3, <2>4
<1>5. \/ /\ ~ \E k \in NoticeOf(id) : BuyersOf(k) # {}
         /\ view' = Request("answered", [notice |-> id, found |-> FALSE])
      \/ \E k \in NoticeOf(id), a \in Buyer, c \in PageCompany \union {Nobody} :
           ShowsDetail(id, k, a, c)
  BY DEF AskDetail, ShowsDetail, DetailOf
<1>. QED BY <1>3, <1>4, <1>5

LEMMA RecentIs ==
  ASSUME NEW r, r.id \in Nat, r.date \in Nat
  PROVE  IsKey(OrderKey("recent", r), 3) /\ OrderKey("recent", r)[3] = r.id
<1>1. PICK k : k = OrderKey("recent", r) OBVIOUS
<1>2. k = <<Absent(r.date), -r.date, r.id>> BY <1>1 DEF OrderKey
<1>3. Absent(r.date) \in Int /\ -r.date \in Int /\ r.id \in Int BY DEF Absent
<1>4. DOMAIN k = 1..3 /\ k[1] \in Int /\ k[2] \in Int /\ k[3] \in Int /\ k[3] = r.id BY <1>2, <1>3
<1>. QED BY <1>1, <1>4 DEF IsKey

LEMMA SiblingsRead ==
  ASSUME GraphInv, SiblingsInv, FrameworkSiblings
  PROVE  (SiblingsInv /\ CountInv /\ PagesAgree)' /\ view'.pc = "siblingCount"
<1>1. PICK S : S = SiblingsOf OBVIOUS
<1>2. IsFiniteSet(S) /\ S \subseteq PageContracts /\ \A k \in S : Current(k).id # view.own
  <2>1. S \in SUBSET PageContracts /\ \A k \in S : Current(k).id # view.own BY <1>1 DEF SiblingsOf
  <2>. QED BY <2>1, ContractsAre, FS_Subset
<1>3. PICK map : map = [k \in S |-> [id |-> Current(k).id, date |-> Current(k).date, contract |-> k,
                                     supplier |-> FirstNamed(WinnersOf(k))]]
  OBVIOUS
<1>4. PICK rows : rows = {[id |-> Current(k).id, date |-> Current(k).date, contract |-> k,
                           supplier |-> FirstNamed(WinnersOf(k))] : k \in SiblingsOf}
  OBVIOUS
<1>5. rows = {map[k] : k \in S} BY <1>1, <1>3, <1>4
<1>6. \A k \in S : /\ map[k].id = Current(k).id /\ map[k].date = Current(k).date /\ map[k].contract = k
                   /\ map[k].id \in Nat /\ map[k].date \in Nat
  BY <1>2, <1>3, ContractsAre
<1>7. map \in Bijection(S, rows)
  <2>1. map \in [S -> rows] BY <1>3, <1>5
  <2>2. \A k, l \in S : map[k] = map[l] => k = l BY <1>6
  <2>3. \A r \in rows : \E k \in S : map[k] = r BY <1>5
  <2>. QED BY <2>1, <2>2, <2>3 DEF Bijection, Injection, Surjection, IsInjective
<1>8. IsFiniteSet(rows) /\ Cardinality(rows) = Cardinality(S)
  <2>1. ExistsBijection(S, rows) BY <1>7 DEF ExistsBijection
  <2>. QED BY <2>1, <1>2, FS_Bijection
<1>9. PICK key : key = [r \in rows |-> OrderKey("recent", r)] OBVIOUS
<1>10. DOMAIN key = rows /\ \A r \in rows : IsKey(key[r], 3) /\ key[r][3] = r.id
  <2>1. \A r \in rows : r.id \in Nat /\ r.date \in Nat BY <1>5, <1>6
  <2>2. \A r \in rows : key[r] = OrderKey("recent", r) BY <1>9
  <2>. QED BY <2>1, <2>2, <1>9, RecentIs
<1>11. Keyed(key, 3)
  <2>1. \A r, s \in rows : r # s => r.id # s.id
    <3>1. \A k, l \in S : map[k].id = map[l].id => k = l BY <1>2, <1>6, ContractsAre
    <3>. QED BY <3>1, <1>5
  <2>2. \A r, s \in rows : r # s => \E i \in 1..3 : key[r][i] # key[s][i]
    <3>1. 3 \in 1..3 OBVIOUS
    <3>. QED BY <2>1, <3>1, <1>10
  <2>. QED BY <1>8, <1>10, <2>2 DEF Keyed
<1>12. PICK top : top = Top(key, SiblingLimit) OBVIOUS
<1>13. top \in Seq(rows) /\ Len(top) = Min({SiblingLimit, Cardinality(S)})
  <2>1. SiblingLimit \in Nat BY PagesAssumption
  <2>2. FirstOf(top, key) /\ Len(top) = Min({SiblingLimit, Cardinality(DOMAIN key)})
    BY <2>1, <1>11, <1>12, TopIs
  <2>. QED BY <2>2, <1>8, <1>10 DEF FirstOf
<1>14. \A s \in ToSet(top) : \E k \in S : s.contract = k
  <2>1. \A s \in ToSet(top) : s \in rows
    <3>1. ToSet(top) = {top[i] : i \in DOMAIN top} BY DEF ToSet
    <3>2. \A i \in DOMAIN top : top[i] \in rows BY <1>13
    <3>. QED BY <3>1, <3>2
  <2>. QED BY <2>1, <1>5, <1>6
<1>15. DOMAIN view = DetailFields /\ DetailIs(view) /\ view.pc = "siblings"
  BY DEF SiblingsInv, FrameworkSiblings
<1>16. view' = With([siblings |-> top], [view EXCEPT !.pc = "siblingCount"]) /\ UNCHANGED written
  BY <1>4, <1>9, <1>12 DEF FrameworkSiblings, Then
<1>17. PICK v : v = view' OBVIOUS
<1>18. /\ DOMAIN v = DetailFields \union {"siblings"} /\ v.pc = "siblingCount" /\ v.siblings = top
       /\ v.calm = view.calm /\ v.notice = view.notice /\ v.found = view.found
       /\ v.contract = view.contract /\ v.own = view.own /\ v.winner = view.winner
       /\ v.framework = view.framework /\ v.undisclosed = view.undisclosed
  BY <1>15, <1>16, <1>17 DEF With, DetailFields
<1>19. /\ PageContracts' = PageContracts /\ \A k : Chain(k)' = Chain(k) /\ Current(k)' = Current(k)
  BY <1>16, StillGraph
<1>20. DetailIs(view)' BY <1>15, <1>17, <1>18, <1>19 DEF DetailIs
<1>21. SiblingsOf' = S BY <1>1, <1>17, <1>18, <1>19 DEF SiblingsOf
<1>22. v.calm => \A s \in ToSet(v.siblings) : s.contract # v.contract
  BY <1>2, <1>14, <1>15, <1>18 DEF DetailIs
<1>23. CountInv' BY <1>13, <1>17, <1>18, <1>20, <1>21, <1>22 DEF CountInv
<1>24. (view.pc # "answered" => PagesAgree)' BY Quiet, PTL
<1>. QED BY <1>17, <1>18, <1>23, <1>24 DEF SiblingsInv

LEMMA SiblingsCounted ==
  ASSUME GraphInv, CountInv, SiblingCount
  PROVE  PagesAgree' /\ view'.pc = "answered"
<1>1. /\ DOMAIN view = DetailFields \union {"siblings"} /\ DetailIs(view)
      /\ view.calm =>
           /\ \A s \in ToSet(view.siblings) : s.contract # view.contract
           /\ Len(view.siblings) = Min({SiblingLimit, Cardinality(SiblingsOf)})
  BY DEF CountInv, SiblingCount
<1>2. PICK link : link = FrameworkLink(view.framework) OBVIOUS
<1>3. PICK count : count = Cardinality(SiblingsOf) OBVIOUS
<1>4. view' = With([count |-> count, linked |-> link], [view EXCEPT !.pc = "answered"])
      /\ UNCHANGED written
  BY <1>2, <1>3 DEF SiblingCount, Answered
<1>5. PICK v : v = view' OBVIOUS
<1>6. /\ DOMAIN v = DetailFields \union {"siblings", "count", "linked"} /\ v.pc = "answered"
      /\ v.count = count /\ v.siblings = view.siblings
      /\ v.calm = view.calm /\ v.notice = view.notice /\ v.found = view.found
      /\ v.contract = view.contract /\ v.winner = view.winner /\ v.undisclosed = view.undisclosed
  BY <1>1, <1>4, <1>5 DEF With, DetailFields
<1>7. FactsOf("notice")' = FactsOf("notice") /\ \A k : Chain(k)' = Chain(k) BY <1>4, StillGraph
<1>8. NotDetailed' /\ ~Answers("titled")' BY <1>5, <1>6 DEF NotDetailed, Answers, DetailFields
<1>9. \E n \in FactsOf("notice") : n.id = view.notice BY <1>1 DEF DetailIs, Chain
<1>10. DetailIsOfTheNotice'
  BY <1>1, <1>3, <1>5, <1>6, <1>7, <1>8, <1>9 DEF DetailIsOfTheNotice, DetailIs
<1>11. PagesAgree' BY <1>8, <1>10, DetailAlone, PTL
<1>. QED BY <1>5, <1>6, <1>11

LEMMA TitlesAsked ==
  ASSUME GraphInv, NEW ids, AskTitles(ids)
  PROVE  PagesAgree' /\ view'.pc = "answered"
<1>1. PICK v : v = view' OBVIOUS
<1>2. PICK titled : titled = {id \in ids : Translated(id)} OBVIOUS
<1>3. /\ DOMAIN v = {"pc", "calm", "ids", "titled"} /\ v.pc = "answered"
      /\ v.ids = ids /\ v.titled = titled
  BY <1>1, <1>2 DEF AskTitles, Request, With
<1>4. \A kind : FactsOf(kind)' = FactsOf(kind) BY StillGraph DEF AskTitles
<1>5. ASSUME NEW n \in FactsOf("notice"), NEW f \in FactsOf("title"), n.id \in ids, f.contract = n.contract
      PROVE  n.id \in titled
  <2>1. n.contract \in PageContracts /\ n \in Chain(n.contract) BY DEF PageContracts, Chain
  <2>2. n.contract \in NoticeOf(n.id) BY <2>1 DEF NoticeOf
  <2>. QED BY <2>2, <1>2, <1>5 DEF Translated
<1>6. NotDetailed' /\ ~Answers("found")' BY <1>1, <1>3 DEF NotDetailed, Answers
<1>7. DetailIsOfTheNotice' BY <1>1, <1>3, <1>4, <1>5, <1>6 DEF DetailIsOfTheNotice
<1>8. PagesAgree' BY <1>6, <1>7, DetailAlone, PTL
<1>. QED BY <1>1, <1>3, <1>8

(* The link to TED.                                                        *)

LookupInv == view.pc = "lookup" => DOMAIN view = {"pc", "calm", "link"}

NotLinked == ~Answers("rows") /\ ~Answers("found") /\ ~Answers("titled") /\ ~Answers("hits")

LEMMA LinkAlone == LinksOpenTheNotice /\ NotLinked => PagesAgree
  BY DEF PagesAgree, ListsAgree, DetailIsOfTheNotice, SearchIsWhole, NotLinked

LEMMA LinkAsked ==
  ASSUME NEW id, AskLink(id)
  PROVE  (LookupInv /\ PagesAgree)' /\ view'.pc \in {"lookup", "answered"}
<1>1. PICK v : v = view' OBVIOUS
<1>2. ASSUME NEW number \in StoredNumber(id),
             view' = Request("answered", [link |-> id, status |-> 302, number |-> number])
      PROVE  (LookupInv /\ PagesAgree)' /\ view'.pc \in {"lookup", "answered"}
  <2>1. /\ DOMAIN v = {"pc", "calm", "link", "status", "number"} /\ v.pc = "answered"
        /\ v.link = id /\ v.status = 302 /\ v.number = number
    BY <1>1, <1>2 DEF Request, With
  <2>2. number = id BY DEF StoredNumber
  <2>3. NotLinked' BY <1>1, <2>1 DEF NotLinked, Answers
  <2>4. LinksOpenTheNotice' BY <1>1, <2>1, <2>2 DEF LinksOpenTheNotice
  <2>5. PagesAgree' BY <2>3, <2>4, LinkAlone, PTL
  <2>. QED BY <1>1, <2>1, <2>5 DEF LookupInv
<1>3. CASE view' = Request("lookup", [link |-> id])
  <2>1. DOMAIN v = {"pc", "calm", "link"} /\ v.pc = "lookup" BY <1>1, <1>3 DEF Request, With
  <2>2. (view.pc # "answered" => PagesAgree)' BY Quiet, PTL
  <2>. QED BY <1>1, <2>1, <2>2 DEF LookupInv
<1>. QED BY <1>2, <1>3 DEF AskLink

LEMMA LinkLookedUp ==
  ASSUME LookupInv, LookUp
  PROVE  PagesAgree' /\ view'.pc = "answered"
<1>1. DOMAIN view = {"pc", "calm", "link"} BY DEF LookupInv, LookUp
<1>2. PICK v : v = view' OBVIOUS
<1>3. CASE view' = With([status |-> 302, number |-> view.link], [view EXCEPT !.pc = "answered"])
  <2>1. /\ DOMAIN v = {"pc", "calm", "link", "status", "number"} /\ v.pc = "answered"
        /\ v.link = view.link /\ v.status = 302 /\ v.number = view.link
    BY <1>1, <1>2, <1>3 DEF With
  <2>2. NotLinked' BY <1>2, <2>1 DEF NotLinked, Answers
  <2>3. LinksOpenTheNotice' BY <1>2, <2>1 DEF LinksOpenTheNotice
  <2>4. PagesAgree' BY <2>2, <2>3, LinkAlone, PTL
  <2>. QED BY <1>2, <2>1, <2>4
<1>4. ASSUME view.link \notin ToSet(lookups), UNCHANGED lookups, NEW status \in {404, 502},
             view' = With([status |-> status], [view EXCEPT !.pc = "answered"])
      PROVE  PagesAgree' /\ view'.pc = "answered"
  <2>1. /\ DOMAIN v = {"pc", "calm", "link", "status"} /\ v.pc = "answered"
        /\ v.link = view.link /\ v.status = status
    BY <1>1, <1>2, <1>4 DEF With
  <2>2. NotLinked' BY <1>2, <2>1 DEF NotLinked, Answers
  <2>3. view'.link \notin ToSet(lookups') BY <1>2, <1>4, <2>1
  <2>4. LinksOpenTheNotice' BY <1>2, <2>1, <2>3 DEF LinksOpenTheNotice
  <2>5. PagesAgree' BY <2>2, <2>4, LinkAlone, PTL
  <2>. QED BY <1>2, <2>1, <2>5
<1>. QED BY <1>3, <1>4 DEF LookUp, Answered

(* The hits of a search.                                                   *)

Hit == {[company |-> c, rank |-> r] : c \in PageCompany, r \in 0..4}
\* A name that the index finds and that holds what was typed.
Textual(c, q) == FulltextHit(c, q) /\ Within(q, CompanyName[c])
\* Hits of different companies.
OnePerCompany(S) == \A g, h \in S : g.company = h.company => g = h
Distinct(hits) == \A i, j \in DOMAIN hits : hits[i].company = hits[j].company => i = j

LEMMA RanksAreFinite == IsFiniteSet(0..4)
<1>1. PICK a \in Int : a = 0 OBVIOUS
<1>2. PICK b \in Int : b = 4 OBVIOUS
<1>3. IsFiniteSet(a..b) BY FS_Interval
<1>. QED BY <1>1, <1>2, <1>3

LEMMA HitsAreFinite ==
  IsFiniteSet(Hit) /\ \A h \in Hit : h.company \in PageCompany /\ h.rank \in 0..4
<1>1. PICK pairs : pairs = PageCompany \X (0..4) OBVIOUS
<1>2. IsFiniteSet(pairs)
  <2>1. IsFiniteSet(PageCompany) /\ IsFiniteSet(0..4) BY PagesAssumption, RanksAreFinite
  <2>. QED BY <1>1, <2>1, FS_Product
<1>3. PICK mk : mk = [p \in pairs |-> [company |-> p[1], rank |-> p[2]]] OBVIOUS
<1>4. mk \in Surjection(pairs, Hit)
  <2>1. \A p \in pairs : mk[p] \in Hit BY <1>1, <1>3 DEF Hit
  <2>2. ASSUME NEW h \in Hit
        PROVE  \E p \in pairs : mk[p] = h
    <3>1. PICK c \in PageCompany, r \in 0..4 : h = [company |-> c, rank |-> r] BY DEF Hit
    <3>2. <<c, r>> \in pairs BY <1>1
    <3>. QED BY <3>1, <3>2, <1>3
  <2>. QED BY <2>1, <2>2, <1>3 DEF Surjection
<1>5. IsFiniteSet(Hit) BY <1>2, <1>4, FS_Surjection
<1>. QED BY <1>5 DEF Hit

LEMMA TopHitsAre ==
  ASSUME NEW S, S \subseteq Hit, OnePerCompany(S), NEW limit \in Nat
  PROVE  /\ TopHits(S, limit) \in Seq(S) /\ Distinct(TopHits(S, limit))
         /\ Len(TopHits(S, limit)) <= limit
         /\ Len(TopHits(S, limit)) < limit =>
              \A h \in S : \E i \in DOMAIN TopHits(S, limit) : TopHits(S, limit)[i] = h
<1>1. PICK key : key = [h \in S |-> HitKey(h)] OBVIOUS
<1>2. DOMAIN key = S /\ \A h \in S : key[h] = <<-h.rank, Len(CompanyName[h.company]), h.company>>
  BY <1>1 DEF HitKey
<1>3. \A h \in S : h.company \in PageCompany /\ h.rank \in 0..4 BY HitsAreFinite
<1>4. ASSUME NEW h \in S
      PROVE  IsKey(key[h], 3) /\ key[h][3] = h.company
  <2>1. h.company \in Int /\ -h.rank \in Int BY <1>3, PagesAssumption
  <2>2. Len(CompanyName[h.company]) \in Int
    <3>1. CompanyName[h.company] \in Seq(STRING) BY <1>3, PagesAssumption
    <3>. QED BY <3>1
  <2>3. PICK k : k = <<-h.rank, Len(CompanyName[h.company]), h.company>> OBVIOUS
  <2>4. DOMAIN k = 1..3 /\ k[1] \in Int /\ k[2] \in Int /\ k[3] \in Int /\ k[3] = h.company
    BY <2>1, <2>2, <2>3
  <2>. QED BY <2>3, <2>4, <1>2 DEF IsKey
<1>5. Keyed(key, 3)
  <2>1. IsFiniteSet(S) BY HitsAreFinite, FS_Subset
  <2>2. \A g, h \in S : g # h => \E i \in 1..3 : key[g][i] # key[h][i]
    <3>1. 3 \in 1..3 OBVIOUS
    <3>. QED BY <3>1, <1>4 DEF OnePerCompany
  <2>. QED BY <2>1, <2>2, <1>2, <1>4 DEF Keyed
<1>6. PICK top : top = TopHits(S, limit) OBVIOUS
<1>7. top = Top(key, limit) BY <1>1, <1>6 DEF TopHits
<1>8. FirstOf(top, key) /\ Len(top) = Min({limit, Cardinality(DOMAIN key)}) BY <1>5, <1>7, TopIs
<1>9. /\ Len(top) <= limit
      /\ Len(top) < limit => \A h \in S : \E i \in DOMAIN top : top[i] = h
  <2>1. /\ Len(top) \in Nat /\ Len(top) <= limit
        /\ Len(top) < limit \/ Cardinality(DOMAIN key) <= limit =>
             \A r \in DOMAIN key : \E i \in DOMAIN top : top[i] = r
    <3>1. PICK n : n = 3 OBVIOUS
    <3>2. Keyed(key, n) BY <1>5, <3>1
    <3>3. Whole(top, key, limit) BY <1>7, <3>2, TopIsWhole
    <3>. QED BY <3>3 DEF Whole
  <2>. QED BY <2>1, <1>2
<1>10. top \in Seq(S) /\ \A i, j \in DOMAIN top : top[i] = top[j] => i = j BY <1>2, <1>8 DEF FirstOf
<1>11. Distinct(top)
  <2>1. \A i \in DOMAIN top : top[i] \in S BY <1>10
  <2>. QED BY <2>1, <1>10 DEF Distinct, OnePerCompany
<1>. QED BY <1>6, <1>9, <1>10, <1>11

LEMMA RanksAre ==
  ASSUME NEW c, NEW q
  PROVE  /\ NameRank(c, q) \in 0..4
         /\ \A t : ListingRank(c, t, q) \in 0..4
<1>1. NameRank(c, q) \in 0..4
  <2>1. CASE CompanyName[c] = q BY <2>1 DEF NameRank
  <2>2. CASE CompanyName[c] # q /\ IsPrefix(q, CompanyName[c]) BY <2>2 DEF NameRank
  <2>3. CASE CompanyName[c] # q /\ ~IsPrefix(q, CompanyName[c]) BY <2>3 DEF NameRank
  <2>. QED BY <2>1, <2>2, <2>3
<1>2. ASSUME NEW t
      PROVE  ListingRank(c, t, q) \in 0..4
  <2>1. PICK a \in 0..4 : a = NameRank(c, q) BY <1>1
  <2>2. PICK b \in 0..4 : b = IF t = q THEN 3 ELSE IF IsPrefix(q, t) THEN 1 ELSE 0 OBVIOUS
  <2>3. ListingRank(c, t, q) = Max({a, b}) BY <2>1, <2>2 DEF ListingRank
  <2>4. PICK m : m = IF a >= b THEN a ELSE b OBVIOUS
  <2>5. m \in {a, b} /\ (\A y \in {a, b} : m >= y) /\ m \in 0..4 BY <2>4
  <2>6. \A x \in {a, b} : (\A y \in {a, b} : x >= y) => x = m BY <2>4
  <2>7. Max({a, b}) = m BY <2>5, <2>6 DEF Max
  <2>. QED BY <2>3, <2>5, <2>7
<1>. QED BY <1>1, <1>2

LEMMA ListedAre ==
  ASSUME GraphInv, NEW q
  PROVE  ListedHits(q) \subseteq Hit /\ OnePerCompany(ListedHits(q))
<1>. DEFINE by(c) == {f.ticker : f \in {g \in FactsOf("listing") :
                        g.company = c /\ (IsPrefix(q, g.ticker) \/ Within(q, CompanyName[c]))}}
<1>1. PICK rank : rank = [c \in PageCompany |-> Max({ListingRank(c, t, q) : t \in by(c)})] OBVIOUS
<1>2. ASSUME NEW c \in PageCompany, by(c) # {}
      PROVE  rank[c] \in 0..4
  <2>1. PICK R : R = {ListingRank(c, t, q) : t \in by(c)} OBVIOUS
  <2>. HIDE DEF by
  <2>2. R \in SUBSET (0..4) /\ R # {} BY <1>2, <2>1, RanksAre
  <2>3. IsFiniteSet(R)
    <3>. QED BY <2>2, RanksAreFinite, FS_Subset
  <2>4. R \subseteq Int BY <2>2
  <2>5. Max(R) \in R BY <2>2, <2>3, <2>4, GreatestIs
  <2>6. rank[c] = Max(R) BY <1>1, <2>1
  <2>. QED BY <2>2, <2>5, <2>6
<1>3. PICK S : S = {c \in PageCompany : by(c) # {}} OBVIOUS
<1>4. ListedHits(q) = {[company |-> c, rank |-> rank[c]] : c \in S}
  <2>1. ListedHits(q) = {[company |-> c, rank |-> Max({ListingRank(c, t, q) : t \in by(c)})] : c \in S}
    BY <1>3 DEF ListedHits
  <2>2. \A c \in S : rank[c] = Max({ListingRank(c, t, q) : t \in by(c)}) BY <1>1, <1>3
  <2>. HIDE DEF by
  <2>. QED BY <2>1, <2>2
<1>5. \A c \in S : c \in PageCompany /\ rank[c] \in 0..4 BY <1>2, <1>3
<1>. HIDE DEF by
<1>6. ListedHits(q) \subseteq Hit BY <1>4, <1>5 DEF Hit
<1>7. OnePerCompany(ListedHits(q)) BY <1>4 DEF OnePerCompany
<1>. QED BY <1>6, <1>7

LEMMA TextualAre ==
  ASSUME NEW q, NEW seen, NEW S, S \subseteq PageCompany
  PROVE  /\ ByText(q, seen, S) \subseteq Hit /\ OnePerCompany(ByText(q, seen, S))
         /\ \A h \in ByText(q, seen, S) : h.company \notin seen /\ h.company \in S /\ Textual(h.company, q)
         /\ \A c \in S : Textual(c, q) => c \in seen \/ \E h \in ByText(q, seen, S) : h.company = c
<1>1. PICK T : T = {d \in S \ seen : FulltextHit(d, q) /\ Within(q, CompanyName[d])} OBVIOUS
<1>2. PICK hits : hits = ByText(q, seen, S) OBVIOUS
<1>3. hits = {[company |-> c, rank |-> NameRank(c, q)] : c \in T} BY <1>1, <1>2 DEF ByText
<1>4. \A c \in T : c \in S /\ c \notin seen /\ Textual(c, q) BY <1>1 DEF Textual
<1>5. \A c \in S : Textual(c, q) /\ c \notin seen => c \in T BY <1>1 DEF Textual
<1>6. hits \subseteq Hit BY <1>3, <1>4, RanksAre DEF Hit
<1>7. OnePerCompany(hits) BY <1>3 DEF OnePerCompany
<1>8. \A h \in hits : h.company \in T BY <1>3
<1>9. \A c \in T : \E h \in hits : h.company = c
  <2>1. \A c \in T : [company |-> c, rank |-> NameRank(c, q)] \in hits BY <1>3
  <2>. QED BY <2>1
<1>. QED BY <1>2, <1>4, <1>5, <1>6, <1>7, <1>8, <1>9

LEMMA CompaniesOf ==
  ASSUME NEW hits \in Seq(Hit)
  PROVE  \A c : c \in HitBy(hits) <=> \E i \in 1..Len(hits) : hits[i].company = c
<1>1. DOMAIN hits = 1..Len(hits) OBVIOUS
<1>2. ToSet(hits) = {hits[i] : i \in 1..Len(hits)} BY <1>1 DEF ToSet
<1>3. \A h : h \in ToSet(hits) <=> \E i \in 1..Len(hits) : h = hits[i] BY <1>2
<1>. QED BY <1>3 DEF HitBy

\* What a search shows so far.
SearchIs(hits, limit) ==
  hits \in Seq(Hit) /\ Distinct(hits) /\ limit \in Nat /\ Len(hits) <= limit

HitsWith(hits, q, S, limit) ==
  hits \o TopHits(ByText(q, HitBy(hits), S), limit - Len(hits))

LEMMA MoreHits ==
  ASSUME NEW hits, NEW limit, SearchIs(hits, limit), NEW q, NEW S, S \subseteq PageCompany
  PROVE  /\ SearchIs(HitsWith(hits, q, S, limit), limit)
         /\ Len(HitsWith(hits, q, S, limit)) < limit =>
              /\ Len(hits) < limit
              /\ \A c \in S : Textual(c, q) => c \in HitBy(HitsWith(hits, q, S, limit))
         /\ HitBy(hits) \subseteq HitBy(HitsWith(hits, q, S, limit))
<1>0. PICK all : all = HitsWith(hits, q, S, limit) OBVIOUS
<1>1. hits \in Seq(Hit) /\ Distinct(hits) /\ limit \in Nat /\ Len(hits) <= limit BY DEF SearchIs
<1>2. PICK n \in Nat : n = Len(hits) /\ n <= limit /\ limit - n \in Nat BY <1>1
<1>3. PICK B : B = ByText(q, HitBy(hits), S) OBVIOUS
<1>4. /\ B \subseteq Hit /\ OnePerCompany(B)
      /\ \A h \in B : h.company \notin HitBy(hits)
      /\ \A c \in S : Textual(c, q) => c \in HitBy(hits) \/ \E h \in B : h.company = c
  BY <1>3, TextualAre
<1>5. PICK more : more = TopHits(B, limit - n) OBVIOUS
<1>6. /\ more \in Seq(B) /\ Distinct(more) /\ Len(more) <= limit - n
      /\ Len(more) < limit - n => \A h \in B : \E i \in DOMAIN more : more[i] = h
  BY <1>2, <1>4, <1>5, TopHitsAre
<1>7. PICK m \in Nat : m = Len(more) BY <1>6
<1>8. more \in Seq(Hit) /\ DOMAIN more = 1..m /\ DOMAIN hits = 1..n BY <1>1, <1>2, <1>4, <1>6, <1>7
<1>9. all = hits \o more BY <1>0, <1>2, <1>3, <1>5 DEF HitsWith
<1>10. /\ all \in Seq(Hit) /\ Len(all) = n + m
       /\ \A i \in 1..(n + m) : all[i] = IF i <= n THEN hits[i] ELSE more[i - n]
  <2>1. /\ all \in Seq(Hit) /\ Len(all) = Len(hits) + Len(more)
        /\ \A i \in 1..(Len(hits) + Len(more)) :
             all[i] = IF i <= Len(hits) THEN hits[i] ELSE more[i - Len(hits)]
    BY <1>1, <1>8, <1>9, ConcatProperties
  <2>. QED BY <2>1, <1>2, <1>7
<1>11. DOMAIN all = 1..(n + m) BY <1>10
<1>12. \A i \in 1..m : more[i].company \notin HitBy(hits)
  <2>1. \A i \in 1..m : more[i] \in B BY <1>6, <1>8
  <2>. QED BY <2>1, <1>4
<1>13. \A i \in 1..n : hits[i].company \in HitBy(hits) BY <1>1, <1>2, CompaniesOf
<1>14. Distinct(all)
  <2>. SUFFICES ASSUME NEW i \in 1..(n + m), NEW j \in 1..(n + m), all[i].company = all[j].company
                PROVE  i = j
    BY <1>11 DEF Distinct
  <2>1. CASE i <= n /\ j <= n
    <3>1. i \in 1..n /\ j \in 1..n BY <2>1
    <3>2. all[i] = hits[i] /\ all[j] = hits[j] BY <2>1, <1>10
    <3>. QED BY <3>1, <3>2, <1>1, <1>8 DEF Distinct
  <2>2. CASE i <= n /\ ~(j <= n)
    <3>1. i \in 1..n /\ j - n \in 1..m BY <2>2
    <3>2. all[i] = hits[i] /\ all[j] = more[j - n] BY <2>2, <1>10
    <3>. QED BY <3>1, <3>2, <1>12, <1>13
  <2>3. CASE ~(i <= n) /\ j <= n
    <3>1. i - n \in 1..m /\ j \in 1..n BY <2>3
    <3>2. all[i] = more[i - n] /\ all[j] = hits[j] BY <2>3, <1>10
    <3>. QED BY <3>1, <3>2, <1>12, <1>13
  <2>4. CASE ~(i <= n) /\ ~(j <= n)
    <3>1. i - n \in 1..m /\ j - n \in 1..m BY <2>4
    <3>2. all[i] = more[i - n] /\ all[j] = more[j - n] BY <2>4, <1>10
    <3>3. i - n = j - n BY <3>1, <3>2, <1>6, <1>8 DEF Distinct
    <3>. QED BY <3>3
  <2>. QED BY <2>1, <2>2, <2>3, <2>4
<1>15. \A c : c \in HitBy(all) <=> \E i \in 1..(n + m) : all[i].company = c
  <2>1. \A c : c \in HitBy(all) <=> \E i \in 1..Len(all) : all[i].company = c
    BY <1>10, CompaniesOf
  <2>. QED BY <2>1, <1>10
<1>16. HitBy(hits) \subseteq HitBy(all)
  <2>. SUFFICES ASSUME NEW c \in HitBy(hits) PROVE c \in HitBy(all) OBVIOUS
  <2>1. PICK i \in 1..n : hits[i].company = c BY <1>1, <1>2, CompaniesOf
  <2>2. i \in 1..(n + m) /\ i <= n BY <1>7
  <2>. QED BY <2>1, <2>2, <1>10, <1>15
<1>17. ASSUME Len(all) < limit, NEW c \in S, Textual(c, q)
       PROVE  c \in HitBy(all)
  <2>1. CASE c \in HitBy(hits) BY <2>1, <1>16
  <2>2. CASE c \notin HitBy(hits)
    <3>1. PICK h \in B : h.company = c BY <2>2, <1>4, <1>17
    <3>2. m < limit - n BY <1>1, <1>10, <1>17
    <3>3. PICK i \in 1..m : more[i] = h BY <3>2, <1>6, <1>7, <1>8
    <3>4. i + n \in 1..(n + m) /\ ~(i + n <= n) /\ (i + n) - n = i BY <3>3
    <3>5. all[i + n] = h BY <3>3, <3>4, <1>10
    <3>. QED BY <3>1, <3>4, <3>5, <1>15
  <2>. QED BY <2>1, <2>2
<1>18. Len(all) <= limit /\ (Len(all) < limit => Len(hits) < limit)
  <2>1. m <= limit - n BY <1>6, <1>7
  <2>. QED BY <2>1, <1>1, <1>2, <1>7, <1>10
<1>19. SearchIs(all, limit) BY <1>1, <1>10, <1>14, <1>18 DEF SearchIs
<1>. QED BY <1>0, <1>16, <1>17, <1>18, <1>19

SearchFields == {"pc", "calm", "query", "limit", "sure", "hits"}
\* Unless it is full, a search shows whom it would have found, or can still find them.
StillFinds(S) ==
  Len(view.hits) < view.limit =>
    \A c \in view.sure : c \in HitBy(view.hits) \/ (Textual(c, view.query) /\ c \in S)
SuppliersInv ==
  view.pc = "suppliers" =>
    /\ DOMAIN view = SearchFields /\ SearchIs(view.hits, view.limit)
    /\ StillFinds(Suppliers \union Beneficiaries)
GranteesInv ==
  view.pc = "grantees" =>
    DOMAIN view = SearchFields /\ SearchIs(view.hits, view.limit) /\ StillFinds(Beneficiaries)

NotSearched == ~Answers("rows") /\ ~Answers("found") /\ ~Answers("titled") /\ ~Answers("link")

LEMMA SearchAlone == SearchIsWhole /\ NotSearched => PagesAgree
  BY DEF PagesAgree, ListsAgree, DetailIsOfTheNotice, LinksOpenTheNotice, NotSearched

LEMMA FirmsAre ==
  ASSUME GraphInv
  PROVE  Suppliers \subseteq PageCompany /\ Beneficiaries \subseteq PageCompany
  BY ContractsAre DEF Suppliers, Beneficiaries

LEMMA StillFirms ==
  ASSUME UNCHANGED written
  PROVE  Suppliers' = Suppliers /\ Beneficiaries' = Beneficiaries
<1>1. Suppliers' = Suppliers BY StillGraph DEF Suppliers
<1>2. Beneficiaries' = Beneficiaries BY StillGraph DEF Beneficiaries
<1>. QED BY <1>1, <1>2

LEMMA SearchAsked ==
  ASSUME GraphInv, NEW text \in SearchFor, AskSearch(text.q, text.limit)
  PROVE  (SuppliersInv /\ PagesAgree)' /\ view'.pc = "suppliers"
<1>1. PICK q : q = text.q OBVIOUS
<1>2. PICK limit \in Nat : limit = text.limit BY PagesAssumption
<1>3. PICK sure : sure = ToFind(q) OBVIOUS
<1>4. PICK L : L = ListedHits(q) OBVIOUS
<1>5. PICK hits : hits = TopHits(L, limit) OBVIOUS
<1>6. PICK v : v = view' OBVIOUS
<1>7. /\ DOMAIN v = SearchFields /\ v.pc = "suppliers"
      /\ v.query = q /\ v.limit = limit /\ v.sure = sure /\ v.hits = hits
  BY <1>1, <1>2, <1>3, <1>4, <1>5, <1>6 DEF AskSearch, Request, With, SearchFields
<1>8. L \subseteq Hit /\ OnePerCompany(L) BY <1>4, ListedAre
<1>9. /\ hits \in Seq(L) /\ Distinct(hits) /\ Len(hits) <= limit
      /\ Len(hits) < limit => \A h \in L : \E i \in DOMAIN hits : hits[i] = h
  BY <1>2, <1>5, <1>8, TopHitsAre
<1>10. hits \in Seq(Hit) /\ DOMAIN hits = 1..Len(hits) BY <1>8, <1>9
<1>11. SearchIs(hits, limit) BY <1>2, <1>9, <1>10 DEF SearchIs
<1>12. PICK S : S = Suppliers \union Beneficiaries OBVIOUS
<1>13. ASSUME Len(hits) < limit, NEW c \in sure
       PROVE  c \in HitBy(hits) \/ (Textual(c, q) /\ c \in S)
  <2>1. (\E h \in L : h.company = c) \/ \E h \in ByText(q, {}, S) : h.company = c
    BY <1>3, <1>4, <1>12 DEF ToFind
  <2>2. ASSUME NEW h \in L, h.company = c
        PROVE  c \in HitBy(hits)
    <3>1. PICK i \in 1..Len(hits) : hits[i] = h BY <1>9, <1>10, <1>13
    <3>. QED BY <3>1, <2>2, <1>10, CompaniesOf
  <2>3. ASSUME NEW h \in ByText(q, {}, S), h.company = c
        PROVE  Textual(c, q) /\ c \in S
    <3>1. S \subseteq PageCompany BY <1>12, FirmsAre
    <3>. QED BY <3>1, <2>3, TextualAre
  <2>. QED BY <2>1, <2>2, <2>3
<1>14. (Suppliers \union Beneficiaries)' = S BY <1>12, StillFirms DEF AskSearch
<1>15. StillFinds(Suppliers \union Beneficiaries)'
  <2>1. Len(v.hits) < v.limit => \A c \in v.sure : c \in HitBy(v.hits) \/ (Textual(c, v.query) /\ c \in S)
    BY <1>7, <1>13
  <2>. QED BY <2>1, <1>6, <1>14 DEF StillFinds
<1>16. SuppliersInv' BY <1>6, <1>7, <1>11, <1>15 DEF SuppliersInv
<1>17. (view.pc # "answered" => PagesAgree)' BY Quiet, PTL
<1>. QED BY <1>6, <1>7, <1>16, <1>17

LEMMA SuppliersSearched ==
  ASSUME GraphInv, SuppliersInv, SearchSuppliers
  PROVE  (SuppliersInv /\ GranteesInv /\ PagesAgree)' /\ view'.pc = "grantees"
<1>1. /\ DOMAIN view = SearchFields /\ SearchIs(view.hits, view.limit)
      /\ StillFinds(Suppliers \union Beneficiaries)
  BY DEF SuppliersInv, SearchSuppliers
<1>2. PICK all : all = view.hits \o
        TopHits(ByText(view.query, HitBy(view.hits), Suppliers), view.limit - Len(view.hits))
  OBVIOUS
<1>3. view' = With([hits |-> all], [view EXCEPT !.pc = "grantees"]) /\ UNCHANGED written
  BY <1>2 DEF SearchSuppliers, Then, Seen
<1>4. PICK v : v = view' OBVIOUS
<1>5. /\ DOMAIN v = SearchFields /\ v.pc = "grantees" /\ v.hits = all
      /\ v.query = view.query /\ v.limit = view.limit /\ v.sure = view.sure
  BY <1>1, <1>3, <1>4 DEF With, SearchFields
<1>6. /\ SearchIs(all, view.limit)
      /\ Len(all) < view.limit => Len(view.hits) < view.limit
      /\ HitBy(view.hits) \subseteq HitBy(all)
      /\ Len(all) < view.limit =>
           \A c \in Suppliers : Textual(c, view.query) => c \in HitBy(all)
  <2>1. all = HitsWith(view.hits, view.query, Suppliers, view.limit) BY <1>2 DEF HitsWith
  <2>2. SearchIs(view.hits, view.limit) /\ Suppliers \subseteq PageCompany BY <1>1, FirmsAre
  <2>. QED BY <2>1, <2>2, MoreHits
<1>7. Len(all) < view.limit =>
        \A c \in view.sure : c \in HitBy(all) \/ (Textual(c, view.query) /\ c \in Beneficiaries)
  BY <1>1, <1>6 DEF StillFinds
<1>8. Beneficiaries' = Beneficiaries BY <1>3, StillFirms
<1>9. StillFinds(Beneficiaries)' BY <1>4, <1>5, <1>7, <1>8 DEF StillFinds
<1>10. GranteesInv' BY <1>4, <1>5, <1>6, <1>9 DEF GranteesInv
<1>11. (view.pc # "answered" => PagesAgree)' BY Quiet, PTL
<1>. QED BY <1>4, <1>5, <1>10, <1>11 DEF SuppliersInv

LEMMA GranteesSearched ==
  ASSUME GraphInv, GranteesInv, SearchGrantees
  PROVE  PagesAgree' /\ view'.pc = "answered"
<1>1. DOMAIN view = SearchFields /\ SearchIs(view.hits, view.limit) /\ StillFinds(Beneficiaries)
  BY DEF GranteesInv, SearchGrantees
<1>2. PICK all : all = view.hits \o
        TopHits(ByText(view.query, HitBy(view.hits), Beneficiaries), view.limit - Len(view.hits))
  OBVIOUS
<1>3. view' = With([hits |-> all], [view EXCEPT !.pc = "answered"])
  BY <1>2 DEF SearchGrantees, Answered, Seen
<1>4. PICK v : v = view' OBVIOUS
<1>5. /\ DOMAIN v = SearchFields /\ v.pc = "answered" /\ v.hits = all
      /\ v.query = view.query /\ v.limit = view.limit /\ v.sure = view.sure
  BY <1>1, <1>3, <1>4 DEF With, SearchFields
<1>6. /\ SearchIs(all, view.limit)
      /\ Len(all) < view.limit => Len(view.hits) < view.limit
      /\ HitBy(view.hits) \subseteq HitBy(all)
      /\ Len(all) < view.limit =>
           \A c \in Beneficiaries : Textual(c, view.query) => c \in HitBy(all)
  <2>1. all = HitsWith(view.hits, view.query, Beneficiaries, view.limit) BY <1>2 DEF HitsWith
  <2>2. SearchIs(view.hits, view.limit) /\ Beneficiaries \subseteq PageCompany BY <1>1, FirmsAre
  <2>. QED BY <2>1, <2>2, MoreHits
<1>7. Len(all) < view.limit => view.sure \subseteq HitBy(all) BY <1>1, <1>6 DEF StillFinds
<1>8. SearchIsWhole' BY <1>4, <1>5, <1>6, <1>7 DEF SearchIsWhole, SearchIs, Distinct
<1>9. NotSearched' BY <1>4, <1>5 DEF NotSearched, Answers, SearchFields
<1>10. PagesAgree' BY <1>8, <1>9, SearchAlone, PTL
<1>. QED BY <1>4, <1>5, <1>10

(* The invariant.                                                          *)

PageInv ==
  /\ GraphInv /\ RowsInv /\ TotalsInv /\ SiblingsInv /\ CountInv /\ LookupInv
  /\ SuppliersInv /\ GranteesInv /\ PagesAgree

LEMMA MoreIsCounted ==
  ASSUME GraphInv, GraphInv', written \subseteq written', NEW list, Asked(list)
  PROVE  CountOf(list) \in Nat /\ CountOf(list)' \in Nat /\ CountOf(list) <= CountOf(list)'
<1>1. PICK s : s = list.side OBVIOUS
<1>2. PICK x \in Records : x = list.of BY DEF Asked
<1>3. CASE s = "grants"
  <2>1. GrantsOf(x) \in SUBSET GrantsOf(x)' BY DEF GrantsOf, FactsOf
  <2>2. IsFiniteSet(GrantsOf(x)')
    <3>1. PICK G : G = {g \in FactsOf("grant")' : g.company = x} OBVIOUS
    <3>2. G \in SUBSET GraphFact BY <3>1 DEF FactsOf, GraphInv
    <3>3. IsFiniteSet(G) BY <3>2, PagesAssumption, FS_Subset
    <3>4. GrantsOf(x)' = {f.project : f \in G} BY <3>1 DEF GrantsOf
    <3>5. PICK mk : mk = [g \in G |-> g.project] OBVIOUS
    <3>6. mk \in Surjection(G, GrantsOf(x)') BY <3>4, <3>5 DEF Surjection
    <3>. QED BY <3>3, <3>6, FS_Surjection
  <2>3. IsFiniteSet(GrantsOf(x)) BY GrantsAre
  <2>4. /\ Cardinality(GrantsOf(x)) <= Cardinality(GrantsOf(x)')
        /\ Cardinality(GrantsOf(x)) \in Nat /\ Cardinality(GrantsOf(x)') \in Nat
    BY <2>1, <2>2, <2>3, FS_Subset, FS_CardinalityType
  <2>. QED BY <1>1, <1>2, <1>3, <2>4 DEF CountOf
<1>4. CASE s # "grants"
  <2>1. /\ Cardinality(HeldBy(s, x)) <= Cardinality(HeldBy(s, x)')
        /\ Cardinality(HeldBy(s, x)) \in Nat /\ Cardinality(HeldBy(s, x)') \in Nat
    BY MoreIsHeld
  <2>. QED BY <1>1, <1>2, <1>4, <2>1 DEF CountOf
<1>. QED BY <1>3, <1>4

\* What is written while a request waits for its next statement.
LEMMA WriteKeeps ==
  ASSUME PageInv, NEW f \in GraphFact, Write(f)
  PROVE  PageInv'
<1>1. GraphInv /\ GraphInv' /\ written \subseteq written' BY DEF PageInv, GraphInv, Write
<1>2. view.pc # "answered" /\ view' = IF view = Idle THEN Idle ELSE [view EXCEPT !.calm = FALSE]
  BY DEF Write
<1>3. PICK v : v = view' OBVIOUS
<1>4. \A kind : FactsOf(kind) \subseteq FactsOf(kind)' BY <1>1 DEF FactsOf
<1>5. /\ PageContracts \subseteq PageContracts'
      /\ \A k : Chain(k) \subseteq Chain(k)' /\ WinnersOf(k) \subseteq WinnersOf(k)'
  BY <1>4 DEF PageContracts, WinnersOf, Chain
<1>6. \A c : GrantsOf(c) \subseteq GrantsOf(c)' BY <1>4 DEF GrantsOf
<1>7. Suppliers \subseteq Suppliers' /\ Beneficiaries \subseteq Beneficiaries'
  BY <1>5, <1>6 DEF Suppliers, Beneficiaries
<1>8. CASE view = Idle
  <2>1. view'.pc = "idle" BY <1>2, <1>8 DEF Idle
  <2>2. (view.pc # "answered" => PagesAgree)' BY Quiet, PTL
  <2>. QED BY <1>1, <2>1, <2>2
       DEF PageInv, RowsInv, TotalsInv, SiblingsInv, CountInv, LookupInv, SuppliersInv, GranteesInv
<1>9. CASE view # Idle
  <2>1. v = [view EXCEPT !.calm = FALSE] BY <1>2, <1>3, <1>9
  <2>2. v.pc = view.pc BY <2>1
  <2>3. PagesAgree'
    <3>1. (view.pc # "answered" => PagesAgree)' BY Quiet, PTL
    <3>. QED BY <3>1, <1>2, <1>3, <2>2
  <2>4. RowsInv'
    <3>. SUFFICES ASSUME view.pc = "rows" PROVE RowsInv' BY <1>3, <2>2 DEF RowsInv
    <3>1. DOMAIN view = ListFields /\ Asked(view) BY DEF PageInv, RowsInv
    <3>2. /\ DOMAIN v = ListFields /\ v.calm = FALSE
          /\ v.side = view.side /\ v.of = view.of /\ v.sort = view.sort /\ v.limit = view.limit
      BY <2>1, <3>1 DEF ListFields
    <3>3. Asked(view)' BY <1>3, <3>1, <3>2 DEF Asked, Records
    <3>. QED BY <1>3, <3>2, <3>3 DEF RowsInv
  <2>5. TotalsInv'
    <3>. SUFFICES ASSUME view.pc = "totals" PROVE TotalsInv' BY <1>3, <2>2 DEF TotalsInv
    <3>1. /\ DOMAIN view = ListFields \union {"rows"} /\ Asked(view) /\ view.calm \in BOOLEAN
          /\ Len(view.rows) \in Nat /\ Len(view.rows) <= CountOf(view)
          /\ view.side # "grants" =>
               \A i, j \in DOMAIN view.rows : view.rows[i].id = view.rows[j].id => i = j
      BY DEF PageInv, TotalsInv
    <3>2. /\ DOMAIN v = ListFields \union {"rows"} /\ v.calm = FALSE /\ v.rows = view.rows
          /\ v.side = view.side /\ v.of = view.of /\ v.sort = view.sort /\ v.limit = view.limit
      BY <2>1, <3>1 DEF ListFields
    <3>3. Asked(view)' BY <1>3, <3>1, <3>2 DEF Asked, Records
    <3>4. Len(v.rows) <= CountOf(view)'
      <4>1. PICK u : u = view OBVIOUS
      <4>2. CountOf(u) \in Nat /\ CountOf(u)' \in Nat /\ CountOf(u) <= CountOf(u)'
        BY <1>1, <3>1, <4>1, MoreIsCounted
      <4>3. CountOf(v)' = CountOf(u)' BY <3>2, <4>1 DEF CountOf
      <4>. QED BY <1>3, <3>1, <3>2, <4>1, <4>2, <4>3
    <3>. QED BY <1>3, <3>1, <3>2, <3>3, <3>4 DEF TotalsInv
  <2>6. ASSUME DetailIs(view), DOMAIN view = DetailFields \/ DOMAIN view = DetailFields \union {"siblings"}
        PROVE  DetailIs(view)' /\ DOMAIN v = DOMAIN view /\ v.calm = FALSE
    <3>1. /\ DOMAIN v = DOMAIN view /\ v.calm = FALSE /\ v.found = view.found
          /\ v.contract = view.contract /\ v.notice = view.notice
          /\ v.undisclosed = view.undisclosed /\ v.winner = view.winner
      BY <2>1, <2>6 DEF DetailFields
    <3>2. v.found = TRUE /\ v.contract \in PageContracts' /\ \E n \in Chain(v.contract)' : n.id = v.notice
      BY <1>5, <2>6, <3>1 DEF DetailIs
    <3>3. v.undisclosed => v.winner = Nobody BY <2>6, <3>1 DEF DetailIs
    <3>. QED BY <1>3, <3>1, <3>2, <3>3 DEF DetailIs, Nobody
  <2>7. SiblingsInv' BY <1>3, <2>2, <2>6 DEF PageInv, SiblingsInv
  <2>8. CountInv' BY <1>3, <2>2, <2>6 DEF PageInv, CountInv
  <2>9. LookupInv' BY <1>3, <2>1, <2>2 DEF PageInv, LookupInv
  <2>10. ASSUME DOMAIN view = SearchFields, SearchIs(view.hits, view.limit)
         PROVE  /\ DOMAIN v = SearchFields /\ v.hits = view.hits /\ v.limit = view.limit
                /\ v.sure = view.sure /\ v.query = view.query
    BY <2>1, <2>10 DEF SearchFields
  <2>11. SuppliersInv'
    <3>. SUFFICES ASSUME view.pc = "suppliers" PROVE SuppliersInv' BY <1>3, <2>2 DEF SuppliersInv
    <3>1. /\ DOMAIN view = SearchFields /\ SearchIs(view.hits, view.limit)
          /\ StillFinds(Suppliers \union Beneficiaries)
      BY DEF PageInv, SuppliersInv
    <3>2. StillFinds(Suppliers \union Beneficiaries)'
      BY <1>3, <1>7, <2>10, <3>1 DEF StillFinds
    <3>. QED BY <1>3, <2>10, <3>1, <3>2 DEF SuppliersInv
  <2>12. GranteesInv'
    <3>. SUFFICES ASSUME view.pc = "grantees" PROVE GranteesInv' BY <1>3, <2>2 DEF GranteesInv
    <3>1. DOMAIN view = SearchFields /\ SearchIs(view.hits, view.limit) /\ StillFinds(Beneficiaries)
      BY DEF PageInv, GranteesInv
    <3>2. StillFinds(Beneficiaries)' BY <1>3, <1>7, <2>10, <3>1 DEF StillFinds
    <3>. QED BY <1>3, <2>10, <3>1, <3>2 DEF GranteesInv
  <2>. QED BY <1>1, <2>3, <2>4, <2>5, <2>7, <2>8, <2>9, <2>11, <2>12 DEF PageInv
<1>. QED BY <1>8, <1>9

LEMMA PagesBegin == PagesInit => PageInv
<1>. SUFFICES ASSUME PagesInit PROVE PageInv OBVIOUS
<1>1. view.pc = "idle" /\ written = {} BY DEF PagesInit, Idle
<1>. QED BY <1>1, Quiet
     DEF PageInv, GraphInv, RowsInv, TotalsInv, SiblingsInv, CountInv, LookupInv, SuppliersInv, GranteesInv

\* A statement leaves a request in one place.
LEMMA OtherPlaces ==
  /\ view.pc # "rows" => RowsInv
  /\ view.pc # "totals" => TotalsInv
  /\ view.pc # "siblings" => SiblingsInv
  /\ view.pc # "siblingCount" => CountInv
  /\ view.pc # "lookup" => LookupInv
  /\ view.pc # "suppliers" => SuppliersInv
  /\ view.pc # "grantees" => GranteesInv
  BY DEF RowsInv, TotalsInv, SiblingsInv, CountInv, LookupInv, SuppliersInv, GranteesInv

LEMMA StillPages ==
  ASSUME PageInv, UNCHANGED <<written, lookups, view>>
  PROVE  PageInv'
<1>1. /\ GraphInv /\ RowsInv /\ TotalsInv /\ SiblingsInv /\ CountInv /\ LookupInv
      /\ SuppliersInv /\ GranteesInv
      /\ ListsAgree /\ DetailIsOfTheNotice /\ LinksOpenTheNotice /\ SearchIsWhole
  BY DEF PageInv, PagesAgree
<1>2. GraphInv' /\ RowsInv' /\ LookupInv'
  BY <1>1 DEF GraphInv, RowsInv, LookupInv, Asked, Records
<1>3. TotalsInv'
  <2>1. ListKeys(view)' = ListKeys(view) /\ CountOf(view)' = CountOf(view) BY StillListed
  <2>. QED BY <1>1, <2>1 DEF TotalsInv, Asked, Records
<1>4. DetailIs(view) => DetailIs(view)' BY StillGraph DEF DetailIs, Nobody
<1>5. SiblingsOf' = SiblingsOf BY StillGraph DEF SiblingsOf
<1>6. SiblingsInv' BY <1>1, <1>4 DEF SiblingsInv
<1>7. CountInv' BY <1>1, <1>4, <1>5 DEF CountInv
<1>8. Suppliers' = Suppliers /\ Beneficiaries' = Beneficiaries BY StillFirms
<1>9. SuppliersInv' /\ GranteesInv' BY <1>1, <1>8 DEF SuppliersInv, GranteesInv, StillFinds
<1>10. ListsAgree' BY <1>1, StillGraph DEF ListsAgree, Answers
<1>11. DetailIsOfTheNotice' BY <1>1, StillGraph DEF DetailIsOfTheNotice, Answers, Nobody
<1>12. LinksOpenTheNotice' /\ SearchIsWhole' BY <1>1 DEF LinksOpenTheNotice, SearchIsWhole, Answers
<1>. QED BY <1>2, <1>3, <1>6, <1>7, <1>9, <1>10, <1>11, <1>12 DEF PageInv, PagesAgree

LEMMA PagesStep == PageInv /\ [PagesNext]_pageVars => PageInv'
<1>. SUFFICES ASSUME PageInv, [PagesNext]_pageVars PROVE PageInv' OBVIOUS
<1>1. /\ GraphInv /\ RowsInv /\ TotalsInv /\ SiblingsInv /\ CountInv /\ LookupInv
      /\ SuppliersInv /\ GranteesInv /\ PagesAgree
  BY DEF PageInv
<1>2. /\ (view.pc # "rows" => RowsInv)' /\ (view.pc # "totals" => TotalsInv)'
      /\ (view.pc # "siblings" => SiblingsInv)' /\ (view.pc # "siblingCount" => CountInv)'
      /\ (view.pc # "lookup" => LookupInv)' /\ (view.pc # "suppliers" => SuppliersInv)'
      /\ (view.pc # "grantees" => GranteesInv)'
  BY OtherPlaces, PTL
<1>3. UNCHANGED written => GraphInv' BY <1>1 DEF GraphInv
<1>4. ASSUME NEW f \in GraphFact, Write(f) PROVE PageInv' BY <1>4, WriteKeeps
<1>5. ASSUME NEW id \in NoticeIds, AskDetail(id) PROVE PageInv'
  <2>1. (SiblingsInv /\ CountInv /\ PagesAgree)' /\ view'.pc \in {"siblings", "answered"}
    BY <1>1, <1>5, DetailAsked
  <2>2. UNCHANGED written BY <1>5 DEF AskDetail
  <2>. QED BY <1>2, <1>3, <2>1, <2>2 DEF PageInv
<1>6. ASSUME NEW id \in LinkQuery, AskLink(id) PROVE PageInv'
  <2>1. (LookupInv /\ PagesAgree)' /\ view'.pc \in {"lookup", "answered"} BY <1>6, LinkAsked
  <2>2. UNCHANGED written BY <1>6 DEF AskLink
  <2>. QED BY <1>2, <1>3, <2>1, <2>2 DEF PageInv
<1>7. ASSUME NEW list \in ListQuery, AskList(list) PROVE PageInv'
  <2>1. (RowsInv /\ TotalsInv /\ PagesAgree)' /\ view'.pc \in {"rows", "answered"}
    BY <1>1, <1>7, ListAsked
  <2>2. UNCHANGED written BY <1>7 DEF AskList
  <2>. QED BY <1>2, <1>3, <2>1, <2>2 DEF PageInv
<1>8. CASE ListRows
  <2>1. (RowsInv /\ TotalsInv /\ PagesAgree)' /\ view'.pc = "totals" BY <1>1, <1>8, ListRead
  <2>2. UNCHANGED written BY <1>8 DEF ListRows
  <2>. QED BY <1>2, <1>3, <2>1, <2>2 DEF PageInv
<1>9. CASE ListTotals
  <2>1. PagesAgree' /\ view'.pc = "answered" BY <1>1, <1>9, ListCounted
  <2>2. UNCHANGED written BY <1>9 DEF ListTotals
  <2>. QED BY <1>2, <1>3, <2>1, <2>2 DEF PageInv
<1>10. CASE FrameworkSiblings
  <2>1. (SiblingsInv /\ CountInv /\ PagesAgree)' /\ view'.pc = "siblingCount"
    BY <1>1, <1>10, SiblingsRead
  <2>2. UNCHANGED written BY <1>10 DEF FrameworkSiblings
  <2>. QED BY <1>2, <1>3, <2>1, <2>2 DEF PageInv
<1>11. CASE SiblingCount
  <2>1. PagesAgree' /\ view'.pc = "answered" BY <1>1, <1>11, SiblingsCounted
  <2>2. UNCHANGED written BY <1>11 DEF SiblingCount
  <2>. QED BY <1>2, <1>3, <2>1, <2>2 DEF PageInv
<1>12. CASE LookUp
  <2>1. PagesAgree' /\ view'.pc = "answered" BY <1>1, <1>12, LinkLookedUp
  <2>2. UNCHANGED written BY <1>12 DEF LookUp
  <2>. QED BY <1>2, <1>3, <2>1, <2>2 DEF PageInv
<1>13. CASE AskTitles(NoticeIds)
  <2>1. PagesAgree' /\ view'.pc = "answered" BY <1>1, <1>13, TitlesAsked
  <2>2. UNCHANGED written BY <1>13 DEF AskTitles
  <2>. QED BY <1>2, <1>3, <2>1, <2>2 DEF PageInv
<1>14. ASSUME NEW text \in SearchFor, AskSearch(text.q, text.limit) PROVE PageInv'
  <2>1. (SuppliersInv /\ PagesAgree)' /\ view'.pc = "suppliers" BY <1>1, <1>14, SearchAsked
  <2>2. UNCHANGED written BY <1>14 DEF AskSearch
  <2>. QED BY <1>2, <1>3, <2>1, <2>2 DEF PageInv
<1>15. CASE SearchSuppliers
  <2>1. (SuppliersInv /\ GranteesInv /\ PagesAgree)' /\ view'.pc = "grantees"
    BY <1>1, <1>15, SuppliersSearched
  <2>2. UNCHANGED written BY <1>15 DEF SearchSuppliers
  <2>. QED BY <1>2, <1>3, <2>1, <2>2 DEF PageInv
<1>16. CASE SearchGrantees
  <2>1. PagesAgree' /\ view'.pc = "answered" BY <1>1, <1>16, GranteesSearched
  <2>2. UNCHANGED written BY <1>16 DEF SearchGrantees
  <2>. QED BY <1>2, <1>3, <2>1, <2>2 DEF PageInv
<1>17. CASE Read
  <2>1. view'.pc = "idle" /\ UNCHANGED written BY <1>17 DEF Read, Idle
  <2>2. (view.pc # "answered" => PagesAgree)' BY Quiet, PTL
  <2>. QED BY <1>2, <1>3, <2>1, <2>2 DEF PageInv
<1>18. CASE UNCHANGED pageVars
  <2>1. UNCHANGED <<written, lookups, view>> BY <1>18 DEF pageVars
  <2>. QED BY <1>1, <2>1, StillPages DEF PageInv
<1>. QED BY <1>4, <1>5, <1>6, <1>7, <1>8, <1>9, <1>10, <1>11, <1>12, <1>13, <1>14, <1>15, <1>16,
            <1>17, <1>18 DEF PagesNext

\* routers/contracts.py and graph_contract_source.py: each page of the API agrees with
\* itself, although its statements read different states of the graph: a list with its
\* count, its total and its order, the page of a contract with the notice asked for, a
\* link with the notice it opens, and a search with its limit and with all whom it would
\* have found; for any notices, merges, listings, grants, lists, searches and limits,
\* whatever is written between two statements.
THEOREM PagesSpeakAlike == PagesSpec => []PagesAgree
<1>1. PageInv => PagesAgree BY DEF PageInv
<1>. QED BY <1>1, PagesBegin, PagesStep, PTL DEF PagesSpec
=============================================================================
