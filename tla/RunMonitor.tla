------------------------------ MODULE RunMonitor ------------------------------
(***************************************************************************)
(* What operators are told of the ETL.                                     *)
(*                                                                         *)
(* Runs: a Job starts pods, each of which is wrapped in a row of           *)
(* events.etl_run (src/src/etl/_run_wrapper.py); an hourly reaper closes   *)
(* the rows of pods that were killed.  Hours stand for seconds.            *)
(*                                                                         *)
(* Checks: dq-assert-monitor goes through the catalogue of assertions      *)
(* (src/src/data_quality/assertions) and appends a row per assertion to    *)
(* events.dq_result; a page (api/routers/dq_assertions.py) shows the last  *)
(* run and since when each of its assertions has been failing.             *)
(***************************************************************************)
EXTENDS Integers, Sequences, FiniteSets, FiniteSetsExt

CONSTANTS
  Job,             \* the Jobs and CronJobs that run under the wrapper
  Deadline,        \* Deadline[j]: activeDeadlineSeconds
  Retries,         \* backoffLimit
  HandsOver,       \* the jobs whose pods are given RUN_DEADLINE_SECONDS
  DefaultDeadline, \* REAP_DEFAULT_DEADLINE_SECONDS
  StuckAfter,      \* the hours of pipeline.stuck_runs
  Check,           \* the assertions of the catalogue, and "spine" among them
  Blocking,        \* those of severity "block"
  Presence,        \* those that want at least something in their row
  Unwired,         \* those whose engine this environment lacks
  MaxHour,         \* bound: hours
  MaxRuns,         \* bound: rows of etl_run
  MaxMissed,       \* bound: hours in which the reaper does not get through
  MaxHistory,      \* bound: persisted runs of the catalogue
  MaxDrift         \* bound: changes of what the assertions are about

ASSUME RunMonitorAssumption ==
  /\ HandsOver \subseteq Job /\ "spine" \in Check
  /\ Deadline \in [Job -> Nat] /\ {DefaultDeadline, StuckAfter} \subseteq Nat
  \* Four hours and six: the reaper comes between a deadline and the alarm.
  /\ DefaultDeadline < StuckAfter /\ \A j \in HandsOver : Deadline[j] < StuckAfter
  /\ Blocking \union Presence \union Unwired \subseteq Check

VARIABLES
  clock,    \* the hour
  jobs,     \* jobs[j]: since when job j is active, and the pods it has had
  pod,      \* pod[j]: how far its pod is: "none", "starts", "runs", "exits0", "exits1"
  podRow,   \* podRow[j]: the row that the pod has open, or 0
  etlRuns,  \* events.etl_run
  ended,    \* history: how the execution of j ended, while no other is active
  onRecord, \* history: the jobs whose last pod, if it dies now, leaves a row that tells
  reaped,   \* whether the reaper has come by in this hour
  missed,   \* hours in which it did not
  world,    \* world[c]: what the query of c would answer now
  graphActs, mirrorActs,  \* the counts that "spine" compares
  wiped,    \* history: whether the mirror was ever wiped
  catalogueRun, \* the run of the catalogue and its local variables
  results,  \* events.dq_result: the persisted runs, oldest first
  monitor,  \* the request for the page and its local variables
  drift

runVars == <<clock, jobs, pod, podRow, etlRuns, ended, onRecord, reaped, missed>>
checkVars == <<world, graphActs, mirrorActs, wiped, catalogueRun, results, monitor, drift>>
monitorVars == <<runVars, checkVars>>

----------------------------------------------------------------------------
(* Runs.                                                                   *)

NotActive == [since |-> -1, pods |-> 0]
Active(j) == jobs[j] # NotActive

RunsInit ==
  /\ clock = 0 /\ etlRuns = <<>> /\ reaped = FALSE /\ missed = 0
  /\ jobs = [j \in Job |-> NotActive] /\ ended = [j \in Job |-> "never"]
  /\ pod = [j \in Job |-> "none"] /\ podRow = [j \in Job |-> 0] /\ onRecord = {}

\* The schedule fires; concurrencyPolicy Forbid.
Fires(j) ==
  /\ ~Active(j) /\ Len(etlRuns) < MaxRuns
  /\ jobs' = [jobs EXCEPT ![j] = [since |-> clock, pods |-> 0]]
  /\ ended' = [ended EXCEPT ![j] = "never"]
  /\ UNCHANGED <<clock, pod, podRow, etlRuns, onRecord, reaped, missed>>

\* The next pod of the job.
StartPod(j) ==
  /\ Active(j) /\ pod[j] = "none"
  /\ jobs' = [jobs EXCEPT ![j].pods = @ + 1]
  /\ pod' = [pod EXCEPT ![j] = "starts"]
  /\ onRecord' = onRecord \ {j}
  /\ UNCHANGED <<clock, podRow, etlRuns, ended, reaped, missed>>

\* RunLog.__enter__.
OpenRunLog(j) ==
  /\ pod[j] = "starts" /\ Len(etlRuns) < MaxRuns
  /\ etlRuns' = Append(etlRuns, [job |-> j, started |-> clock, status |-> "running"])
  /\ pod' = [pod EXCEPT ![j] = "runs"]
  /\ podRow' = [podRow EXCEPT ![j] = Len(etlRuns')]
  /\ onRecord' = onRecord \union {j}
  /\ UNCHANGED <<clock, jobs, ended, reaped, missed>>

\* Mutant: what a loader returns does not matter, only what it raises.
Recorded_Raised(outcome) == IF outcome = "raises" THEN "failed" ELSE "success"

\* main: a code other than 0 leaves the RunLog as an exception.
Recorded(outcome) == IF outcome = "zero" THEN "success" ELSE "failed"

\* The loader's main returns, or raises, and RunLog.__exit__ commits the row; the pod is
\* still there.  A row that the reaper has closed is left alone or overwritten, which is
\* up to fontem_events.
LoaderEnds(j) ==
  /\ pod[j] = "runs"
  /\ \E outcome \in {"zero", "nonzero", "raises"} :
       /\ \E status \in ({etlRuns[podRow[j]].status} \ {"running"}) \union {Recorded(outcome)} :
            etlRuns' = [etlRuns EXCEPT ![podRow[j]].status = status]
       /\ pod' = [pod EXCEPT ![j] = IF outcome = "zero" THEN "exits0" ELSE "exits1"]
       /\ onRecord' = IF outcome = "zero" THEN onRecord \ {j} ELSE onRecord
  /\ podRow' = [podRow EXCEPT ![j] = 0]
  /\ UNCHANGED <<clock, jobs, ended, reaped, missed>>

\* The job is over, without success.
Failure(j) == IF j \in onRecord THEN "failed" ELSE "failed off the record"
NoPod(j) == pod' = [pod EXCEPT ![j] = "none"] /\ podRow' = [podRow EXCEPT ![j] = 0]
Over(j) == jobs' = [jobs EXCEPT ![j] = NotActive] /\ onRecord' = onRecord \ {j}

\* The pod of j is gone: the job is over if it succeeded or has no pod left.
PodEnds(j, exitCode) ==
  /\ NoPod(j)
  /\ IF exitCode = 0 \/ jobs[j].pods > Retries
       THEN Over(j) /\ ended' = [ended EXCEPT ![j] = IF exitCode = 0 THEN "complete" ELSE Failure(j)]
       ELSE UNCHANGED <<jobs, ended, onRecord>>
  /\ UNCHANGED <<clock, etlRuns, reaped, missed>>

\* sys.exit(main()).
PodExits(j) ==
  \/ pod[j] = "exits0" /\ PodEnds(j, 0)
  \/ pod[j] = "exits1" /\ PodEnds(j, 1)

\* RunLog cannot reach the event store, to open its row or to close it.
RunLogFails(j) == pod[j] \in {"starts", "runs"} /\ PodEnds(j, 1)

\* Out of memory, evicted, or the node restarts: nothing closes the row.
PodKilled(j) == pod[j] # "none" /\ PodEnds(j, 137)

\* Kubernetes stops the job, whichever pod it has got to.
DeadlinePasses(j) ==
  /\ Active(j) /\ clock >= jobs[j].since + Deadline[j]
  /\ NoPod(j) /\ Over(j)
  /\ ended' = [ended EXCEPT ![j] = IF jobs[j].pods = 0 THEN "never started" ELSE Failure(j)]
  /\ UNCHANGED <<clock, etlRuns, reaped, missed>>

\* deadline_seconds of the row.
RowDeadline(r) == IF r.job \in HandsOver THEN Deadline[r.job] ELSE DefaultDeadline

\* Past its deadline and the grace period.
Expired(r) == r.status = "running" /\ r.started + RowDeadline(r) < clock

\* fontem_events.reaper: one UPDATE.
Reap ==
  /\ ~reaped /\ reaped' = TRUE
  /\ etlRuns' = [i \in DOMAIN etlRuns |->
       IF Expired(etlRuns[i]) THEN [etlRuns[i] EXCEPT !.status = "crashed"] ELSE etlRuns[i]]
  /\ UNCHANGED <<clock, jobs, pod, podRow, ended, onRecord, missed>>

\* The reaper's own job fails.
ReaperFails ==
  /\ ~reaped /\ missed < MaxMissed
  /\ reaped' = TRUE /\ missed' = missed + 1
  /\ UNCHANGED <<clock, jobs, pod, podRow, etlRuns, ended, onRecord>>

\* Kubernetes stops a job in the hour of its deadline.
HourPasses ==
  /\ clock < MaxHour /\ reaped
  /\ \A j \in Job : Active(j) => clock < jobs[j].since + Deadline[j]
  /\ clock' = clock + 1 /\ reaped' = FALSE
  /\ UNCHANGED <<jobs, pod, podRow, etlRuns, ended, onRecord, missed>>

RunsNext ==
  \/ \E j \in Job :
       \/ Fires(j) \/ StartPod(j) \/ OpenRunLog(j) \/ LoaderEnds(j) \/ PodExits(j)
       \/ RunLogFails(j) \/ PodKilled(j) \/ DeadlinePasses(j)
  \/ Reap \/ ReaperFails \/ HourPasses

\* pipeline.stuck_runs.
Stuck(r) == r.status = "running" /\ r.started + StuckAfter < clock

\* pipeline_metrics: the newest row of a cronjob.
LastRow(j) == etlRuns[Max({i \in DOMAIN etlRuns : etlRuns[i].job = j})]

----------------------------------------------------------------------------
(* Checks.                                                                 *)

\* What a query may answer: rows as they should be or not, no row, an exception.
QueryAnswer == {"good", "bad", "norow", "raises"}

\* The evaluators read a missing value as 0.
Held(c, answer) == answer = "good" \/ (answer = "norow" /\ c \notin Presence)

\* evaluate_assertion.
Verdict(c, answer) ==
  IF c \notin Unwired /\ Held(c, answer) THEN "pass"
  ELSE IF c \notin Blocking THEN "warn"
  ELSE IF c \in Unwired \/ answer = "raises" THEN "error" ELSE "fail"

\* legal_act_spine_check.
AtLeastZero(n) == IF n > 0 THEN n ELSE 0
SpineAnswer(inGraphN, inMirrorN) ==
  LET shortfall == AtLeastZero(inMirrorN - inGraphN - inMirrorN \div 20)
      excess == AtLeastZero(inGraphN - inMirrorN)
  IN IF shortfall + excess = 0 THEN "good" ELSE "bad"

NoRun == [pc |-> "idle", got |-> [c \in {} |-> "pass"], graph |-> 0, excess |-> FALSE]
NoRequest == [pc |-> "idle", run |-> 0, failing |-> {}, since |-> [c \in {} |-> 0],
              last |-> 0, of |-> "nothing"]

ChecksInit ==
  /\ world = [c \in Check |-> "good"] /\ graphActs = 0 /\ mirrorActs = 0
  /\ wiped = FALSE /\ drift = 0
  /\ catalogueRun = NoRun /\ results = <<>> /\ monitor = NoRequest

Unchecked == UNCHANGED <<catalogueRun, results, monitor>>

\* The stores change.
WorldChanges ==
  /\ drift < MaxDrift /\ drift' = drift + 1
  /\ \E c \in Check \ {"spine"}, a \in QueryAnswer : world' = [world EXCEPT ![c] = a]
  /\ UNCHANGED <<graphActs, mirrorActs, wiped>> /\ Unchecked

\* The mirror gets an act; the materializer catches up; the mirror is wiped.
MirrorGrows ==
  /\ drift < MaxDrift /\ drift' = drift + 1 /\ mirrorActs' = mirrorActs + 1
  /\ UNCHANGED <<world, graphActs, wiped>> /\ Unchecked
SpineCatchesUp ==
  /\ graphActs < mirrorActs /\ graphActs' = mirrorActs
  /\ UNCHANGED <<world, mirrorActs, wiped, drift>> /\ Unchecked
MirrorIsWiped ==
  /\ drift < MaxDrift /\ drift' = drift + 1 /\ mirrorActs' = 0 /\ wiped' = TRUE
  /\ UNCHANGED <<world, graphActs>> /\ Unchecked

Untouched == UNCHANGED <<world, graphActs, mirrorActs, wiped, drift>>

StartCatalogue ==
  /\ catalogueRun.pc = "idle" /\ Len(results) < MaxHistory
  /\ catalogueRun' = [NoRun EXCEPT !.pc = "checks"]
  /\ Untouched /\ UNCHANGED <<results, monitor>>

\* run_catalog: an assertion with one query.
Evaluate(c) ==
  /\ catalogueRun.pc = "checks" /\ c \notin DOMAIN catalogueRun.got \union {"spine"}
  /\ catalogueRun' = [catalogueRun EXCEPT !.got =
       [d \in DOMAIN @ \union {c} |-> IF d = c THEN Verdict(c, world[c]) ELSE @[d]]]
  /\ Untouched /\ UNCHANGED <<results, monitor>>

\* legal_act_spine_check asks the graph and then the mirror.
CountGraph ==
  /\ catalogueRun.pc = "checks" /\ "spine" \notin DOMAIN catalogueRun.got
  /\ catalogueRun' = [catalogueRun EXCEPT !.pc = "mirror", !.graph = graphActs]
  /\ Untouched /\ UNCHANGED <<results, monitor>>
CountMirror ==
  /\ catalogueRun.pc = "mirror"
  /\ catalogueRun' = [catalogueRun EXCEPT !.pc = "checks",
       !.excess = @ \/ catalogueRun.graph > mirrorActs,
       !.got = [d \in DOMAIN @ \union {"spine"} |->
                  IF d = "spine" THEN Verdict(d, SpineAnswer(catalogueRun.graph, mirrorActs))
                  ELSE @[d]]]
  /\ Untouched /\ UNCHANGED <<results, monitor>>

\* persist_results: all of them, in one transaction, once the catalogue is through.
Persist ==
  /\ catalogueRun.pc = "checks" /\ DOMAIN catalogueRun.got = Check
  /\ results' = Append(results, catalogueRun.got)
  /\ catalogueRun' = NoRun
  /\ Untouched /\ UNCHANGED monitor

\* The deadline passes first, or the pod is killed.
CatalogueDies ==
  /\ catalogueRun.pc # "idle" /\ catalogueRun' = NoRun
  /\ Untouched /\ UNCHANGED <<results, monitor>>

\* get_assertion_monitor: the newest run_at; a statement later its rows.
OpenMonitor ==
  /\ monitor.pc \in {"idle", "done"} /\ results # <<>>
  /\ monitor' = [NoRequest EXCEPT !.pc = "rows", !.run = Len(results)]
  /\ Untouched /\ UNCHANGED <<catalogueRun, results>>
FailingRows(r) == {c \in Check : results[r][c] # "pass"}
ReadRows ==
  /\ monitor.pc = "rows"
  /\ monitor' = [monitor EXCEPT !.pc = "loop", !.failing = FailingRows(monitor.run)]
  /\ Untouched /\ UNCHANGED <<catalogueRun, results>>

\* _LAST_PASS, _FIRST_FAIL_AFTER: the times of runs, 0 for NULL.
LastPass(c) == Max({0} \union {k \in DOMAIN results : results[k][c] = "pass"})

FirstFailAfter(c, last) ==
  LET later == {k \in DOMAIN results : k > last /\ results[k][c] # "pass"} IN
  IF later = {} THEN 0 ELSE Min(later)

\* The loop over the rows, with two statements for each that does not pass.
ReadLastPass(c) ==
  /\ monitor.pc = "loop" /\ c \in monitor.failing \ DOMAIN monitor.since
  /\ monitor' = [monitor EXCEPT !.pc = "since", !.of = c, !.last = LastPass(c)]
  /\ Untouched /\ UNCHANGED <<catalogueRun, results>>
ReadFirstFail ==
  /\ monitor.pc = "since"
  /\ monitor' = [monitor EXCEPT !.pc = "loop", !.of = "nothing", !.last = 0,
       !.since = [c \in DOMAIN @ \union {monitor.of} |->
          IF c = monitor.of THEN FirstFailAfter(c, monitor.last) ELSE @[c]]]
  /\ Untouched /\ UNCHANGED <<catalogueRun, results>>
AnswerMonitor ==
  /\ monitor.pc = "loop" /\ DOMAIN monitor.since = monitor.failing
  /\ monitor' = [monitor EXCEPT !.pc = "done"]
  /\ Untouched /\ UNCHANGED <<catalogueRun, results>>

ChecksNext ==
  \/ WorldChanges \/ MirrorGrows \/ SpineCatchesUp \/ MirrorIsWiped
  \/ StartCatalogue \/ \E c \in Check : Evaluate(c)
  \/ CountGraph \/ CountMirror \/ Persist \/ CatalogueDies
  \/ OpenMonitor \/ ReadRows \/ \E c \in Check : ReadLastPass(c)
  \/ ReadFirstFail \/ AnswerMonitor

\* The Jobs and the checks do not wait for each other.
MonitorSpec ==
  /\ RunsInit /\ [][RunsNext]_runVars
  /\ ChecksInit /\ [][ChecksNext]_checkVars

----------------------------------------------------------------------------
(* Properties.                                                             *)

\* The reaper never closes the row of a pod that runs, unless the job may outlive
\* the default and does not hand over its deadline.
LiveRunsStayOpen ==
  \A j \in Job :
    pod[j] = "runs" /\ (j \in HandsOver \/ Deadline[j] <= DefaultDeadline) =>
      etlRuns[podRow[j]].status = "running"

\* Whoever dies, and however often it is retried, a row stays open for at most an
\* hour beyond its deadline, and one more for each that the reaper missed; so what
\* pipeline.stuck_runs counts says that the reaper is down.
DeadRunsAreClosed ==
  \A i \in DOMAIN etlRuns :
    /\ etlRuns[i].status = "running" =>
         clock <= etlRuns[i].started + RowDeadline(etlRuns[i]) + 1 + missed
    /\ Stuck(etlRuns[i]) => missed > 0

\* The newest row of a job that is not active tells how its last execution ended,
\* though the row is written by the pod and the job is judged by its exit code.  Off the
\* record are the executions whose last pod was stopped before its RunLog had opened a
\* row or after the RunLog had closed it as a success, though not yet exited: there the
\* newest row may be an earlier one, or say success.  (Of an execution whose pods never
\* start there is no row.)
RowsMatchJobs ==
  \A j \in Job : ~Active(j) =>
    /\ ended[j] = "failed" => LastRow(j).status # "success"
    /\ ended[j] = "complete" /\ (j \in HandsOver \/ Deadline[j] <= DefaultDeadline) =>
         LastRow(j).status = "success"

\* Since when an assertion has been failing is when the streak of failures began
\* that the shown run belongs to, unless a later run, persisted while the page was
\* put together, passes it.
FailingSince(c, r) ==
  Min({k \in 1..r : \A l \in k..r : results[l][c] # "pass"})
FailingSinceIsTrue ==
  monitor.pc = "done" =>
    \A c \in FailingRows(monitor.run) :
      \/ monitor.since[c] = FailingSince(c, monitor.run)
      \/ \E k \in monitor.run + 1..Len(results) : results[k][c] = "pass"

\* The graph is counted first, so acts that arrive while the check runs are never
\* reported as acts that the mirror lacks: "means the spine outlived a mirror wipe".
ExcessMeansAWipe == catalogueRun.excess => wiped

\* What operators are told of runs and checks is so.
OperatorsAreTold ==
  LiveRunsStayOpen /\ DeadRunsAreClosed /\ RowsMatchJobs /\ FailingSinceIsTrue /\ ExcessMeansAWipe
=============================================================================
