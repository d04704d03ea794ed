---------------------------- MODULE WikidataMetrics ----------------------------
(***************************************************************************)
(* The metrics of the Wikidata pipeline (src/src/relay/metrics.py): a      *)
(* batch of the short-lived consumer leaves a row in consumer_runs, and a  *)
(* thread of the relay folds the rows it has not seen yet into counters of *)
(* its process, and then stores how far it has come.                       *)
(***************************************************************************)
EXTENDS Integers

CONSTANTS
  MaxBatches,    \* bound: batches that the consumer logs
  MaxPollFaults  \* bound: polls that Postgres fails, and relays that are killed

ASSUME MetricsAssumption == MaxBatches \in Nat

VARIABLES
  consumerRuns,  \* ids 1..consumerRuns of consumer_runs
  metricsState,  \* metrics_state.last_consumer_run_id
  counter,       \* how many of the rows, with repetitions, the process has counted
  folded,        \* history: folded[n]: how often row n was counted, by any process
  poll,          \* the poller and its local variables
  pollFaults

metricsVars == <<consumerRuns, metricsState, counter, folded, poll, pollFaults>>

PollSleeps == [pc |-> "sleeps", lastSeen |-> 0, maxId |-> 0, rows |-> 0]

MetricsInit ==
  /\ consumerRuns = 0 /\ metricsState = 0 /\ counter = 0
  /\ folded = [n \in 1..MaxBatches |-> 0]
  /\ poll = PollSleeps /\ pollFaults = 0

\* log_run: the summary of a batch.
LogRun ==
  /\ consumerRuns < MaxBatches /\ consumerRuns' = consumerRuns + 1
  /\ UNCHANGED <<metricsState, counter, folded, poll, pollFaults>>

\* _poll_once: how far the counters have come.
ReadMetricsState ==
  /\ poll.pc = "sleeps"
  /\ poll' = [pc |-> "rows", lastSeen |-> metricsState, maxId |-> metricsState, rows |-> 0]
  /\ UNCHANGED <<consumerRuns, metricsState, counter, folded, pollFaults>>

\* _poll_once: the rows after that, a statement later.
ReadRuns ==
  /\ poll.pc = "rows"
  /\ poll' = [poll EXCEPT !.pc = "count", !.rows = consumerRuns]
  /\ UNCHANGED <<consumerRuns, metricsState, counter, folded, pollFaults>>

\* _poll_once: a row is added to the counters of the process.
CountRun ==
  /\ poll.pc = "count" /\ poll.maxId < poll.rows
  /\ poll' = [poll EXCEPT !.maxId = @ + 1]
  /\ counter' = counter + 1
  /\ folded' = [folded EXCEPT ![poll.maxId + 1] = @ + 1]
  /\ UNCHANGED <<consumerRuns, metricsState, pollFaults>>

\* Mutant: the id of the newest row of the table, read when it is stored.
Passed_Newest == consumerRuns

\* max_id: the last row that was counted.
Passed == poll.maxId

\* _poll_once: the cursor follows, when there was a row.
StoreMetricsState ==
  /\ poll.pc = "count" /\ poll.maxId = poll.rows
  /\ metricsState' = IF poll.maxId > poll.lastSeen THEN Passed ELSE metricsState
  /\ poll' = PollSleeps
  /\ UNCHANGED <<consumerRuns, counter, folded, pollFaults>>

\* _refresh_loop: Postgres fails a poll, which is logged and tried again later;
\* the counters keep what was added to them.
PollFails ==
  /\ poll.pc # "sleeps" /\ pollFaults < MaxPollFaults
  /\ pollFaults' = pollFaults + 1 /\ poll' = PollSleeps
  /\ UNCHANGED <<consumerRuns, metricsState, counter, folded>>

\* The relay is killed: its successor counts from zero and goes on from the cursor.
RelayRestarts ==
  /\ pollFaults < MaxPollFaults /\ pollFaults' = pollFaults + 1
  /\ poll' = PollSleeps /\ counter' = 0
  /\ UNCHANGED <<consumerRuns, metricsState, folded>>

MetricsNext ==
  \/ LogRun \/ ReadMetricsState \/ ReadRuns \/ CountRun \/ StoreMetricsState
  \/ PollFails \/ RelayRestarts

MetricsSpec == MetricsInit /\ [][MetricsNext]_metricsVars

----------------------------------------------------------------------------
(* Properties                                                              *)

\* Whatever fails, a batch that the cursor has passed was counted by some
\* process, even one that was logged while a poll was under way; and none is
\* counted more often than once plus the number of polls that were cut short.
EveryBatchIsFolded ==
  \A n \in 1..MaxBatches :
    /\ n <= metricsState => folded[n] > 0
    /\ folded[n] <= 1 + pollFaults
=============================================================================
