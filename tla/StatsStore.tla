------------------------------ MODULE StatsStore -------------------------------
(***************************************************************************)
(* The tables of the statistics store around the observations              *)
(* (src/src/stats_etl/db.py) and the two CronJobs that write them          *)
(* (cron.py): register-seed keeps the catalogue in step with a file, then  *)
(* the sync stores observations, dataset by dataset, and recomputes from   *)
(* them the statistics and the availability of the years it fetched.       *)
(* Each call of the database is one transaction, and a run counts as a     *)
(* success before anything is recomputed.  What Eurostat publishes, and    *)
(* when a dataset is skipped, is StatsSync.                                *)
(***************************************************************************)
EXTENDS Integers, FiniteSets, FiniteSetsExt

CONSTANTS
  Dataset,         \* the codes of SEED_DATASETS
  FileCodes,       \* the codes that the file of the CronJobs may list
  MaxObservedYear, \* bound: years 1..MaxObservedYear
  MaxRegions,      \* bound: regions that have a value in a year
  MaxLoads,        \* bound: batches of observations
  MaxStatsFailures,\* bound: runs, recomputes and jobs that fail
  NoCodes          \* no file of codes, or none in it

ASSUME StoreAssumption == NoCodes \notin Dataset

Cadence == {"daily", "weekly"}
ObservedYear == 1..MaxObservedYear

\* A table by year: year y has table[y] regions with a value, -1 for no row.
NoYears == [y \in ObservedYear |-> -1]

VARIABLES
  enabled,       \* the datasets of the catalogue that are enabled
  observed,      \* observed[d]: the observations of d
  everSynced,    \* the datasets with a successful run
  statistics,    \* statistics[d]: the observations dataset_stats was computed from
  availability,  \* availability[d]: dataset_year_availability
  cronJob,       \* cronJob[j]: where job j is, and its local variables
  statsFailures, \* failures so far
  loads          \* batches so far

storeVars == <<enabled, observed, everSynced, statistics, availability, cronJob,
               statsFailures, loads>>

\* file: --from-file; seeds: still to register; due: still to sync; code, since:
\* the dataset being synced and its start_period, 0 for everything.
JobIdle == [pc |-> "idle", file |-> NoCodes, seeds |-> {}, due |-> {},
            code |-> NoCodes, since |-> 0]

StoreInit ==
  /\ enabled = {} /\ everSynced = {}
  /\ observed = [d \in Dataset |-> NoYears]
  /\ statistics = observed /\ availability = observed
  /\ cronJob = [j \in Cadence |-> JobIdle]
  /\ statsFailures = 0 /\ loads = 0

----------------------------------------------------------------------------
(* register-seed                                                           *)

\* The datasets that --from-file keeps: all of them if it is missing or empty.
Seeded(file) == IF file = NoCodes THEN Dataset ELSE file

CronFires(j) ==
  /\ cronJob[j].pc = "idle" /\ loads < MaxLoads
  /\ \E file \in {NoCodes} \union (SUBSET FileCodes \ {{}}) :
       cronJob' = [cronJob EXCEPT ![j] =
                     [@ EXCEPT !.pc = "seed", !.file = file,
                                !.seeds = Seeded(file) \intersect Dataset]]
  /\ UNCHANGED <<enabled, observed, everSynced, statistics, availability,
                 statsFailures, loads>>

\* upsert_dataset: the seed's own enabled = TRUE wins over the row's.
RegisterSeed(j) ==
  /\ cronJob[j].pc = "seed"
  /\ \E d \in cronJob[j].seeds :
       /\ enabled' = enabled \union {d}
       /\ cronJob' = [cronJob EXCEPT ![j].seeds = @ \ {d}]
  /\ UNCHANGED <<observed, everSynced, statistics, availability, statsFailures, loads>>

\* disable_datasets_not_in; without a file, nothing is disabled.
DisableOthers(j) ==
  /\ cronJob[j].pc = "seed" /\ cronJob[j].seeds = {}
  /\ enabled' = enabled \intersect Seeded(cronJob[j].file)
  /\ cronJob' = [cronJob EXCEPT ![j].pc = "list"]
  /\ UNCHANGED <<observed, everSynced, statistics, availability, statsFailures, loads>>

\* cmd_sync: every enabled dataset, or for the daily job the stale ones.
ListDue(j) ==
  /\ cronJob[j].pc = "list"
  /\ \E due \in SUBSET enabled :
       /\ j = "weekly" => due = enabled
       /\ cronJob' = [cronJob EXCEPT ![j].pc = "next", ![j].due = due]
  /\ UNCHANGED <<enabled, observed, everSynced, statistics, availability,
                 statsFailures, loads>>

----------------------------------------------------------------------------
(* sync: one dataset after the other                                       *)

Rows(d) == {y \in ObservedYear : observed[d][y] >= 0}

\* start_period: the year before max_observed_year; only --force, and a
\* dataset that never succeeded, take the whole history.
SyncSince(j, d) ==
  IF j = "weekly" \/ d \notin everSynced \/ Rows(d) = {} THEN 0 ELSE Max(Rows(d)) - 1

\* The next dataset; one that was disabled since is skipped, unless forced,
\* and so is one that Eurostat has not updated.
NextDataset(j) ==
  /\ cronJob[j].pc = "next"
  /\ \E d \in cronJob[j].due :
       \/ cronJob' = [cronJob EXCEPT ![j] =
            [@ EXCEPT !.pc = "load", !.due = cronJob[j].due \ {d}, !.code = d,
                      !.since = SyncSince(j, d)]]
          /\ (d \in enabled \/ j = "weekly")
       \/ cronJob' = [cronJob EXCEPT ![j].due = @ \ {d}] /\ j = "daily"
  /\ UNCHANGED <<enabled, observed, everSynced, statistics, availability,
                 statsFailures, loads>>

\* bulk_upsert_observations: rows of the years from since on, none deleted.
LoadBatch(j) ==
  LET d == cronJob[j].code IN
  /\ cronJob[j].pc = "load" /\ loads < MaxLoads
  /\ \E file \in [{y \in ObservedYear : y >= cronJob[j].since} -> -1..MaxRegions] :
       observed' = [observed EXCEPT ![d] =
         [y \in ObservedYear |->
            IF y >= cronJob[j].since /\ file[y] >= 0 THEN file[y] ELSE @[y]]]
  /\ loads' = loads + 1
  /\ UNCHANGED <<enabled, everSynced, statistics, availability, cronJob, statsFailures>>

\* finish_run "success"; from here on, nothing makes the run a failure.
FinishSync(j) ==
  /\ cronJob[j].pc = "load"
  /\ everSynced' = everSynced \union {cronJob[j].code}
  /\ cronJob' = [cronJob EXCEPT ![j].pc = "stats"]
  /\ UNCHANGED <<enabled, observed, statistics, availability, statsFailures, loads>>

\* recompute_slice_stats and recompute_dataset_stats: over all observations.
RecomputeStats(j) ==
  LET d == cronJob[j].code IN
  /\ cronJob[j].pc = "stats"
  /\ statistics' = [statistics EXCEPT ![d] = observed[d]]
  /\ cronJob' = [cronJob EXCEPT ![j].pc = "availability"]
  /\ UNCHANGED <<enabled, observed, everSynced, availability, statsFailures, loads>>

\* Mutant: all years are deleted, and those fetched are inserted.
Rewritten_All(old, obs, since) ==
  [y \in ObservedYear |-> IF y >= since THEN obs[y] ELSE -1]

\* "Delete exactly the span being rewritten".
Rewritten(old, obs, since) ==
  [y \in ObservedYear |-> IF y >= since THEN obs[y] ELSE old[y]]

\* recompute_year_availability: delete and insert in one transaction.
RecomputeAvailability(j) ==
  LET d == cronJob[j].code IN
  /\ cronJob[j].pc = "availability"
  /\ availability' = [availability EXCEPT ![d] =
                        Rewritten(@, observed[d], cronJob[j].since)]
  /\ cronJob' = [cronJob EXCEPT ![j] =
                   [@ EXCEPT !.pc = "next", !.code = NoCodes, !.since = 0]]
  /\ UNCHANGED <<enabled, observed, everSynced, statistics, statsFailures, loads>>

\* A recompute that fails is logged, and the sync goes on; a sync that fails
\* goes on with the next dataset; and a job may be killed anywhere.
After(j) ==
  CASE cronJob[j].pc = "stats"        -> {[cronJob[j] EXCEPT !.pc = "availability"]}
    [] cronJob[j].pc \in {"availability", "load"} ->
         {[cronJob[j] EXCEPT !.pc = "next", !.code = NoCodes, !.since = 0]}
    [] OTHER -> {}

StatsFailure(j) ==
  /\ cronJob[j].pc # "idle" /\ statsFailures < MaxStatsFailures
  /\ statsFailures' = statsFailures + 1
  /\ \E then \in After(j) \union {JobIdle} : cronJob' = [cronJob EXCEPT ![j] = then]
  /\ UNCHANGED <<enabled, observed, everSynced, statistics, availability, loads>>

JobEnds(j) ==
  /\ cronJob[j].pc = "next" /\ cronJob[j].due = {}
  /\ cronJob' = [cronJob EXCEPT ![j] = JobIdle]
  /\ UNCHANGED <<enabled, observed, everSynced, statistics, availability,
                 statsFailures, loads>>

StoreNext ==
  \E j \in Cadence :
    \/ CronFires(j) \/ RegisterSeed(j) \/ DisableOthers(j) \/ ListDue(j)
    \/ NextDataset(j) \/ LoadBatch(j) \/ FinishSync(j)
    \/ RecomputeStats(j) \/ RecomputeAvailability(j)
    \/ StatsFailure(j) \/ JobEnds(j)

StoreSpec == StoreInit /\ [][StoreNext]_storeVars

----------------------------------------------------------------------------
(* Properties                                                              *)

Unsettled(d) == \E j \in Cadence : cronJob[j].code = d

\* As long as nothing failed, the statistics and the availability of a dataset
\* are those of its observations whenever no job is at it, whatever the other
\* job stored meanwhile: the span an incremental sync rewrites is all it may
\* have changed.
DerivedIsCurrent ==
  statsFailures = 0 =>
    \A d \in Dataset :
      ~Unsettled(d) => statistics[d] = observed[d] /\ availability[d] = observed[d]
=============================================================================
