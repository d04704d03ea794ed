------------------------------- MODULE StatsSync -------------------------------
(***************************************************************************)
(* EurostatLoader.sync (src/src/stats_etl/loader.py) on one dataset: the   *)
(* CronJobs that copy it from Eurostat into the table of observations,     *)
(* skip it when nothing was published, and fetch only the last years when  *)
(* something was.  Every database call is a transaction of its own, so a   *)
(* job that dies leaves the batches it had stored.                         *)
(*                                                                         *)
(* A stamp is a time at which Eurostat published; the value of a year is   *)
(* the stamp of the release that last changed it, 0 before there is one.   *)
(***************************************************************************)
EXTENDS Integers

CONSTANTS
  Job,             \* the CronJobs: daily, weekly
  Forced,          \* those that run with --force
  Overlap,         \* TRUE: a job may start while another one runs
  Batches,         \* transactions that one download is stored in
  MaxYear,         \* bound: years 1..MaxYear
  BaseYears,       \* years published before the first sync
  Depth,           \* a release changes no year further than this from its last
  PerDay,          \* stamps per day
  MaxTime,         \* bound: stamps
  CatalogueKinds,  \* what the catalogue may answer: "ok", "none"
  ProbeKinds,      \* what the metadata probe may: "ok", "undated", "fails"
  MaxAborts,       \* bound: runs that fail or are killed
  None             \* "no stamp"

Year == 1..MaxYear
Stamp == 0..MaxTime
Last == "the last success"

ASSUME JobAssumption == Forced \subseteq Job /\ Last \notin Job
ASSUME OverlapAssumption == Overlap \in BOOLEAN
ASSUME BatchesAssumption == Batches \in Nat \ {0}
ASSUME YearAssumption ==
  /\ MaxYear \in Nat /\ BaseYears \in 1..MaxYear /\ Depth \in Nat
ASSUME TimeAssumption ==
  /\ PerDay \in Nat \ {0} /\ MaxTime \in Nat /\ MaxTime > PerDay
ASSUME AnswerAssumption ==
  /\ CatalogueKinds \subseteq {"ok", "none"} /\ CatalogueKinds # {}
  /\ ProbeKinds \subseteq {"ok", "undated", "fails"} /\ ProbeKinds # {}
ASSUME MaxAbortsAssumption == MaxAborts \in Nat
ASSUME NoneAssumption == None \notin Nat

VARIABLES
  clock,    \* now
  updated,  \* Eurostat's "updated": the stamp of its last release
  up,       \* up[y]: what Eurostat publishes of year y
  store,    \* store[b][y]: year y of the observations that batch b holds
  last,     \* upstream_modified of the success that started last: the watermark
  run,      \* run[j]: where sync is in job j, and its local variables
  aborts    \* runs failed or killed so far

vars == <<clock, updated, up, store, last, run, aborts>>

\* before: what had started before this run (sync_run.started_at); cat: the
\* release the catalogue had, of which it tells the day; seen: last_upstream;
\* meta: meta.upstream_modified; start: start_period, 0 for the whole
\* history; snap: the downloaded file; next: the batch to store.
Run == [pc     : {"idle", "start", "gate", "probe", "fetch", "store"},
        before : SUBSET (Job \union {Last}),
        cat    : Stamp \union {None},
        seen   : Stamp \union {None},
        meta   : Stamp,
        start  : 0..MaxYear,
        snap   : [Year -> Stamp],
        next   : 1..Batches + 1]

Idle == [pc |-> "idle", before |-> {}, cat |-> None, seen |-> None, meta |-> 0,
         start |-> 0, snap |-> [y \in Year |-> 0], next |-> 1]

TypeOK ==
  /\ clock \in Stamp
  /\ updated \in Stamp
  /\ up \in [Year -> Stamp]
  /\ store \in [1..Batches -> [Year -> Stamp]]
  /\ last \in Stamp \union {None}
  /\ run \in [Job -> Run]
  /\ aborts \in 0..MaxAborts

At(j, pc) == run[j].pc = pc
Started(j) == run[j].pc \notin {"idle", "start"}
Latest(years) == {y \in years : \A z \in years : z <= y}
Day(stamp) == stamp \div PerDay
Midnight(day) == day * PerDay

----------------------------------------------------------------------------
(* Eurostat: a release corrects some of the last years and may add one.    *)

Release ==
  /\ clock < MaxTime
  /\ clock' = clock + 1
  /\ updated' = clock + 1
  /\ \E newest \in Latest({y \in Year : up[y] # 0}) :
       \E n \in {newest, newest + 1} \cap Year :
         \E changed \in SUBSET {y \in 1..n : y + Depth >= n} :
           /\ changed # {}
           /\ n # newest => n \in changed
           /\ up' = [y \in Year |-> IF y \in changed THEN clock + 1 ELSE up[y]]
  /\ UNCHANGED <<store, last, run, aborts>>

Tick ==
  /\ clock < MaxTime
  /\ clock' = clock + 1
  /\ UNCHANGED <<updated, up, store, last, run, aborts>>

----------------------------------------------------------------------------
(* sync, one action per access to Eurostat or to the database.             *)

\* A CronJob fires and fetches the catalogue: once, for all its datasets.
Launch(j) ==
  /\ At(j, "idle")
  /\ Overlap \/ \A k \in Job : At(k, "idle")
  /\ \E answer \in CatalogueKinds :
       run' = [run EXCEPT ![j].pc = "start",
                          ![j].cat = IF answer = "ok" THEN updated ELSE None]
  /\ UNCHANGED <<clock, updated, up, store, last, aborts>>

\* start_run: the row of the run, and with it started_at.
StartRun(j) ==
  /\ At(j, "start")
  /\ run' = [run EXCEPT ![j].pc = "gate",
                        ![j].before = {Last} \union {k \in Job : Started(k)}]
  /\ UNCHANGED <<clock, updated, up, store, last, aborts>>

\* Mutant: a same-day tie counts as unchanged.
CatalogueSaysUnchanged_OnTies(j) ==
  /\ j \notin Forced
  /\ last # None /\ run[j].cat # None
  /\ Day(run[j].cat) <= Day(last)

CatalogueSaysUnchanged(j) ==
  /\ j \notin Forced
  /\ last # None /\ run[j].cat # None
  /\ Day(run[j].cat) < Day(last)

\* last_successful_run, and the gate that needs no request.
Gate(j) ==
  /\ At(j, "gate")
  /\ run' = [run EXCEPT ![j] =
               IF CatalogueSaysUnchanged(j)
                 THEN Idle ELSE [@ EXCEPT !.pc = "probe", !.seen = last]]
  /\ UNCHANGED <<clock, updated, up, store, last, aborts>>

\* _fallback_metadata: midnight of the catalogue's day, or the epoch.
Fallback(cat) == IF cat = None THEN 0 ELSE Midnight(Day(cat))

\* Mutant: --force does not bypass the comparison with the watermark.
Unchanged_EvenForced(j, stamp) == run[j].seen # None /\ stamp <= run[j].seen

Unchanged(j, stamp) ==
  j \notin Forced /\ run[j].seen # None /\ stamp <= run[j].seen

\* _metadata_or_fallback: "updated", the present time if that does not parse,
\* or the fallback if the probe fails.
Probe(j) ==
  /\ At(j, "probe")
  /\ \E answer \in ProbeKinds :
       LET stamp == CASE answer = "ok"      -> updated
                      [] answer = "undated" -> clock
                      [] answer = "fails"   -> Fallback(run[j].cat)
       IN run' = [run EXCEPT ![j] =
                    IF Unchanged(j, stamp)
                      THEN Idle ELSE [@ EXCEPT !.pc = "fetch", !.meta = stamp]]
  /\ UNCHANGED <<clock, updated, up, store, last, aborts>>

ObservedYears == {y \in Year : \E b \in 1..Batches : store[b][y] # 0}

\* start_period, in a set: the year before max_observed_year, unless the whole
\* history is due.
StartPeriod(j) ==
  IF j \in Forced \/ run[j].seen = None \/ ObservedYears = {} THEN {0}
  ELSE {y - 1 : y \in Latest(ObservedYears)}

\* The bulk file, as it is at this moment.
Fetch(j) ==
  /\ At(j, "fetch")
  /\ \E year \in StartPeriod(j) :
       run' = [run EXCEPT ![j].pc = "store", ![j].start = year, ![j].snap = up]
  /\ UNCHANGED <<clock, updated, up, store, last, aborts>>

\* Mutant: a batch replaces the rows it belongs to, years outside the window
\* included.
Upserted_WholeRows(j, b) ==
  [y \in Year |-> IF y >= run[j].start THEN run[j].snap[y] ELSE 0]

\* ON CONFLICT DO UPDATE: the cells of the file win, the others stay.
Upserted(j, b) ==
  [y \in Year |-> IF y >= run[j].start /\ run[j].snap[y] # 0
                    THEN run[j].snap[y] ELSE store[b][y]]

\* bulk_upsert_observations: one batch, one transaction.
StoreBatch(j) ==
  LET b == run[j].next IN
  /\ At(j, "store") /\ b <= Batches
  /\ store' = [store EXCEPT ![b] = Upserted(j, b)]
  /\ run' = [run EXCEPT ![j].next = b + 1]
  /\ UNCHANGED <<clock, updated, up, last, aborts>>

\* Mutant: the watermark is read when the data is stored, not before the
\* download.
Watermark_AtTheEnd(j) == updated

Watermark(j) == run[j].meta

\* finish_run with status "success".  It is the success that counts unless one
\* that started later is already there.
Finish(j) ==
  LET latest == Last \in run[j].before
      Seen(k) == IF ~latest THEN run[k].before \ {j}
                 ELSE IF j \in run[k].before THEN run[k].before \ {j}
                                             ELSE run[k].before \ {Last}
  IN /\ At(j, "store") /\ run[j].next > Batches
     /\ last' = IF latest THEN Watermark(j) ELSE last
     /\ run' = [k \in Job |->
                  IF k = j THEN Idle ELSE [run[k] EXCEPT !.before = Seen(k)]]
     /\ UNCHANGED <<clock, updated, up, store, aborts>>

\* An exception (finish_run with "failed") or SIGTERM at the deadline.
Abort(j) ==
  /\ ~At(j, "idle")
  /\ aborts < MaxAborts
  /\ aborts' = aborts + 1
  /\ run' = [run EXCEPT ![j] = Idle]
  /\ UNCHANGED <<clock, updated, up, store, last>>

Init ==
  /\ clock = PerDay /\ updated = PerDay
  /\ up = [y \in Year |-> IF y <= BaseYears THEN PerDay ELSE 0]
  /\ store = [b \in 1..Batches |-> [y \in Year |-> 0]]
  /\ last = None
  /\ run = [j \in Job |-> Idle]
  /\ aborts = 0

Sync(j) ==
  StartRun(j) \/ Gate(j) \/ Probe(j) \/ Fetch(j) \/ StoreBatch(j) \/ Finish(j)

Next == Release \/ Tick \/ \E j \in Job : Launch(j) \/ Sync(j) \/ Abort(j)

\* A run that goes on takes its next step; a forced job is launched again and
\* again, whatever the other jobs do: that is its schedule.  Nothing is
\* assumed of the jobs that are not forced.
Fairness ==
  /\ \A j \in Job : WF_vars(Sync(j))
  /\ \A j \in Forced : SF_vars(Launch(j))

Spec == Init /\ [][Next]_vars
FairSpec == Spec /\ Fairness

----------------------------------------------------------------------------
(* Properties.                                                             *)

\* Batch b holds what Eurostat has published of year y up to the stamp.
Holds(b, y, stamp) == up[y] <= stamp => store[b][y] = up[y]

Succeeds(j) == At(j, "store") /\ run[j].next > Batches /\ run'[j].pc = "idle"

\* The years a run answers for: all of them with --force and as long as no run
\* has succeeded, else those from its start_period on.
AnswersFor(j) ==
  {y \in Year : j \in Forced \/ run[j].seen = None \/ y >= run[j].start}

\* A watermark is never invented: when a run succeeds, every batch holds what
\* had been published, up to the watermark it stores, of the years the run
\* answers for, whatever was published while it ran and whatever earlier runs
\* left half done.
SyncCovers ==
  [][\A j \in Job : Succeeds(j) /\ aborts' = aborts =>
       \A b \in 1..Batches, y \in AnswersFor(j) : Holds(b, y, last')]_vars

\* The free gate skips nothing that the catalogue listed: "only a STRICTLY
\* older catalogue date short-circuits".
SkipsAt(j, pc) == At(j, pc) /\ run'[j].pc = "idle" /\ aborts' = aborts

CatalogueSkipIsSafe ==
  [][\A j \in Job : SkipsAt(j, "gate") => run[j].cat <= last]_vars

\* No skip at all passes over a release that the catalogue listed: a tie
\* "falls through to the authoritative probe rather than risking a missed
\* update".
SkipIsSafe ==
  [][\A j \in Job :
       SkipsAt(j, "probe") /\ run[j].cat # None => run[j].cat <= run[j].seen]_vars

\* An observation is never replaced by an older one: the two jobs are
\* "staggered so they never race".
NeverGoesBack ==
  [][\A b \in 1..Batches, y \in Year : store'[b][y] >= store[b][y]]_vars

\* Below the watermark nothing is missing, for a dataset of which only the
\* years within the "one-year overlap" change (Depth).
NoMissedUpdate ==
  last # None => \A b \in 1..Batches, y \in Year : Holds(b, y, last)

\* Once Eurostat publishes nothing more, the forced job brings every year up
\* to date, older ones and those that failed runs left behind included.
Reconciles == <>[](\A b \in 1..Batches, y \in Year : store[b][y] = up[y])

----------------------------------------------------------------------------
(* The inductive invariant.                                                *)

\* Time: nothing is newer than the last release, and no stamp that a run
\* holds is of the future.
Stamps ==
  /\ updated <= clock
  /\ \A y \in Year : up[y] <= updated
  /\ \A j \in Job : run[j].meta <= clock
  /\ \A j \in Job : run[j].cat # None => run[j].cat <= updated

\* The observations are never ahead of Eurostat, nor is a download.
NeverAhead ==
  /\ \A b \in 1..Batches, y \in Year : store[b][y] <= up[y]
  /\ \A j \in Job, y \in Year : run[j].snap[y] <= up[y]

\* What changed before the probe is in the download, which is not older than
\* any observation, and whose first batches are stored.
Storing(j) ==
  /\ \A y \in Year : up[y] <= run[j].meta => run[j].snap[y] = up[y]
  /\ \A b \in 1..Batches, y \in Year : store[b][y] <= run[j].snap[y]
  /\ \A b \in 1..run[j].next - 1, y \in Year :
       y >= run[j].start => store[b][y] = run[j].snap[y]
  /\ j \in Forced \/ run[j].seen = None => run[j].start = 0

\* Without overlap one job runs at a time, so that its success is the latest.
OneAtATime ==
  /\ \A j, k \in Job : ~At(j, "idle") /\ ~At(k, "idle") => j = k
  /\ \A j \in Job : Started(j) => Last \in run[j].before

Inv ==
  /\ TypeOK
  /\ Stamps
  /\ NeverAhead
  /\ \A j \in Job : ~At(j, "store") => run[j].next = 1
  /\ ~Overlap => OneAtATime /\ \A j \in Job : At(j, "store") => Storing(j)
=============================================================================
