# TLA+ models and proofs of fontem-api

This directory specifies and verifies the parts of fontem-api in which several
processes, failures and restarts meet. `PROJECT.json` lists the components, the
TLC runs, the source lines behind every definition, the mutants that show each
property can fail, the hazards and the theorems. Paths below are relative to
the repository.

## 1. The system

| Component | State it keeps | Operations | Interacts with | What is hard | What makes it correct |
|---|---|---|---|---|---|
| Wikidata relay (`src/relay/wikidata_recentchange.py`, `event_filter.py`) | stream position, counters; in Postgres the cursor and the dirty rows | connect, classify and upsert, checkpoint, reconnect | Wikimedia stream; table `dirty_entities` | at-least-once stream, autocommit, crash between upsert and cursor | nothing is skipped; a replay does no harm |
| Wikidata consumer (`wikidata_consumer.py`, `_fetcher.py`, `_writer.py`) | leased batch; the triples in Virtuoso | lease, fetch, chunked write, tombstone, optimistic delete | the same table; Wikidata; Virtuoso | unlocked lease, edits during a batch, partial writes, a dying batch, rows that always fail | no update lost; never back to an older revision; convergence |
| Wikidata metrics (`metrics.py`) | its cursor over the consumer's runs | poll | the two tables, read-only | commit after counting | each run counted once |
| Eurostat sync (`src/stats_etl/`) | observations, run rows, watermark | register, gate, probe, fetch a window, upsert batches, finish | Eurostat; TimescaleDB; two CronJobs | publication during a sync, failed probes, dying runs, overlap of the jobs | the watermark claims no more than what is stored |
| TED ingest (`src/etl/load_ted_contracts.py`, `ted_matcher.py`, `cleaning/`, `contract_confidence.py`) | watermark per day, per-run sets of announced companies, event log | search a day, skip gate, clean and score a notice, match its suppliers, emit a batch per notice, advance | TED, Neo4j, event log, resolver | errors within a day, retry of a rolled-back batch, a graph behind the log | no notice skipped, no company missing, a plausible value |
| Value review (`value_review_queue.py`, `api/routers/value_review.py`) | review queue, events | enqueue, decide, backfill, correct the scale | event log, ingest | two reviewers, a failure between event and row, re-ingest | queue and log agree |
| EU legislation (`src/etl/legislative/`) | artifacts on a share, mirror graph, materialised acts, links of petitions | export a month, load it, sweep, link | CELLAR, Virtuoso, Neo4j | damaged artifacts, a mirror that is loaded while it is swept | a month is loaded whole; acts follow the mirror |
| Register loaders (GLEIF, FIRDS, OpenFIGI, lobbying, petitions, sanctions, cohesion, US and EU filings) | caches and snapshots on disk | fetch or replay, emit chunks or one batch | event log, sinks | two feeds in any order, runs that die between chunks, a source that grows while it is paged | the graph shows what the source said last |
| Regions (`link_entities_to_nuts*.py`, `sync_nuts_from_stats.py`, `build_nuts_gazetteer.py`, `nuts_api/`) | links of entities, artifact of names | sync, link by postcode and by country, merge names, look up | Neo4j, statistics store | two linkers with other rules, entities that move, retired codes | everybody is somewhere, every name is found |
| Repairs (`rebuild_stripped_companies.py`, `migrate_title_lang.py`, `purge_*.py`, `project_contracts.py`, `dedup_companies.py`, `scripts/migrate_neo4j_to_virtuoso.py`) | cursors, or none | scan pages, rewrite or emit | Neo4j, Virtuoso, the sinks that go on writing | a graph that changes under the scan, runs that die, two scripts at once | nothing is lost that was not meant to be |
| Run log, retry, hooks (`_run_wrapper.py`, `_http_retry.py`, reaper CronJob) | rows of `events.etl_run` | enter, exit, reap | every ETL job | killed pods, retries | a row says what became of its run |
| Data quality (`src/data_quality/`, `api/routers/dq_assertions.py`) | rows of `events.dq_result` | run the catalogue, persist, show | all stores | a run stored between two statements of the page | what operators are told is so |
| APIs (public, Atlas, NUTS) and their sources | caches, loaded indexes | read-only requests of several statements | all stores | writes between two statements, threads that share a cache | an answer agrees with itself |
| Analysis, other services, market data | none or a cache | formulas, queries | stores | numeric | - |
| Charts and scripts | - | schedules, restart policy, deadlines | - | assumptions of the others | - |

The components share no memory. They meet in tables and graphs, each access a
transaction of its own, and each process may be killed between two of them;
that is the granularity of the actions.

## 2. Modules

**The Wikidata pipeline** is composed of three modules, one per party, and
proved against an abstract specification.

| Module | Content |
|---|---|
| `WikidataFeed` | external: the stream of events (`log`) and the content of the entities (`wiki`, a revision is the index of the event that made it); from the code: `classify` and `Outcome` |
| `WikidataRelay` | `Connect`, `ApplyEvent`, `Checkpoint`, `CloseStream`, `LoseStream` over `conn`, `pos`, `pending`, `cursor` and the shared table `dirty` |
| `WikidataConsumer` | `LeaseBatch`, the pool's `Tombstone`, `Fetch`, `NotFound`, `WriteChunk`, `TaskFails`, then `EndBatch` or `Crash`, over `batch` and `virt` (which chunks of which revision Virtuoso holds) |
| `WikidataMirror` | the composition, fairness, properties, and the refinement mapping to `Replica` |
| `Replica` | abstract: a copy that moves forward only and catches up |
| `WikidataMirrorInv` | the inductive invariant, in named parts |
| `MCWikidataMirror` | the chunk function of the instances |
| `WikidataMirrorProofs`, `WikidataMirrorSafety` | types; all other theorems |

What corresponds to what: a row of `wikidata.dirty_entities` is a record
`[ts, del]` (`last_changed_at`, `is_deleted`), `NoRow` where there is none.
`Upsert` is the `INSERT ... ON CONFLICT` of `mark_dirty` and `mark_deleted`:
the time by `GREATEST`, the flag by the last event. `pending` is
`counters.pending_n`; the model checkpoints when it reaches `CheckpointBatch`,
and only a stream that ends without exception flushes the rest. The time of the
next event's class is all that remains of an event; entity content is a
revision and a number of chunks, since the writer replaces an entity in UPDATEs
of a bounded number of triples. A fetched stub of a redirect is a revision like
others. A batch's tasks run in any interleaving with at most `Concurrency` of
them started; `EndBatch` is the one transaction of conditional deletes.

**The Eurostat sync** is one module, `StatsSync`, of one dataset and any number
of jobs; its proofs are in `StatsSyncProofs`. Time is a counter of *stamps*, a
publication gives the years it changes its stamp as value, and a day is
`PerDay` stamps, so that a catalogue's date can tie with a watermark. The
observations are `store[b][y]`, year `y` of what batch `b` of a download holds:
`bulk_upsert_observations` commits each batch, and a killed run leaves a prefix
of them. `last` is the watermark, which in the code is `upstream_modified` of
the success with the greatest `started_at`; `before` records which runs had
started before one, and that is all of `started_at` that matters. `Launch`
fetches the catalogue (once per process, so it is as old as the process), then
`StartRun`, `Gate`, `Probe`, `Fetch`, `StoreBatch`, `Finish` follow
`EurostatLoader.sync` in its order, and `Abort` is any exception and SIGTERM.

**The TED ingest** is `TedIngest`, proved about in `TedIngestProofs` and checked
through `MCTedIngest`: days, notices with versions, the daily job and bulk jobs,
the sink behind them. `job[j]` holds a job's local variables: `seen` are
`seen_companies` and `seen_authorities`, `done` and `failed` the notices behind
the day's counters. `Screen` is the gate on the search record, `GateNotice` the
one of `ingest_notice`, both asking the graph and not the log; `EmitNotice` is
the batch of one notice. It is rolled back by `EmitRetries`, a transient error of the
graph after which the notice is taken in hand again, up to `TransientRetries` attempts,
or by `EmitFails`, any other error or the last attempt's; either way `seen` keeps what
was met before it (`RolledBack`). `owed` is history: what a search listed, less what was logged as FAILED.
What one notice becomes is in two modules of its own, proved about beside it:
`ContractValue` (value rules, score, decision; an amount is its power of ten) and
`TedSuppliers` (name and identifier rules, matcher cache, resolver, announced
companies, parties).
`ValueReview` (proofs in `ConsoleProofs`) is the queue of withheld values
with loader, back-fill, scale correction, two reviewers and the sink.

**The other jobs** share no state with each other; each has a module with its
source, its log, its sink and its failures. All of them are proved about:
`WikidataMetrics`, `LegalActs`, `StatsStore` and `CellarMirror` in `EtlJobsProofs`;
`EuLobbying`, `OpenFigi`, `Gleif`, `Firds`, `Sanctions`, `EciRegister`, `Cohesion` and
`CompanyFilings` in `LoaderProofs`; `PurgeSubjects`, `RebuildCompanies`, `GraphRepairs`, `TitleLang`,
`NutsLinks` and `GraphBridge` in `RepairProofs`; `RunMonitor`, `QueryStudio`, `NutsNames`
and `ContractPages` in `ConsoleProofs`. `NutsNames` and `ContractPages` share `OrderedRows`:
rows in the order of their keys, cut at a limit, as `ORDER BY ... LIMIT` and `sort()` give
them.

| Module | Code | A step is |
|---|---|---|
| `OpenFigi` | `load_openfigi.py` | a mode selects rows; a request of the pool returns or fails; a batch commits |
| `Firds` | `load_firds.py` | a night begins; a file of the window is downloaded, read and its records upserted, or found damaged, as it then is in the cache for ever |
| `Gleif` | `load_gleif.py`, `load_gleif_relationships.py` | a feed's run commits one batch; the sink applies an event |
| `StatsStore` | `stats_etl/db.py`, `cron.py` | a call of the database by one of the two CronJobs: seed, due list, upsert, statistics, availability |
| `CellarMirror` | `legislative/mirror_cellar.py` | a page of the export, the artifact, a chunk of the load, damage, death |
| `LegalActs` | `legislative/materialize_legal_acts.py` | a page of the sweep, its merge, the links of petitions |
| `EuLobbying` | `load_eu_lobbying.py` | a chunk of disclosures, the tombstones |
| `EciRegister` | `load_eu_petitions.py` | a page of the search, a detail, the snapshot, the batch, the series |
| `Sanctions` | `load_eu_sanctions.py` | the bracketed batch, the batch of candidates, the sink |
| `Cohesion` | `load_eu_knowledge_graph.py` | a country's download, a chunk |
| `CompanyFilings` | `load_us_financials.py`, `load_us_companies.py`, `load_eu_listings.py`, `local_edgar_fetcher.py` | a loader's batch; an answer of the API |
| `RebuildCompanies` | `rebuild_stripped_companies.py` | a page selected and checked; a batch of events emitted, an event applied |
| `TitleLang` | `migrate_title_lang.py` | a window of one of the three stages; the sink |
| `PurgeSubjects` | `purge_stranded_subjects.py`, `purge_orphan_rollup_subjects.py` | a page, an emission, the sink |
| `GraphRepairs` | `project_contracts.py`, `dedup_companies.py` | a batch of either script |
| `GraphBridge` | `scripts/migrate_neo4j_to_virtuoso.py` | a page pushed by PUT or POST |
| `WikidataMetrics` | `relay/metrics.py` | a poll reads its cursor, reads runs, counts, commits |
| `NutsLinks` | `sync_nuts_from_stats.py`, `load_nuts.py`, `link_entities_to_nuts*.py` | a page read, a page written |
| `NutsNames` | `build_nuts_gazetteer.py`, `nuts_gazetteer.py`, `nuts_api/` | the build, the load, an answer |
| `ContractPages` | `api/routers/contracts.py`, `graph_contract_source.py`, `services/ted_lookup.py` | one statement of a request; one write of a sink |
| `QueryStudio` | `api/routers/query.py` | a query judged and run; a step of a thread that finds a schema expired |
| `RunMonitor` | `_run_wrapper.py`, `_etl_cronjob.tpl`, the reaper, `data_quality/assertions/`, `dq_assertions.py` | a pod starts, opens its row, closes it, exits or dies between any two of these, the reaper's UPDATE; an assertion evaluated; a statement of the page |

`MCEtlParts` puts all of them, with `ContractValue`, `TedSuppliers` and
`ValueReview`, side by side for TLC: a behaviour chooses one `part` at its start,
takes that module's `Next`, and the variables of the others stand still. It
says nothing of interactions between parts: a module whose job meets another
producer of the log or of the graph has that producer as an action of its own.

The definitions named `X_Something` after a mapped `X`, with the comment
*Mutant*, are plausible bugs of `X`. They are used by no specification (but for
`Predecessors_Direct`, one step of the walk that `Predecessors` takes to its end); putting
one in the place of `X` must violate the property that `PROJECT.json` pairs
with it.

## 3. Runs

| Run | Question | Result |
|---|---|---|
| `MirrorEdits` | edits, replays, lost streams, failing batches | no update lost, no half-written entity forgotten, no event skipped, implements `Replica!Spec` with liveness |
| `MirrorDeletes` | deletions and undeletes; one entity that can never be fetched | implements the safety part of `Replica`, convergence |
| `MirrorTie` | two events of an entity in one second | **violates** the promise of `clear_dirty` |
| `MirrorReplay` | deletion and undelete replayed | **violates** the promise of `mark_dirty` |
| `StatsSync` | every answer of Eurostat, one run aborted anywhere, releases that change any year | watermark, free skip and order of observations are right; the weekly job reconciles |
| `StatsGap` | an incremental run aborted after its first batch | **violates** "one-year overlap" |
| `StatsTie` | failed probe on a same-day tie | **violates** "rather than risking a missed update" |
| `StatsRace` | the Sunday jobs overlap | **violates** "staggered so they never race" |
| `TedIngest` | daily and bulk jobs over two notices with versions, one of which never parses; a lagging sink; one failure | nothing listed falls behind the watermark, no date is skipped in silence, no stubs but of what the run itself lost; the job gets through and re-runs repair |
| `TedRetry` | a transient error in the middle of a notice's batch | **violates** "so a retry starts clean" |
| `EtlParts` | every other job, one per behaviour | one property per behaviour, see section 4 |
| `CellarLate` | works published or corrected in a month already exported | **violates** "idempotent re-export catches late publications and corrigenda" |

The violations are described as findings in `PROJECT.json`, with the sentences
of the code they contradict. Each has a passing or proved counterpart that
says what the code does guarantee: distinct seconds restore
`ConcurrentEditKeepsRow`, flushed streams restore `RestoredIsRewritten`, a run in
which nothing was rolled back announces all parties (`NoStubs`), no overlap gives
`NeverGoesBack`, and a month whose artifact is new is loaded whole (`LoadedIsWhole`).
`Converges` has a condition of its own: an entity that can never be fetched keeps its
row at the head of the oldest-first lease, so `MirrorDeletes` has fewer of them than a
batch has places. With as many as that, every batch consists of them and no other
entity is mirrored any more, although "one entity's failure must not poison the
whole batch" (`wikidata_consumer.py:253-255`).

*Bounds.* Two entities and three events are enough for an edit before, during
and after a batch, for a deletion with an undelete, and for an entity behind
another one in the lease. Revisions alternate between one and two chunks, and
revision 2 keeps no triple, so that the first, later and empty UPDATEs occur.
A checkpoint every two events, one lost stream and one failure of the consumer
let a replay cross a batch. In `StatsSync` three or four years with two or
three published at first let a release add a year; two batches separate a
partial from a complete download; two or three stamps in a day make ties; four
or five stamps leave room for two releases in different days. `MaxAborts = 1`
is one run that dies: the counterexample of `StatsGap` needs it, and with 0 its
property holds. The theorems have none of these bounds.

In `TedIngest` two notices, of which one has versions and one does not parse,
two days and one failure let a version overtake another, a day fail as a whole,
a run die, and a bulk job meet the daily one; a lag of one event is enough for
the gate to ask a graph that is behind the log; both notices name one buyer, one of them a
supplier, and two attempts at a notice let a batch fail after the buyer was met. In `EtlParts` the bounds are
those that let the case of the property happen: pages and chunks of one or two
rows with two or three rows to read, so that a page ends within and at the end
of the data; two runs, so that one can die and the next meet what it left; one or
two failures; two versions or releases. The facts of `ContractValue` are all
combinations of the powers of ten at which a rule decides; `ToldApart` drops those that
no rule tells apart. Jobs of `RunMonitor` have rows of their own, so `OneJob`
takes a behaviour with the rows of one job, whichever it is. `MCQueryText` has
every query of up to three signs, and the longer ones in which an escape decides.
`StatsStore` has years 0 to 3 and windows that reach one year back, so that years are
stored that no window visits again (`OldYearsHaveValues` leaves out the behaviours without
such a value). `LegalActs` has two versions of the last act only (`LastActIsAmended`), and
the back-fill of `RunMonitor` has one row (`BackfillHasOneRow`). `RebuildCompanies` has
one entity, so in TLC a page is never split into batches; its theorem is about any.

Deadlock is not checked because the bounded environment stops: no event is left
and no row is dirty, or the clock is at its end and only jobs that skip remain
impossible to tell from the end. What must go on is stated by the liveness
properties.

*Fairness.* Relay and consumer are Deployments with one replica and strategy
Recreate that loop for ever and are restarted: weak fairness of the relay's
steps, of the batch's begin and end, and of each entity's task. Nothing is
assumed of Wikidata, of lost streams or of failures, whose number the bounds
limit. A sync that runs takes its next step (weak fairness); a forced job is
launched by its schedule again and again, whatever the other job does, hence
strong fairness of its `Launch`: the daily job may be running whenever one
looks, but not at each of infinitely many Sundays, since its deadline ends it.
Nothing is assumed of the daily job's schedule. In `TedIngest` days pass, the
sink runs, and the CronJob fires (weak fairness); a job that runs takes its next
step whenever it can again, which only the bound on the sink's lag takes from it
for a while (strong fairness). Nobody has to start a bulk job: `RerunRepairs` is
about the case in which somebody does, again and again. `EtlParts` states safety
only and assumes nothing.

## 4. Properties

`NoLostUpdate` is the invariant of the pipeline: an entity with nothing left in
the feed and no dirty row is in Virtuoso in its current content. It depends on
the ignore list, on the cursor, on the upsert's `GREATEST`, on the condition of
the delete and on the tombstone flag at once. `HalfWrittenIsDirty` covers the
chunked writer, `NothingSkipped` the cursor, `ConcurrentEditKeepsRow` the
optimistic delete, as its docstring states it, and `ReplicaSpec` says what a
reader of Virtuoso may rely on.

`SyncCovers` says that a success claims with its watermark only what is stored,
for the years it answers for: all for a forced or first run, those of its
window otherwise. It is what the order "probe, then download" is for.
`CatalogueSkipIsSafe` is about the date that is compared with a timestamp,
`NeverGoesBack` about old data written over new, `Reconciles` about the years
outside every window and about whatever failed runs left.

`Covered` is to the ingest what `NoLostUpdate` is to the pipeline: whatever was
rolled back, aborted, or skipped because the graph already had a copy, what a
search listed up to the watermark is on the log or was logged as FAILED. It
holds when the look-back reaches the first day; otherwise a run that fails
before there is any watermark leaves the days that the next one no longer looks
back to. `NoDateSkipped` is the promise of the watermark, `NoStubs` that of the
sets of announced companies: a party of an emitted contract that nobody announced was met
by the same run in a batch that it rolled back. There it does happen, to the notice itself
when it is tried again, as `TedRetry` shows, and to later ones of the run; the sets of
another run never cause it. `IngestSettles` says that the job gets
through and that "the repair is simply a re-run".

The properties of `EtlParts`, one per behaviour:

| Property | What it says |
|---|---|
| `StatedValueIsSane` | a thousandfold leak of the gateway is undone where siblings tell it, an untouched notice keeps its amount, what counts in aggregates is plausible |
| `AwardsAreAttributed` | every award's contractor is a company in its role or a withheld text; one company per VAT number in a run, however spelt and whatever the resolver answers |
| `QueueMatchesLog` | queue and log agree on decisions and on withheld values, but for a failure between two commits |
| `TickersSettle` | a ticker is redirected only to an announced listing; a mode leaves no row behind, in whatever order the pool's answers come |
| `SettlesAtLast` | a listing shows its last record once that is alone in the window |
| `LinksMaterialise` | both feeds in any order, every active link ends up with both companies |
| `DerivedIsCurrent` | statistics and availability are those of the observations whenever no job is at the dataset |
| `LoadedIsWhole` | a month that is left behind as loaded is loaded whole |
| `SweepIsComplete` | a sweep shows of every act the mirror had when it began a version that the mirror has |
| `GraphFollowsRegister` | who is not in the register that a whole run read is redacted, whoever emitted it before |
| `SnapshotIsWhole` | every initiative listed at the start is found once, though pages shift |
| `SanctionsFollowTheList` | between brackets the graph is a list as published, and candidates belong to it |
| `CohesionLinksHold` | no disclosure without its beneficiary and programme; success means every row |
| `ReadersAgree` | loader and API each show the last fact of the concept they rank best; of one file they differ in a year only if they have different facts of it or rank its concepts differently |
| `RebuildIsSafe` | a rebuild restores and loses no link |
| `GraphShowsStated` | a node shows the language of the last event that states one |
| `KeepsLastCopy` | no purge takes the last copy of an item |
| `AwardsSurvive` | an award is on its notice or on the contract, whoever dies and whatever is merged |
| `BridgeKeepsParity` | what a whole run owes Virtuoso is there until a run that replaces the graph |
| `EveryBatchIsFolded` | a batch the cursor has passed was counted, and once more at most per failed poll |
| `EverybodyIsSomewhere` | a linker's run links everybody it had to, nobody is in two regions of level 3 |
| `NamesAreFound` | a name that a source gives is kept and found as a name |
| `PagesAgree` | lists, totals, siblings, titles, links and searches of a page speak of the same contracts |
| `StudioIsSound` | a query is refused if its engine would execute a forbidden word that stands apart, and, if it can be read, only if one is outside comments and literals; one thread builds a schema, and none stores an older one |
| `OperatorsAreTold` | the reaper closes what is dead and only that, rows tell how executions ended but for pods that die before their row is open or after it is closed, "failing since" is the start of the streak, an excess of acts means a wiped mirror |

Where the code does less than one might expect, the property names the condition:

- A notice that arrives for a contract that is already final loses its award to
  the next run of `project_contracts.py`, although it is "safe to re-run".
- `dedup_companies.py` reads the canonical company's VAT number once: two
  duplicates with different numbers both merge into a canonical that has none.
- The two linkers take the first and the last row of a postcode that has several
  and normalise it differently, so an entity may be in two regions then.
- The members of a merged retired code come out of a Python set: which of them
  lends its name differs from build to build, and successors of a split code
  borrow the same names.
- When a newer notice arrives between the first statement of a contract's page
  and the one for siblings, the contract is its own sibling. In the orders by
  value undated contracts come first among equals (`contracts.py:39-45` says
  last). A link asked for by the id of a superseded notice never uses the stored
  number.
- An outage of Virtuoso is cached as an empty schema until it expires.
- `_validate` finds a forbidden word only between blanks, parentheses and semicolons; one
  that is joined to other punctuation reaches the engine, whose read-only access is what
  then decides. Dollar quotes and strings with escapes of Postgres are no signs of the
  model: `_literal_end` does not know them. The property is about words that stand apart.
- Only `ServiceUnavailable` and `SessionExpired` become 503; what the driver reports as a
  transient error of the database is 400 like an error of the query, so the feed catalogue
  may demote a feed for it. The property is about lost connections.
- The mirror is only added to, and the details of an act are a `SAMPLE` over what it has
  of all versions: a node may show an older version than the mirror's newest, and an older
  one than it showed before.
- A year of which EDGAR states a value that the schema of the event rejects is skipped
  (`load_us_financials.py:239-250`) and keeps what an earlier file said of it; the API
  shows it. The loader takes annual forms, the API whole years of any form, and some
  concepts are ranked by one of them only.
- `dedup_companies.py` clears VAT numbers shorter than three characters; of a node that
  was merged the number is a list, and a list of two is cleared as well.
- `GraphBridge`'s queries page by `SKIP` and `LIMIT` without `ORDER BY`. The model, like the
  script, takes it that Neo4j returns the rows of an unchanged class in one order.
- The reaper never closes the row of a living pod of a job that is told its
  deadline, or is shorter than the default. The TED back-fill Job is neither:
  its pods live up to 172800 s (`job-ted-backfill.yaml:57`) without
  `RUN_DEADLINE_SECONDS`, and its row is closed after 14400 s, although
  `deployment-etl/values.yaml:99-101` says "it never closes a live run".
- An execution whose pods never start leaves no row, and neither does a pod that dies, or
  fails to reach the event store, before its row is open: the newest row of the job is then
  an earlier execution's. A pod that is stopped after `RunLog.__exit__` has committed
  `success` and before it has exited fails with a row that says success. Without
  `EVENTS_DATABASE_URL` there is no run log at all, which is not modelled. An assertion whose query
  returns no row passes, unless it asks for at least something.

## 5. Proofs

All proofs are checked by TLAPS from `Init` and the actions, for every value of
the constants that the named assumptions in the modules allow.

*Types.* `TypeCorrect` for the pipeline and the sync, `IngestTypes` for the ingest.

*The pipeline.* The invariant `Inv` of `WikidataMirrorInv` is inductive; its
parts are what one process may rely on after the other has moved on. The lost
update shows why so much is needed. When `EndBatch` deletes a row, the row's
time is the leased one. By `RowTimes` no applied event of the entity is newer;
by `LeaseTimes` the leased time is that of an event contained in the fetched
revision; with distinct seconds (`FeedStrict`) that event is the entity's last
applied one, so by `FeedFiltered` the fetched revision is current unless an
event is still in the feed, and by `TaskProgress` Virtuoso holds all of it. For
tombstones the flag of the row must belong to the event of the row's time
(`FlagsMatch`), which a replay breaks; `RowsBehind` shows that no replay happens
while every stream is flushed. `HalfWrittenIsDirty` needs `LeasedHasRow` and
`TaskProgress`, and `ReplicaSafe` needs `RevisionsOrdered`: what a task fetched
is at least as new as what Virtuoso holds.

| Theorem | Condition on the constants |
|---|---|
| `NoUpdateIsLost`, `UndeletesAreRewritten` | `InOrder`: distinct seconds per entity, and no deletions or only flushed streams |
| `ConcurrentEditsKeepTheirRow` | distinct seconds per entity |
| `HalfWrittenStaysDirty`, `NoEventSkipped`, `ImplementsReplicaSafe` | none |

The conditions are necessary: `MirrorTie` and `MirrorReplay` violate the same
properties without them.

*The sync.* `Inv` of `StatsSync` says, of a run that is storing (`Storing`),
that its download contains everything published up to its watermark-to-be,
that no stored observation is newer than the download, and that the batches
already stored equal it within the window; `NeverAhead` provides the second
when the file is fetched, and `OneAtATime` keeps it while the batches are
stored. `Upserted` leaves a cell that the file lacks as it is; since nothing
stored is newer than the file, such a cell is empty in the table as well, and
the batch equals the file.

| Theorem | Condition on the constants |
|---|---|
| `SuccessCoversWatermark`, `ObservationsNeverGoBack` | jobs do not overlap |
| `CatalogueSkipsAreSafe` | none |

*The ingest.* `IngestInv` follows the day in hand: what is owed of it is still to
be looked at or on the log (`Owed`), what counts as done is on the log
(`DayInHand`), days are taken in order (`DayIsNext`), and a copy in the graph
that has its identity is on the log in that version (`AppliedIsLogged`), which
is why the gate may ask the graph. `MetAreKnown`: whatever a run has met is announced or was
met in a batch that the run rolled back. Bulk jobs only add to the log. `CountedMoneyIsSane`: a
notice's money is settled in one step (`ValueInv`), so the work is in the rules:
a score of what was applied (`AppliedIsSane`), whether the amounts agree or not
(`AgreedIsScored`), and the thousandfold leak (`LeakIsUndone`), each for any powers of
ten. `AwardsAreAccountedFor`: whatever an organisation was resolved to is announced,
company or stub (`ResolvedIsAnnounced`), and a number goes on giving the company that
the matcher's cache holds for it (`CacheIsKept`), whatever `/resolve` answers later.

| Theorem | Condition |
|---|---|
| `NothingIsSkipped`, `DatesAreNotSkipped`, `StubsAreNeverMade` | the conditions that the properties state themselves |
| `CountedMoneyIsSane`, `AwardsAreAccountedFor` | none |

*The review.* `ReviewInv` relates what a desk has read and emitted to the row and
the log (`DesksSeeRows`, `EmittedIsLogged`, `BatchIsQueued`); `QueueFollowsLog` follows for
any number of reviewers and faults. *The register.* `RegisterIsFollowed`: of a registrant that no
event is about the graph knows nothing (`UnknownIsUndisclosed`), and of the
register read it shows what is no longer to do (`EmittedFollows`), so
tombstones for everybody else of the log complete it. *The purges.*
`LastCopyIsKept`: no purge is about a live subject, so a twin that was seen
alive still is when the purge is applied (`PurgeInv`). *The metrics.*
`BatchesAreFolded`: `PollCursor` and `FoldedSoFar` say which runs a poll that is
under way has counted.

*The spine.* `SweepsAreComplete`: up to its position a sweep has merged what the
mirror had when it began (`SweptSoFar`); a page that was read leaves no act of that
time before its own last one out, and none at all if it is not full
(`PageIsNext`), which rests on `PageIsAPrefix`, a lemma about counting the acts
before one. The mirror only grows, so what arrives before the position is no
debt of this sweep, and a version that a query returned stays there.

*The store.* `DerivedStaysCurrent`: the two jobs may be at the same dataset. While
no statement failed, statistics differ from the observations only where a job
has yet to recompute them, and availability only in years from which a job has
yet to recompute it (`DerivedSoFar`); with nobody at the dataset both agree.

*The mirror.* `LoadedMonthsAreWhole`: the list is paged by offset while works are
published. Nothing is withdrawn, so a work's position in the list only moves up:
the works with fewer than `offset` others before them are those exported, and all
that are in the file stay there (`ExportedSoFar`). When there is no row at the
offset every work is before it (`ListEnds`), so the file is whole when its manifest
is written; only then does it agree with one (`KeptIsWhole`), and only such a file
is loaded, or one that proves truncated and ends the run (`LoadedSoFar`).

*The loaders.* In each of them something is promised at one commit and kept at a
later one, so the invariant says what the steps between may rely on.
`TickersAreSettled`: whatever is about to be redirected is listed with an ISIN already,
and a listing that has one keeps one (`Settled`); the pool of a mode that has
rows is never empty (`PoolIsFed`), so a mode that can end has none.
`LinksAreKept`: on the log and in a batch a link comes after both its companies
(`Anchored`), so the sink, which drops a link whose end is missing, drops none; links
in the graph and links still on the log are together those promised, and `met`
never claims more than the batch tells. `ListingsSettleAtLast`: the files left are
the oldest of the window (`FilesInv`), so a day is read or still to be read by its
number alone (`Read`), and the one record of a window is what the listing shows once
its day is read (`ReadInv`). `SanctionsAreFollowed`: the events are numbered by the run
they are of (`Structure`): the numbers rise by one at each `begin`, subjects are of the
list of their number and all of it, candidates come after the end and before the
next beginning. `Sink` then relates the sink's memory to the bracket that
`projected` is in: it has counted as many ends as brackets are behind it, it
holds what it has applied of the open one, and what it lost is marked by `torn`
until the next whole one. `SnapshotsAreWhole`: the search lists the newest first and
only grows at its head, so an initiative that was there when the run began moves
towards the end: it is found, or it is on a page still to come (`NoneIsPassed`), and a
short page is the last. `DisclosuresAreWhole`: what a run will not announce again is in
the graph (`EndsAreThere`), so the sink drops no link (`DisclosedIsLinked`), and of a
country that was read all rows that count are in hand (`ReadIsWhole`) and disclosed as
far as they are emitted (`EmittedIsDisclosed`). `ReadersShowTheSame`: what the loader
drew from the file it read last is in the graph (`LoadedIsShown`), since a run replaces
only the filings of companies it reads; the years of a series are those that some
concept states, each with the last fact of the best one (`OverwrittenIs` for one
concept, `SeriesIs` for all); so two readers that have the same facts of a year and rank their
concepts alike show one figure of it.

*The repairs.* `RebuildsAreSafe`: an event on the log says what kind its entity is
of only if that is so and its subject had nothing else to lose when the page was
checked (`IsHarmless`), though its links may have changed since; what counts
as rebuilt is described or has an event on the log. `AwardsAreKept`: a notice has its
award until its contract is final (`AwardsWait`), a final contract has the award of
the notice it took (`FinalHas`), and what a phase leaves to the next one holds
though notices arrive in between (`PhasesDone`). That a batch short of its size is all
there was (`DrainedBatch`) is what lets the next phase begin, and that the lowest rank
of a key is linked (`CanonicalIsLinked`) is what lets the last one strip.
`TitlesAreShown`: sink and migration write the same nodes from the same log, each in
its own time. What both have passed is shown (`StatedIsShown`), where the migration
has passed a window from the moment it is written (`WrittenTo`), though its cursor may
be lost and the window redone; a node of which no event states a language
has none from the moment the stage begins with its domain (`GuessesAreGone`); and
the graph stage finds the events as they will stay, since the events' own stage is
not repeated once a graph cursor has moved (`EventsFirst`). `EverybodyIsLocated`: the
three jobs take turns in any order. What the linker owes is done or in its hands
(`OwedInv`), unless its entity moved; a row it has read and a region of level 3 that an
entity is in are what one of the two jobs reads for the postcode the entity still has
(`RowsInv`, `LocatedInv`), so two of them show where the jobs differ; and a sync has
the level of the parents behind it when it writes a region (`RegionsInv`).
`BridgesKeepParity`: Neo4j returns the rows of a class by position, and blank rows
and rows before `--since` take a position without being pushed, while rows come and
go between two pages. A row that was there all along is in Virtuoso or at or after the
position where the next page starts (`NoRowPassed`); it can only be passed when a row
before it goes, and that is what `parity` leaves out. Whatever is pushed was in Neo4j
(`RunPushes`). A row's position is the number of keys before its own (`Rank`), which
grows with the key and has no gaps.

*What operators are told.* `WhatOperatorsAreTold`: the rows of a job are related to
its pods (`LivePod`), to its execution (`Execution`) and, once that is over, to
its end (`Ending`), wherever between opening its row, closing it and exiting a pod may
die (`onRecord` keeps whether the newest row would tell of it); an open row is no older than the reaper's last visits allow
(`OpenRow`). Of the checks, the graph's count never exceeds the mirror's without
a wipe, though both grow between the two counts (`SpineInv`), and a request that has
read the failing rows, the last passes and the first failures one by one holds in
each only what the results, which only grow, still say (`MonitorInv`); that there
is a last pass and a first failure is proved from the order of the natural
numbers (`GreatestNumber`, `Least`). `SchemasAreBuiltOnce`: of the threads that found a
schema expired the one that builds has its lock, what was cached is still as
it was and still expired, and each statement has read no less than what was cached
(`Builds`), since a store's schema only moves on. `StudioStaysSound` adds the queries:
the scan that blanks comments and literals looks ahead for where they end, the engine
reads sign by sign. `CodeHoldsTheWords` says that from any place where the engine
reads code the words it will find are among those the scan leaves, and all of
them if it comes to the end; `NothingIsExecuted` that where the scan skips to, the
engine is back in code with no word found, or, where the scan finds no end, is inside
the comment or literal to the last. It holds for every query over the signs, with
escapes in Cypher and without them in SQL.

*What users are shown.* `RegionsAreFoundByName`: the artifact that is loaded came from
a build over some contents of the sources and some order in which Python listed a set of
codes (`Built`), so an entry has what its sources say of the region, or of the donor of
its labels. The walk over the codes that a region replaced is a loop with a queue, which is
empty before its turns are used up: each code is put into the queue by the region or by
one of the codes seen, and by none of them twice. So what was seen is all that the
region replaced, however long ago, and the first donor with labels is one of those if
any of them has some. A form of a region's name that reads like what was typed has at most
rank 4, and a hit is never weaker than its strongest form (`FoundByIts`); of the rows in
the order of their keys the one at place i has i - 1 before it.

`PagesSpeakAlike` takes the requests apart (`PageInv`): between two statements a request
holds what the graph had when it read it, and facts are only added. A list (`RowsInv`,
`TotalsInv`) shows no more contracts than the statement of the totals counts, since a
contract that one record has is had by all that are the same entity: reachability over
merges is a loop again, whose set either is closed or holds one more merge after each turn,
and so is closed after as many turns as there are facts (`MergesAre`, `IdentityIs`). On a
calm page both statements saw the same graph: then the rows are as many as counted or
asked for, no contract beyond the page comes before one on it (`OrderHolds`), and the total
is the sum over the rows, in whatever order the fold takes them (`SumTakesAny`,
`TotalIs`). The page of one contract (`SiblingsInv`, `CountInv`) and a link (`LookupInv`)
hold the notice that was asked for. A search (`SuppliersInv`, `GranteesInv`) adds
companies that it has not shown yet, and what it would have found it either shows, finds in a
statement still to come, or is full (`StillFinds`).

*Proofs over data.* Induction schemes take a formula as parameter, which the
prover cannot instantiate. `LeastNumber` and `GreatestNumber`, proved from the well-foundedness
of the natural numbers, serve instead: of the places where a claim about a
sequence fails there would be a first or a last one. So it is shown that the
recursive functions are defined (`CsvIsRead`, `FileIsRead`, `NamesAreRead`, `LexIsDefined`,
`EndIsDefined`, `FromIsDefined`, `TurnsExist`, `SumsExist`) and what they compute; and of the
operators of the community modules that occur, what `FoldLeft`, `MapThenSumSet` and `Max`
give (`TotalIs`, `MoneyIs`, `GreatestIs`).

The assumptions are that bounds are natural numbers and page sizes positive
(`MetricsAssumption`, `SpineAssumption`, `MirrorAssumption`, `RebuildAssumption`,
`TitleAssumption`, `EciAssumption`, `CohesionAssumption`, `BridgeAssumption`,
`ContractValueBounds`), that there are
two months at least, that acts named by the register are acts, and that the mark for "no
dataset" is none (`StoreAssumption`); that the issuers of OpenFIGI's table, the entity
file, the notices and the subjects of the sanctions list are finitely many and ranks
are numbers (`FigiAssumption`, `GleifAssumption`, `RepairsAssumption`, `SanctionsAssumption`);
that codes of regions have one to four parts and a parent for each but the first, and
the vendored postcode table has codes of level 3 only (`NutsAssumption`), as all its
830,033 rows have; that the Studio has three languages, its row cap is a number and a
query is a sequence of signs (`StudioAssumption`); that an organisation without a usable
VAT number or name has none of what is read from one, and that "no company" is no
company (`SuppliersAssumption`, `NoCompanyAssumption`); that a companyfacts file and a
list of concepts are sequences, and that a company ESEF names by its LEI is none that
EDGAR names by its CIK (`FilingsAssumption`): their identifiers are made of different
strings; that regions and retired codes are finitely many, no two regions have the same
code, and every source gives a region clean or unclean names that are not empty, or none
(`NamesAssumption`); that what the sink can write is a finite set of facts about companies
and buyers, which are told apart, that a notice has a buyer, as only such notices are
loaded, and an id of its own, and that limits are numbers (`PagesAssumption`);
and, for `RunMonitor`, that deadlines are hours and that those the reaper knows are
shorter than the age at which a row raises the alarm, as the templates have it: at most
four hours against six (`RunMonitorAssumption`). The proofs of the reaper use that
last one, and `Stuck` would be wrong without it.

*Model-checked only.* `ReplicaSpec`'s fairness, `Converges`, `Reconciles` and
`IngestSettles`: liveness is out of the prover's reach. `NoMissedUpdate` is
checked where it fails. Every invariant and every action property that a passing run
checks is a theorem, under the conditions named above.

## 6. Not modelled

Of the pipeline: redirects as merges of two entities, updates that Virtuoso still
executes after the client died, a stream that is not ordered by time or has
passed its retention (external), statistics columns and gauges, HTTP retries
and delays (a retry that succeeds is a slow step, one that does not is
`TaskFails` or `NotFound`). Of the sync: withdrawals, `--stale-after` (which only
decides which datasets the daily job visits; nothing is assumed of that), and
the 413 refetch, which yields the same window from a larger file. Of the ingest:
the parsing of the three XML generations, frameworks, dates and counts, the raw
store. Of the loaders: parsing, pacing, `--file` replays of other formats, CDP
and CPV. Of the repairs: one-off scripts that are a single query and its events.
Of the APIs: groups of companies, register cards, aggregates by sector, the
lists of buyers, persons and lobbyists, and every handler that passes one query
on. Of data quality: the text of the individual assertions and the statistics
of prices and peers. Formulas over real numbers (`src/analysis`) stay out. The notes
in `PROJECT.json` say it per component.

Remarks on comments that differ from the code without a run of their own. The
relay's module docstring says a tombstone does not bump `last_changed_at`, but
`mark_deleted` does. The consumer's `main` is documented as a CronJob pod but is
deployed as a looping Deployment, which is what the fairness uses.
`link_entities_to_nuts.py:11-14` says that `load_nuts` fills `country_alpha3`, which
its events do not carry. The docstring of `get_company_cohesion_grants` says
that the name "nan" is left out; the query has no such filter. The parameter
`years` of the contract lists has no effect. `api/routers/dq_pipeline.py:48` prefers "the
last *successful* run's finish"; the query takes the last run's, whatever its
status.

## 7. Plan

1. The refinement of `TedIngest` to an at-least-once log of notices.
2. The pipeline with orphaned UPDATEs and with redirects as merges of two entities;
   the sync with withdrawals and with the two schedules under `--stale-after`.
3. Compositions through the event log: the sanctions' candidates with the
   merges of `dedup_companies.py`, the rebuild with the purges.
4. `NoMissedUpdate` for runs that do not abort, as a theorem.
