------------------------------- MODULE TedIngest -------------------------------
(***************************************************************************)
(* src/src/etl/load_ted_contracts.py: the daily job that finds the award   *)
(* notices of a day through TED's search and announces each of them on the *)
(* event log, the bulk jobs that do the same from archives or lists, and   *)
(* the sink that writes the log to the graph, later.  The jobs ask the     *)
(* graph, not the log, whether a notice is loaded.                         *)
(*                                                                         *)
(* A notice is published in versions; version 0 is that of a notice, or of *)
(* a copy in the graph, that carries none.  The days are numbered.         *)
(***************************************************************************)
EXTENDS Integers, Sequences

CONSTANTS
  Notice,       \* notice identifiers
  Versionless,  \* notices of the old forms: one version, numbered 0
  Bare,         \* notices whose awards name no contractor
  Linkless,     \* notices whose search record has no link to the XML
  Bad,          \* notices whose XML does not parse
  Old,          \* notices that an early loader wrote, without their identity
  Entity,       \* buyers and suppliers
  Parents,      \* Parents[n]: the buyer of a notice, then its suppliers
  Bulk,         \* the bulk jobs
  MaxVersion,   \* bound: versions of a notice
  MaxDay,       \* bound: days 1..MaxDay
  Lookback,     \* --lookback-days
  TransientRetries, \* _TRANSIENT_RETRIES: attempts at a notice
  MaxLag,       \* bound: events the sink is behind
  MaxFaults     \* bound: failures of requests, batches and jobs

Daily == "daily"
Job == {Daily} \union Bulk
Publication == [notice : Notice, version : 0..MaxVersion, day : 1..MaxDay]
Absent == [version |-> 0, day |-> 0, identified |-> FALSE]
Copy == [version : 0..MaxVersion, day : 0..MaxDay, identified : BOOLEAN]

ASSUME NoticeAssumption ==
  /\ Versionless \subseteq Notice /\ Bare \subseteq Notice
  /\ Linkless \subseteq Notice /\ Bad \subseteq Notice /\ Old \subseteq Notice
ASSUME ParentsAssumption == Parents \in [Notice -> Seq(Entity)]
ASSUME JobAssumption == Daily \notin Bulk
ASSUME TedBounds ==
  /\ MaxVersion \in Nat \ {0} /\ MaxDay \in Nat \ {0} /\ Lookback \in Nat
  /\ TransientRetries \in Nat \ {0}
  /\ MaxLag \in Nat /\ MaxFaults \in Nat

VARIABLES
  today,      \* the date
  pubs,       \* what TED has published
  log,        \* log[n]: the versions of notice n on the event log
  known,      \* entities that the event log announces
  queue,      \* the part of the log that the sink has not applied
  graph,      \* graph[n]: the copy in the graph
  watermark,  \* the last day loaded; 0 before the first
  job,        \* job[j]: where the job is, and its local variables
  owed,       \* history: records listed by the search, less those FAILED
  faults      \* failures so far

vars == <<today, pubs, log, known, queue, graph, watermark, job, owed, faults>>

\* rescore: bypass the gate; day, until: the day being loaded and the last;
\* todo: records to look at; cur: the one in hand; tries: attempts at it that
\* ended in a transient error; seen: seen_authorities and seen_companies; done,
\* failed: the notices behind the day's counters emitted + skipped, and errors.
\* A history: lost, the entities first met by a batch that was rolled back.
JobState == [pc      : {"idle", "day", "next", "gate", "emit"},
             rescore : BOOLEAN,
             day     : 0..MaxDay + 1,
             until   : 0..MaxDay,
             todo    : SUBSET Publication,
             cur     : SUBSET Publication,
             tries   : 0..TransientRetries - 1,
             seen    : SUBSET Entity,
             lost    : SUBSET Entity,
             done    : SUBSET Publication,
             failed  : SUBSET Publication]

Idle == [pc |-> "idle", rescore |-> FALSE, day |-> 0, until |-> 0, todo |-> {},
         cur |-> {}, tries |-> 0, seen |-> {}, lost |-> {}, done |-> {}, failed |-> {}]

TypeOK ==
  /\ today \in 1..MaxDay
  /\ pubs \subseteq Publication
  /\ log \in [Notice -> SUBSET (0..MaxVersion)]
  /\ known \subseteq Entity
  /\ queue \in Seq(Publication)
  /\ graph \in [Notice -> Copy]
  /\ watermark \in 0..MaxDay
  /\ job \in [Job -> JobState]
  /\ owed \subseteq Publication
  /\ faults \in 0..MaxFaults

At(j, pc) == job[j].pc = pc

----------------------------------------------------------------------------
(* TED, and the sink.                                                      *)

Published(n) == {p \in pubs : p.notice = n}
First(n) == IF n \in Versionless THEN 0 ELSE 1

\* A first version, or the one after the last.
Publish(n) ==
  /\ \E v \in 0..MaxVersion :
       /\ v = 0 <=> n \in Versionless
       /\ \A p \in Published(n) : p.version < v
       /\ v > 1 => \E p \in Published(n) : p.version = v - 1
       /\ pubs' = pubs \union {[notice |-> n, version |-> v, day |-> today]}
  /\ UNCHANGED <<today, log, known, queue, graph, watermark, job, owed, faults>>

NextDay ==
  /\ today < MaxDay
  /\ today' = today + 1
  /\ UNCHANGED <<pubs, log, known, queue, graph, watermark, job, owed, faults>>

\* "The sinks MERGE, so values overwrite in place."
Sink ==
  /\ queue # <<>>
  /\ LET p == Head(queue) IN
       graph' = [graph EXCEPT ![p.notice] =
                   [version |-> p.version, day |-> p.day, identified |-> TRUE]]
  /\ queue' = Tail(queue)
  /\ UNCHANGED <<today, pubs, log, known, watermark, job, owed, faults>>

----------------------------------------------------------------------------
(* The jobs.                                                               *)

Begin == [Idle EXCEPT !.pc = "day", !.until = today]

\* main: from the day after the watermark, or the look-back, to today.
LaunchDaily ==
  LET since == IF watermark # 0 THEN watermark + 1
               ELSE IF today > Lookback THEN today - Lookback ELSE 1
  IN /\ At(Daily, "idle") /\ since <= today
     /\ job' = [job EXCEPT ![Daily] = [Begin EXCEPT !.day = since]]
     /\ UNCHANGED <<today, pubs, log, known, queue, graph, watermark, owed, faults>>

\* What bulk jobs are started for: the past, or a notice.
Named == {{p \in pubs : p.day < today}} \union {{p} : p \in pubs}

\* load_contracts and load_notices: an archive of past days, or the notices
\* that an operator names, with --rescore or not.
LaunchBulk(j) ==
  /\ At(j, "idle")
  /\ \E rescore \in BOOLEAN, named \in Named :
       /\ ~rescore => named = {p \in pubs : p.day < today}
       /\ job' = [job EXCEPT ![j] =
                    [Begin EXCEPT !.pc = "next", !.rescore = rescore,
                                  !.todo = named]]
  /\ UNCHANGED <<today, pubs, log, known, queue, graph, watermark, owed, faults>>

\* search_day.
SearchDay ==
  LET found == {p \in pubs : p.day = job[Daily].day} IN
  /\ At(Daily, "day")
  /\ job' = [job EXCEPT ![Daily].pc = "next", ![Daily].todo = found,
                        ![Daily].done = {}, ![Daily].failed = {}]
  /\ owed' = owed \union found
  /\ UNCHANGED <<today, pubs, log, known, queue, graph, watermark, faults>>

\* Mutant: the gate does not compare versions.
ShouldIngest_AnyCopyWillDo(p) ==
  LET copy == graph[p.notice] IN
  \/ copy = Absent
  \/ ~copy.identified

\* _should_ingest, on what the sink has written so far.
ShouldIngest(p) ==
  LET copy == graph[p.notice]
      older == copy.version # 0 /\ p.version # 0 /\ p.version < copy.version
  IN \/ copy = Absent
     \/ ~copy.identified
     \/ p.version > copy.version
     \/ p.day # copy.day /\ ~older

Took(j, p) ==
  [job[j] EXCEPT !.pc = "next", !.todo = @ \ {p}, !.cur = {}, !.tries = 0]
Counted(j, p) == IF j = Daily THEN {p} ELSE {}
Handled(j, p) == [Took(j, p) EXCEPT !.done = @ \union Counted(j, p)]
Failed(j, p) == [Took(j, p) EXCEPT !.failed = @ \union Counted(j, p)]

Again(j, p) == [job[j] EXCEPT !.pc = "gate", !.cur = {p}, !.tries = @ + 1]

\* The buyer and the suppliers that a notice resolves, in this order: the first k
\* of them, and all of them.
Met(n, k) == {Parents[n][i] : i \in 1..k}
Parties(n) == Met(n, Len(Parents[n]))

FaultOrBad(p) ==
  \/ p.notice \in Bad /\ faults' = faults
  \/ faults < MaxFaults /\ faults' = faults + 1

\* The gate before the download, on the search record.
Screen(p) ==
  /\ At(Daily, "next") /\ p \in job[Daily].todo
  /\ job' = [job EXCEPT ![Daily] =
               IF ~ShouldIngest(p) THEN Handled(Daily, p)
               ELSE IF p.notice \in Linkless THEN Took(Daily, p)
               ELSE [@ EXCEPT !.pc = "gate", !.cur = {p}]]
  /\ UNCHANGED <<today, pubs, log, known, queue, graph, watermark, owed, faults>>

\* The record that passed the screen or is tried again, or the next of an
\* archive or a list.
InHand(j) ==
  {p \in job[j].cur : At(j, "gate")} \union {p \in job[j].todo : j \in Bulk /\ At(j, "next")}

\* The download, the parser and ingest_notice's gate.
GateNotice(j, p) ==
  /\ p \in InHand(j) /\ p.notice \notin Bad
  /\ job' = [job EXCEPT ![j] =
               IF job[j].rescore \/ ShouldIngest(p)
                 THEN [@ EXCEPT !.pc = "emit", !.cur = {p}] ELSE Handled(j, p)]
  /\ UNCHANGED <<today, pubs, log, known, queue, graph, watermark, owed, faults>>

GateFails(j, p) ==
  /\ p \in InHand(j)
  /\ FaultOrBad(p)
  /\ job' = [job EXCEPT ![j] = Failed(j, p)]
  /\ owed' = owed \ Counted(j, p)
  /\ UNCHANGED <<today, pubs, log, known, queue, graph, watermark>>

\* A transient error of the graph, unless it is the last attempt's.
Transient(j) ==
  /\ job[j].tries + 1 < TransientRetries
  /\ faults < MaxFaults /\ faults' = faults + 1
  /\ UNCHANGED <<today, pubs, log, known, queue, graph, watermark, owed>>

GateRetries(j, p) ==
  /\ p \in InHand(j) /\ p.notice \notin Bad /\ ~job[j].rescore
  /\ Transient(j)
  /\ job' = [job EXCEPT ![j] = Again(j, p)]

\* Mutant: the sets are shared by the jobs of a process.
Announced_SharedSets(j, n) == Parties(n) \ UNION {job[k].seen : k \in Job}

\* _emit_authority and _resolve_suppliers: those this run has not met.
Announced(j, n) == Parties(n) \ job[j].seen

\* _emit_notice, and its batch commits.
EmitNotice(j, p) ==
  LET n == p.notice IN
  /\ At(j, "emit") /\ p \in job[j].cur
  /\ known' = known \union Announced(j, n)
  /\ job' = [job EXCEPT ![j] =
               [Handled(j, p) EXCEPT !.seen = @ \union Parties(n)]]
  /\ IF n \in Bare
       THEN UNCHANGED <<log, queue>>
       ELSE /\ Len(queue) < MaxLag
            /\ log' = [log EXCEPT ![n] = @ \union {p.version}]
            /\ queue' = Append(queue, p)
  /\ UNCHANGED <<today, pubs, graph, watermark, owed, faults>>

\* The batch is rolled back; the first k entities, met on the way, stay met.
RolledBack(r, n, k) ==
  [r EXCEPT !.seen = @ \union Met(n, k), !.lost = @ \union (Met(n, k) \ r.seen)]

\* The graph fails the matcher at one of them: the notice is tried again.
EmitRetries(j, p) ==
  /\ At(j, "emit") /\ p \in job[j].cur
  /\ Transient(j)
  /\ \E k \in 0..Len(Parents[p.notice]) - 1 :
       job' = [job EXCEPT ![j] = RolledBack(Again(j, p), p.notice, k)]

\* Any other exception, or the last attempt's, is logged and counted.
EmitFails(j, p) ==
  /\ At(j, "emit") /\ p \in job[j].cur
  /\ faults < MaxFaults /\ faults' = faults + 1
  /\ \E k \in 0..Len(Parents[p.notice]) :
       job' = [job EXCEPT ![j] = RolledBack(Failed(j, p), p.notice, k)]
  /\ owed' = owed \ Counted(j, p)
  /\ UNCHANGED <<today, pubs, log, known, queue, graph, watermark>>

\* Mutant: a day of which every notice failed counts as loaded.
AllErrored_Never(j) == FALSE

AllErrored(j) == job[j].failed # {} /\ job[j].done = {}

\* _advance_watermark: never back.
Advanced(j) == IF watermark < job[j].day THEN job[j].day ELSE watermark

\* The day is over: stop, or advance the watermark and go on.
FinishDay ==
  LET day == job[Daily].day IN
  /\ At(Daily, "next") /\ job[Daily].todo = {}
  /\ watermark' = IF AllErrored(Daily) THEN watermark ELSE Advanced(Daily)
  /\ job' = [job EXCEPT ![Daily] =
               IF AllErrored(Daily) \/ day = job[Daily].until
                 THEN Idle ELSE [@ EXCEPT !.pc = "day", !.day = day + 1]]
  /\ UNCHANGED <<today, pubs, log, known, queue, graph, owed, faults>>

FinishBulk(j) ==
  /\ j \in Bulk /\ At(j, "next") /\ job[j].todo = {}
  /\ job' = [job EXCEPT ![j] = Idle]
  /\ UNCHANGED <<today, pubs, log, known, queue, graph, watermark, owed, faults>>

\* A search that fails, a broken archive, the deadline or a kill.
Abort(j) ==
  /\ ~At(j, "idle")
  /\ faults < MaxFaults /\ faults' = faults + 1
  /\ job' = [job EXCEPT ![j] = Idle]
  /\ UNCHANGED <<today, pubs, log, known, queue, graph, watermark, owed>>

Init ==
  /\ today = 1
  /\ pubs = {[notice |-> n, version |-> First(n), day |-> 1] : n \in Old}
  /\ owed = {}
  /\ log = [n \in Notice |-> {}]
  /\ known = {}
  /\ queue = <<>>
  /\ graph = [n \in Notice |->
                IF n \in Old THEN [Absent EXCEPT !.day = 1] ELSE Absent]
  /\ watermark = 0
  /\ job = [j \in Job |-> Idle]
  /\ faults = 0

Ingest(j) ==
  \/ \E p \in InHand(j) : GateNotice(j, p) \/ GateFails(j, p)
  \/ \E p \in job[j].cur : EmitNotice(j, p)

DailyStep ==
  SearchDay \/ FinishDay \/ Ingest(Daily) \/ \E p \in job[Daily].todo : Screen(p)
BulkStep(j) == FinishBulk(j) \/ Ingest(j)
JobFails(j) ==
  \/ Abort(j)
  \/ \E p \in InHand(j) : GateRetries(j, p)
  \/ \E p \in job[j].cur : EmitRetries(j, p) \/ EmitFails(j, p)

Next ==
  \/ \E n \in Notice : Publish(n)
  \/ NextDay \/ Sink
  \/ LaunchDaily \/ DailyStep
  \/ \E j \in Bulk : LaunchBulk(j) \/ BulkStep(j)
  \/ \E j \in Job : JobFails(j)

\* The CronJob fires every day and takes its next step; the sink runs.  Bulk
\* jobs, once started, go on; nobody has to start one.  (Strong for the jobs,
\* which only the bound on the lag can block.)
Fairness ==
  /\ WF_vars(NextDay) /\ WF_vars(Sink)
  /\ WF_vars(LaunchDaily) /\ SF_vars(DailyStep)
  /\ \A j \in Bulk : SF_vars(BulkStep(j))

Spec == Init /\ [][Next]_vars
FairSpec == Spec /\ Fairness

----------------------------------------------------------------------------
(* Properties.                                                             *)

OnLog(p) == \E v \in log[p.notice] : v >= p.version

\* Nothing that the search listed on a day up to the watermark is missing: it
\* is on the log in its version or a newer one, or it was logged as FAILED,
\* whatever was rolled back, aborted or skipped on the word of the graph.  (If
\* the look-back reaches the first day: until there is a watermark, a run that
\* fails leaves the days that the next one does not look back to.)
Covered ==
  \A p \in owed :
    /\ Lookback + 1 >= MaxDay
    /\ p.day <= watermark
    /\ p.notice \notin Bare \union Linkless
    => OnLog(p)

\* "We never silently skip a date": the watermark passes a day of which
\* something was handled or failed only if one of its notices was loaded.
NoDateSkipped ==
  [][watermark' # watermark /\ job[Daily].failed # {} =>
       \E p \in pubs : p.day = watermark' /\ (p.notice \in Bare \/ OnLog(p))]_vars

\* A contract is announced before its buyer or one of its suppliers, of whom the
\* sink makes a stub, only if this very run had met that party in a batch that it
\* rolled back; what other runs met, lost or announced makes no difference.
NoStubs ==
  [][\A j \in Job : \A p \in job[j].cur :
       At(j, "emit") /\ log' # log /\ job'[j] # job[j] =>
         Parties(p.notice) \subseteq known' \union job[j].lost]_vars

\* "The per-notice batch rolls back on the way out, so a retry starts clean"
\* (load_ted_contracts.py:371-372): what is emitted at a later attempt has all its
\* parties announced.
RetryStartsClean ==
  [][\A j \in Job : \A p \in job[j].cur :
       At(j, "emit") /\ job[j].tries > 0 /\ log' # log /\ job'[j] # job[j] =>
         Parties(p.notice) \subseteq known']_vars

\* The daily job gets through to the last day, unless every notice of the day
\* it is at fails to parse.
WatermarkMoves ==
  <>[](\/ watermark = MaxDay
       \/ \E d \in watermark + 1..MaxDay :
            LET day == {p \in pubs : p.day = d} IN
            day # {} /\ \A p \in day : p.notice \in Bad)

Current(p) == graph[p.notice].identified /\ graph[p.notice].version >= p.version

\* "The repair is simply a re-run": whatever older versions overtook newer
\* ones on the log, archives loaded again and again bring every notice of a
\* past day to its last version, if rescoring stops.
Rescoring == \E j \in Bulk : job[j].rescore
RerunRepairs ==
  (\E j \in Bulk : []<>~At(j, "idle")) /\ <>[]~Rescoring =>
    <>[](\A p \in pubs :
           p.day < today /\ p.notice \notin Bad \union Bare => Current(p))

\* The ingest settles: the watermark gets to the last day unless a day fails as
\* a whole, and re-runs bring the graph to the last versions.
IngestSettles == WatermarkMoves /\ RerunRepairs
=============================================================================
