------------------------------- MODULE Cohesion --------------------------------
(***************************************************************************)
(* The projects of EU cohesion policy in the graph                         *)
(* (src/src/etl/load_eu_knowledge_graph.py).  A run downloads one CSV per  *)
(* country, logs the programmes and funds of all of them in one batch, and *)
(* then the projects chunk by chunk, each beneficiary before the first     *)
(* project that names it.  The sink applies the log in order and drops a   *)
(* link of which one end is missing.                                       *)
(***************************************************************************)
EXTENDS Naturals, Sequences, FiniteSets, SequencesExt, FiniteSetsExt

CONSTANTS
  Land,             \* the countries
  ProjectRow,       \* the rows a CSV can have: [project, name, beneficiary, programme, dated]
  NoText,           \* a field that is empty
  NotAName,         \* the literals that stand for a missing name ("nan", "-", ...)
  CohesionChunk,    \* projects in a batch (EMIT_CHUNK)
  MaxCsvRows,       \* bound: rows of a CSV
  MaxCohesionRuns,  \* bound: runs
  MaxCohesionFaults \* bound: downloads or batches that fail

ASSUME CohesionAssumption == CohesionChunk \in Nat \ {0} /\ MaxCsvRows \in Nat

VARIABLES
  csv,            \* csv[l]: the rows that Kohesio has published for l
  programmes,     \* the programmes in the graph
  beneficiaries,  \* the companies in the graph
  disclosed,      \* disclosed[p]: the disclosure of project p, of those in the graph
  filedBy,        \* FILED_BY: <<project, company>>
  underProgramme, \* UNDER_PROGRAMME: <<project, programme>>
  cohesionRun,    \* the run
  cohesionRuns, cohesionFaults

cohesionVars == <<csv, programmes, beneficiaries, disclosed, filedBy, underProgramme,
                  cohesionRun, cohesionRuns, cohesionFaults>>
cohesionGraph == <<programmes, beneficiaries, disclosed, filedBy, underProgramme>>

NoOne == <<"none">>

\* todo: countries; got: rows read; seen: beneficiaries announced; failed: countries
\* that could not be downloaded; emitted: rows of got that are in the log.
CohesionIdle ==
  [pc |-> "idle", todo |-> {}, got |-> <<>>, failed |-> {}, seen |-> {}, emitted |-> 0]

CohesionInit ==
  /\ csv \in [Land -> SeqOf(ProjectRow, MaxCsvRows)]
  /\ programmes = {} /\ beneficiaries = {} /\ filedBy = {} /\ underProgramme = {}
  /\ disclosed = <<>>
  /\ cohesionRun = CohesionIdle /\ cohesionRuns = 0 /\ cohesionFaults = 0

\* Mutant: every name is a name.
Nameless_Empty(row) == row.name = NoText

\* A missing name is written as a literal by the export.
Nameless(row) == row.name \in NotAName \union {NoText}

\* The beneficiary's id: from its name and country, so that other loaders make
\* the same one; else from its QID.
Beneficiary(l, row) ==
  IF ~Nameless(row) THEN <<l, row.name>>
  ELSE IF row.beneficiary # NoText THEN <<l, "qid", row.beneficiary>> ELSE NoOne

\* parse_kohesio_csv: row by row, those of projects from the --since date on.
ProjectOf(l, row) ==
  [project |-> row.project, programme |-> row.programme, who |-> row.beneficiary,
   company |-> Beneficiary(l, row), name |-> row.name]
ParsedRows(l, rows) ==
  LET read[i \in 0..Len(rows)] ==
        IF i = 0 THEN <<>>
        ELSE IF rows[i].dated THEN Append(read[i - 1], ProjectOf(l, rows[i])) ELSE read[i - 1]
  IN  read[Len(rows)]

StartCohesion ==
  /\ cohesionRun.pc = "idle" /\ cohesionRuns < MaxCohesionRuns
  /\ cohesionRuns' = cohesionRuns + 1
  /\ cohesionRun' = [CohesionIdle EXCEPT !.pc = "download", !.todo = Land]
  /\ UNCHANGED <<csv, cohesionGraph, cohesionFaults>>

\* A country at a time; one that fails is noted and the others go on.
DownloadCountry ==
  /\ cohesionRun.pc = "download" /\ cohesionRun.todo # {}
  /\ \E l \in cohesionRun.todo :
       \/ /\ cohesionRun' = [cohesionRun EXCEPT !.todo = @ \ {l},
                                                 !.got = @ \o ParsedRows(l, csv[l])]
          /\ UNCHANGED cohesionFaults
       \/ /\ cohesionFaults < MaxCohesionFaults /\ cohesionFaults' = cohesionFaults + 1
          /\ cohesionRun' = [cohesionRun EXCEPT !.todo = @ \ {l}, !.failed = @ \union {l}]
  /\ UNCHANGED <<csv, cohesionGraph, cohesionRuns>>

\* emit_programme_fund_nodes: before any project.
EmitProgrammes ==
  /\ cohesionRun.pc = "download" /\ cohesionRun.todo = {} /\ cohesionRun.got # <<>>
  /\ programmes' = programmes \union ({r.programme : r \in ToSet(cohesionRun.got)} \ {NoText})
  /\ cohesionRun' = [cohesionRun EXCEPT !.pc = "emit"]
  /\ UNCHANGED <<csv, beneficiaries, disclosed, filedBy, underProgramme, cohesionRuns,
                 cohesionFaults>>

\* The next rows, and the beneficiaries that no earlier row of the run named.
NextChunk == SubSeq(cohesionRun.got, cohesionRun.emitted + 1,
                Min({cohesionRun.emitted + CohesionChunk, Len(cohesionRun.got)}))
NewOnes == {r.company : r \in ToSet(NextChunk)} \ (cohesionRun.seen \union {NoOne})

\* The sink's links, if both ends are there; of several rows of a project the last
\* one is its disclosure.
Linked(ends, nodes) == {e \in ends : e[2] \in nodes}
LastRowOf(p, rows) == rows[Max({i \in DOMAIN rows : rows[i].project = p})]
Redisclosed(old, rows) ==
  LET told == {r.project : r \in ToSet(rows)} IN
  [p \in DOMAIN old \union told |->
     IF p \in told THEN [company |-> LastRowOf(p, rows).company,
                        programme |-> LastRowOf(p, rows).programme]
     ELSE old[p]]

\* emit_disclosure_events: a chunk is a transaction.
EmitProjects ==
  /\ cohesionRun.pc = "emit" /\ NextChunk # <<>>
  /\ beneficiaries' = beneficiaries \union NewOnes
  /\ disclosed' = Redisclosed(disclosed, NextChunk)
  /\ filedBy' = filedBy \union
       Linked({<<r.project, r.company>> : r \in ToSet(NextChunk)}, beneficiaries')
  /\ underProgramme' = underProgramme \union
       Linked({<<r.project, r.programme>> : r \in ToSet(NextChunk)}, programmes)
  /\ cohesionRun' = [cohesionRun EXCEPT !.seen = @ \union NewOnes,
                                        !.emitted = @ + Len(NextChunk)]
  /\ UNCHANGED <<csv, programmes, cohesionRuns, cohesionFaults>>

\* The log fails or the pod is killed.
CohesionDies ==
  /\ cohesionRun.pc \in {"download", "emit"}
  /\ cohesionFaults < MaxCohesionFaults /\ cohesionFaults' = cohesionFaults + 1
  /\ cohesionRun' = CohesionIdle
  /\ UNCHANGED <<csv, cohesionGraph, cohesionRuns>>

\* main: a run with a failed country ends as a failure, whatever it emitted.
EndCohesion ==
  /\ \/ cohesionRun.pc = "emit" /\ NextChunk = <<>>
     \/ cohesionRun.pc = "download" /\ cohesionRun.todo = {} /\ cohesionRun.got = <<>>
  /\ cohesionRun' = [cohesionRun EXCEPT !.pc = IF cohesionRun.failed = {} THEN "complete"
                                                                          ELSE "failed"]
  /\ UNCHANGED <<csv, cohesionGraph, cohesionRuns, cohesionFaults>>

\* The files of the next month.
KohesioPublishes ==
  /\ cohesionRun.pc \in {"complete", "failed"} /\ cohesionRuns < MaxCohesionRuns
  /\ \E l \in Land, rows \in SeqOf(ProjectRow, MaxCsvRows) : csv' = [csv EXCEPT ![l] = rows]
  /\ cohesionRun' = CohesionIdle
  /\ UNCHANGED <<cohesionGraph, cohesionRuns, cohesionFaults>>

CohesionNext ==
  \/ StartCohesion \/ DownloadCountry \/ EmitProgrammes \/ EmitProjects \/ CohesionDies
  \/ EndCohesion \/ KohesioPublishes

CohesionSpec == CohesionInit /\ [][CohesionNext]_cohesionVars

----------------------------------------------------------------------------
(* Properties                                                              *)

\* No disclosure hangs in the air: beneficiary and programme are in the graph and
\* linked, though the beneficiary is announced once per run, in another chunk,
\* and runs die between chunks.  Beneficiaries without a name are not merged into
\* one.  And a run that reports success has stored the project of every row of
\* every country.
CohesionLinksHold ==
  /\ \A p \in DOMAIN disclosed :
       /\ disclosed[p].company # NoOne => <<p, disclosed[p].company>> \in filedBy
       /\ disclosed[p].programme # NoText => <<p, disclosed[p].programme>> \in underProgramme
  /\ \A q, r \in ToSet(cohesionRun.got) :
       q.company = r.company /\ q.company # NoOne /\ q.who # r.who =>
         q.name \notin NotAName \union {NoText}
  /\ cohesionRun.pc = "complete" =>
       \A l \in Land : \A r \in ToSet(csv[l]) :
         r.dated => /\ \E s \in ToSet(cohesionRun.got) : s.project = r.project
                    /\ r.project \in DOMAIN disclosed
=============================================================================
