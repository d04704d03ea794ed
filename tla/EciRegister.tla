------------------------------ MODULE EciRegister ------------------------------
(***************************************************************************)
(* European citizens' initiatives (src/src/etl/load_eu_petitions.py): a    *)
(* run pages through the search of the register by offset while the        *)
(* register grows, fetches each initiative's details, keeps the snapshot   *)
(* as a file, emits the initiatives in one batch, and then writes the      *)
(* day's supporter counts to a table of its own.  It may replay a file.    *)
(***************************************************************************)
EXTENDS Integers, Sequences, FiniteSets, SequencesExt, FiniteSetsExt

CONSTANTS
  EciPage,       \* PAGE_SIZE
  MaxInitiatives,\* bound: initiatives 1..MaxInitiatives, in order of registration
  MaxSupport,    \* bound: statements of support of an initiative
  MaxEciRuns     \* bound: runs

ASSUME EciAssumption == EciPage \in Nat \ {0} /\ MaxInitiatives \in Nat /\ MaxEciRuns \in Nat

VARIABLES
  search,     \* the register's search result: the newest initiative first
  support,    \* support[i]: the statements of support the register counts
  keptFiles,  \* the snapshots on the share
  petitions,  \* the log: the last support emitted of each initiative
  series,     \* today's rows of events.petition_supporters
  eciRun,     \* the run and its local variables
  eciRuns

eciVars == <<search, support, keptFiles, petitions, series, eciRun, eciRuns>>

\* entries: the initiatives found, with their support, in whatever order; had: history, what the
\* register counted when the search began.
EciIdle == [pc |-> "idle", offset |-> 0, entries |-> {}, had |-> <<>>]
NoCounts == [i \in {} |-> 0]

EciInit ==
  /\ \E n \in 0..MaxInitiatives : search = Reverse([i \in 1..n |-> i])
  /\ support = [i \in 1..MaxInitiatives |-> 0]
  /\ keptFiles = {} /\ petitions = NoCounts /\ series = NoCounts
  /\ eciRun = EciIdle /\ eciRuns = 0

\* An initiative is registered, or supported.
RegisterGrows ==
  /\ \/ /\ Len(search) < MaxInitiatives
        /\ search' = <<Len(search) + 1>> \o search
        /\ UNCHANGED support
     \/ /\ \E i \in ToSet(search) :
             /\ support[i] < MaxSupport
             /\ support' = [support EXCEPT ![i] = @ + 1]
        /\ UNCHANGED search
  /\ UNCHANGED <<keptFiles, petitions, series, eciRun, eciRuns>>

StartEciRun ==
  /\ eciRun.pc = "idle" /\ eciRuns < MaxEciRuns
  /\ eciRuns' = eciRuns + 1
  /\ eciRun' = [EciIdle EXCEPT !.pc = "search",
                               !.had = [i \in ToSet(search) |-> support[i]]]
  /\ UNCHANGED <<search, support, keptFiles, petitions, series>>

\* main --file: a snapshot of the share is replayed.
ReplayFile ==
  /\ eciRun.pc = "idle" /\ eciRuns < MaxEciRuns
  /\ eciRuns' = eciRuns + 1
  /\ \E snapshot \in keptFiles :
       eciRun' = [EciIdle EXCEPT !.pc = "parsed", !.entries = snapshot]
  /\ UNCHANGED <<search, support, keptFiles, petitions, series>>

FoundIds == {e.id : e \in eciRun.entries}
SearchPage ==
  SubSeq(search, eciRun.offset + 1, Min({Len(search), eciRun.offset + EciPage}))
Fresh == ToSet(SearchPage) \ FoundIds

\* Mutant: a page without anything new is taken for the last one.
LastSearch_NothingFresh(entries) ==
  Cardinality(entries) >= Len(search) \/ Cardinality(Fresh) < EciPage

\* fetch_register: as many as the register says it has, or an empty page.
LastSearch(entries) == Cardinality(entries) >= Len(search) \/ SearchPage = <<>>

\* fetch_register: the next page of the search, by offset.
FetchSearchPage ==
  /\ eciRun.pc = "search"
  /\ LET entries == eciRun.entries \union
           {[id |-> i, support |-> support[i]] : i \in Fresh} IN
       eciRun' = [eciRun EXCEPT !.entries = entries, !.offset = @ + EciPage,
                                !.pc = IF LastSearch(entries) THEN "details" ELSE @]
  /\ UNCHANGED <<search, support, keptFiles, petitions, series, eciRuns>>

\* fetch_register, write_artifact: the details of every entry; the snapshot is
\* complete and kept.  (Details are abstracted to their being there.)
KeepSnapshot ==
  /\ eciRun.pc = "details"
  /\ keptFiles' = keptFiles \union {eciRun.entries}
  /\ eciRun' = [eciRun EXCEPT !.pc = "parsed"]
  /\ UNCHANGED <<search, support, petitions, series, eciRuns>>

Counts(entries) ==
  [i \in {e.id : e \in entries} |-> (CHOOSE e \in entries : e.id = i).support]

\* The last that was said of each initiative.
ToldAnew(old, counts) ==
  [i \in DOMAIN old \union DOMAIN counts |-> IF i \in DOMAIN counts THEN counts[i] ELSE old[i]]

\* main: one batch with an UpsertPetition for each initiative.
EmitPetitions ==
  /\ eciRun.pc = "parsed"
  /\ petitions' = ToldAnew(petitions, Counts(eciRun.entries))
  /\ eciRun' = [eciRun EXCEPT !.pc = "emitted"]
  /\ UNCHANGED <<search, support, keptFiles, series, eciRuns>>

\* write_snapshots: the rows of the day are inserted or overwritten.
WriteSeries ==
  /\ eciRun.pc = "emitted"
  /\ series' = ToldAnew(series, Counts(eciRun.entries))
  /\ eciRun' = [eciRun EXCEPT !.pc = "over"]
  /\ UNCHANGED <<search, support, keptFiles, petitions, eciRuns>>

\* The run ends, or dies anywhere before.
EndEciRun ==
  /\ eciRun.pc # "idle" /\ eciRun' = EciIdle
  /\ UNCHANGED <<search, support, keptFiles, petitions, series, eciRuns>>

EciNext ==
  \/ RegisterGrows \/ StartEciRun \/ ReplayFile \/ FetchSearchPage \/ KeepSnapshot
  \/ EmitPetitions \/ WriteSeries \/ EndEciRun

EciSpec == EciInit /\ [][EciNext]_eciVars

----------------------------------------------------------------------------
(* Properties                                                              *)

\* When a run that read the register is over, every initiative that was listed
\* when it began is in the log and in the day's series, once, with at least the
\* support it had then, however the pages shifted while the register grew.
SnapshotIsWhole ==
  eciRun.pc = "over" =>
    /\ \A d, e \in eciRun.entries : d.id = e.id => d = e
    /\ \A i \in DOMAIN eciRun.had :
         /\ i \in DOMAIN petitions /\ petitions[i] >= eciRun.had[i]
         /\ i \in DOMAIN series /\ series[i] = petitions[i]
=============================================================================
