----------------------------- MODULE CellarMirror ------------------------------
(***************************************************************************)
(* The mirror of EU legislation (src/src/etl/legislative/mirror_cellar.py):*)
(* a run walks the months of its range; the works of a month are exported  *)
(* from CELLAR page by page into an artifact on the share, unless there is *)
(* a verified one, and the artifact is then inserted into the mirror graph *)
(* chunk by chunk.  Any run may die at any step and is started again, and  *)
(* files on the share may be damaged.                                      *)
(*                                                                         *)
(* A work of a month is a number, in the order of the work list; a triple  *)
(* is a work of a month at one of its versions (0: not published).         *)
(***************************************************************************)
EXTENDS Integers, FiniteSets

CONSTANTS
  MaxMonth,       \* bound: months 1..MaxMonth
  MaxWork,        \* bound: works 1..MaxWork of a month
  MaxVersion,     \* bound: versions 1..MaxVersion of a work (corrigenda)
  MaxPublications,\* bound: works published and corrected in all
  MaxMirrorFaults \* bound: runs that die, files that are damaged

ASSUME MirrorAssumption ==
  MaxMonth \in Nat /\ MaxMonth >= 2 /\ MaxWork \in Nat /\ MaxVersion \in Nat

Month == 1..MaxMonth
Work == 1..MaxWork

VARIABLES
  currentMonth,       \* the current month
  available,   \* available[m][w]: the version CELLAR has
  artifact,    \* artifact[m]: the file of the month and its manifest
  graph,       \* the triples of the mirror graph
  mirrorRun,   \* the run and its local variables
  mirrorFaults \* faults so far

mirrorVars == <<currentMonth, available, artifact, graph, mirrorRun, mirrorFaults>>

\* file: the triples in the .nt.gz; readable: it can be decompressed to its
\* end; manifest: there is one; matches: its sum is that of the file; asOf: what
\* CELLAR had when the export began (a history variable, unknown to the program).
NoFile == [file |-> {}, readable |-> FALSE, manifest |-> FALSE, matches |-> FALSE,
           asOf |-> [w \in Work |-> 0]]

\* months: those still to come; recent: --recent; known: what CELLAR had, from
\* the first of them on, when the run began (history); offset: the next row of the work list; loaded: the
\* lines of the artifact inserted so far.
RunIdle == [pc |-> "idle", months |-> {}, recent |-> FALSE,
            known |-> [m \in Month |-> [w \in Work |-> 0]], offset |-> 0, loaded |-> {}]

MirrorInit ==
  /\ currentMonth = 2
  /\ available \in [Month -> [Work -> {0}]]
  /\ artifact = [m \in Month |-> NoFile]
  /\ graph = {}
  /\ mirrorRun = RunIdle
  /\ mirrorFaults = 0

----------------------------------------------------------------------------
(* CELLAR and the calendar                                                 *)

\* A work of this month or of an earlier one is published, late or not, or
\* corrected.
Publish ==
  /\ Cardinality({t \in Month \X Work \X (1..MaxVersion) : t[3] <= available[t[1]][t[2]]})
       < MaxPublications
  /\ \E m \in 1..currentMonth, w \in Work :
       /\ available[m][w] < MaxVersion
       /\ available' = [available EXCEPT ![m][w] = @ + 1]
  /\ UNCHANGED <<currentMonth, artifact, graph, mirrorRun, mirrorFaults>>

MonthEnds ==
  /\ currentMonth < MaxMonth
  /\ currentMonth' = currentMonth + 1
  /\ UNCHANGED <<available, artifact, graph, mirrorRun, mirrorFaults>>

\* A file on the share is truncated.
DamageFile ==
  /\ mirrorFaults < MaxMirrorFaults
  /\ mirrorFaults' = mirrorFaults + 1
  /\ \E m \in {n \in Month : artifact[n].readable} :
       artifact' = [artifact EXCEPT ![m].readable = FALSE, ![m].matches = FALSE]
  /\ UNCHANGED <<currentMonth, available, graph, mirrorRun>>

----------------------------------------------------------------------------
(* A run                                                                   *)

\* _resolve_range: the daily delta, or a walk over a range of months.
StartMirrorRun ==
  /\ mirrorRun.pc = "idle"
  /\ \E recent \in BOOLEAN, from \in Month, to \in 1..currentMonth :
       /\ from <= to
       /\ recent => from = currentMonth - 1 /\ to = currentMonth
       /\ mirrorRun' = [RunIdle EXCEPT !.pc = "month", !.months = from..to,
                                       !.recent = recent,
            !.known = [m \in Month |-> IF m >= from THEN available[m] ELSE NoFile.asOf]]
  /\ UNCHANGED <<currentMonth, available, artifact, graph, mirrorFaults>>

ThisMonth == CHOOSE m \in mirrorRun.months : \A n \in mirrorRun.months : m <= n

\* verified_artifact: there is a manifest, and its sum is that of the file.
Verified(a) == a.readable /\ a.manifest /\ a.matches

\* The next month: its artifact is loaded as it is, or opened for writing
\* ("wt" truncates; the old manifest, if any, stays until it is rewritten).
NextMonth ==
  /\ mirrorRun.pc = "month" /\ mirrorRun.months # {}
  /\ IF Verified(artifact[ThisMonth])
       THEN /\ mirrorRun' = [mirrorRun EXCEPT !.pc = "load", !.loaded = {}]
            /\ UNCHANGED artifact
       ELSE /\ mirrorRun' = [mirrorRun EXCEPT !.pc = "export", !.offset = 0]
            /\ artifact' = [artifact EXCEPT ![ThisMonth] =
                 [NoFile EXCEPT !.manifest = artifact[ThisMonth].manifest,
                                !.asOf = available[ThisMonth]]]
  /\ UNCHANGED <<currentMonth, available, graph, mirrorFaults>>

\* The work list of a month, as the query answers at this moment.
WorkList(m) == {w \in Work : available[m][w] > 0}

\* Mutant: the list is taken to have ended one row early.
Listed_OneLess(m, n) == {w \in WorkList(m) : Cardinality({v \in WorkList(m) : v < w}) = n + 1}

\* The row after the first n, if there is one: pages go by offset.
Listed(m, n) == {w \in WorkList(m) : Cardinality({v \in WorkList(m) : v < w}) = n}

\* fetch_window: one page of the work list, and the closure of its works.
ExportPage ==
  /\ mirrorRun.pc = "export"
  /\ \E w \in Listed(ThisMonth, mirrorRun.offset) :
       artifact' = [artifact EXCEPT ![ThisMonth].file =
                      @ \union {<<ThisMonth, w, available[ThisMonth][w]>>}]
  /\ mirrorRun' = [mirrorRun EXCEPT !.offset = @ + 1]
  /\ UNCHANGED <<currentMonth, available, graph, mirrorFaults>>

\* write_artifact: the file is closed, then the manifest written.
CloseArtifact ==
  /\ mirrorRun.pc = "export"
  /\ Listed(ThisMonth, mirrorRun.offset) = {}
  /\ artifact' = [artifact EXCEPT ![ThisMonth] =
                    [@ EXCEPT !.readable = TRUE, !.manifest = TRUE, !.matches = TRUE]]
  /\ mirrorRun' = [mirrorRun EXCEPT !.pc = "load", !.loaded = {}]
  /\ UNCHANGED <<currentMonth, available, graph, mirrorFaults>>

\* load_artifact: one chunk, an INSERT of its own.
LoadChunk ==
  /\ mirrorRun.pc = "load" /\ artifact[ThisMonth].readable
  /\ \E chunk \in SUBSET (artifact[ThisMonth].file \ mirrorRun.loaded) :
       /\ chunk # {}
       /\ graph' = graph \union chunk
       /\ mirrorRun' = [mirrorRun EXCEPT !.loaded = @ \union chunk]
  /\ UNCHANGED <<currentMonth, available, artifact, mirrorFaults>>

\* The last chunk is in: on to the next month.
MonthLoaded ==
  /\ mirrorRun.pc = "load" /\ artifact[ThisMonth].readable
  /\ artifact[ThisMonth].file = mirrorRun.loaded
  /\ mirrorRun' = [mirrorRun EXCEPT !.pc = "month", !.months = @ \ {ThisMonth}, !.offset = 0]
  /\ UNCHANGED <<currentMonth, available, artifact, graph, mirrorFaults>>

MirrorRunEnds ==
  /\ mirrorRun.pc = "month" /\ mirrorRun.months = {}
  /\ mirrorRun' = RunIdle
  /\ UNCHANGED <<currentMonth, available, artifact, graph, mirrorFaults>>

\* The job is killed, at its deadline or with its node, or the file proves
\* truncated while it is read: what was written and inserted stays.
MirrorRunDies ==
  /\ mirrorRun.pc # "idle" /\ mirrorFaults < MaxMirrorFaults
  /\ mirrorFaults' = mirrorFaults + 1
  /\ mirrorRun' = RunIdle
  /\ UNCHANGED <<currentMonth, available, artifact, graph>>

\* The retries of a request of the export are used up: the exception closes the
\* file in good order, half full, and writes no manifest.
ExportFails ==
  /\ mirrorRun.pc = "export" /\ mirrorFaults < MaxMirrorFaults
  /\ mirrorFaults' = mirrorFaults + 1
  /\ artifact' = [artifact EXCEPT ![ThisMonth].readable = TRUE]
  /\ mirrorRun' = RunIdle
  /\ UNCHANGED <<currentMonth, available, graph>>

MirrorNext ==
  \/ Publish \/ MonthEnds \/ DamageFile
  \/ StartMirrorRun \/ NextMonth \/ ExportPage \/ CloseArtifact
  \/ LoadChunk \/ MonthLoaded \/ MirrorRunEnds
  \/ MirrorRunDies \/ ExportFails

MirrorSpec == MirrorInit /\ [][MirrorNext]_mirrorVars

----------------------------------------------------------------------------
(* Properties                                                              *)

\* The graph has the work, at the version or at a later one.
Mirrored(g, m, w, version) == \E v \in version..MaxVersion : <<m, w, v>> \in g

\* A month is left behind as loaded only when everything that CELLAR had of it
\* when its export began is in the graph, whatever earlier runs left half
\* written or half loaded, whatever was published while the export paged
\* through the list, and whatever happened to the file.
LoadedIsWhole ==
  [][\A m \in mirrorRun.months \ mirrorRun'.months :
       mirrorRun'.pc # "idle" =>
         \A w \in Work : artifact[m].asOf[w] > 0 =>
           Mirrored(graph, m, w, artifact[m].asOf[w])]_mirrorVars

\* The daily delta "catches late publications and corrigenda": when it ends,
\* what CELLAR had of its two months when it began is in the graph.
DeltaCatchesUp ==
  [][mirrorRun.recent /\ mirrorRun.months = {} /\ mirrorRun'.pc = "idle" /\ mirrorFaults' = mirrorFaults =>
       \A m \in Month, w \in Work :
         mirrorRun.known[m][w] > 0 => Mirrored(graph, m, w, mirrorRun.known[m][w])]_mirrorVars
=============================================================================
