------------------------------ MODULE TitleLang --------------------------------
(***************************************************************************)
(* The migration that gives stored notices the language of their title     *)
(* (src/src/etl/migrate_title_lang.py): "map" records what each source     *)
(* states, "events" adds it to the stored events window by window, and     *)
(* "graph" writes it from the events to the nodes, beside the sink that    *)
(* applies the same log.  Each stage keeps a cursor and may die anywhere.  *)
(***************************************************************************)
EXTENDS Integers, Sequences

CONSTANTS
  PubId,       \* notices stored under their publication number
  OjsId,       \* notices stored under their OJ S reference
  KohesioId,   \* cohesion projects
  PubOf,       \* PubOf[i]: the publication number of an OJ S reference
  Tongue,      \* languages
  TitleWindow, \* --batch: events in a window
  MaxOldTitles,\* bound: events of before titles had a language
  MaxTitleLog, \* bound: events in the log
  MaxTitleFaults \* bound: runs that die

ASSUME TitleAssumption == TitleWindow \in Nat \ {0} /\ MaxOldTitles \in Nat

NoTongue == "none"      \* no title_lang
NotMapped == "unmapped" \* no row in the map
Guess == "guess"        \* what a translator guessed
TitleId == PubId \union OjsId \union KohesioId
Pass == <<"contract", "contract_ojs", "eu_cohesion">>
GraphDomain == <<"contract", "eu_cohesion">>

VARIABLES
  titleLog,   \* the stored events: [id, lang, old]; old: of before titles had a
              \* language, and under Kohesio's English name
  titleMap,   \* title_lang_map: NoTongue where the notice states none (NULL)
  titleMark,  \* title_lang_progress: the cursors of the two later stages
  shown,      \* shown[i]: title_lang in the graph
  sinkAt,     \* the events that the sink has applied
  titleRun,   \* the run and its local variables
  titleFaults

titleVars == <<titleLog, titleMap, titleMark, shown, sinkAt, titleRun, titleFaults>>

\* end: the newest event when the pass in hand began; ends: those of the passes
\* done; written: the window is in the graph, its cursor not.
TitleIdle ==
  [pc |-> "idle", stage |-> "none", end |-> 0, ends |-> <<>>, written |-> FALSE]

DomainOf(i) == IF i \in KohesioId THEN "eu_cohesion" ELSE "contract"

\* The log as it was before titles had a language, shown to some by translators.
TitleInit ==
  /\ \E old \in 1..MaxOldTitles :
       titleLog \in [1..old -> {[id |-> i, lang |-> NoTongue, old |-> TRUE] : i \in TitleId}]
  /\ titleMap = [i \in PubId |-> NotMapped]
  /\ titleMark = [s \in {"events", "graph"} \X {"contract", "contract_ojs", "eu_cohesion"} |-> 0]
  /\ shown = [i \in TitleId |-> Guess]
  /\ sinkAt = Len(titleLog) /\ titleRun = TitleIdle /\ titleFaults = 0

\* A loader emits a notice: since then its event carries what the notice
\* states; one that states nothing is as good as none here.
EmitTitle ==
  /\ Len(titleLog) < MaxTitleLog
  /\ \E i \in TitleId \ OjsId, lang \in Tongue :
       titleLog' = Append(titleLog, [id |-> i, lang |-> lang, old |-> FALSE])
  /\ UNCHANGED <<titleMap, titleMark, shown, sinkAt, titleRun, titleFaults>>

\* The sink applies the next event, as it is stored by now.
SinkTitle ==
  /\ sinkAt < Len(titleLog)
  /\ sinkAt' = sinkAt + 1
  /\ LET e == titleLog[sinkAt'] IN
       shown' = IF e.lang = NoTongue THEN shown ELSE [shown EXCEPT ![e.id] = e.lang]
  /\ UNCHANGED <<titleLog, titleMap, titleMark, titleRun, titleFaults>>

\* map_months, map_raw: a source states a language for a notice, or none; later
\* sources win.
MapTitle ==
  /\ titleRun.pc = "idle" /\ \A s \in DOMAIN titleMark : titleMark[s] = 0
  /\ \E i \in PubId, lang \in Tongue \union {NoTongue} :
       /\ titleMap[i] = NotMapped \/ (titleMap[i] = NoTongue /\ lang # NoTongue)
       /\ titleMap' = [titleMap EXCEPT ![i] = lang]
  /\ UNCHANGED <<titleLog, titleMark, shown, sinkAt, titleRun, titleFaults>>

\* main: the operator takes the stages in their order, each as often as need be.
BeginStage ==
  /\ titleRun.pc \in {"idle", "over"}
  /\ \E pc \in {"events", "graph"} :
       /\ pc = "events" => \A s \in DOMAIN titleMark : s[1] = "graph" => titleMark[s] = 0
       /\ pc = "graph" => \A n \in DOMAIN titleLog :
                            titleLog[n].old => n <= titleMark[<<"events", "eu_cohesion">>]
       /\ titleRun' = [TitleIdle EXCEPT !.pc = "next", !.stage = pc]
  /\ UNCHANGED <<titleLog, titleMap, titleMark, shown, sinkAt, titleFaults>>

Passes == IF titleRun.stage = "events" THEN Pass ELSE GraphDomain
PassInHand == Passes[Len(titleRun.ends) + 1]
Stage == <<titleRun.stage, PassInHand>>

\* The next pass of the stage: up to the newest event; the guesses that no source
\* stood behind go first, when the graph has not been written yet.
BeginPass ==
  /\ titleRun.pc = "next" /\ Len(titleRun.ends) < Len(Passes)
  /\ titleRun' = [titleRun EXCEPT !.pc = titleRun.stage, !.end = Len(titleLog)]
  /\ shown' = [i \in TitleId |->
       IF /\ titleRun.stage = "graph" /\ i \notin PubId
          /\ DomainOf(i) = PassInHand /\ titleMark[Stage] = 0
         THEN NoTongue ELSE shown[i]]
  /\ UNCHANGED <<titleLog, titleMap, titleMark, sinkAt, titleFaults>>

WindowEnd ==
  IF titleMark[Stage] + TitleWindow < titleRun.end
    THEN titleMark[Stage] + TitleWindow ELSE titleRun.end
TitleWindowOf == titleMark[Stage] + 1 .. WindowEnd

\* The language that a pass joins to an event, or NotMapped.
Joined(e) ==
  CASE PassInHand = "contract" /\ e.id \in PubId -> titleMap[e.id]
    [] PassInHand = "contract_ojs" /\ e.id \in OjsId -> titleMap[PubOf[e.id]]
    [] PassInHand = "eu_cohesion" /\ e.id \in KohesioId /\ e.old -> "en"
    [] OTHER -> NotMapped

\* events_sql: the events of one window that lack the field, and the cursor.
EventsWindow ==
  /\ titleRun.pc = "events" /\ titleMark[Stage] < titleRun.end
  /\ titleLog' = [n \in DOMAIN titleLog |->
       IF n \in TitleWindowOf /\ titleLog[n].lang = NoTongue
          /\ Joined(titleLog[n]) \in Tongue
         THEN [titleLog[n] EXCEPT !.lang = Joined(titleLog[n])] ELSE titleLog[n]]
  /\ titleMark' = [titleMark EXCEPT ![Stage] = WindowEnd]
  /\ UNCHANGED <<titleMap, shown, sinkAt, titleRun, titleFaults>>

\* The events of a window that state a language for i.
Stating(i) == {n \in TitleWindowOf : titleLog[n].id = i /\ titleLog[n].lang # NoTongue}

\* Mutant: the first language given wins.
LatestTongue_First(i) ==
  titleLog[CHOOSE n \in Stating(i) : \A o \in Stating(i) : n <= o].lang

\* latest_per_id: the last language that a window gives i.
LatestTongue(i) ==
  titleLog[CHOOSE n \in Stating(i) : \A o \in Stating(i) : o <= n].lang

\* migrate_graph: one window is written, idempotently; its cursor follows.
GraphWindow ==
  /\ titleRun.pc = "graph" /\ titleMark[Stage] < titleRun.end /\ ~titleRun.written
  /\ shown' = [i \in TitleId |->
       IF DomainOf(i) = PassInHand /\ Stating(i) # {} THEN LatestTongue(i) ELSE shown[i]]
  /\ titleRun' = [titleRun EXCEPT !.written = TRUE]
  /\ UNCHANGED <<titleLog, titleMap, titleMark, sinkAt, titleFaults>>

GraphCursor ==
  /\ titleRun.pc = "graph" /\ titleRun.written
  /\ titleMark' = [titleMark EXCEPT ![Stage] = WindowEnd]
  /\ titleRun' = [titleRun EXCEPT !.written = FALSE]
  /\ UNCHANGED <<titleLog, titleMap, shown, sinkAt, titleFaults>>

EndPass ==
  /\ titleRun.pc \in {"events", "graph"} /\ ~titleRun.written
  /\ titleMark[Stage] >= titleRun.end
  /\ titleRun' = [titleRun EXCEPT !.pc = "next", !.ends = Append(@, titleRun.end)]
  /\ UNCHANGED <<titleLog, titleMap, titleMark, shown, sinkAt, titleFaults>>

\* The stage is through; the graph's ends with clear_contract_guesses, for the
\* notices of the map that state no language.
EndStage ==
  /\ titleRun.pc = "next" /\ Len(titleRun.ends) = Len(Passes)
  /\ shown' = [i \in TitleId |->
       IF titleRun.stage = "graph" /\ i \in PubId /\ titleMap[i] = NoTongue
         THEN NoTongue ELSE shown[i]]
  /\ titleRun' = IF titleRun.stage = "graph" THEN [titleRun EXCEPT !.pc = "over"]
                                             ELSE TitleIdle
  /\ UNCHANGED <<titleLog, titleMap, titleMark, sinkAt, titleFaults>>

TitleRunDies ==
  /\ titleRun.pc \in {"events", "graph"} /\ titleFaults < MaxTitleFaults
  /\ titleFaults' = titleFaults + 1 /\ titleRun' = TitleIdle
  /\ UNCHANGED <<titleLog, titleMap, titleMark, shown, sinkAt>>

TitleNext ==
  \/ EmitTitle \/ SinkTitle \/ MapTitle \/ BeginStage \/ BeginPass \/ EventsWindow
  \/ GraphWindow \/ GraphCursor \/ EndPass \/ EndStage \/ TitleRunDies

TitleSpec == TitleInit /\ [][TitleNext]_titleVars

----------------------------------------------------------------------------
(* Properties                                                              *)

\* When the graph stage is through and the sink has caught up, a
\* node of which nothing was emitted since the stage began shows the language
\* of the last event that states one, whatever order sink and migration wrote
\* in and however often either died; and a guess that no event replaced is gone
\* where only guesses can have been.  (A notice whose source states none is
\* left out: its node is cleared, also when an event states one.)
GraphShowsStated ==
  titleRun.pc = "over" /\ sinkAt = Len(titleLog) =>
    \A i \in TitleId :
      LET of == {n \in DOMAIN titleLog : titleLog[n].id = i}
          stating == {n \in of : titleLog[n].lang # NoTongue} IN
      (\A n \in of : n <= titleRun.ends[IF i \in KohesioId THEN 2 ELSE 1]) =>
         IF stating # {}
           THEN \/ i \in PubId /\ titleMap[i] = NoTongue
                \/ \E n \in stating : shown[i] = titleLog[n].lang /\ \A o \in stating : o <= n
           ELSE i \notin PubId => shown[i] = NoTongue
=============================================================================
